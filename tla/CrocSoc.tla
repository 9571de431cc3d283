------------------------------- MODULE CrocSoc -------------------------------
(***************************************************************************)
(* The SoC without the accelerator: the core runs one image against the    *)
(* peripherals, every step being one clock cycle of all of them.  A        *)
(* register access takes two cycles, the request and its response; a       *)
(* computation one.  The bus and the instruction memory may hold the core  *)
(* up between two instructions.                                            *)
(*                                                                         *)
(* The debugger wakes the core, and reads the core status until it is not  *)
(* 0.  An interrupt is taken between two instructions as soon as it is     *)
(* pending, enabled and MIE is set; the handler runs with MIE clear.       *)
(***************************************************************************)
EXTENDS SocPrograms, ObiTimer, Clint, Gpio, ObiUart, SocCtrl, FiniteSets

CONSTANTS
  Images,      \* what may be loaded: the images, by name
  RtcPeriod,   \* clock cycles of the slow clock, 610 in the design
  MaxStall,    \* bound: cycles the core is held up in all
  MaxEdges     \* bound: changes of the inputs from outside

ASSUME SocAssumption ==
  RtcPeriod \in Nat \ {0} /\ MaxStall \in Nat /\ MaxEdges \in Nat

VARIABLES
  clk,                    \* the system clock: changes with every cycle
  loaded,                 \* the name of the image
  pc, acc, kept, ret,     \* the core: next instruction, registers, main's result
  mie, MIE, asleep,       \* enabled interrupts, global enable, inside a wfi
  handling, frame,        \* the cause being handled (0: none), what it interrupted
  saved,                  \* mie and mstatus as a sleep function found them
  turns,                  \* turns a delay loop has made
  globals,                \* variables of the program
  received,               \* characters the program has read
  access, rdata_q,        \* the access in its response phase, registered data
  stalled, woken, reported,
  rtc, outside, edges,    \* slow clock, inputs from outside and their changes
  unsent, send_wait,      \* characters still to be sent, cycles since the last
  run_time, asked         \* cycles since the timer was set; the alarm asked for

core == <<pc, acc, kept, ret, mie, MIE, asleep, handling, frame, saved, turns,
          globals, received, access, rdata_q, stalled>>

board == <<rtc, outside, edges, unsent, send_wait>>

vars == <<clk, loaded, core, woken, reported, board, run_time, asked,
          timer, clint, gpio, uart, soc_ctrl>>

image == Images[loaded]

Globals      == {"irq_fired", "irq_cause", "obi_error", "t1"}
NoFrame      == [pc |-> 0, acc |-> Num(0), kept |-> Num(0), MIE |-> FALSE]
NothingSaved == [irq |-> FALSE, global |-> FALSE]

Init ==
  /\ clk = FALSE /\ loaded \in DOMAIN Images
  /\ pc = 1 /\ acc = Num(0) /\ kept = Num(0) /\ ret = 0
  /\ mie = {} /\ MIE = FALSE /\ asleep = FALSE
  /\ handling = 0 /\ frame = NoFrame /\ saved = NothingSaved /\ turns = 0
  /\ globals = [name \in Globals |-> Num(0)]
  /\ received = <<>> /\ access = NoRequest /\ rdata_q = Num(0)
  /\ stalled = 0 /\ woken = FALSE /\ reported = 0
  /\ rtc \in (IF image.phases = {} THEN {1} ELSE image.phases) /\ outside = {} /\ edges = 0
  /\ unsent = image.sends /\ send_wait = 0
  /\ run_time = 0 /\ asked = [old |-> 0, new |-> 0]
  /\ TimerInit /\ ClintInit /\ GpioInit /\ UartInit /\ SocCtrlInit

\* The code of an image: its program and its handlers.
Codes(im) == {im.code} \cup {im.handlers[cause] : cause \in Causes}

\* The core starts in the boot ROM.
StartsInBootRom(images) ==
  \A name \in DOMAIN images :
    /\ Len(bootrom_start) <= Len(images[name].code)
    /\ \A k \in 1 .. Len(bootrom_start) : images[name].code[k] = bootrom_start[k]

\* The instruction after a load keeps one bit of it.
OneBitKept(code, n) ==
  n < Len(code) /\ code[n + 1].op = "compute" /\ code[n + 1].f = "shift"

LoadsStatus(i) ==
  i.op = "load" /\ Reads(Request(FALSE, i.addr, Num(0)), "GPIO", GPIO.INTRPT_STATUS)

\* Whoever reads the interrupt status of the pins looks at all of them.
WholeStatusKept(images) ==
  \A name \in DOMAIN images : \A code \in Codes(images[name]) :
    \A n \in 1 .. Len(code) : LoadsStatus(code[n]) => ~OneBitKept(code, n)

StoresTo(i, port, offset) ==
  i.op = "store" /\ Writes(Request(TRUE, i.addr, Num(0)), port, offset)

\* The access at m is one that no subordinate decodes.
Faulting(im, m) ==
  m \in 1 .. Len(im.code) /\ im.code[m].op \in {"load", "store"} /\ Port(im.code[m].addr) = "ERROR"

\* What the boot address may be.
BootAddrs(im) ==
  {BootAddrDefault} \cup
    {im.code[m].value.num :
       m \in {k \in 1 .. Len(im.code) : StoresTo(im.code[k], "SOCCTRL", SOC_CTRL.BOOTADDR)}}

\* Where a jump goes: to the boot address, as in the boot ROM, or to a constant.
TakesConstant(i) == i.op = "compute" /\ i.f = "take"
Jumps(im, n)     == n \in 1 .. Len(im.code) /\ im.code[n].op = "jump"

JumpTargets(im) ==
  BootAddrs(im) \cup
    {im.code[m].value.num :
       m \in {k \in 1 .. Len(im.code) : TakesConstant(im.code[k]) /\ Jumps(im, k + 1)}}

\* Where main() may go other than to the next instruction, or other than with
\* what the instruction does: a fault is skipped.
Entries(im) ==
  {EocIndex} \cup JumpTargets(im)
    \cup {m + im.code[m].by : m \in {k \in 1 .. Len(im.code) : im.code[k].op = "branch"}}
    \cup {m + 1 : m \in {k \in 1 .. Len(im.code) : Faulting(im, k)}}

Faults == {LOAD_FAULT, STORE_FAULT}

\* A handler runs with interrupts off, does not fault and returns to where it
\* came from, or, having nothing else left to do, behind the access at fault.
Quiet(handler, cause) ==
  \A n \in 1 .. Len(handler) :
    /\ handler[n].op \in {"load", "store"} =>
         /\ Port(handler[n].addr) # "ERROR"
         /\ ~StoresTo(handler[n], "SOCCTRL", SOC_CTRL.BOOTADDR)
    /\ handler[n].op = "csr" =>
         /\ handler[n].f \notin {"global", "restore_global"}
         /\ handler[n].f = "mepc" => cause \in Faults /\ n = Len(handler)

\* The program jumps right after it has loaded the boot address or taken a
\* constant, and stores only constants there.
Structured(im) ==
  /\ \A n \in 1 .. Len(im.code) :
       /\ Jumps(im, n) =>
            /\ n > 1 /\ n \notin Entries(im)
            /\ im.code[n - 1] = Load(BOOTADDR) \/ TakesConstant(im.code[n - 1])
       /\ StoresTo(im.code[n], "SOCCTRL", SOC_CTRL.BOOTADDR) => im.code[n].part = "constant"
  /\ \A cause \in Causes : Quiet(im.handlers[cause], cause)

\* The function is called at p, and run from its start.
Calls(im, function, p) ==
  /\ p + Len(function) - 1 <= Len(im.code)
  /\ \A k \in 1 .. Len(function) : im.code[p + k - 1] = function[k]
  /\ \A k \in 2 .. Len(function) : p + k - 1 \notin Entries(im)

\* The function fn returns at n.
LeavesAt(code, n, fn) == n \in 1 .. Len(code) /\ code[n].op = "leave" /\ code[n].fn = fn

\* Whoever reads the time does so with clint_get_mtime.
TimeReadByDriver(images) ==
  \A name \in DOMAIN images : \A n \in 1 .. Len(images[name].code) :
    LeavesAt(images[name].code, n, "clint_get_mtime") =>
      /\ Structured(images[name]) /\ n > 4
      /\ Calls(images[name], clint_get_mtime, n - 4)

\* The alarm is set with clint_set_mtimecmp, by main() only, to a constant or to
\* some ticks after the time.
StoresAlarm(i) ==
  \E reg \in {CLINT.MTIMECMP_LOW0, CLINT.MTIMECMP_HIGH0} : StoresTo(i, "CLINT", reg)

SetsAlarmTo(im, q) ==
  /\ q > 1
  /\ \E v \in 0 .. TimeMax : Calls(im, <<Take(Num(v))>> \o clint_set_mtimecmp, q - 1)

SetsAlarmIn(im, q) ==
  /\ q > 6 /\ im.code[q - 1].op = "compute" /\ im.code[q - 1].f = "add"
  /\ im.code[q - 1].n \in Nat
  /\ Calls(im, clint_get_mtime \o <<im.code[q - 1]>> \o clint_set_mtimecmp, q - 6)

SetsAlarm(im, q) == SetsAlarmTo(im, q) \/ SetsAlarmIn(im, q)

SetsAlarms(im) == \E code \in Codes(im) : \E n \in 1 .. Len(code) : StoresAlarm(code[n])

AlarmSetByDriver(images) ==
  \A name \in DOMAIN images :
    SetsAlarms(images[name]) =>
      /\ Structured(images[name])
      /\ \A cause \in Causes : \A n \in 1 .. Len(images[name].handlers[cause]) :
           ~StoresAlarm(images[name].handlers[cause][n])
      /\ \A n \in 1 .. Len(images[name].code) : StoresAlarm(images[name].code[n]) =>
           SetsAlarm(images[name], n) \/ SetsAlarm(images[name], n - 1)

\* The pins of an image are set up for one edge each, with the two functions
\* that do so and by main() only.
StoresEdges(i) == \E reg \in {GPIO.INTRPT_EDGE, GPIO.INTRPT_EN} : StoresTo(i, "GPIO", reg)

AsksRising(im, p)  ==
  \E mask \in SUBSET im.rising : Calls(im, gpio_enable_rising_interrupts(mask), p)
AsksFalling(im, p) ==
  \E mask \in SUBSET im.falling : Calls(im, gpio_enable_falling_interrupts(mask), p)

EdgesAskedByDriver(images) ==
  \A name \in DOMAIN images :
    images[name].rising \cup images[name].falling # {} =>
      /\ Structured(images[name])
      /\ images[name].rising \cap images[name].falling = {}
      /\ \A cause \in Causes : \A n \in 1 .. Len(images[name].handlers[cause]) :
           ~StoresEdges(images[name].handlers[cause][n])
      /\ \A n \in 1 .. Len(images[name].code) : StoresEdges(images[name].code[n]) =>
           \E p \in {n - 2, n - 5} \cap (1 .. n) :
             AsksRising(images[name], p) \/ AsksFalling(images[name], p)

\* An interrupt may be enabled where an instruction before has enabled it and
\* none in between has masked it again.
Interrupts == {IRQ_SOFTWARE, IRQ_TIMER, IRQ_OBI_TIMER, IRQ_GPIO}
Checks     == {"check", "check_later"}

Enabled(i) ==
  IF i.op # "csr" THEN {} ELSE IF i.f = "csrs" THEN {i.irq} ELSE IF i.f = "csrw" THEN i.irqs ELSE {}

Masks(i, irq) ==
  /\ i.op = "csr"
  /\ (i.f \in {"csrc", "restore"} /\ i.irq = irq) \/ (i.f = "csrw" /\ irq \notin i.irqs)

EnabledAt(im, irq) ==
  {m + 1 : m \in {l \in 1 .. Len(im.code) : \E n \in 1 .. l :
     irq \in Enabled(im.code[n]) /\ \A k \in (n + 1) .. l : ~Masks(im.code[k], irq)}}

\* While an interrupt is enabled, main() neither returns nor jumps, branches
\* only to where it is enabled too, does not fault and does not save mie.
KeepsTo(im, m, irq) ==
  /\ im.code[m].op \notin {"jump", "return"} /\ ~Faulting(im, m)
  /\ im.code[m].op = "branch" => m + im.code[m].by \in EnabledAt(im, irq)
  /\ im.code[m].op \in Checks => im.code[m].code # 0
  /\ im.code[m].op = "csr" => im.code[m].f # "save"

ChecksEnabled(im) ==
  \E irq \in Interrupts : \E m \in EnabledAt(im, irq) \cap (1 .. Len(im.code)) :
    im.code[m].op \in Checks

\* _eoc is where the boot ROM has it, with every interrupt masked by then, and
\* no handler enables one.
EndsMasked(im) ==
  /\ \A k \in 1 .. Len(eoc) : im.code[EocIndex + k - 1] = eoc[k]
  /\ EocIndex + Len(eoc) - 1 \in 1 .. Len(im.code) /\ EocIndex + 2 \notin Entries(im)
  /\ \A n \in 1 .. Len(im.code) : Enabled(im.code[n]) \subseteq Interrupts
  /\ \A irq \in Interrupts :
       /\ {EocIndex, EocIndex + 1} \cap EnabledAt(im, irq) = {}
       /\ \A m \in EnabledAt(im, irq) \cap (1 .. Len(im.code)) : KeepsTo(im, m, irq)
  /\ \A cause \in Causes : \A n \in 1 .. Len(im.handlers[cause]) :
       /\ im.handlers[cause][n].op \notin {"return"} \cup Checks
       /\ im.handlers[cause][n].op = "csr" => im.handlers[cause][n].f \in {"csrc", "mepc"}

\* Only _eoc reports, unless the program means to.
ReportsAtEoc(im) ==
  /\ \A n \in 1 .. Len(im.code) : StoresTo(im.code[n], "SOCCTRL", SOC_CTRL.CORESTATUS) =>
       n = EocIndex \/ (n >= MainIndex /\ im.code[n].addr = CORESTATUS)
  /\ \A cause \in Causes : \A n \in 1 .. Len(im.handlers[cause]) :
       ~StoresTo(im.handlers[cause][n], "SOCCTRL", SOC_CTRL.CORESTATUS)

\* What the theorems about the end of a program ask of the images.
MaskedAtEnd(images) ==
  \A name \in DOMAIN images : Structured(images[name]) /\ EndsMasked(images[name])

ReportedAtEnd(images) == \A name \in DOMAIN images : ReportsAtEoc(images[name])

\* The timer is set by main() only, with the functions of obi_timer.c: n is
\* where they store the control register.
StoresTimer(i) ==
  \E reg \in {OBI_TIMER.COUNT, OBI_TIMER.COMPARE, OBI_TIMER.CTRL} : StoresTo(i, "TIMER", reg)

SetsEnable(im, on, n)    == n > 2 /\ Calls(im, obi_timer_set_enable(on), n - 2)
SetsAutoreset(im, on, n) == n > 2 /\ Calls(im, obi_timer_set_autoreset(on), n - 2)

\* Where the timer is off, and where it is besides at 0.
OffAt(im, m) ==
  /\ m \in 1 .. Len(im.code)
  /\ \E s \in 1 .. (m - 1) :
       /\ SetsEnable(im, FALSE, s)
       /\ \A k \in (s + 1) .. m : k \notin Entries(im)
       /\ \A k \in (s + 1) .. (m - 1) : ~SetsEnable(im, TRUE, k)

ZeroAt(im, m) ==
  /\ OffAt(im, m)
  /\ \E z \in 1 .. (m - 1) :
       /\ \E reg \in {OBI_TIMER.COUNT, OBI_TIMER.COMPARE} : StoresTo(im.code[z], "TIMER", reg)
       /\ \A k \in z .. (m - 1) : OffAt(im, k)

\* The count is set to 0 only, and automatic reset is turned on at 0.
DrivesTimer(im) ==
  /\ \A cause \in Causes : \A n \in 1 .. Len(im.handlers[cause]) :
       ~StoresTimer(im.handlers[cause][n])
  /\ \A n \in 1 .. Len(im.code) :
       /\ StoresTo(im.code[n], "TIMER", OBI_TIMER.COUNT) =>
            im.code[n].part = "constant" /\ im.code[n].value.num = 0
       /\ StoresTo(im.code[n], "TIMER", OBI_TIMER.COMPARE) =>
            im.code[n].part = "constant" /\ im.code[n].value.num \in 0 .. CountMax
       /\ StoresTo(im.code[n], "TIMER", OBI_TIMER.CTRL) =>
            \E on \in BOOLEAN : SetsEnable(im, on, n) \/ SetsAutoreset(im, on, n)
       /\ SetsAutoreset(im, TRUE, n) => ZeroAt(im, n)

TimerSetByDriver(images) ==
  \A name \in DOMAIN images : Structured(images[name]) /\ DrivesTimer(images[name])

\* Whoever sleeps does so with obi_timer_sleep, with no other interrupt enabled
\* at its wfi.
SleepsAlone(im, n) ==
  /\ n > 17 /\ Calls(im, obi_timer_sleep(im.code[n - 9].value.num), n - 17)
  /\ \A irq \in Interrupts \ {IRQ_OBI_TIMER} : n - 3 \notin EnabledAt(im, irq)

SleptByDriver(images) ==
  \A name \in DOMAIN images : \A n \in 1 .. Len(images[name].code) :
    LeavesAt(images[name].code, n, "obi_timer_sleep") => SleepsAlone(images[name], n)

\* Characters are read with getchar, by main() only, which uses each at once.
Delivers(im, n) == n \in 1 .. Len(im.code) /\ im.code[n].op = "deliver"
Receives(im, n) == n > 3 /\ Calls(im, getchar \o <<Deliver>>, n - 3)

LoadsCharacter(i) == i.op = "load" /\ Reads(Request(FALSE, i.addr, Num(0)), "UART", UART.RBR)

\* The UART is set up once, by uart_init at p, to which the program does not
\* come back.
SetUpAt(im, p) ==
  /\ p >= MainIndex /\ Calls(im, uart_init, p)
  /\ \A n \in 1 .. Len(im.code) :
       /\ StoresTo(im.code[n], "UART", UART.LINE_CONTROL)  => n < p + 5
       /\ StoresTo(im.code[n], "UART", UART.FIFO_CONTROL)  => n = p + 5
       /\ StoresTo(im.code[n], "UART", UART.MODEM_CONTROL) => n = p + 6
       /\ n >= p => ~Jumps(im, n)
       /\ n >= p /\ im.code[n].op = "branch" => n + im.code[n].by \in (p + 7) .. Len(im.code)

\* The characters sent fit into the FIFO, should the program be slow.
Characters(im) == {im.sends[i] : i \in 1 .. Len(im.sends)}

ReadsByDriver(im) ==
  /\ \E p \in 1 .. Len(im.code) : SetUpAt(im, p)
  /\ \A n \in 1 .. Len(im.code) :
       /\ Delivers(im, n) => Receives(im, n)
       /\ LoadsCharacter(im.code[n]) => Receives(im, n + 1)
  /\ \A cause \in Causes : \A n \in 1 .. Len(im.handlers[cause]) :
       im.handlers[cause][n].op \in {"load", "store"} => Port(im.handlers[cause][n].addr) # "UART"
  /\ Nothing \notin Characters(im) /\ Len(im.sends) <= FifoDepth

\* Only such programs receive anything.
ReceivedByDriver(images) ==
  \A name \in DOMAIN images :
    /\ Structured(images[name]) /\ images[name].sends \in Seq(Characters(images[name]))
    /\ \A cause \in Causes : \A n \in 1 .. Len(images[name].handlers[cause]) :
         images[name].handlers[cause][n].op # "deliver"
    /\ (\E n \in 1 .. Len(images[name].code) : Delivers(images[name], n)) =>
         ReadsByDriver(images[name])

\* What a program says to the core: its words have 32 bits, and no others than
\* those of the pins if it writes to them; it loads registers there are, and
\* sets the timer within its range.
WritesPins(im) ==
  \E code \in Codes(im) : \E n \in 1 .. Len(code) :
    code[n].op = "store" /\ Port(code[n].addr) = "GPIO"

BitsOf(im)    == IF WritesPins(im) THEN Pins ELSE Pins \cup (0 .. 31)
IsWord(im, w) == w.bits \subseteq BitsOf(im) /\ w.num \in Nat

Readable(addr) ==
  LET LoadsOf(port, regs) ==
        \E reg \in DOMAIN regs : Reads(Request(FALSE, addr, Num(0)), port, regs[reg])
      LoadsUart ==
        \E reg \in {UART.RBR, UART.LINE_CONTROL, UART.MODEM_CONTROL, UART.LINE_STATUS} :
          Reads(Request(FALSE, addr, Num(0)), "UART", reg)
  IN  \/ Port(addr) \in {"ERROR", "DEBUG", "BOOTROM"} \/ LoadsUart
      \/ LoadsOf("TIMER", OBI_TIMER) \/ LoadsOf("CLINT", CLINT)
      \/ LoadsOf("GPIO", GPIO) \/ LoadsOf("SOCCTRL", SOC_CTRL)

StoresWell(im, i) ==
  /\ i.part \in {"constant", "acc", "kept", "high", "low", "report"}
  /\ i.part = "constant" => IsWord(im, i.value)
  /\ \A reg \in {OBI_TIMER.COUNT, OBI_TIMER.COMPARE} :
       StoresTo(i, "TIMER", reg) => i.part = "constant" /\ i.value.num \in 0 .. CountMax

ComputesWell(im, i) ==
  \/ i.f = "take" /\ IsWord(im, i.value)
  \/ i.f \in {"or", "andnot"} /\ i.bits \subseteq BitsOf(im)
  \/ i.f = "add" /\ i.n \in Nat
  \/ i.f = "recall" /\ i.name \in Globals
  \/ i.f \in {"shift", "join", "join_swapped", "mstatus"}

MasksWell(i) ==
  /\ i.f = "csrs" => i.irq \in Interrupts
  /\ i.f = "csrw" => i.irqs \subseteq Interrupts
  /\ i.f = "global" => i.enabled \in BOOLEAN

WellFormed(im, i) ==
  /\ i.op = "load"    => Readable(i.addr)
  /\ i.op = "store"   => StoresWell(im, i)
  /\ i.op = "compute" => ComputesWell(im, i)
  /\ i.op = "csr"     => MasksWell(i)
  /\ i.op \in {"assign", "remember"} => i.name \in Globals
  /\ i.op = "assign"  => IsWord(im, i.value)
  /\ i.op = "return"  => i.value \in Nat
  /\ i.op \in Checks => i.code \in Nat

\* Eight bits of a word are pins, as many as the other peripherals use.
WellTyped(images) ==
  /\ AllPins \subseteq Pins
  /\ \A name \in DOMAIN images :
       /\ Structured(images[name]) /\ images[name].pins \subseteq Pins
       /\ \A code \in Codes(images[name]) : \A n \in 1 .. Len(code) : WellFormed(images[name], code[n])

-----------------------------------------------------------------------------
(* The board: the slow clock, the loopback of the low pins, changes of the  *)
(* inputs, a sender that leaves a character its time on the line.           *)

CharTime == (WordBits + 2) * BaudPeriod

\* The slow clock runs for the images that use it, once the core is woken.
Timed == woken /\ image.phases # {}
Tick  == Timed /\ rtc = RtcPeriod

SlowClock == rtc' = IF ~Timed THEN rtc ELSE IF Tick THEN 1 ELSE rtc + 1

Pads == {pin + 4 : pin \in gpio_o \cap (0 .. 3)} \cup outside

InputsChange ==
  \/ UNCHANGED <<outside, edges>>
  \/ /\ edges < MaxEdges /\ woken
     /\ \E pin \in image.pins :
          outside' = (outside \ {pin}) \cup ({pin} \ outside)
     /\ edges' = edges + 1

\* A character arrives: c, or Nothing.
Arrives(c) ==
  \/ /\ c = Nothing
     /\ send_wait' = IF send_wait < CharTime /\ unsent # <<>> THEN send_wait + 1 ELSE send_wait
     /\ UNCHANGED unsent
  \/ /\ fifo_en /\ ~rx_fifo_rst /\ unsent # <<>> /\ send_wait = CharTime
     /\ c = Head(unsent) /\ unsent' = Tail(unsent) /\ send_wait' = 0

-----------------------------------------------------------------------------
(* One cycle of everything but the core.                                    *)

Clock == reported = 0 /\ clk' = ~clk

\* The cycles the timer has run since it was last written, up to its period.
RunTime(req) ==
  run_time' = IF TimerWrites(req, OBI_TIMER.COMPARE) \/ TimerWrites(req, OBI_TIMER.COUNT)
                 \/ TimerWrites(req, OBI_TIMER.CTRL)
              THEN 0
              ELSE IF enable /\ run_time <= compare THEN run_time + 1 ELSE run_time

\* The alarm before and after the call of clint_set_mtimecmp that last began.
AlarmAsked(req) ==
  asked' = IF ClintWrites(req, CLINT.MTIMECMP_HIGH0) \/ ClintWrites(req, CLINT.MTIMECMP_LOW0)
           THEN IF asked.new = acc.num THEN asked ELSE [old |-> asked.new, new |-> acc.num]
           ELSE asked

Hardware(req, ignored) ==
  /\ Clock
  /\ TimerCycle(req)
  /\ ClintCycle(req, Tick)
  /\ GpioCycle(req, Pads, ignored)
  /\ \E c \in {Nothing} \cup {unsent[i] : i \in 1 .. Len(unsent)} :
       Arrives(c) /\ UartCycle(req, c)
  /\ SocCtrlCycle(req)
  /\ SlowClock /\ InputsChange
  /\ RunTime(req) /\ AlarmAsked(req)

Idle == Hardware(NoRequest, {})

-----------------------------------------------------------------------------
(* The core.                                                                *)

program == IF handling = 0 THEN image.code ELSE image.handlers[handling]

AtEnd == handling # 0 /\ pc > Len(program)

pending ==
  (IF msip THEN {IRQ_SOFTWARE} ELSE {}) \cup (IF timer_irq THEN {IRQ_TIMER} ELSE {})
    \cup (IF expired THEN {IRQ_OBI_TIMER} ELSE {}) \cup (IF gpio_irq THEN {IRQ_GPIO} ELSE {})

\* The fast interrupts come first, then software and timer.
Cause ==
  LET irqs == pending \cap mie
      fast == irqs \cap {IRQ_OBI_TIMER, IRQ_GPIO}
      set  == IF fast # {} THEN fast ELSE irqs
  IN  CHOOSE irq \in set : \A other \in set : irq <= other

Interrupted == MIE /\ pending \cap mie # {} /\ ~access.valid /\ ~asleep

\* The core is between two instructions.
Between == ~access.valid /\ ~asleep /\ reported = 0

\* What a step leaves alone is made of these.
others == <<loaded, woken, reported>>
flags  == <<mie, MIE, asleep, handling, frame, saved>>
data   == <<turns, globals, received>>
bus    == <<access, rdata_q>>

Stall ==
  /\ Between /\ stalled < MaxStall
  /\ stalled' = stalled + 1
  /\ Idle
  /\ UNCHANGED <<others, pc, acc, kept, ret, flags, data, bus>>

ReadData ==
  CASE access.port = "GPIO"               -> GpioReadData
    [] access.port = "UART"               -> UartReadData
    [] access.port = "SOCCTRL"            -> SocCtrlReadData
    [] access.port \in {"TIMER", "CLINT"} -> rdata_q
    [] OTHER                              -> Num(0)

\* The pins whose bits the reader of a word drops.
Ignored == IF OneBitKept(program, pc) THEN Pins \ {program[pc + 1].n} ELSE {}

Respond ==
  /\ access.valid /\ access.port # "ERROR" /\ reported = 0
  /\ acc' = IF access.we THEN acc ELSE ReadData
  /\ pc' = pc + 1 /\ access' = NoRequest
  /\ Hardware(NoRequest, Ignored)
  /\ UNCHANGED <<others, kept, ret, flags, data, rdata_q, stalled>>

\* A trap: the handler runs with MIE clear.
Trap(cause) ==
  /\ handling' = cause /\ pc' = 1
  /\ frame' = [pc |-> pc, acc |-> acc, kept |-> kept, MIE |-> MIE]
  /\ MIE' = FALSE /\ access' = NoRequest
  /\ Idle
  /\ UNCHANGED <<others, acc, kept, ret, mie, asleep, saved, data, rdata_q, stalled>>

\* No subordinate decodes the address.
Fault ==
  /\ access.valid /\ access.port = "ERROR" /\ reported = 0
  /\ Trap(IF access.we THEN STORE_FAULT ELSE LOAD_FAULT)

TakeInterrupt == Interrupted /\ reported = 0 /\ Trap(Cause)

\* _trap_exit and mret.
Mret ==
  /\ Between /\ ~Interrupted /\ AtEnd
  /\ pc' = frame.pc /\ acc' = frame.acc /\ kept' = frame.kept /\ MIE' = frame.MIE
  /\ handling' = 0 /\ frame' = NoFrame
  /\ Idle
  /\ UNCHANGED <<others, ret, mie, asleep, saved, data, bus, stalled>>

\* wfi waits for an interrupt that mie enables, whatever MIE is.
Sleep ==
  /\ asleep /\ pending \cap mie = {} /\ reported = 0
  /\ Idle
  /\ UNCHANGED <<others, core>>

WakeUp ==
  /\ asleep /\ pending \cap mie # {} /\ reported = 0
  /\ asleep' = FALSE /\ pc' = pc + 1
  /\ Idle
  /\ UNCHANGED <<others, acc, kept, ret, mie, MIE, handling, frame, saved, data, bus, stalled>>

-----------------------------------------------------------------------------
(* Instructions: i is the one at pc.                                        *)

\* The word a store sends.
StoreData(i) ==
  CASE i.part = "constant" -> i.value
    [] i.part = "acc"      -> acc
    [] i.part = "kept"     -> kept
    [] i.part = "high"     -> Num(High(acc.num))
    [] i.part = "low"      -> Num(Low(acc.num))
    [] i.part = "report"   -> Num(2 * ret + 1)

Registered(req) ==
  CASE ~req.we /\ req.port = "TIMER" -> TimerReadData(req)
    [] ~req.we /\ req.port = "CLINT" -> ClintReadData(req)
    [] OTHER                         -> Num(0)

Issue(i) ==
  /\ i.op \in {"load", "store"}
  /\ LET req == Request(i.op = "store", i.addr, IF i.op = "store" THEN StoreData(i) ELSE Num(0))
     IN  access' = req /\ rdata_q' = Registered(req) /\ Hardware(req, {})
  /\ UNCHANGED <<others, pc, acc, kept, ret, flags, data, stalled>>

Flag(b) == Bits(IF b THEN {0} ELSE {})

Computed(i) ==
  CASE i.f = "take"         -> i.value
    [] i.f = "or"           -> Bits(acc.bits \cup i.bits)
    [] i.f = "andnot"       -> Bits(acc.bits \ i.bits)
    [] i.f = "shift"        -> Flag(i.n \in acc.bits)
    [] i.f = "add"          -> Num((acc.num + i.n) % (TimeMax + 1))
    [] i.f = "join"         -> Num(Joined(kept.num, acc.num))
    [] i.f = "join_swapped" -> Num(Joined(acc.num, kept.num))
    [] i.f = "recall"       -> globals[i.name]
    [] i.f = "mstatus"      -> Flag(MIE)

Compute(i) ==
  /\ i.op = "compute"
  /\ acc' = Computed(i) /\ pc' = pc + 1
  /\ UNCHANGED <<kept, ret, flags, data>>

Keeping(i) ==
  /\ i.op = "keep"
  /\ kept' = acc /\ pc' = pc + 1
  /\ UNCHANGED <<acc, ret, flags, data>>

Assigning(i) ==
  /\ i.op \in {"assign", "remember"}
  /\ globals' = [globals EXCEPT ![i.name] = IF i.op = "assign" THEN i.value ELSE acc]
  /\ pc' = pc + 1
  /\ UNCHANGED <<acc, kept, ret, flags, turns, received>>

Delivering(i) ==
  /\ i.op = "deliver"
  /\ received' = Append(received, acc.char) /\ pc' = pc + 1
  /\ UNCHANGED <<acc, kept, ret, flags, turns, globals>>

Taken(i) ==
  CASE i.test = "bits"    -> acc.bits \cap i.bits = {}
    [] i.test = "reached" -> acc.num < kept.num
    [] i.test = "never"   -> TRUE

Branch(i) ==
  /\ i.op = "branch"
  /\ pc' = IF Taken(i) THEN pc + i.by ELSE pc + 1
  /\ UNCHANGED <<acc, kept, ret, flags, data>>

\* A turn of a delay loop.
Pausing(i) ==
  /\ i.op = "pause"
  /\ LET done == turns + 1 >= i.turns \/ (i.until # "never" /\ globals[i.until].bits # {})
     IN  IF done THEN pc' = pc + 1 /\ turns' = 0 ELSE pc' = pc /\ turns' = turns + 1
  /\ UNCHANGED <<acc, kept, ret, flags, globals, received>>

\* Accesses to mie, mstatus and mepc.
Csr(i) ==
  /\ i.op = "csr"
  /\ mie' = CASE i.f = "csrs"    -> mie \cup {i.irq}
              [] i.f = "csrc"    -> mie \ {i.irq}
              [] i.f = "csrw"    -> i.irqs
              [] i.f = "restore" -> IF saved.irq THEN mie ELSE mie \ {i.irq}
              [] OTHER           -> mie
  /\ MIE' = CASE i.f = "global"         -> i.enabled
              [] i.f = "restore_global" -> saved.global /\ MIE
              [] OTHER                  -> MIE
  /\ saved' = CASE i.f = "save"           -> [irq |-> i.irq \in mie, global |-> MIE]
                [] i.f = "restore_global" -> NothingSaved
                [] OTHER                  -> saved
  /\ frame' = IF i.f = "mepc" THEN [frame EXCEPT !.pc = frame.pc + 1] ELSE frame
  /\ pc' = pc + 1
  /\ UNCHANGED <<acc, kept, ret, asleep, handling, data>>

FallAsleep(i) ==
  /\ i.op = "wfi"
  /\ asleep' = TRUE
  /\ UNCHANGED <<pc, acc, kept, ret, mie, MIE, handling, frame, saved, data>>

Leaving(i) ==
  /\ i.op = "leave"
  /\ pc' = pc + 1
  /\ UNCHANGED <<acc, kept, ret, flags, data>>

Jumping(i) ==
  /\ i.op = "jump"
  /\ pc' = acc.num
  /\ UNCHANGED <<acc, kept, ret, flags, data>>

\* main() returns, or a check of it fails: the value is passed on to _eoc.
Returns(v) == ret' = v /\ pc' = EocIndex

Returning(i) ==
  /\ i.op = "return"
  /\ Returns(i.value)
  /\ UNCHANGED <<acc, kept, flags, data>>

Holds(i) == IF i.op = "check" THEN acc \in i.accepted ELSE globals[i.name].num < acc.num

Check(i) ==
  /\ i.op \in {"check", "check_later"}
  /\ IF Holds(i) THEN pc' = pc + 1 /\ ret' = ret ELSE Returns(i.code)
  /\ UNCHANGED <<acc, kept, flags, data>>

\* An instruction other than a load or a store: no bus access in its cycle.
Internal(i) ==
  /\ \/ Compute(i) \/ Keeping(i) \/ Assigning(i) \/ Delivering(i) \/ Branch(i)
     \/ Pausing(i) \/ Csr(i) \/ FallAsleep(i) \/ Leaving(i) \/ Jumping(i)
     \/ Returning(i) \/ Check(i)
  /\ Idle
  /\ UNCHANGED <<others, bus, stalled>>

Execute ==
  /\ Between /\ ~Interrupted /\ pc \in 1 .. Len(program)
  /\ LET i == program[pc] IN Issue(i) \/ Internal(i)

-----------------------------------------------------------------------------
(* The debugger, which has the bus when the core has not.                   *)

Wakes == ~woken /\ ~access.valid /\ woken' = TRUE

DebugWake ==
  /\ Wakes
  /\ Hardware(Request(TRUE, ClintReg(CLINT.MSIP), Bits({0})), {})
  /\ UNCHANGED <<loaded, core, reported>>

\* The read of the core status that ends the debugger's loop.
Polls ==
  /\ woken /\ reported = 0 /\ ~access.valid /\ core_status # 0
  /\ reported' = core_status

DebugPoll ==
  /\ Polls
  /\ Idle
  /\ UNCHANGED <<loaded, core, woken>>

\* The simulation is over.
Finished == reported # 0 /\ UNCHANGED vars

Next ==
  \/ Execute \/ Stall \/ Respond \/ Fault \/ TakeInterrupt \/ Mret \/ Sleep \/ WakeUp
  \/ DebugWake \/ DebugPoll \/ Finished

\* The clock runs until the debugger reports, and the debugger wakes the core
\* and goes on polling.  Fairness is stated of the parts of a step that decide
\* it; the rest of a cycle is always possible.
Spec ==
  Init /\ [][Next]_vars /\ WF_clk(Clock) /\ WF_woken(Wakes) /\ WF_reported(Polls)

-----------------------------------------------------------------------------
(* Properties.                                                              *)

\* The state of the core and of every peripheral is of its type.
TypeOK ==
  /\ TimerTypeOK /\ ClintTypeOK /\ GpioTypeOK /\ UartTypeOK
  /\ loaded \in DOMAIN Images /\ stalled \in 0 .. MaxStall /\ edges \in 0 .. MaxEdges
  /\ mie \subseteq {IRQ_SOFTWARE, IRQ_TIMER, IRQ_OBI_TIMER, IRQ_GPIO}
  /\ MIE \in BOOLEAN /\ asleep \in BOOLEAN /\ handling \in Causes \cup {0}

\* Every CHECK_ASSERT of the tests holds, however the core is held up: no
\* program returns anything but 0.
TestsPass == ret = 0

\* main() does not start before the debugger has loaded it and set msip,
\* although the timer interrupt is pending from reset on.
BootsWhenWoken == (handling = 0 /\ pc >= boot_target) => woken

Itself ==
  \E i \in MainIndex .. Len(image.code) :
    image.code[i].op = "store" /\ image.code[i].addr = CORESTATUS

Final == handling = 0 /\ pc = EocIndex + 1 /\ reported = 2 * ret + 1

\* jtag_wait_for_eoc ends with the return value of a program that has ended,
\* unless the program writes the core status itself.
ReportIsFinal == (reported # 0 /\ ~Itself) => Final

\* The wfi that halts the core is not left again: no interrupt that a program
\* has left enabled lets the core run into what follows the boot ROM's code.
HaltIsFinal == handling = 0 => pc # EocIndex + 2

Leaves(fn) == handling = 0 /\ LeavesAt(program, pc, fn)

\* obi_timer_sleep returns no earlier than `cycles` clock cycles after it has
\* set the timer, also when the flag of an earlier period is still set.
SleepsLongEnough == Leaves("obi_timer_sleep") => run_time >= compare

\* "Reset the timer to trigger an interrupt after `cycles` clock cycles": while
\* the timer is set, its interrupt is not raised before.
InterruptAfterCycles == (autoreset /\ enable /\ expired) => run_time >= compare

\* In autoreset mode the counter never passes the compare value, so that the
\* interrupts are compare + 1 cycles apart.
PeriodKept == (autoreset /\ enable /\ compare # 0) => count <= compare

\* clint_get_mtime never returns a time that has not come yet, even when the
\* low half wraps between its two reads.
TimeNotAhead == Leaves("clint_get_mtime") => acc.num <= mtime

\* While clint_set_mtimecmp has written one half only, no interrupt is raised
\* that neither the former alarm nor the new one would raise.
NoSpuriousAlarm == timer_irq => mtime >= asked.old \/ mtime >= asked.new

\* A pin set to rising edges never records a falling one, and the reverse: the
\* edge is selected before the interrupt is enabled.
OnlyAskedEdges ==
  /\ gpio_intrpt \cap image.rising \subseteq RisingEdges
  /\ gpio_intrpt \cap image.falling \subseteq FallingEdges

\* What the console receives is the text, in order, and all of it by the time
\* the program has ended: no write overtakes or overwrites another, and
\* uart_write_flush waits for the last character.
ConsoleShowsText ==
  image.text # <<>> =>
    /\ Len(line) <= Len(image.text) /\ line = SubSeq(image.text, 1, Len(line))
    /\ reported # 0 => line = image.text

\* getchar returns the characters that arrive, each once and in order, although
\* data_ready lags behind the receive register.
ReceivedInOrder ==
  Len(received) <= Len(image.sends) /\ received = SubSeq(image.sends, 1, Len(received))

\* uart_write_flush returns when the transmitter has "no bits to send".
FlushedMeansSent == Leaves("uart_write_flush") => NoBitsToSend

\* Every program that returns is reported as ended: no poll, no sleep and no
\* interrupt handler keeps it for ever.
ProgramsEnd == <>(image.ends => reported # 0)

\* Every edge an enabled pin has seen is read by the handler.
EdgesServed == (owed # {}) ~> (owed = {})

\* Everything an image prints or sends back leaves the chip.
TextArrives == (image.text # <<>> /\ unsent = <<>>) ~> (line = image.text)

=============================================================================

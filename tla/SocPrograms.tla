----------------------------- MODULE SocPrograms -----------------------------
(***************************************************************************)
(* What the core executes: the boot ROM, the programs and tests of sw/     *)
(* that use the peripherals of the SoC, and small clients of the library   *)
(* for what no program in the repository does (sleep, keep an alarm, echo, *)
(* watch pins).  An image is a main(), the trap handlers that go with it,  *)
(* and what its surroundings do.                                           *)
(***************************************************************************)
EXTENDS Drivers

CONSTANT
  Delay   \* turns of a test's delay loops; their timeout is 10 times that

ASSUME DelayAssumption == Delay \in Nat \ {0}

LOCAL INSTANCE SequencesExt

-----------------------------------------------------------------------------
(* bootrom.S.  Instructions are numbered from 1: the boot sequence, _eoc    *)
(* with the wfi that halts, the function of test_soc_ctrl, main().          *)

CORESTATUS == BASE_ADDR.SOCCTRL + SOC_CTRL.CORESTATUS
BOOTADDR   == BASE_ADDR.SOCCTRL + SOC_CTRL.BOOTADDR

\* Seeded defect: the timer interrupt, pending from reset on, is enabled too.
bootrom_start_any ==
  << Csrw({IRQ_SOFTWARE, IRQ_TIMER}), wfi, Store(ClintReg(CLINT.MSIP), Bits({})), Csrw({}),
     Load(BOOTADDR), JumpAcc >>

bootrom_start ==
  << Csrw({IRQ_SOFTWARE}), wfi, Store(ClintReg(CLINT.MSIP), Bits({})), Csrw({}),
     Load(BOOTADDR), JumpAcc >>

\* Seeded defect: the core is not halted.
eoc_unhalted ==
  << StorePart(CORESTATUS, "report"), Take(Num(0)), [op |-> "padding"] >>

eoc == << StorePart(CORESTATUS, "report"), wfi, [op |-> "padding"] >>

BOOTROM_BOOT_SEQ == 5
EocIndex         == Len(bootrom_start) + 1
boot_target      == EocIndex + Len(eoc)
MainIndex        == boot_target + 1

Code(main) == bootrom_start \o eoc \o <<Return(0)>> \o main

-----------------------------------------------------------------------------
(* Trap handlers: by interrupt number, an exception being 100 + its cause.  *)

LOAD_FAULT  == 105
STORE_FAULT == 107
Causes      == {IRQ_SOFTWARE, IRQ_TIMER, IRQ_OBI_TIMER, IRQ_GPIO, LOAD_FAULT, STORE_FAULT}

\* crt0.S: the timer interrupt is masked, everything else ignored.
default_handlers ==
  [cause \in Causes |-> IF cause = IRQ_TIMER THEN <<Csrc(IRQ_TIMER)>> ELSE <<>>]

\* Seeded defect: the timer's flag is left set.
timer_handlers_deaf ==
  [cause \in Causes |->
     IF cause \in {LOAD_FAULT, STORE_FAULT} THEN <<>>
     ELSE IF cause = IRQ_OBI_TIMER
          THEN <<Assign("irq_cause", Num(cause)), Assign("irq_fired", Bits({0}))>>
          ELSE <<Assign("irq_cause", Num(cause))>>]

\* test_interrupts.c
timer_handlers ==
  [cause \in Causes |->
     IF cause \in {LOAD_FAULT, STORE_FAULT} THEN <<>>
     ELSE IF cause = IRQ_OBI_TIMER
          THEN <<Assign("irq_cause", Num(cause))>> \o obi_timer_clear_expired
                 \o <<Assign("irq_fired", Bits({0}))>>
          ELSE <<Assign("irq_cause", Num(cause))>>]

\* print_config.c: a load that faults is skipped.
probe_handlers ==
  [default_handlers EXCEPT
     ![LOAD_FAULT] = <<Assign("obi_error", Bits({0})), SkipFaulting>>]

\* Handlers of the clients that watch pins.
pin_handlers(handler) == [default_handlers EXCEPT ![IRQ_GPIO] = handler]

\* An image.  pins: the inputs the surroundings may change; sends: the
\* characters they send to the UART; phases: the phases of the slow clock it
\* may start in, for an image that uses it; text: what the console must show.
Image(main, handlers) ==
  [ code |-> Code(main), handlers |-> handlers, pins |-> {}, sends |-> <<>>,
    phases |-> {}, text |-> <<>>, rising |-> {}, falling |-> {}, ends |-> TRUE ]

-----------------------------------------------------------------------------
(* Programs and tests of the repository.  A text keeps one character of     *)
(* each of its words.                                                       *)

HelloText == <<Plain("H"), Plain("W"), Plain("f"), Plain("C"), Plain("!")>>

Text(fmt) ==   \* reference: the digits of a number from the first one on
  LET Digits(n) == CHOOSE k \in 1 .. 4 : n < 16^k /\ (k = 1 \/ n >= 16^(k - 1))
      HexText(n) == [i \in 1 .. Digits(n) |->
                       hex_symbols[((n \div 16^(Digits(n) - i)) % 16) + 1]]
  IN  FlattenSeq([i \in 1 .. Len(fmt) |->
        CASE fmt[i].conversion \in {"none", "c"} -> <<fmt[i].char>>
          [] fmt[i].conversion = "x" -> HexText(fmt[i].number)
          [] fmt[i].conversion = "s" -> fmt[i].string])

helloworld ==
  [ Image(uart_init \o printf(HelloText) \o uart_write_flush \o <<Return(0)>>,
          default_handlers) EXCEPT !.text = Text(HelloText) ]

\* The address of the result and a number of cycles.
TrigText == <<Plain("S"), Hex(\h2A4), Plain("c"), Hex(0), Plain("x")>>

trig ==
  [ Image(uart_init \o printf(TrigText) \o uart_write_flush \o <<Return(0)>>,
          default_handlers) EXCEPT !.text = Text(TrigText) ]

test_obi_timer ==
  Image(
    obi_timer_set_enable(FALSE)
      \o obi_timer_set_compare(\h1234) \o obi_timer_get_compare \o <<CHECK_ASSERT(1, {Num(\h1234)})>>
      \o obi_timer_set_compare(\hABCD) \o obi_timer_get_compare \o <<CHECK_ASSERT(2, {Num(\hABCD)})>>
      \o obi_timer_set_count(0) \o obi_timer_get_count \o <<CHECK_ASSERT(3, {Num(0)})>>
      \o obi_timer_set_autoreset(TRUE) \o obi_timer_get_autoreset \o <<CHECK_ASSERT(4, {Bits({0})})>>
      \o obi_timer_set_autoreset(FALSE) \o obi_timer_get_autoreset \o <<CHECK_ASSERT(5, {Bits({})})>>
      \o obi_timer_set_count(0) \o obi_timer_set_compare(1000) \o obi_timer_set_enable(TRUE)
      \o <<Pause(Delay)>> \o obi_timer_get_count \o <<CHECK_ASSERT(6, {Num(n) : n \in 1 .. 1000})>>
      \o obi_timer_set_enable(FALSE) \o <<Return(0)>>,
    default_handlers)

\* The checks of the vector table are left out: they are about linking.
test_interrupts ==
  Image(
    obi_timer_set(2 * Delay) \o set_interrupt_enable(TRUE, IRQ_OBI_TIMER)
      \o set_global_irq_enable(TRUE) \o <<PauseUntil("irq_fired", 10 * Delay)>>
      \o <<Recall("irq_fired"), CHECK_ASSERT(4, {Bits({0})}),
           Recall("irq_cause"), CHECK_ASSERT(5, {Num(IRQ_OBI_TIMER)})>>
      \o obi_timer_set_enable(FALSE) \o set_interrupt_enable(FALSE, IRQ_OBI_TIMER)
      \o set_global_irq_enable(FALSE)
      \o <<get_mstatus, CHECK_ASSERT(6, {Bits({})}), Return(0)>>,
    timer_handlers)

CheckCompare(code, high, low) ==
  << Load(ClintReg(CLINT.MTIMECMP_LOW0)), CHECK_ASSERT(code, {Num(low)}),
     Load(ClintReg(CLINT.MTIMECMP_HIGH0)), CHECK_ASSERT(code + 1, {Num(high)}) >>

\* half: the largest value of a half of the time, longest.
test_clint(half, longest) ==
  [ Image(
      clint_get_mtime \o <<Remember("t1"), Pause(2 * Delay)>> \o clint_get_mtime
        \o <<CHECK_LATER(1, "t1"), Take(Num(longest))>> \o clint_set_mtimecmp
        \o CheckCompare(2, half, half)
        \o <<Take(Num(half + 1))>> \o clint_set_mtimecmp \o CheckCompare(4, 1, 0)
        \o <<Store(ClintReg(CLINT.MSIP), Bits({0})), Load(ClintReg(CLINT.MSIP)),
             CHECK_ASSERT(6, {Bits({0})}),
             Store(ClintReg(CLINT.MSIP), Bits({})), Load(ClintReg(CLINT.MSIP)),
             CHECK_ASSERT(7, {Bits({})}), Take(Num(longest))>>
        \o clint_set_mtimecmp \o <<Return(0)>>,
      default_handlers) EXCEPT !.phases = {1, 2, 3, 4} ]

\* Five no-operations between an access to OUT and a read of the pins; the low
\* pins are led back to the high ones.
nops    == <<Pause(5)>>
AllPins == 0 .. 7   \* bound: 8 of 32

\* What a read of the pins may return: low pins, or the high ones and no low.
WordsWith(low, all) == {Bits(low \cup high) : high \in SUBSET (4 .. 7)} \cup {Bits(all)}

test_gpio ==
  Image(
    gpio_set_direction(AllPins, 0 .. 3) \o gpio_enable(0 .. 7)
      \o gpio_write({1, 3}) \o nops \o gpio_read
      \o <<CHECK_ASSERT(1, WordsWith({1, 3}, {5, 7}))>>
      \o gpio_toggle(0 .. 3) \o nops \o gpio_read
      \o <<CHECK_ASSERT(2, WordsWith({0, 2}, {4, 6}))>>
      \o gpio_pin_set(0) \o nops \o gpio_pin_read(4) \o <<CHECK_ASSERT(3, {Bits({0})})>>
      \o gpio_pin_clear(0) \o nops \o gpio_pin_read(4) \o <<CHECK_ASSERT(4, {Bits({})})>>
      \o gpio_pin_toggle(1) \o nops \o gpio_disable(0 .. 7) \o <<Return(0)>>,
    default_handlers)

\* 0xDEAD0000 is a number here.
test_soc_ctrl ==
  Image(
    << Store(BOOTADDR, Num(\hDEAD)), Load(BOOTADDR), CHECK_ASSERT(1, {Num(\hDEAD)}),
       Store(BOOTADDR, Num(MainIndex)), Load(BOOTADDR), CHECK_ASSERT(2, {Num(MainIndex)}),
       Store(BASE_ADDR.SOCCTRL + SOC_CTRL.FETCHEN, Num(1)),
       Load(BASE_ADDR.SOCCTRL + SOC_CTRL.FETCHEN), CHECK_ASSERT(3, {Num(1)}),
       Store(CORESTATUS, Num(\h7357)), Load(CORESTATUS), CHECK_ASSERT(4, {Num(\h7357)}),
       Store(BOOTADDR, Num(boot_target)), Take(Num(BOOTROM_BOOT_SEQ)), JumpAcc >>,
    default_handlers)

\* A line status with the bit set.
StatusWith(bit) == {Bits({bit} \cup rest) : rest \in SUBSET {0, 5, 6}}

test_uart ==
  Image(
    uart_init
      \o <<Load(UartReg(UART.LINE_CONTROL)), CHECK_ASSERT(1, {Bits({0, 1})}), Load(LSR),
           CHECK_ASSERT(2, StatusWith(LINE_STATUS_THR_EMPTY_BIT))>>
      \o uart_write("T") \o uart_write("X") \o uart_write_flush
      \o <<Load(LSR), CHECK_ASSERT(3, StatusWith(LINE_STATUS_TMIT_EMPTY_BIT))>>
      \o uart_loopback_enable \o uart_write("AB") \o uart_write_flush
      \o <<Pause(Delay)>> \o uart_read_ready
      \o <<Unless({LINE_STATUS_DATA_READY_BIT}, Len(uart_read) + 2)>>
      \o uart_read \o <<CHECK_ASSERT(4, {Char("AB")})>>
      \o uart_loopback_disable \o <<Return(0)>>,
    default_handlers)

\* Without an iDMA its first access faults, and the default handler returns to
\* it for ever.
test_idma ==
  [ Image(
      idma_set_src_addr(0) \o <<Load(IdmaReg(IDMA.SRC_ADDR)), CHECK_ASSERT(1, {Num(0)})>>
        \o idma_memcpy(0, 0, 16) \o idma_memcpy_2d(0, 0, 8, 8, 8, 2) \o <<Return(0)>>,
      default_handlers) EXCEPT !.ends = FALSE ]

probe_read(addr) == <<Assign("obi_error", Bits({})), Load(addr), Recall("obi_error")>>

peripherals == <<"CLINT", "SOCCTRL", "UART", "GPIO", "TIMER", "IDMA">>

PrintPresence(name) ==
  LET absent  == uart_write_str(<<name, "not">>)
      present == uart_write_str(<<name, "present">>)
  IN  probe_read(BASE_ADDR[name])
        \o <<Unless({0}, Len(absent) + 2)>> \o absent \o <<Goto(Len(present) + 1)>> \o present

\* The peripherals it looks for in this part of the SoC; its other lines are
\* those of helloworld.
print_config ==
  [ Image(uart_init
            \o FlattenSeq([i \in 1 .. Len(peripherals) |-> PrintPresence(peripherals[i])])
            \o uart_write_flush \o <<Return(0)>>,
          probe_handlers)
      EXCEPT !.text = FlattenSeq([i \in 1 .. Len(peripherals) |->
               << peripherals[i],
                  IF peripherals[i] \in DOMAIN SpaceSize THEN "present" ELSE "not" >>]) ]

-----------------------------------------------------------------------------
(* Clients of the library.                                                  *)

\* Two sleeps, with the handler of test_interrupts.
sleeper(cycles) ==
  Image(obi_timer_sleep(cycles) \o obi_timer_sleep(cycles) \o <<Return(0)>>, timer_handlers)

\* An alarm that is moved on, with a look at the time each time.
alarm(ticks, times) ==
  LET Turn == clint_get_mtime \o <<Add(ticks)>> \o clint_set_mtimecmp \o <<Pause(2)>>
  IN  [ Image(FlattenSeq([i \in 1 .. times |-> Turn]) \o <<Return(0)>>, default_handlers)
          EXCEPT !.phases = {1, 2, 3, 4} ]

\* One sleep, with the handler of crt0.S.
clint_sleeper(ticks) ==
  [ Image(clint_sleep_ticks(ticks) \o <<Return(0)>>, default_handlers)
      EXCEPT !.phases = {1, 2, 3, 4} ]

WatchPins == <<Csrs(IRQ_GPIO), Csri(TRUE), wfi, Goto(-1)>>

\* Rising edges of pin 0 and falling edges of pin 1.
pin_watcher ==
  [ Image(gpio_set_direction(AllPins, {}) \o gpio_enable({0, 1})
            \o gpio_enable_rising_interrupts({0}) \o gpio_enable_falling_interrupts({1})
            \o WatchPins, pin_handlers(gpio_get_interrupt_status))
      EXCEPT !.pins = {0, 1}, !.rising = {0}, !.falling = {1}, !.ends = FALSE ]

\* The same with the functions for one pin.
one_pin_watcher ==
  [ Image(gpio_pin_enable(0) \o gpio_pin_enable(1)
            \o gpio_pin_enable_rising_interrupt(0) \o gpio_pin_enable_falling_interrupt(1)
            \o WatchPins,
          pin_handlers(gpio_pin_get_interrupt_status(0) \o gpio_pin_get_interrupt_status(1)))
      EXCEPT !.pins = {0, 1}, !.rising = {0}, !.falling = {1}, !.ends = FALSE ]

\* What is received is sent back.
echo ==
  LET Turn == getchar \o <<Deliver>> \o uart_write_acc
  IN  [ Image(uart_init \o Turn \o <<Goto(-Len(Turn))>>, default_handlers)
          EXCEPT !.sends = <<"a", "b">>, !.text = <<"a", "b">>, !.ends = FALSE ]

=============================================================================

---------------------------- MODULE CrocSocProofs ----------------------------
(***************************************************************************)
(* What holds of the SoC whatever images it runs: the core stays in the    *)
(* boot ROM until the debugger wakes it; no edge of a pin is lost to       *)
(* software that looks at the whole interrupt status; a time that is read  *)
(* has come; a pin records the edge it was set up for; no alarm is raised  *)
(* while one is being set.  These three are about what main() does between *)
(* two instructions of a function of the library, while handlers interrupt *)
(* it: FlowInv says where it may go, and one invariant for each of the     *)
(* functions what it has read or written there.  Last, every register and  *)
(* every peripheral keeps its type.                                        *)
(***************************************************************************)
EXTENDS CrocSoc, SequenceTheorems, TLAPS

-----------------------------------------------------------------------------
(* What the core and the peripherals do in a step.                          *)

\* A step of the hardware is made with some request.
LEMMA RequestsAre ==
  /\ NoRequest.valid = FALSE
  /\ \A we, addr, wdata :
       /\ Request(we, addr, wdata).valid = TRUE
       /\ Request(we, addr, wdata).we = we
  BY DEF NoRequest, Request

\* Without a request msip stays.
LEMMA MsipStays ==
  ASSUME Idle
  PROVE  msip' = msip
<1>1. ~ClintWrites(NoRequest, CLINT.MSIP)
  BY RequestsAre DEF ClintWrites, Writes
<1> QED
  BY <1>1 DEF Idle, Hardware, ClintCycle

\* Without a request, or with a write, no read of the pins' registers begins.
LEMMA NoGpioRead ==
  ASSUME NEW req, NEW ignored, Hardware(req, ignored), ~req.valid \/ req.we
  PROVE  gpio_access' = NoRequest
  BY DEF Hardware, GpioCycle

-----------------------------------------------------------------------------
(* The boot ROM waits for the debugger.                                     *)

\* Not woken, the core is at the first two instructions of the boot ROM, with
\* no interrupt but the software interrupt enabled, and that one not pending.
Waiting ==
  /\ msip = FALSE /\ handling = 0 /\ MIE = FALSE /\ access.valid = FALSE
  /\ reported = 0 /\ loaded \in DOMAIN Images
  /\ \/ pc = 1 /\ asleep = FALSE
     \/ pc = 2 /\ mie = {IRQ_SOFTWARE}

BootInv == woken \in BOOLEAN /\ (woken = FALSE => Waiting)

\* What the first words of the boot ROM are.
LEMMA BootCode ==
  ASSUME StartsInBootRom(Images), loaded \in DOMAIN Images, handling = 0
  PROVE  /\ program[1] = Csrw({IRQ_SOFTWARE})
         /\ program[2] = wfi
         /\ boot_target > 2
<1>1. Len(bootrom_start) = 6 /\ bootrom_start[1] = Csrw({IRQ_SOFTWARE}) /\ bootrom_start[2] = wfi
  BY DEF bootrom_start
<1>2. Len(eoc) = 3
  BY DEF eoc
<1>3. 1 \in 1 .. Len(bootrom_start) /\ 2 \in 1 .. Len(bootrom_start)
  BY <1>1
<1>4. image.code[1] = bootrom_start[1] /\ image.code[2] = bootrom_start[2]
  BY <1>3 DEF StartsInBootRom, image
<1> QED
  BY <1>1, <1>2, <1>4 DEF program, boot_target, EocIndex

\* The first instruction enables the software interrupt, the second sleeps.
LEMMA BootExecutes ==
  ASSUME StartsInBootRom(Images), Waiting, Execute
  PROVE  /\ Idle /\ UNCHANGED <<others, bus, handling, MIE>>
         /\ pc' = 2 /\ mie' = {IRQ_SOFTWARE}
<1> USE DEF Waiting
<1>1. /\ program[1] = Csrw({IRQ_SOFTWARE})
      /\ program[2] = wfi
  BY BootCode
<1>2. CASE pc = 1
  <2>1. program[pc].op = "csr" /\ program[pc].f = "csrw" /\ program[pc].irqs = {IRQ_SOFTWARE}
    BY <1>1, <1>2 DEF Csrw
  <2>2. Csr(program[pc]) /\ Idle /\ UNCHANGED <<others, bus>>
    BY <2>1 DEF Execute, Issue, Internal, Compute, Keeping, Assigning, Delivering, Branch,
      Pausing, FallAsleep, Leaving, Jumping, Returning, Check
  <2>3. pc' = pc + 1 /\ handling' = handling
    BY <2>2 DEF Csr
  <2>4. mie' = {IRQ_SOFTWARE} /\ MIE' = MIE
    BY <2>1, <2>2 DEF Csr
  <2> QED
    BY <1>2, <2>2, <2>3, <2>4
<1>3. CASE pc = 2 /\ mie = {IRQ_SOFTWARE}
  <2>1. program[pc].op = "wfi"
    BY <1>1, <1>3 DEF wfi
  <2>2. FallAsleep(program[pc]) /\ Idle /\ UNCHANGED <<others, bus>>
    BY <2>1 DEF Execute, Issue, Internal, Compute, Keeping, Assigning, Delivering, Branch,
      Pausing, Csr, Leaving, Jumping, Returning, Check
  <2> QED
    BY <1>3, <2>2 DEF FallAsleep
<1> QED
  BY <1>2, <1>3

\* No interrupt ends the wfi before msip is set.
LEMMA NothingPending ==
  ASSUME Waiting
  PROVE  pending \cap {IRQ_SOFTWARE} = {}
  BY DEF Waiting, pending, IRQ_SOFTWARE, IRQ_TIMER, IRQ_OBI_TIMER, IRQ_GPIO

\* Nothing has woken the core after reset.
LEMMA BootInit ==
  ASSUME StartsInBootRom(Images), Init
  PROVE  BootInv
  BY DEF Init, BootInv, Waiting, ClintInit, NoRequest

\* Only the debugger's write to msip ends the wait of the boot ROM.
LEMMA BootStep ==
  ASSUME StartsInBootRom(Images), BootInv, [Next]_vars
  PROVE  BootInv'
<1> USE DEF BootInv
<1>1. CASE woken = TRUE
  <2>1. woken' = woken \/ Wakes
    BY <1>1 DEF Next, Execute, Issue, Internal, Stall, Respond, Fault, TakeInterrupt, Trap, Mret,
      Sleep, WakeUp, DebugPoll, Polls, DebugWake, Finished, others, vars, Wakes
  <2> QED
    BY <1>1, <2>1 DEF Wakes
<1>2. CASE woken = FALSE
  <2> USE <1>2
  <2>1. Waiting
    OBVIOUS
  <2>2. CASE Execute
    BY <2>1, <2>2, BootExecutes, MsipStays DEF Waiting, others, bus
  <2>3. CASE Stall
    BY <2>1, <2>3, MsipStays DEF Waiting, Stall, others, bus, flags
  <2>4. CASE Respond \/ Fault \/ Mret \/ TakeInterrupt
    BY <2>1, <2>4 DEF Waiting, Respond, Fault, Mret, AtEnd, TakeInterrupt, Interrupted
  <2>5. CASE Sleep
    BY <2>1, <2>5, MsipStays DEF Waiting, Sleep, others, core
  <2>6. CASE WakeUp
    BY <2>1, <2>6, NothingPending DEF Waiting, WakeUp
  <2>7. CASE DebugWake
    BY <2>7 DEF DebugWake, Wakes
  <2>8. CASE DebugPoll
    BY <2>8 DEF DebugPoll, Polls
  <2>9. CASE Finished \/ UNCHANGED vars
    BY <2>1, <2>9 DEF Waiting, Finished, vars, core, clint
  <2> QED
    BY <2>2, <2>3, <2>4, <2>5, <2>6, <2>7, <2>8, <2>9 DEF Next
<1> QED
  BY <1>1, <1>2

\* Whatever the images hold after the boot ROM's code, no main() runs before
\* the debugger has set msip, although the timer interrupt is pending from
\* reset on (bootrom.S).
THEOREM BootWaitsForDebugger ==
  ASSUME StartsInBootRom(Images)
  PROVE  Spec => []BootsWhenWoken
<1>1. Init => BootInv
  BY BootInit
<1>2. BootInv /\ [Next]_vars => BootInv'
  BY BootStep
<1>3. BootInv => BootsWhenWoken
  <2> SUFFICES ASSUME BootInv, woken = FALSE
               PROVE  ~(handling = 0 /\ pc >= boot_target)
    BY DEF BootInv, BootsWhenWoken
  <2>1. Waiting
    BY DEF BootInv
  <2>2. boot_target > 2 /\ boot_target \in Nat
    BY <2>1, BootCode DEF Waiting, boot_target, EocIndex, bootrom_start, eoc
  <2> QED
    BY <2>1, <2>2 DEF Waiting
<1> QED
  BY <1>1, <1>2, <1>3, PTL DEF Spec

-----------------------------------------------------------------------------
(* No edge is lost.                                                         *)

\* The instruction whose access is in its response phase.
Accessing(i, req) ==
  \/ i.op = "load" /\ req = Request(FALSE, i.addr, Num(0))
  \/ i.op = "store" /\ req.we = TRUE

\* A read of the pins' registers in its response phase is the access of the
\* load at pc; the core does not sleep meanwhile.
AccessInv ==
  /\ loaded \in DOMAIN Images /\ handling \in Causes \cup {0}
  /\ access.valid \in BOOLEAN
  /\ access.valid = TRUE =>
       /\ ~asleep
       /\ pc \in 1 .. Len(program) /\ Accessing(program[pc], access)
  /\ gpio_access.valid = TRUE => gpio_access = access
  /\ gpio_access.valid \in BOOLEAN

EdgeInv == AccessInv /\ NoEdgeLost

\* A cycle keeps every event software has not seen, unless the status is read
\* by someone who drops a part of it.
LEMMA EventsKept ==
  ASSUME NoEdgeLost, NEW req, NEW ignored, Hardware(req, ignored),
         StatusRead => ignored = {}
  PROVE  NoEdgeLost'
<1>1. /\ owed' = (IF StatusRead THEN owed \ (intrpt \ ignored) ELSE owed) \cup gpio_intrpt
      /\ intrpt' = NextStatus
  BY DEF Hardware, GpioCycle
<1> QED
  BY <1>1 DEF NextStatus, NoEdgeLost

\* Only the response phase of the core's own load reads the status.
LEMMA NoReadWithoutAccess ==
  ASSUME AccessInv, access.valid = FALSE
  PROVE  ~StatusRead
  BY DEF AccessInv, StatusRead, Reads

\* A cycle in which the core does not reach the GPIO keeps every event.
LEMMA IdleKeepsEvents ==
  ASSUME NoEdgeLost, Idle, ~StatusRead
  PROVE  NoEdgeLost' /\ gpio_access' = NoRequest
  BY EventsKept, NoGpioRead, RequestsAre DEF Idle

\* The cause of a trap is one of the vectored interrupts.
LEMMA CauseIsOne ==
  ASSUME Interrupted
  PROVE  Cause \in Causes /\ Cause \notin Faults
<1> DEFINE irqs == pending \cap mie
           fast == irqs \cap {IRQ_OBI_TIMER, IRQ_GPIO}
           set  == IF fast # {} THEN fast ELSE irqs
<1>1. irqs \subseteq {3, 7, 16, 18} /\ irqs # {}
  BY DEF Interrupted, pending, IRQ_SOFTWARE, IRQ_TIMER, IRQ_OBI_TIMER, IRQ_GPIO
<1>2. set \subseteq {3, 7, 16, 18} /\ set # {}
  BY <1>1 DEF IRQ_OBI_TIMER, IRQ_GPIO
<1>3. \E irq \in set : \A other \in set : irq <= other
  <2> HIDE DEF set
  <2>1. \A e \in set : e = 3 \/ e = 7 \/ e = 16 \/ e = 18
    BY <1>2
  <2>2. CASE 3 \in set
    <3>1. \A other \in set : 3 <= other
      BY <2>1
    <3> QED
      BY <2>2, <3>1
  <2>3. CASE 3 \notin set /\ 7 \in set
    <3>1. \A other \in set : 7 <= other
      BY <2>1, <2>3
    <3> QED
      BY <2>3, <3>1
  <2>4. CASE 3 \notin set /\ 7 \notin set /\ 16 \in set
    <3>1. \A other \in set : 16 <= other
      BY <2>1, <2>4
    <3> QED
      BY <2>4, <3>1
  <2>5. CASE 3 \notin set /\ 7 \notin set /\ 16 \notin set
    <3>1. \A other \in set : other = 18
      BY <2>1, <2>5
    <3>2. 18 \in set
      BY <1>2, <3>1
    <3>3. \A other \in set : 18 <= other
      BY <3>1
    <3> QED
      BY <3>2, <3>3
  <2> QED
    BY <2>2, <2>3, <2>4, <2>5
<1>4. Cause \in set
  BY <1>3 DEF Cause
<1> QED
  BY <1>2, <1>4 DEF Causes, Faults, IRQ_SOFTWARE, IRQ_TIMER, IRQ_OBI_TIMER, IRQ_GPIO,
    LOAD_FAULT, STORE_FAULT

\* The response phase: whoever looks at the status looks at all of it.
LEMMA RespondKeepsEvents ==
  ASSUME WholeStatusKept(Images), EdgeInv, Respond
  PROVE  NoEdgeLost'
<1>1. CASE ~StatusRead
  BY <1>1, EventsKept DEF EdgeInv, Respond
<1>2. CASE StatusRead
  <2>1. gpio_access = access /\ access.valid = TRUE /\ access.we = FALSE
    BY <1>2, RequestsAre DEF EdgeInv, AccessInv, StatusRead, Reads, Respond
  <2>2. /\ pc \in 1 .. Len(program)
        /\ program[pc].op = "load" /\ access = Request(FALSE, program[pc].addr, Num(0))
    BY <2>1 DEF EdgeInv, AccessInv, Accessing
  <2>3. LoadsStatus(program[pc])
    BY <1>2, <2>1, <2>2 DEF LoadsStatus, StatusRead
  <2>4. program \in Codes(image) /\ loaded \in DOMAIN Images
    BY DEF EdgeInv, AccessInv, program, Codes
  <2>5. ~OneBitKept(program, pc)
    BY <2>2, <2>3, <2>4 DEF WholeStatusKept, image
  <2>6. Hardware(NoRequest, {})
    BY <2>5 DEF Respond, Ignored
  <2> QED
    BY <2>6, EventsKept DEF EdgeInv
<1> QED
  BY <1>1, <1>2

\* No edge is owed after reset.
LEMMA EdgeInit ==
  ASSUME Init
  PROVE  EdgeInv
  BY DEF Init, EdgeInv, AccessInv, NoEdgeLost, GpioInit, NoRequest

\* An instruction keeps every event, the read of the whole status included.
LEMMA ExecuteKeepsEvents ==
  ASSUME EdgeInv, Execute
  PROVE  EdgeInv'
<1> DEFINE i == program[pc]
           req == Request(i.op = "store", i.addr, IF i.op = "store" THEN StoreData(i) ELSE Num(0))
<1>1. access.valid = FALSE /\ ~asleep /\ ~StatusRead /\ pc \in 1 .. Len(program)
  BY NoReadWithoutAccess DEF Execute, Between, EdgeInv, AccessInv
<1>2. CASE Issue(i)
  <2>1. /\ access' = req /\ Hardware(req, {})
        /\ UNCHANGED <<others, pc, flags>> /\ i.op \in {"load", "store"}
    BY <1>2 DEF Issue
  <2>2. UNCHANGED <<program, handling, loaded, asleep>>
    BY <2>1 DEF program, image, others, flags
  <2>3. NoEdgeLost'
    BY <1>1, <2>1, EventsKept DEF EdgeInv
  <2>4. req.valid = TRUE /\ req.we = (i.op = "store")
    BY RequestsAre
  <2>5. i.op = "load" => req = Request(FALSE, i.addr, Num(0))
    BY DEF Request
  <2>6. Accessing(i, req)
    BY <2>1, <2>4, <2>5 DEF Accessing
  <2>7. gpio_access' = req \/ gpio_access' = NoRequest
    BY <2>1 DEF Hardware, GpioCycle
  <2> QED
    BY <1>1, <2>1, <2>2, <2>3, <2>4, <2>6, <2>7, RequestsAre DEF EdgeInv, AccessInv
<1>3. CASE Internal(i)
  <2>1. Idle /\ UNCHANGED <<others, bus>>
    BY <1>3 DEF Internal
  <2>2. handling' = handling
    BY <1>3 DEF Internal, Compute, Keeping, Assigning, Delivering, Branch, Pausing, Csr,
      FallAsleep, Leaving, Jumping, Returning, Check, flags
  <2>3. NoEdgeLost' /\ gpio_access' = NoRequest
    BY <1>1, <2>1, IdleKeepsEvents DEF EdgeInv
  <2> QED
    BY <1>1, <2>1, <2>2, <2>3, RequestsAre DEF EdgeInv, AccessInv, others, bus
<1> QED
  BY <1>2, <1>3 DEF Execute

\* So does every other step of the chip and the board.
LEMMA EdgeStep ==
  ASSUME WholeStatusKept(Images), EdgeInv, [Next]_vars
  PROVE  EdgeInv'
<1>1. CASE Execute
  BY <1>1, ExecuteKeepsEvents
<1>2. CASE Stall
  <2>1. ~access.valid /\ Idle /\ UNCHANGED <<others, flags, bus>>
    BY <1>2 DEF Stall, Between
  <2> QED
    BY <2>1, NoReadWithoutAccess, IdleKeepsEvents, RequestsAre
    DEF EdgeInv, AccessInv, others, flags, bus
<1>3. CASE Respond
  <2>1. NoEdgeLost' /\ gpio_access' = NoRequest
    BY <1>3, RespondKeepsEvents, NoGpioRead, RequestsAre DEF Respond
  <2>2. access' = NoRequest /\ UNCHANGED <<others, flags>>
    BY <1>3 DEF Respond
  <2> QED
    BY <2>1, <2>2, RequestsAre DEF EdgeInv, AccessInv, others, flags
<1>4. CASE Fault
  <2>1. ~StatusRead
    BY <1>4 DEF Fault, EdgeInv, AccessInv, StatusRead, Reads
  <2>2. Trap(LOAD_FAULT) \/ Trap(STORE_FAULT)
    BY <1>4 DEF Fault
  <2>3. handling' \in Causes /\ access' = NoRequest /\ Idle /\ UNCHANGED others
    BY <2>2 DEF Trap, Causes
  <2> QED
    BY <2>1, <2>3, IdleKeepsEvents, RequestsAre DEF EdgeInv, AccessInv, others
<1>5. CASE TakeInterrupt
  <2>1. Cause \in Causes /\ ~access.valid
    BY <1>5, CauseIsOne DEF TakeInterrupt, Interrupted
  <2>2. handling' \in Causes /\ access' = NoRequest /\ Idle /\ UNCHANGED others
    BY <1>5, <2>1 DEF TakeInterrupt, Trap
  <2> QED
    BY <2>1, <2>2, NoReadWithoutAccess, IdleKeepsEvents, RequestsAre
    DEF EdgeInv, AccessInv, others
<1>6. CASE Mret
  <2>1. ~access.valid /\ Idle /\ UNCHANGED <<others, bus>> /\ handling' = 0
    BY <1>6 DEF Mret, Between
  <2> QED
    BY <2>1, NoReadWithoutAccess, IdleKeepsEvents, RequestsAre
    DEF EdgeInv, AccessInv, others, bus
<1>7. CASE Sleep \/ WakeUp
  <2>1. asleep /\ Idle /\ UNCHANGED <<others, access, handling>>
    BY <1>7 DEF Sleep, WakeUp, core, bus
  <2>2. ~access.valid
    BY <2>1 DEF EdgeInv, AccessInv
  <2> QED
    BY <2>1, <2>2, NoReadWithoutAccess, IdleKeepsEvents, RequestsAre
    DEF EdgeInv, AccessInv, others
<1>8. CASE DebugWake
  <2>1. ~access.valid /\ UNCHANGED <<loaded, access, handling>>
    BY <1>8 DEF DebugWake, Wakes, core
  <2>2. NoEdgeLost' /\ gpio_access' = NoRequest
    BY <1>8, <2>1, NoReadWithoutAccess, EventsKept, NoGpioRead, RequestsAre DEF DebugWake, EdgeInv
  <2> QED
    BY <2>1, <2>2, RequestsAre DEF EdgeInv, AccessInv
<1>9. CASE DebugPoll
  <2>1. ~access.valid /\ Idle /\ UNCHANGED <<loaded, access, handling>>
    BY <1>9 DEF DebugPoll, Polls, core
  <2> QED
    BY <2>1, NoReadWithoutAccess, IdleKeepsEvents, RequestsAre DEF EdgeInv, AccessInv
<1>10. CASE Finished \/ UNCHANGED vars
  BY <1>10 DEF Finished, vars, core, gpio, EdgeInv, AccessInv, NoEdgeLost, program, image
<1> QED
  BY <1>1, <1>2, <1>3, <1>4, <1>5, <1>6, <1>7, <1>8, <1>9, <1>10 DEF Next

\* Whatever programs run, and whenever the inputs change, every edge an
\* enabled pin has seen is in the interrupt status until it is read, provided
\* that whoever reads the status looks at all of it (gpio_reg_top.sv).
THEOREM NoEdgeIsLost ==
  ASSUME WholeStatusKept(Images)
  PROVE  Spec => []NoEdgeLost
<1>1. Init => EdgeInv
  BY EdgeInit
<1>2. EdgeInv /\ [Next]_vars => EdgeInv'
  BY EdgeStep
<1>3. EdgeInv => NoEdgeLost
  BY DEF EdgeInv
<1> QED
  BY <1>1, <1>2, <1>3, PTL DEF Spec

\* The windows of the address map do not overlap.
LEMMA PortOf ==
  ASSUME NEW port \in DOMAIN SpaceSize, NEW offset \in Nat, offset < SpaceSize[port]
  PROVE  Port(BASE_ADDR[port] + offset) = port
<1> DEFINE addr == BASE_ADDR[port] + offset
<1>1. DOMAIN SpaceSize = {"DEBUG", "BOOTROM", "CLINT", "SOCCTRL", "UART", "GPIO", "TIMER"}
  BY DEF SpaceSize
<1>2. Within(port, addr)
  BY <1>1 DEF Within, BASE_ADDR, SpaceSize
<1>3. ASSUME NEW other \in DOMAIN SpaceSize, Within(other, addr)
      PROVE  other = port
  BY <1>1, <1>3 DEF Within, BASE_ADDR, SpaceSize
<1>4. Port(addr) = CHOOSE other \in DOMAIN SpaceSize : Within(other, addr)
  BY <1>2 DEF Port
<1> QED
  BY <1>2, <1>3, <1>4

\* What is in a request besides its address.
LEMMA LoadRequest ==
  ASSUME NEW addr, NEW word
  PROVE  /\ Request(FALSE, addr, word).valid = TRUE
         /\ Request(FALSE, addr, word).we = FALSE
         /\ Request(FALSE, addr, word).port = Port(addr)
  BY DEF Request

\* What is in the request of a store besides its address.
LEMMA StoreRequest ==
  ASSUME NEW addr, NEW word
  PROVE  /\ Request(TRUE, addr, word).valid = TRUE
         /\ Request(TRUE, addr, word).we = TRUE
         /\ Request(TRUE, addr, word).port = Port(addr)
         /\ Request(TRUE, addr, word).wdata = word
  BY DEF Request

\* The registers that the proofs below are about.
ClintRegs ==
  {CLINT.MSIP, CLINT.MTIMECMP_LOW0, CLINT.MTIMECMP_HIGH0, CLINT.MTIME_LOW, CLINT.MTIME_HIGH}
GpioRegs == {GPIO.INTRPT_EN, GPIO.INTRPT_EDGE}

\* A request to one of them reaches it.
LEMMA ClintRequest ==
  ASSUME NEW word, NEW offset \in ClintRegs
  PROVE  /\ Request(FALSE, ClintReg(offset), word).port = "CLINT"
         /\ Request(FALSE, ClintReg(offset), word).offset = offset
         /\ Request(TRUE, ClintReg(offset), word).port = "CLINT"
         /\ Request(TRUE, ClintReg(offset), word).offset = offset
<1>1. "CLINT" \in DOMAIN SpaceSize /\ offset \in Nat /\ offset < SpaceSize["CLINT"]
  BY DEF SpaceSize, CLINT, ClintRegs
<1>2. ClintReg(offset) = BASE_ADDR["CLINT"] + offset
  BY DEF ClintReg
<1>3. Port(ClintReg(offset)) = "CLINT"
  BY <1>1, <1>2, PortOf
<1>4. "CLINT" # "ERROR" /\ ClintReg(offset) - BASE_ADDR["CLINT"] = offset
  BY <1>1, <1>2 DEF BASE_ADDR, SpaceSize
<1> QED
  BY <1>3, <1>4 DEF Request

\* A request to one of the registers that set the pins up reaches it.
LEMMA GpioRequest ==
  ASSUME NEW word, NEW offset \in GpioRegs
  PROVE  /\ Request(FALSE, GpioReg(offset), word).port = "GPIO"
         /\ Request(FALSE, GpioReg(offset), word).offset = offset
         /\ Request(TRUE, GpioReg(offset), word).port = "GPIO"
         /\ Request(TRUE, GpioReg(offset), word).offset = offset
<1>1. "GPIO" \in DOMAIN SpaceSize /\ offset \in Nat /\ offset < SpaceSize["GPIO"]
  BY DEF SpaceSize, GPIO, GpioRegs
<1>2. GpioReg(offset) = BASE_ADDR["GPIO"] + offset
  BY DEF GpioReg
<1>3. Port(GpioReg(offset)) = "GPIO"
  BY <1>1, <1>2, PortOf
<1>4. "GPIO" # "ERROR" /\ GpioReg(offset) - BASE_ADDR["GPIO"] = offset
  BY <1>1, <1>2 DEF BASE_ADDR, SpaceSize
<1> QED
  BY <1>3, <1>4 DEF Request

\* A load of the boot address reaches its register.
LEMMA BootRequest ==
  ASSUME NEW word
  PROVE  /\ Request(FALSE, BOOTADDR, word).port = "SOCCTRL"
         /\ Request(FALSE, BOOTADDR, word).offset = SOC_CTRL.BOOTADDR
<1>1. /\ "SOCCTRL" \in DOMAIN SpaceSize /\ SOC_CTRL.BOOTADDR \in Nat
      /\ SOC_CTRL.BOOTADDR < SpaceSize["SOCCTRL"]
  BY DEF SpaceSize, SOC_CTRL
<1>2. BOOTADDR = BASE_ADDR["SOCCTRL"] + SOC_CTRL.BOOTADDR
  BY DEF BOOTADDR
<1>3. Port(BOOTADDR) = "SOCCTRL"
  BY <1>1, <1>2, PortOf
<1>4. "SOCCTRL" # "ERROR" /\ BOOTADDR - BASE_ADDR["SOCCTRL"] = SOC_CTRL.BOOTADDR
  BY <1>1, <1>2 DEF BASE_ADDR, SpaceSize
<1> QED
  BY <1>3, <1>4 DEF Request

\* The debugger's write to msip does.
LEMMA WakeRequest ==
  Request(TRUE, ClintReg(CLINT.MSIP), Bits({0})).port = "CLINT"
<1>1. CLINT.MSIP \in ClintRegs
  BY DEF ClintRegs
<1> QED
  BY <1>1, ClintRequest

-----------------------------------------------------------------------------
(* Where main() is, while it runs or while a handler interrupts it.         *)

main_pc   == IF handling = 0 THEN pc ELSE frame.pc
main_acc  == IF handling = 0 THEN acc ELSE frame.acc
main_kept == IF handling = 0 THEN kept ELSE frame.kept

main == <<main_pc, main_acc, main_kept>>

\* The request that the load or the store i makes.
MadeBy(i, req) ==
  \/ i.op = "load"  /\ \E word : req = Request(FALSE, i.addr, word)
  \/ i.op = "store" /\ \E word : req = Request(TRUE, i.addr, word)

\* The handler of a fault returns to the access at fault, or behind it once it
\* has nothing left to do.
SkipInv ==
  handling \in Faults =>
    \/ Faulting(image, frame.pc)
    \/ pc \notin 1 .. Len(program) /\ Faulting(image, frame.pc - 1)

\* What holds of the core while it runs a structured image: a handler runs with
\* interrupts off, the access in its response phase is that of the instruction
\* at pc, and only a wfi sleeps.
CoreInv ==
  /\ SkipInv /\ "pc" \in DOMAIN frame
  /\ loaded \in DOMAIN Images /\ handling \in Causes \cup {0}
  /\ handling # 0 => MIE = FALSE
  /\ asleep = TRUE => pc \in 1 .. Len(program) /\ program[pc].op = "wfi"
  /\ access.valid = TRUE => pc \in 1 .. Len(program) /\ MadeBy(program[pc], access)
  /\ access.valid \in BOOLEAN /\ asleep \in BOOLEAN

\* main() reaches a jump with one of its targets in acc.
JumpInv ==
  /\ boot_addr \in BootAddrs(image)
  /\ Jumps(image, main_pc) => main_acc.num \in JumpTargets(image)
  /\ (access.valid = TRUE /\ access.we = FALSE /\ access.port = "SOCCTRL")
       => soc_ctrl_access = access

FlowInv == CoreInv /\ JumpInv

\* A step leaves main() where it is, takes it to one of the entries, or to the
\* next instruction with what the one at pc does.
Enters ==
  /\ main_pc' \in Entries(image)
  /\ \/ /\ handling = 0 /\ handling' = 0 /\ pc \in 1 .. Len(image.code)
        /\ image.code[pc].op \in {"branch", "jump", "return", "check", "check_later"}
     \/ handling \in Faults /\ handling' = handling /\ Faulting(image, main_pc)

Does(i) ==
  /\ i.op \in {"load", "store"} => access.valid = TRUE
  /\ i.op = "load" => acc' = ReadData /\ kept' = kept
  /\ i.op = "keep" => acc' = acc /\ kept' = acc
  /\ i.op = "compute" => acc' = Computed(i) /\ kept' = kept
  /\ i.op \in {"store", "leave"} => acc' = acc /\ kept' = kept

Advances ==
  /\ handling = 0 /\ handling' = 0
  /\ pc \in 1 .. Len(image.code) /\ pc' = pc + 1 /\ Does(image.code[pc])

Flows == UNCHANGED main \/ Enters \/ Advances

\* No instruction is of two kinds.
LEMMA Fetched ==
  ASSUME CoreInv, Execute
  PROVE  /\ pc \in 1 .. Len(program) /\ access.valid = FALSE /\ asleep = FALSE
         /\ program \in Codes(image)
         /\ Issue(program[pc]) \/ Internal(program[pc])
<1>1. program \in Codes(image)
  BY DEF CoreInv, program, Codes
<1> QED
  BY <1>1 DEF Execute, Between, CoreInv

\* An instruction of main() other than a load or a store.
LEMMA MainExecutes ==
  ASSUME FlowInv, handling = 0, Execute, Internal(program[pc])
  PROVE  /\ handling' = 0
         /\ asleep' = TRUE => pc' = pc /\ program[pc].op = "wfi"
         /\ Flows
<1> DEFINE i == program[pc]
<1>1. program = image.code /\ pc \in 1 .. Len(program) /\ asleep = FALSE
  BY Fetched DEF program, FlowInv
<1> HIDE DEF i
<1>2. CASE Compute(i)
  BY <1>1, <1>2 DEF i, Compute, flags, Flows, Advances, Does
<1>3. CASE Keeping(i)
  BY <1>1, <1>3 DEF i, Keeping, flags, Flows, Advances, Does
<1>4. CASE Assigning(i) \/ Delivering(i) \/ Leaving(i)
  BY <1>1, <1>4 DEF i, Assigning, Delivering, Leaving, flags, Flows, Advances, Does
<1>5. CASE Branch(i)
  <2>1. i.op = "branch" /\ UNCHANGED <<acc, kept, flags>> /\ (pc' = pc + i.by \/ pc' = pc + 1)
    BY <1>5 DEF Branch
  <2>2. CASE pc' = pc + i.by
    BY <1>1, <2>1, <2>2 DEF i, Entries, Flows, Enters, main_pc, flags
  <2>3. CASE pc' = pc + 1
    BY <1>1, <2>1, <2>3 DEF i, Flows, Advances, Does, flags
  <2> QED
    BY <1>1, <2>1, <2>2, <2>3 DEF flags
<1>6. CASE Pausing(i)
  <2>1. i.op = "pause" /\ UNCHANGED <<acc, kept, flags>> /\ (pc' = pc \/ pc' = pc + 1)
    BY <1>6 DEF Pausing
  <2>2. CASE pc' = pc
    BY <1>1, <2>1, <2>2 DEF Flows, flags, main, main_pc, main_acc, main_kept
  <2>3. CASE pc' = pc + 1
    BY <1>1, <2>1, <2>3 DEF i, Flows, Advances, Does, flags
  <2> QED
    BY <1>1, <2>1, <2>2, <2>3 DEF flags
<1>7. CASE Csr(i)
  BY <1>1, <1>7 DEF i, Csr, Flows, Advances, Does
<1>8. CASE FallAsleep(i)
  BY <1>1, <1>8 DEF i, FallAsleep, Flows, main, main_pc, main_acc, main_kept
<1>9. CASE Jumping(i)
  <2>1. i.op = "jump" /\ pc' = acc.num /\ UNCHANGED flags
    BY <1>9 DEF Jumping
  <2>2. acc.num \in JumpTargets(image)
    BY <1>1, <2>1 DEF i, FlowInv, JumpInv, Jumps, main_pc, main_acc
  <2> QED
    BY <1>1, <2>1, <2>2 DEF i, Entries, Flows, Enters, main_pc, flags
<1>10. CASE Returning(i) \/ Check(i)
  <2>1. i.op \in {"return", "check", "check_later"} /\ UNCHANGED <<acc, kept, flags>>
    BY <1>10 DEF Returning, Check
  <2>2. pc' = EocIndex \/ pc' = pc + 1
    BY <1>10 DEF Returning, Check, Returns
  <2>3. CASE pc' = EocIndex
    BY <1>1, <2>1, <2>3 DEF i, Entries, Flows, Enters, main_pc, flags
  <2>4. CASE pc' = pc + 1
    BY <1>1, <2>1, <2>4 DEF i, Flows, Advances, Does, flags
  <2> QED
    BY <1>1, <2>1, <2>2, <2>3, <2>4 DEF flags
<1> QED
  BY <1>2, <1>3, <1>4, <1>5, <1>6, <1>7, <1>8, <1>9, <1>10 DEF Internal, i

\* The last instruction of a handler skips the access at fault.
Skips ==
  /\ handling \in Faults /\ pc = Len(program) /\ pc' = pc + 1
  /\ frame' = [frame EXCEPT !.pc = frame.pc + 1]

\* What a handler leaves alone.
LEMMA HandlerExecutes ==
  ASSUME FlowInv, Structured(image), handling # 0, Execute, Internal(program[pc])
  PROVE  /\ handling' = handling /\ MIE' = FALSE
         /\ frame' = frame \/ Skips
         /\ asleep' = TRUE => pc' = pc /\ program[pc].op = "wfi"
<1> DEFINE i == program[pc]
<1>1. /\ program = image.handlers[handling] /\ handling \in Causes /\ MIE = FALSE
      /\ pc \in 1 .. Len(program) /\ asleep = FALSE
  BY Fetched DEF program, FlowInv, CoreInv
<1>2. i.op = "csr" =>
        /\ i.f \notin {"global", "restore_global"}
        /\ i.f = "mepc" => handling \in Faults /\ pc = Len(program)
  <2>1. Quiet(program, handling)
    BY <1>1 DEF Structured
  <2> QED
    BY <1>1, <2>1 DEF Quiet
<1> HIDE DEF i
<1>3. CASE Csr(i)
  BY <1>1, <1>2, <1>3 DEF Csr, Skips
<1>4. CASE FallAsleep(i)
  BY <1>1, <1>4 DEF i, FallAsleep
<1>5. CASE ~Csr(i) /\ ~FallAsleep(i)
  BY <1>1, <1>5 DEF i, Internal, Compute, Keeping, Assigning, Delivering, Branch, Pausing,
    Leaving, Jumping, Returning, Check, flags
<1> QED
  BY <1>3, <1>4, <1>5

\* What is skipped is the access at fault.
LEMMA SkipEnters ==
  ASSUME FlowInv, handling # 0, handling' = handling, loaded' = loaded, Skips,
         pc \in 1 .. Len(program)
  PROVE  Enters /\ SkipInv' /\ "pc" \in DOMAIN frame'
<1>1. handling \in Faults /\ pc = Len(program) /\ pc \in Int /\ pc' = pc + 1
  BY DEF Skips
<1>2. Faulting(image, frame.pc)
  BY <1>1 DEF FlowInv, CoreInv, SkipInv
<1>3. /\ frame.pc \in 1 .. Len(image.code) /\ "pc" \in DOMAIN frame
      /\ frame' = [frame EXCEPT !.pc = frame.pc + 1]
  BY <1>2 DEF Skips, FlowInv, CoreInv, Faulting
<1>4. frame'.pc = frame.pc + 1 /\ "pc" \in DOMAIN frame' /\ frame'.pc - 1 = frame.pc
  BY <1>3
<1>5. main_pc' = frame.pc + 1 /\ main_pc = frame.pc
  BY <1>4 DEF main_pc
<1>6. frame.pc + 1 \in Entries(image)
  BY <1>2, <1>3 DEF Entries
<1>7. image' = image /\ program' = program
  BY DEF program, image
<1>8. pc' \notin 1 .. Len(program')
  BY <1>1, <1>7
<1> QED
  BY <1>1, <1>2, <1>4, <1>5, <1>6, <1>7, <1>8 DEF Enters, SkipInv

\* An access goes where the instruction at pc says.
LEMMA AccessedPort ==
  ASSUME CoreInv, access.valid = TRUE
  PROVE  /\ pc \in 1 .. Len(program) /\ access.port = Port(program[pc].addr)
         /\ \/ program[pc].op = "load" /\ access.we = FALSE
            \/ program[pc].op = "store" /\ access.we = TRUE
<1>1. pc \in 1 .. Len(program) /\ MadeBy(program[pc], access)
  BY DEF CoreInv
<1>2. CASE program[pc].op = "load" /\ \E word : access = Request(FALSE, program[pc].addr, word)
  <2>1. PICK word : access = Request(FALSE, program[pc].addr, word)
    BY <1>2
  <2>2. access.we = FALSE /\ access.port = Port(program[pc].addr)
    BY <2>1, LoadRequest
  <2> QED
    BY <1>1, <1>2, <2>2
<1>3. CASE program[pc].op = "store" /\ \E word : access = Request(TRUE, program[pc].addr, word)
  <2>1. PICK word : access = Request(TRUE, program[pc].addr, word)
    BY <1>3
  <2>2. access.we = TRUE /\ access.port = Port(program[pc].addr)
    BY <2>1, StoreRequest
  <2> QED
    BY <1>1, <1>3, <2>2
<1> QED
  BY <1>1, <1>2, <1>3 DEF MadeBy

\* An access that is answered moves main() to the next instruction.
LEMMA MainResponds ==
  ASSUME FlowInv, handling = 0, Respond
  PROVE  handling' = 0 /\ Flows
<1>1. /\ pc \in 1 .. Len(program) /\ access.valid = TRUE
      /\ \/ program[pc].op = "load" /\ access.we = FALSE
         \/ program[pc].op = "store" /\ access.we = TRUE
  BY AccessedPort DEF FlowInv, CoreInv, Respond
<1>2. /\ handling' = handling /\ kept' = kept /\ pc' = pc + 1
      /\ acc' = IF access.we THEN acc ELSE ReadData
  BY DEF Respond, flags
<1>3. program = image.code
  BY DEF program
<1> HIDE DEF ReadData
<1> QED
  BY <1>1, <1>2, <1>3 DEF Flows, Advances, Does

\* A trap keeps where main() was.
LEMMA TrapKeepsMain ==
  ASSUME NEW cause \in Causes, handling = 0, Trap(cause),
         cause \in Faults => Faulting(image, pc)
  PROVE  /\ handling' \in Causes /\ MIE' = FALSE /\ UNCHANGED main /\ asleep' = asleep
         /\ SkipInv' /\ "pc" \in DOMAIN frame'
<1>1. /\ handling' = cause /\ MIE' = FALSE /\ asleep' = asleep /\ loaded' = loaded
      /\ frame' = [pc |-> pc, acc |-> acc, kept |-> kept, MIE |-> MIE]
  BY DEF Trap, others
<1>2. cause # 0
  BY DEF Causes, IRQ_SOFTWARE, IRQ_TIMER, IRQ_OBI_TIMER, IRQ_GPIO, LOAD_FAULT, STORE_FAULT
<1>3. image' = image
  BY <1>1 DEF image
<1> QED
  BY <1>1, <1>2, <1>3 DEF main, main_pc, main_acc, main_kept, SkipInv

\* What traps in main() is an interrupt or an access at fault.
LEMMA MainTraps ==
  ASSUME FlowInv, handling = 0, Fault \/ TakeInterrupt
  PROVE  \E cause \in Causes : Trap(cause) /\ (cause \in Faults => Faulting(image, pc))
<1>1. CASE Fault
  <2>1. access.valid = TRUE /\ access.port = "ERROR"
    BY <1>1 DEF Fault, FlowInv, CoreInv
  <2>2. program = image.code
    BY DEF program
  <2>3. Faulting(image, pc)
    BY <2>1, <2>2, AccessedPort DEF Faulting, FlowInv
  <2> QED
    BY <1>1, <2>3 DEF Fault, Causes
<1>2. CASE TakeInterrupt
  BY <1>2, CauseIsOne DEF TakeInterrupt
<1> QED
  BY <1>1, <1>2

\* A handler of a structured image is not interrupted by a fault.
LEMMA FaultInMain ==
  ASSUME FlowInv, Structured(image), Fault
  PROVE  handling = 0
<1> SUFFICES ASSUME handling # 0 PROVE FALSE
  OBVIOUS
<1>1. access.valid = TRUE /\ access.port = "ERROR"
  BY DEF Fault, FlowInv, CoreInv
<1>2. /\ pc \in 1 .. Len(program) /\ program[pc].op \in {"load", "store"}
      /\ access.port = Port(program[pc].addr)
  BY <1>1, AccessedPort DEF FlowInv
<1>3. program = image.handlers[handling] /\ handling \in Causes
  BY DEF program, FlowInv, CoreInv
<1>4. Quiet(program, handling)
  BY <1>3 DEF Structured
<1> QED
  BY <1>1, <1>2, <1>4 DEF Quiet

\* Every step is one of these: it leaves the core to its access, its sleep or
\* its stall; it makes an access; it moves the core on.
LEMMA StepFlows ==
  ASSUME FlowInv, Structured(image), [Next]_vars
  PROVE  /\ Flows /\ loaded' = loaded
         /\ handling' \in Causes \cup {0} /\ (handling' # 0 => MIE' = FALSE)
         /\ asleep' = TRUE =>
              /\ pc' = pc /\ handling' = handling
              /\ pc \in 1 .. Len(program) /\ program[pc].op = "wfi"
         /\ asleep' \in BOOLEAN
         /\ SkipInv' /\ "pc" \in DOMAIN frame'
<1> USE DEF FlowInv, CoreInv
<1>0. ASSUME UNCHANGED <<loaded, handling, frame>>,
             handling # 0 => pc \in 1 .. Len(program) \/ pc' = pc
      PROVE  SkipInv' /\ "pc" \in DOMAIN frame'
  <2>1. image' = image /\ program' = program
    BY <1>0 DEF image, program
  <2>2. CASE handling = 0
    <3>1. handling' \notin Faults
      BY <1>0, <2>2 DEF Faults, LOAD_FAULT, STORE_FAULT
    <3> QED
      BY <1>0, <3>1 DEF SkipInv
  <2>3. CASE handling # 0
    BY <1>0, <2>1, <2>3 DEF SkipInv
  <2> QED
    BY <2>2, <2>3
<1>1. CASE Execute /\ Issue(program[pc])
  <2>1. UNCHANGED <<others, pc, acc, kept, flags>>
    BY <1>1 DEF Issue
  <2>2. SkipInv' /\ "pc" \in DOMAIN frame'
    BY <1>0, <2>1 DEF others, flags
  <2> QED
    BY <1>1, <2>1, <2>2, Fetched DEF others, flags, Flows, main, main_pc, main_acc, main_kept
<1>2. CASE Execute /\ Internal(program[pc])
  <2>1. loaded' = loaded
    BY <1>2 DEF Internal, others
  <2>2. asleep' \in BOOLEAN
    BY <1>2 DEF Internal, Compute, Keeping, Assigning, Delivering, Branch, Pausing, Csr,
      FallAsleep, Leaving, Jumping, Returning, Check, flags
  <2>3. CASE handling = 0
    <3>1. handling' = 0 /\ Flows /\ (asleep' = TRUE => pc' = pc /\ program[pc].op = "wfi")
      BY <1>2, <2>3, MainExecutes
    <3>2. SkipInv'
      BY <3>1 DEF SkipInv, Faults, LOAD_FAULT, STORE_FAULT
    <3>3. "pc" \in DOMAIN frame'
      BY <1>2 DEF Internal, Compute, Keeping, Assigning, Delivering, Branch, Pausing, Csr,
        FallAsleep, Leaving, Jumping, Returning, Check, flags
    <3> QED
      BY <1>2, <2>1, <2>2, <2>3, <3>1, <3>2, <3>3, Fetched
  <2>4. CASE handling # 0
    <3>1. handling' = handling /\ MIE' = FALSE /\ (frame' = frame \/ Skips)
      BY <1>2, <2>4, HandlerExecutes
    <3>2. asleep' = TRUE => pc' = pc /\ program[pc].op = "wfi"
      BY <1>2, <2>4, HandlerExecutes
    <3>3. CASE frame' = frame
      <4>1. SkipInv' /\ "pc" \in DOMAIN frame'
        BY <1>0, <1>2, <2>1, <3>1, <3>3, Fetched
      <4> QED
        BY <1>2, <2>1, <2>2, <2>4, <3>1, <3>2, <3>3, <4>1, Fetched
          DEF Flows, main, main_pc, main_acc, main_kept
    <3>4. CASE Skips
      <4>1. Enters /\ SkipInv' /\ "pc" \in DOMAIN frame'
        BY <1>2, <2>1, <2>4, <3>1, <3>4, SkipEnters, Fetched
      <4> QED
        BY <1>2, <2>1, <2>2, <2>4, <3>1, <3>2, <4>1, Fetched DEF Flows
    <3> QED
      BY <3>1, <3>3, <3>4
  <2> QED
    BY <2>3, <2>4
<1>3. CASE Stall \/ Sleep \/ DebugWake \/ DebugPoll \/ Finished \/ UNCHANGED vars
  <2>1. UNCHANGED <<loaded, pc, acc, kept, flags>>
    BY <1>3 DEF Stall, Sleep, DebugWake, DebugPoll, Finished, vars, core, others, flags
  <2>2. SkipInv' /\ "pc" \in DOMAIN frame'
    BY <1>0, <2>1 DEF flags
  <2> QED
    BY <2>1, <2>2 DEF flags, Flows, main, main_pc, main_acc, main_kept
<1>4. CASE Respond
  <2>1. UNCHANGED <<others, flags>> /\ access.valid = TRUE
    BY <1>4 DEF Respond
  <2>2. asleep = FALSE /\ pc \in 1 .. Len(program)
    BY <2>1, AccessedPort
  <2>3. SkipInv' /\ "pc" \in DOMAIN frame'
    BY <1>0, <2>1, <2>2 DEF others, flags
  <2>4. CASE handling = 0
    BY <1>4, <2>1, <2>2, <2>3, <2>4, MainResponds DEF others, flags
  <2>5. CASE handling # 0
    BY <2>1, <2>2, <2>3, <2>5 DEF others, flags, Flows, main, main_pc, main_acc, main_kept
  <2> QED
    BY <2>4, <2>5
<1>5. CASE Fault \/ TakeInterrupt
  <2>1. handling = 0 /\ asleep = FALSE
    BY <1>5, FaultInMain, AccessedPort DEF TakeInterrupt, Interrupted, Fault
  <2>2. PICK cause \in Causes : Trap(cause) /\ (cause \in Faults => Faulting(image, pc))
    BY <1>5, <2>1, MainTraps
  <2>3. loaded' = loaded
    BY <2>2 DEF Trap, others
  <2> QED
    BY <2>1, <2>2, <2>3, TrapKeepsMain DEF Flows
<1>6. CASE Mret
  <2>1. /\ handling # 0 /\ asleep = FALSE /\ handling' = 0 /\ UNCHANGED <<others, asleep>>
        /\ pc' = frame.pc /\ acc' = frame.acc /\ kept' = frame.kept /\ frame' = NoFrame
    BY <1>6 DEF Mret, Between, AtEnd
  <2>2. SkipInv' /\ "pc" \in DOMAIN frame'
    BY <2>1 DEF SkipInv, NoFrame, Faults, LOAD_FAULT, STORE_FAULT
  <2> QED
    BY <2>1, <2>2 DEF others, Flows, main, main_pc, main_acc, main_kept
<1>7. CASE WakeUp
  <2>1. /\ asleep = TRUE /\ asleep' = FALSE /\ pc' = pc + 1
        /\ UNCHANGED <<others, acc, kept, MIE, handling, frame>>
    BY <1>7 DEF WakeUp
  <2>2. SkipInv' /\ "pc" \in DOMAIN frame'
    BY <1>0, <2>1 DEF others
  <2>3. CASE handling = 0
    BY <2>1, <2>2, <2>3 DEF program, others, Flows, Advances, Does
  <2>4. CASE handling # 0
    BY <2>1, <2>2, <2>4 DEF others, Flows, main, main_pc, main_acc, main_kept
  <2> QED
    BY <2>3, <2>4
<1> QED
  BY <1>1, <1>2, <1>3, <1>4, <1>5, <1>6, <1>7, Fetched DEF Next

\* Every step: nothing, an access of the core, or a cycle of the peripherals
\* without one, whose request is the debugger's if there is one.
Unaccessed ==
  /\ access'.valid = FALSE
  /\ (\E ignored : Hardware(NoRequest, ignored))
       \/ Hardware(Request(TRUE, ClintReg(CLINT.MSIP), Bits({0})), {})

Accesses == Execute /\ Issue(program[pc])

\* An access is in its response phase after a step only if the step made it.
LEMMA StepAccesses ==
  ASSUME FlowInv, [Next]_vars
  PROVE  UNCHANGED vars \/ Unaccessed \/ Accesses
<1> USE DEF FlowInv, CoreInv
<1>1. CASE Execute /\ Internal(program[pc])
  BY <1>1, Fetched DEF Internal, Idle, Unaccessed, bus
<1>2. CASE Stall
  BY <1>2 DEF Stall, Between, Idle, Unaccessed, bus
<1>3. CASE Respond
  BY <1>3, RequestsAre DEF Respond, Unaccessed
<1>4. CASE Fault \/ TakeInterrupt
  BY <1>4, RequestsAre DEF Fault, TakeInterrupt, Trap, Idle, Unaccessed
<1>5. CASE Mret
  BY <1>5 DEF Mret, Between, Idle, Unaccessed, bus
<1>6. CASE Sleep \/ WakeUp
  <2>1. asleep = TRUE /\ access' = access /\ Idle
    BY <1>6 DEF Sleep, WakeUp, core, bus
  <2>2. access.valid = FALSE
    BY <2>1, AccessedPort
  <2> QED
    BY <2>1, <2>2 DEF Idle, Unaccessed
<1>7. CASE DebugWake
  BY <1>7 DEF DebugWake, Wakes, core, Unaccessed
<1>8. CASE DebugPoll
  BY <1>8 DEF DebugPoll, Polls, core, Idle, Unaccessed
<1>9. CASE Finished
  BY <1>9 DEF Finished
<1> QED
  BY <1>1, <1>2, <1>3, <1>4, <1>5, <1>6, <1>7, <1>8, <1>9, Fetched DEF Next, Accesses

\* The request of an access.
TheRequest ==
  LET i == program[pc]
  IN  Request(i.op = "store", i.addr, IF i.op = "store" THEN StoreData(i) ELSE Num(0))

\* An access leaves the core where it is.
LEMMA AccessMade ==
  ASSUME FlowInv, Accesses
  PROVE  /\ access' = TheRequest /\ rdata_q' = Registered(TheRequest)
         /\ Hardware(TheRequest, {}) /\ MadeBy(program[pc], TheRequest)
         /\ UNCHANGED <<loaded, pc, acc, kept, flags>>
         /\ pc \in 1 .. Len(program) /\ access.valid = FALSE
         /\ program \in Codes(image) /\ program' = program
         /\ TheRequest.valid = TRUE /\ TheRequest.we = (program[pc].op = "store")
         /\ TheRequest.port = Port(program[pc].addr)
<1>1. Issue(program[pc]) /\ Execute
  BY DEF Accesses
<1>2. /\ program[pc].op \in {"load", "store"}
      /\ access' = TheRequest /\ rdata_q' = Registered(TheRequest) /\ Hardware(TheRequest, {})
      /\ UNCHANGED <<others, pc, acc, kept, flags>>
  BY <1>1 DEF Issue, TheRequest
<1>3. program' = program /\ loaded' = loaded
  BY <1>2 DEF program, image, others, flags
<1>4. MadeBy(program[pc], TheRequest)
  BY <1>2 DEF MadeBy, TheRequest, Request
<1>5. /\ TheRequest.valid = TRUE /\ TheRequest.we = (program[pc].op = "store")
      /\ TheRequest.port = Port(program[pc].addr)
  BY DEF TheRequest, Request
<1> QED
  BY <1>1, <1>2, <1>3, <1>4, <1>5, Fetched DEF FlowInv

\* A store changes a register only if its address is that of the register.
LEMMA WritesStored ==
  ASSUME NEW port, NEW offset, Writes(TheRequest, port, offset)
  PROVE  StoresTo(program[pc], port, offset)
<1> DEFINE i == program[pc]
<1>1. i.op = "store"
  BY DEF Writes, TheRequest, Request
<1>2. Writes(Request(TRUE, i.addr, Num(0)), port, offset)
  BY <1>1 DEF Writes, TheRequest, Request
<1> QED
  BY <1>1, <1>2 DEF StoresTo

\* A structured image keeps the core's invariant.
LEMMA CoreStep ==
  ASSUME FlowInv, Structured(image), [Next]_vars
  PROVE  CoreInv'
<1>1. /\ loaded' = loaded /\ loaded \in DOMAIN Images
      /\ handling' \in Causes \cup {0} /\ (handling' # 0 => MIE' = FALSE)
      /\ asleep' \in BOOLEAN /\ SkipInv' /\ "pc" \in DOMAIN frame'
  BY StepFlows DEF FlowInv, CoreInv
<1>2. asleep' = TRUE => pc' \in 1 .. Len(program') /\ program'[pc'].op = "wfi"
  BY StepFlows DEF program, image
<1>3. CASE UNCHANGED vars
  BY <1>1, <1>3 DEF vars, core, FlowInv, CoreInv, program, image
<1>4. CASE Unaccessed
  BY <1>1, <1>2, <1>4 DEF Unaccessed, CoreInv
<1>5. CASE Accesses
  BY <1>1, <1>2, <1>5, AccessMade DEF CoreInv
<1> QED
  BY <1>3, <1>4, <1>5, StepAccesses

\* The boot address is changed by the program's stores of constants only.
LEMMA BootAddrStored ==
  ASSUME FlowInv, Structured(image), Accesses,
         Writes(TheRequest, "SOCCTRL", SOC_CTRL.BOOTADDR)
  PROVE  TheRequest.wdata.num \in BootAddrs(image)
<1>1. /\ StoresTo(program[pc], "SOCCTRL", SOC_CTRL.BOOTADDR)
      /\ pc \in 1 .. Len(program) /\ program[pc].op = "store"
  BY WritesStored, AccessMade DEF StoresTo
<1>2. CASE handling = 0
  <2>1. program = image.code
    BY <1>2 DEF program
  <2>2. program[pc].part = "constant"
    BY <1>1, <2>1 DEF Structured
  <2>3. StoreData(program[pc]) = program[pc].value
    BY <2>2 DEF StoreData
  <2>4. TheRequest.wdata = program[pc].value
    BY <1>1, <2>3, StoreRequest DEF TheRequest
  <2> QED
    BY <1>1, <2>1, <2>4 DEF BootAddrs
<1>3. CASE handling # 0
  <2>1. program = image.handlers[handling] /\ handling \in Causes
    BY <1>3 DEF program, FlowInv, CoreInv
  <2>2. Quiet(program, handling)
    BY <2>1 DEF Structured
  <2> QED
    BY <1>1, <2>2 DEF Quiet
<1> QED
  BY <1>2, <1>3

\* A load of the boot address returns it.
LEMMA BootAddrRead ==
  ASSUME FlowInv, handling = 0, access.valid = TRUE, pc \in 1 .. Len(image.code),
         image.code[pc] = Load(BOOTADDR)
  PROVE  ReadData = Num(boot_addr)
<1>1. PICK word : access = Request(FALSE, BOOTADDR, word)
  <2>1. MadeBy(Load(BOOTADDR), access)
    BY DEF FlowInv, CoreInv, program
  <2> QED
    BY <2>1 DEF MadeBy, Load
<1>2. access.we = FALSE
  BY <1>1, LoadRequest
<1>3. access.port = "SOCCTRL" /\ access.offset = SOC_CTRL.BOOTADDR
  BY <1>1, BootRequest
<1>4. ReadData = SocCtrlReadData
  BY <1>3 DEF ReadData
<1>5. soc_ctrl_access = access
  BY <1>2, <1>3 DEF FlowInv, JumpInv
<1> QED
  BY <1>3, <1>4, <1>5 DEF SocCtrlReadData, SOC_CTRL

\* A structured image jumps to its targets only.
LEMMA JumpStep ==
  ASSUME FlowInv, Structured(image), [Next]_vars
  PROVE  JumpInv'
<1> USE DEF FlowInv, JumpInv
<1>1. boot_addr' \in BootAddrs(image)
  <2>1. CASE UNCHANGED vars
    BY <2>1 DEF vars, soc_ctrl
  <2>2. ASSUME NEW req, NEW ignored, Hardware(req, ignored),
               ~Writes(req, "SOCCTRL", SOC_CTRL.BOOTADDR)
        PROVE  boot_addr' = boot_addr
    BY <2>2 DEF Hardware, SocCtrlCycle, SocCtrlWrites
  <2>3. CASE Unaccessed
    <3>1. ~Writes(NoRequest, "SOCCTRL", SOC_CTRL.BOOTADDR)
      BY DEF Writes, NoRequest
    <3>2. Request(TRUE, ClintReg(CLINT.MSIP), Bits({0})).port = "CLINT"
      BY WakeRequest
    <3> QED
      BY <2>2, <2>3, <3>1, <3>2 DEF Unaccessed, Writes
  <2>4. CASE Accesses
    <3>1. Hardware(TheRequest, {})
      BY <2>4, AccessMade
    <3>2. CASE Writes(TheRequest, "SOCCTRL", SOC_CTRL.BOOTADDR)
      <4>1. boot_addr' = TheRequest.wdata.num
        BY <3>1, <3>2 DEF Hardware, SocCtrlCycle, SocCtrlWrites
      <4> QED
        BY <2>4, <3>2, <4>1, BootAddrStored
    <3> QED
      BY <2>2, <3>1, <3>2
  <2> QED
    BY <2>1, <2>3, <2>4, StepAccesses
<1>2. (access'.valid = TRUE /\ access'.we = FALSE /\ access'.port = "SOCCTRL")
         => soc_ctrl_access' = access'
  <2>1. CASE UNCHANGED vars
    BY <2>1 DEF vars, core, soc_ctrl
  <2>2. CASE Unaccessed
    BY <2>2 DEF Unaccessed
  <2>3. CASE Accesses
    BY <2>3, AccessMade DEF Hardware, SocCtrlCycle
  <2> QED
    BY <2>1, <2>2, <2>3, StepAccesses
<1>3. image' = image
  BY StepFlows DEF image
<1>4. ASSUME Jumps(image, main_pc')
      PROVE  main_acc'.num \in JumpTargets(image)
  <2>1. CASE UNCHANGED main
    BY <1>4, <2>1 DEF main
  <2>2. /\ main_pc' \in 1 .. Len(image.code) /\ main_pc' > 1 /\ main_pc' \notin Entries(image)
        /\ \/ image.code[main_pc' - 1] = Load(BOOTADDR)
           \/ TakesConstant(image.code[main_pc' - 1])
    BY <1>4 DEF Structured, Jumps
  <2>3. CASE Enters
    BY <2>2, <2>3 DEF Enters
  <2>4. CASE Advances
    <3>1. /\ handling = 0 /\ main_pc' = pc + 1 /\ main_acc' = acc'
          /\ pc \in 1 .. Len(image.code) /\ Does(image.code[pc])
      BY <2>4 DEF Advances, main_pc, main_acc
    <3>2. main_pc' - 1 = pc
      BY <3>1
    <3>3. CASE image.code[pc] = Load(BOOTADDR)
      <4>1. acc' = ReadData /\ access.valid = TRUE
        BY <3>1, <3>3 DEF Does, Load
      <4>2. ReadData = Num(boot_addr)
        BY <3>1, <3>3, <4>1, BootAddrRead
      <4> QED
        BY <3>1, <4>1, <4>2 DEF Num, JumpTargets
    <3>4. CASE TakesConstant(image.code[pc])
      <4>1. acc' = image.code[pc].value
        BY <3>1, <3>4 DEF Does, TakesConstant, Computed
      <4>2. Jumps(image, pc + 1)
        BY <1>4, <3>1
      <4> QED
        BY <3>1, <3>4, <4>1, <4>2 DEF JumpTargets
    <3> QED
      BY <2>2, <3>2, <3>3, <3>4
  <2> QED
    BY <2>1, <2>3, <2>4, StepFlows DEF Flows
<1> QED
  BY <1>1, <1>2, <1>3, <1>4

\* Both hold at reset.
LEMMA FlowInit ==
  ASSUME Init, Structured(image)
  PROVE  FlowInv
<1>1. ~Jumps(image, main_pc)
  <2>1. main_pc = 1
    BY DEF Init, main_pc
  <2> QED
    BY <2>1 DEF Structured, Jumps
<1>2. SkipInv /\ "pc" \in DOMAIN frame
  BY DEF Init, SkipInv, NoFrame, Faults, LOAD_FAULT, STORE_FAULT
<1>3. boot_addr \in BootAddrs(image)
  BY DEF Init, SocCtrlInit, BootAddrs
<1> QED
  BY <1>1, <1>2, <1>3 DEF Init, FlowInv, CoreInv, JumpInv, NoRequest

-----------------------------------------------------------------------------
(* The time that is read.                                                   *)

\* A time is made of its halves.
LEMMA Halves ==
  ASSUME NEW t \in Nat
  PROVE  /\ High(t) \in Nat /\ Low(t) \in Nat
         /\ Low(t) <= HalfMax /\ Joined(High(t), Low(t)) = t
<1> DEFINE n == HalfMax + 1
<1>1. n \in Nat \ {0} /\ n - 1 = HalfMax
  BY HalfMaxAssumption
<1> HIDE DEF n
<1>2. t \div n \in Nat /\ t % n \in 0 .. (n - 1)
  BY <1>1
<1>3. (t \div n) * n + (t % n) = t
  BY <1>1
<1> QED
  BY <1>1, <1>2, <1>3 DEF High, Low, Joined, n

\* The high half never falls while the time goes on.
LEMMA HighGrows ==
  ASSUME NEW t \in Nat, NEW u \in Nat, t <= u
  PROVE  High(t) <= High(u)
<1> DEFINE n == HalfMax + 1
           h == High(t)
           g == High(u)
<1>1. n \in Nat /\ h \in Nat /\ g \in Nat
  BY Halves, HalfMaxAssumption
<1>2. h * n <= t /\ u < g * n + n
  BY Halves, HalfMaxAssumption DEF Joined
<1> HIDE DEF n, h, g
<1>3. SUFFICES ASSUME g + 1 <= h PROVE FALSE
  BY <1>1 DEF h, g
<1>4. (g + 1) * n <= h * n
  BY <1>1, <1>3
<1>5. (g + 1) * n = g * n + n
  BY <1>1
<1>6. g * n \in Nat /\ h * n \in Nat
  BY <1>1
<1> QED
  BY <1>1, <1>2, <1>4, <1>5, <1>6

\* A high half read earlier makes no later time than it is now.
LEMMA OldHighHalf ==
  ASSUME NEW h \in Nat, NEW t \in Nat, h <= High(t)
  PROVE  Joined(h, Low(t)) <= t
<1> DEFINE n == HalfMax + 1
           g == High(t)
           l == Low(t)
<1>1. n \in Nat /\ g \in Nat /\ l \in Nat /\ g * n + l = t
  BY Halves, HalfMaxAssumption DEF Joined
<1>2. h <= g
  OBVIOUS
<1> HIDE DEF n, g, l
<1>3. h * n <= g * n
  BY <1>1, <1>2
<1>4. h * n \in Nat /\ g * n \in Nat
  BY <1>1
<1>5. h * n + l <= t
  BY <1>1, <1>3, <1>4
<1> QED
  BY <1>5 DEF Joined, n, l

HighRead(h)    == h \in Nat /\ h <= High(mtime)
TimeRead(h, l) == h \in Nat /\ l \in Nat /\ Joined(h, l) <= mtime

Responding(n) == main_pc = n /\ handling = 0 /\ access.valid = TRUE

\* What main() knows of the time while it is in clint_get_mtime.
TimeInv ==
  /\ mtime \in Nat
  /\ \A p \in 1 .. Len(image.code) : Calls(image, clint_get_mtime, p) =>
       /\ Responding(p)     => HighRead(rdata_q.num)
       /\ main_pc = p + 1   => HighRead(main_acc.num)
       /\ main_pc = p + 2   => HighRead(main_kept.num)
       /\ Responding(p + 2) => TimeRead(main_kept.num, rdata_q.num)
       /\ main_pc = p + 3   => TimeRead(main_kept.num, main_acc.num)
       /\ main_pc = p + 4   => main_acc.num \in Nat /\ main_acc.num <= mtime

\* The instructions of clint_get_mtime where it is called.
LEMMA TimeCode ==
  ASSUME NEW im, NEW p \in Nat, Calls(im, clint_get_mtime, p)
  PROVE  /\ im.code[p] = Load(ClintReg(CLINT.MTIME_HIGH))
         /\ im.code[p + 1] = Keep
         /\ im.code[p + 2] = Load(ClintReg(CLINT.MTIME_LOW))
         /\ im.code[p + 3] = Join
         /\ \A k \in 1 .. 4 : p + k \notin Entries(im)
<1>1. /\ Len(clint_get_mtime) = 5
      /\ clint_get_mtime[1] = Load(ClintReg(CLINT.MTIME_HIGH))
      /\ clint_get_mtime[2] = Keep
      /\ clint_get_mtime[3] = Load(ClintReg(CLINT.MTIME_LOW))
      /\ clint_get_mtime[4] = Join
  BY DEF clint_get_mtime
<1>2. /\ \A k \in 1 .. 5 : im.code[p + k - 1] = clint_get_mtime[k]
      /\ \A k \in 2 .. 5 : p + k - 1 \notin Entries(im)
  BY <1>1 DEF Calls
<1>3. /\ im.code[p + 1 - 1] = clint_get_mtime[1] /\ im.code[p + 2 - 1] = clint_get_mtime[2]
      /\ im.code[p + 3 - 1] = clint_get_mtime[3] /\ im.code[p + 4 - 1] = clint_get_mtime[4]
  BY <1>2
<1>4. p + 1 - 1 = p /\ p + 2 - 1 = p + 1 /\ p + 3 - 1 = p + 2 /\ p + 4 - 1 = p + 3
  OBVIOUS
<1>5. ASSUME NEW k \in 1 .. 4 PROVE p + k \notin Entries(im)
  <2>1. k + 1 \in 2 .. 5 /\ p + (k + 1) - 1 = p + k
    OBVIOUS
  <2> QED
    BY <1>2, <2>1
<1> QED
  BY <1>1, <1>3, <1>4, <1>5

\* The time is counted by the slow clock alone.
LEMMA TimeTyped ==
  ASSUME FlowInv, mtime \in Nat, [Next]_vars
  PROVE  mtime' \in Nat
<1>1. TimeMax \in Nat
  BY HalfMaxAssumption DEF TimeMax, Joined
<1>2. ASSUME NEW req, NEW ignored, Hardware(req, ignored)
      PROVE  mtime' \in Nat
  <2>1. mtime' = mtime \/ mtime' = (mtime + 1) % (TimeMax + 1)
    BY <1>2 DEF Hardware, ClintCycle
  <2> QED
    BY <1>1, <2>1
<1>3. CASE UNCHANGED vars
  BY <1>3 DEF vars, clint
<1>4. CASE Unaccessed
  BY <1>2, <1>4 DEF Unaccessed
<1>5. CASE Accesses
  BY <1>2, <1>5, AccessMade
<1> QED
  BY <1>3, <1>4, <1>5, StepAccesses

\* main() comes to an instruction that is no entry from the one before it.
LEMMA FromBefore ==
  ASSUME FlowInv, Structured(image), [Next]_vars,
         NEW n \in Nat, main_pc' = n + 1, n + 1 \notin Entries(image)
  PROVE  UNCHANGED main
           \/ /\ handling = 0 /\ handling' = 0 /\ pc = n /\ main_pc = n
              /\ Does(image.code[n])
              /\ main_acc = acc /\ main_kept = kept /\ main_acc' = acc' /\ main_kept' = kept'
<1>1. CASE Enters
  BY <1>1 DEF Enters, main_pc
<1>2. CASE Advances
  BY <1>2 DEF Advances, main_pc, main_acc, main_kept
<1> QED
  BY <1>1, <1>2, StepFlows DEF Flows

\* An access that begins does not move main().
LEMMA RespondsAfter ==
  ASSUME FlowInv, Structured(image), [Next]_vars, NEW n, Responding(n)'
  PROVE  UNCHANGED vars \/ (Accesses /\ UNCHANGED main /\ main_pc = n /\ handling = 0
                              /\ pc = n /\ program = image.code)
<1>1. CASE Unaccessed
  BY <1>1 DEF Unaccessed, Responding
<1>2. CASE Accesses
  BY <1>2, AccessMade DEF Responding, main, main_pc, main_acc, main_kept, flags, program
<1> QED
  BY <1>1, <1>2, StepAccesses

\* A load of one of the halves of the time registers that half.
LEMMA HalfLoaded ==
  ASSUME FlowInv, Accesses,
         NEW offset \in {CLINT.MTIME_LOW, CLINT.MTIME_HIGH},
         program[pc] = Load(ClintReg(offset))
  PROVE  rdata_q' = IF offset = CLINT.MTIME_LOW THEN Num(Low(mtime)) ELSE Num(High(mtime))
<1> DEFINE req == Request(FALSE, ClintReg(offset), Num(0))
<1>1. TheRequest = req
  <2>1. program[pc].op = "load" /\ program[pc].addr = ClintReg(offset)
    BY DEF Load
  <2> QED
    BY <2>1 DEF TheRequest, Request
<1>2. req.we = FALSE /\ req.port = "CLINT" /\ req.offset = offset
  <2>1. req.we = FALSE
    BY LoadRequest
  <2>2. offset \in ClintRegs
    BY DEF ClintRegs
  <2>3. req.port = "CLINT" /\ req.offset = offset
    BY <2>2, ClintRequest
  <2> QED
    BY <2>1, <2>3
<1> HIDE DEF req
<1>3. Registered(req) = ClintReadData(req)
  BY <1>2 DEF Registered
<1>4. ClintReadData(req) = IF offset = CLINT.MTIME_LOW THEN Num(Low(mtime)) ELSE Num(High(mtime))
  BY <1>2 DEF ClintReadData, CLINT
<1> QED
  BY <1>1, <1>3, <1>4, AccessMade

\* The response to it is what was registered.
LEMMA HalfRead ==
  ASSUME FlowInv, handling = 0, access.valid = TRUE,
         NEW offset \in {CLINT.MTIME_LOW, CLINT.MTIME_HIGH},
         image.code[pc] = Load(ClintReg(offset))
  PROVE  ReadData = rdata_q
<1>1. access.port = Port(ClintReg(offset))
  <2>1. program[pc].addr = ClintReg(offset)
    BY DEF program, Load
  <2> QED
    BY <2>1, AccessedPort DEF FlowInv
<1>2. access.port = "CLINT"
  <2> DEFINE req == Request(FALSE, ClintReg(offset), Num(0))
  <2>1. req.port = Port(ClintReg(offset))
    BY LoadRequest
  <2>2. offset \in ClintRegs
    BY DEF ClintRegs
  <2>3. req.port = "CLINT"
    BY <2>2, ClintRequest
  <2> QED
    BY <1>1, <2>1, <2>3
<1> QED
  BY <1>2 DEF ReadData

\* Every half that has been read stays a half of a time that has come.
LEMMA TimeStep ==
  ASSUME FlowInv, Structured(image), TimeInv, [Next]_vars, mtime' >= mtime
  PROVE  TimeInv'
<1>1. mtime \in Nat /\ mtime' \in Nat
  BY TimeTyped DEF TimeInv
<1>2. image' = image
  BY StepFlows DEF image
<1>3. \A h : HighRead(h) => h \in Nat /\ h <= High(mtime')
  <2>1. High(mtime) <= High(mtime') /\ High(mtime) \in Nat /\ High(mtime') \in Nat
    BY <1>1, HighGrows, Halves
  <2> QED
    BY <2>1 DEF HighRead
<1>4. \A h, l : TimeRead(h, l) => h \in Nat /\ l \in Nat /\ Joined(h, l) <= mtime'
  <2> SUFFICES ASSUME NEW h, NEW l, TimeRead(h, l)
               PROVE  h \in Nat /\ l \in Nat /\ Joined(h, l) <= mtime'
    OBVIOUS
  <2>1. Joined(h, l) \in Nat
    BY HalfMaxAssumption DEF Joined, TimeRead
  <2> QED
    BY <1>1, <2>1 DEF TimeRead
<1>5. ASSUME NEW p \in 1 .. Len(image.code), Calls(image, clint_get_mtime, p)
      PROVE  /\ Responding(p)'      => HighRead(rdata_q.num)'
             /\ main_pc' = p + 1    => HighRead(main_acc.num)'
             /\ main_pc' = p + 2    => HighRead(main_kept.num)'
             /\ Responding(p + 2)'  => TimeRead(main_kept.num, rdata_q.num)'
             /\ main_pc' = p + 3    => TimeRead(main_kept.num, main_acc.num)'
             /\ main_pc' = p + 4    => main_acc'.num \in Nat /\ main_acc'.num <= mtime'
  <2>1. /\ image.code[p] = Load(ClintReg(CLINT.MTIME_HIGH))
        /\ image.code[p + 1] = Keep
        /\ image.code[p + 2] = Load(ClintReg(CLINT.MTIME_LOW))
        /\ image.code[p + 3] = Join
        /\ \A k \in 1 .. 4 : p + k \notin Entries(image)
    BY <1>5, TimeCode
  <2>2. /\ Responding(p)     => HighRead(rdata_q.num)
        /\ main_pc = p + 1   => HighRead(main_acc.num)
        /\ main_pc = p + 2   => HighRead(main_kept.num)
        /\ Responding(p + 2) => TimeRead(main_kept.num, rdata_q.num)
        /\ main_pc = p + 3   => TimeRead(main_kept.num, main_acc.num)
        /\ main_pc = p + 4   => main_acc.num \in Nat /\ main_acc.num <= mtime
    BY <1>5 DEF TimeInv
  <2>3. \A n \in Nat : n \in {p, p + 1, p + 2, p + 3} /\ main_pc' = n + 1 =>
          \/ UNCHANGED main
          \/ /\ handling = 0 /\ handling' = 0 /\ pc = n /\ main_pc = n
             /\ Does(image.code[n])
             /\ main_acc = acc /\ main_kept = kept /\ main_acc' = acc' /\ main_kept' = kept'
    <3> SUFFICES ASSUME NEW n \in Nat, n \in {p, p + 1, p + 2, p + 3}, main_pc' = n + 1
                 PROVE  \/ UNCHANGED main
                        \/ /\ handling = 0 /\ handling' = 0 /\ pc = n /\ main_pc = n
                           /\ Does(image.code[n]) /\ main_acc = acc /\ main_kept = kept
                           /\ main_acc' = acc' /\ main_kept' = kept'
      OBVIOUS
    <3>1. n + 1 \notin Entries(image)
      <4>1. PICK k \in 1 .. 4 : n + 1 = p + k
        OBVIOUS
      <4> QED
        BY <2>1, <4>1
    <3> QED
      BY <3>1, FromBefore
  <2>4. Responding(p)' => HighRead(rdata_q.num)'
    <3> SUFFICES ASSUME Responding(p)' PROVE HighRead(rdata_q.num)'
      OBVIOUS
    <3>1. CASE UNCHANGED vars
      BY <2>2, <3>1 DEF vars, core, clint, Responding, main_pc, HighRead
    <3>2. CASE Accesses /\ program = image.code /\ pc = p
      <4>1. rdata_q' = Num(High(mtime))
        BY <2>1, <3>2, HalfLoaded DEF CLINT
      <4>2. HighRead(rdata_q'.num)
        BY <1>1, <4>1, Halves DEF Num, HighRead
      <4> QED
        BY <1>3, <4>2 DEF HighRead
    <3> QED
      BY <3>1, <3>2, RespondsAfter
  <2>5. main_pc' = p + 1 => HighRead(main_acc.num)'
    <3> SUFFICES ASSUME main_pc' = p + 1 PROVE HighRead(main_acc.num)'
      OBVIOUS
    <3>1. CASE UNCHANGED main
      BY <1>3, <2>2, <3>1 DEF main, HighRead
    <3>2. CASE handling = 0 /\ pc = p /\ main_pc = p /\ Does(image.code[p]) /\ main_acc' = acc'
      <4>1. access.valid = TRUE /\ acc' = ReadData
        BY <2>1, <3>2 DEF Does, Load
      <4>2. acc' = rdata_q
        BY <2>1, <3>2, <4>1, HalfRead
      <4>3. HighRead(rdata_q.num)
        BY <2>2, <3>2, <4>1 DEF Responding
      <4> QED
        BY <1>3, <3>2, <4>2, <4>3 DEF HighRead
    <3> QED
      BY <2>3, <3>1, <3>2
  <2>6. main_pc' = p + 2 => HighRead(main_kept.num)'
    <3> SUFFICES ASSUME main_pc' = p + 2 PROVE HighRead(main_kept.num)'
      OBVIOUS
    <3>1. CASE UNCHANGED main
      BY <1>3, <2>2, <3>1 DEF main, HighRead
    <3>2. CASE /\ main_pc = p + 1 /\ Does(image.code[p + 1])
               /\ main_acc = acc /\ main_kept' = kept'
      <4>1. kept' = acc
        BY <2>1, <3>2 DEF Does, Keep
      <4> QED
        BY <1>3, <2>2, <3>2, <4>1 DEF HighRead
    <3>3. main_pc' = (p + 1) + 1
      OBVIOUS
    <3> QED
      BY <2>3, <3>1, <3>2, <3>3
  <2>7. Responding(p + 2)' => TimeRead(main_kept.num, rdata_q.num)'
    <3> SUFFICES ASSUME Responding(p + 2)' PROVE TimeRead(main_kept.num, rdata_q.num)'
      OBVIOUS
    <3>1. CASE UNCHANGED vars
      BY <2>2, <3>1 DEF vars, core, clint, Responding, main_pc, main_kept, TimeRead
    <3>2. CASE Accesses /\ program = image.code /\ pc = p + 2 /\ UNCHANGED main /\ main_pc = p + 2
      <4>1. rdata_q' = Num(Low(mtime))
        BY <2>1, <3>2, HalfLoaded
      <4>2. HighRead(main_kept.num) /\ main_kept' = main_kept
        BY <2>2, <3>2 DEF main
      <4>3. TimeRead(main_kept.num, Low(mtime))
        BY <1>1, <4>2, Halves, OldHighHalf DEF TimeRead, HighRead
      <4>4. rdata_q'.num = Low(mtime)
        BY <4>1 DEF Num
      <4> QED
        BY <1>4, <4>2, <4>3, <4>4 DEF TimeRead
    <3> QED
      BY <3>1, <3>2, RespondsAfter
  <2>8. main_pc' = p + 3 => TimeRead(main_kept.num, main_acc.num)'
    <3> SUFFICES ASSUME main_pc' = p + 3 PROVE TimeRead(main_kept.num, main_acc.num)'
      OBVIOUS
    <3>1. CASE UNCHANGED main
      BY <1>4, <2>2, <3>1 DEF main, TimeRead
    <3>2. CASE /\ handling = 0 /\ pc = p + 2 /\ main_pc = p + 2 /\ Does(image.code[p + 2])
               /\ main_kept = kept /\ main_acc' = acc' /\ main_kept' = kept'
      <4>1. access.valid = TRUE /\ acc' = ReadData /\ kept' = kept
        BY <2>1, <3>2 DEF Does, Load
      <4>2. acc' = rdata_q
        BY <2>1, <3>2, <4>1, HalfRead
      <4>3. TimeRead(main_kept.num, rdata_q.num)
        BY <2>2, <3>2, <4>1 DEF Responding
      <4> QED
        BY <1>4, <3>2, <4>1, <4>2, <4>3 DEF TimeRead
    <3>3. main_pc' = (p + 2) + 1
      OBVIOUS
    <3> QED
      BY <2>3, <3>1, <3>2, <3>3
  <2>9. main_pc' = p + 4 => main_acc'.num \in Nat /\ main_acc'.num <= mtime'
    <3> SUFFICES ASSUME main_pc' = p + 4
                 PROVE  main_acc'.num \in Nat /\ main_acc'.num <= mtime'
      OBVIOUS
    <3>1. CASE UNCHANGED main
      BY <1>1, <2>2, <3>1 DEF main
    <3>2. CASE /\ main_pc = p + 3 /\ Does(image.code[p + 3])
               /\ main_acc = acc /\ main_kept = kept /\ main_acc' = acc'
      <4>1. acc' = Num(Joined(kept.num, acc.num))
        BY <2>1, <3>2 DEF Does, Join, Computed
      <4>2. TimeRead(kept.num, acc.num)
        BY <2>2, <3>2
      <4>3. Joined(kept.num, acc.num) \in Nat
        BY <4>2, HalfMaxAssumption DEF Joined, TimeRead
      <4> QED
        BY <1>4, <3>2, <4>1, <4>2, <4>3 DEF Num
    <3>3. main_pc' = (p + 3) + 1
      OBVIOUS
    <3> QED
      BY <2>3, <3>1, <3>2, <3>3
  <2> QED
    BY <2>4, <2>5, <2>6, <2>7, <2>8, <2>9
<1> QED
  BY <1>1, <1>2, <1>5 DEF TimeInv

\* The image stays the one that was loaded.
LEMMA LoadedStays ==
  ASSUME [Next]_vars
  PROVE  loaded' = loaded
  BY DEF Next, Execute, Issue, Internal, Stall, Respond, Fault, TakeInterrupt, Trap, Mret,
    Sleep, WakeUp, DebugPoll, DebugWake, Finished, others, vars

\* Nothing of the time is read at reset.
LEMMA TimeInit ==
  ASSUME Init
  PROVE  TimeInv
<1>1. main_pc = 1 /\ access.valid = FALSE /\ mtime \in Nat
  BY DEF Init, main_pc, ClintInit, NoRequest
<1> QED
  BY <1>1 DEF TimeInv, Responding

ReadsTime(im) == \E n \in 1 .. Len(im.code) : LeavesAt(im.code, n, "clint_get_mtime")

TimeSafe == loaded \in DOMAIN Images /\ (ReadsTime(image) => FlowInv /\ TimeInv)

\* The time goes on: 2^64 ticks of a slow clock do not pass.
NoWrap == mtime' >= mtime

\* Whatever images run, however long the core is held up and whatever
\* interrupts it between the two reads of clint_get_mtime, the time that the
\* function returns has come, provided that it is called as a function and
\* that handlers return to where they came from (clint.c, clint.sv).
THEOREM TimeHasCome ==
  ASSUME TimeReadByDriver(Images)
  PROVE  Spec /\ [][NoWrap]_vars => []TimeNotAhead
<1>1. ReadsTime(image) /\ loaded \in DOMAIN Images => Structured(image)
  BY DEF ReadsTime, TimeReadByDriver, image
<1>2. Init => TimeSafe
  <2> SUFFICES ASSUME Init PROVE TimeSafe
    OBVIOUS
  <2>1. loaded \in DOMAIN Images
    BY DEF Init
  <2>2. ASSUME ReadsTime(image) PROVE FlowInv /\ TimeInv
    BY <1>1, <2>1, <2>2, FlowInit, TimeInit
  <2> QED
    BY <2>1, <2>2 DEF TimeSafe
<1>3. TimeSafe /\ [Next]_vars /\ [NoWrap]_vars => TimeSafe'
  <2> SUFFICES ASSUME TimeSafe, [Next]_vars, [NoWrap]_vars PROVE TimeSafe'
    OBVIOUS
  <2>1. loaded' = loaded /\ image' = image /\ loaded \in DOMAIN Images
    BY LoadedStays DEF TimeSafe, image
  <2>2. ASSUME ReadsTime(image) PROVE FlowInv' /\ TimeInv'
    <3>1. FlowInv /\ TimeInv /\ Structured(image)
      BY <1>1, <2>2 DEF TimeSafe
    <3>2. mtime' >= mtime
      BY <3>1 DEF NoWrap, vars, clint, TimeInv
    <3> QED
      BY <3>1, <3>2, CoreStep, JumpStep, TimeStep DEF FlowInv
  <2> QED
    BY <2>1, <2>2 DEF TimeSafe, ReadsTime
<1>4. TimeSafe => TimeNotAhead
  <2> SUFFICES ASSUME TimeSafe, Leaves("clint_get_mtime") PROVE acc.num <= mtime
    BY DEF TimeNotAhead
  <2>1. /\ handling = 0 /\ loaded \in DOMAIN Images /\ pc \in 1 .. Len(image.code)
        /\ LeavesAt(image.code, pc, "clint_get_mtime")
    BY DEF Leaves, program, TimeSafe, LeavesAt
  <2>2. pc > 4 /\ Calls(image, clint_get_mtime, pc - 4)
    BY <2>1 DEF TimeReadByDriver, image
  <2>3. TimeInv
    BY <2>1 DEF TimeSafe, ReadsTime
  <2>4. pc - 4 \in 1 .. Len(image.code) /\ main_pc = (pc - 4) + 4 /\ main_acc = acc
    BY <2>1, <2>2 DEF main_pc, main_acc
  <2> QED
    BY <2>2, <2>3, <2>4 DEF TimeInv
<1> QED
  BY <1>2, <1>3, <1>4, PTL DEF Spec

-----------------------------------------------------------------------------
(* The edges that are recorded.                                             *)

\* The function of gpio.c that sets pins up for an edge, and what it makes of
\* the register that selects the edges.
Enables(edge, mask) ==
  IF edge = "rising" THEN gpio_enable_rising_interrupts(mask)
                     ELSE gpio_enable_falling_interrupts(mask)

Selection(edge, reg, mask) == IF edge = "rising" THEN reg \cup mask ELSE reg \ mask
Selected(edge, reg, mask)  == IF edge = "rising" THEN mask \subseteq reg ELSE mask \cap reg = {}

AskedPins(edge) == IF edge = "rising" THEN image.rising ELSE image.falling

\* A selection selects, and selecting once more changes nothing.
LEMMA SelectionSelects ==
  ASSUME NEW edge, NEW reg, NEW mask
  PROVE  /\ Selected(edge, Selection(edge, reg, mask), mask)
         /\ Selection(edge, Selection(edge, reg, mask), mask) = Selection(edge, reg, mask)
  BY DEF Selected, Selection

\* What main() has done while it is in one of the two functions.
EnableInv(edge, mask, p) ==
  /\ main_pc = p + 1 => main_acc.bits = intrpt_edge
  /\ main_pc = p + 2 => main_acc.bits = Selection(edge, intrpt_edge, mask)
  /\ Responding(p + 2) \/ main_pc \in {p + 3, p + 4, p + 5} => Selected(edge, intrpt_edge, mask)
  /\ main_pc = p + 4 => main_acc.bits = intrpt_en
  /\ main_pc = p + 5 => main_acc.bits = intrpt_en \cup mask

AskedInv ==
  /\ image.rising \cap intrpt_en \subseteq intrpt_edge
  /\ image.falling \cap intrpt_en \cap intrpt_edge = {}
  /\ (access.valid = TRUE /\ access.we = FALSE /\ access.port = "GPIO") => gpio_access = access
  /\ \A p \in 1 .. Len(image.code) : \A edge \in {"rising", "falling"} :
       \A mask \in SUBSET AskedPins(edge) :
         Calls(image, Enables(edge, mask), p) => EnableInv(edge, mask, p)

\* The instructions of the two functions where they are called.
LEMMA EnableCode ==
  ASSUME NEW im, NEW p \in Nat, NEW edge \in {"rising", "falling"}, NEW mask,
         Calls(im, Enables(edge, mask), p)
  PROVE  /\ im.code[p] = Load(GpioReg(GPIO.INTRPT_EDGE))
         /\ im.code[p + 1] = (IF edge = "rising" THEN Or(mask) ELSE AndNot(mask))
         /\ im.code[p + 2] = StorePart(GpioReg(GPIO.INTRPT_EDGE), "acc")
         /\ im.code[p + 3] = Load(GpioReg(GPIO.INTRPT_EN))
         /\ im.code[p + 4] = Or(mask)
         /\ im.code[p + 5] = StorePart(GpioReg(GPIO.INTRPT_EN), "acc")
         /\ \A k \in 1 .. 5 : p + k \notin Entries(im)
<1> DEFINE f == Enables(edge, mask)
<1>1. /\ Len(f) = 6
      /\ f[1] = Load(GpioReg(GPIO.INTRPT_EDGE))
      /\ f[2] = (IF edge = "rising" THEN Or(mask) ELSE AndNot(mask))
      /\ f[3] = StorePart(GpioReg(GPIO.INTRPT_EDGE), "acc")
      /\ f[4] = Load(GpioReg(GPIO.INTRPT_EN))
      /\ f[5] = Or(mask)
      /\ f[6] = StorePart(GpioReg(GPIO.INTRPT_EN), "acc")
  <2>1. CASE edge = "rising"
    BY <2>1 DEF Enables, gpio_enable_rising_interrupts, SetBits
  <2>2. CASE edge = "falling"
    BY <2>2 DEF Enables, gpio_enable_falling_interrupts, SetBits, ClearBits
  <2> QED
    BY <2>1, <2>2
<1> HIDE DEF f
<1>2. /\ \A k \in 1 .. 6 : im.code[p + k - 1] = f[k]
      /\ \A k \in 2 .. 6 : p + k - 1 \notin Entries(im)
  BY <1>1 DEF Calls, f
<1>3. /\ im.code[p + 1 - 1] = f[1] /\ im.code[p + 2 - 1] = f[2] /\ im.code[p + 3 - 1] = f[3]
      /\ im.code[p + 4 - 1] = f[4] /\ im.code[p + 5 - 1] = f[5] /\ im.code[p + 6 - 1] = f[6]
  BY <1>2
<1>4. /\ p + 1 - 1 = p     /\ p + 2 - 1 = p + 1 /\ p + 3 - 1 = p + 2
      /\ p + 4 - 1 = p + 3 /\ p + 5 - 1 = p + 4 /\ p + 6 - 1 = p + 5
  OBVIOUS
<1>5. ASSUME NEW k \in 1 .. 5 PROVE p + k \notin Entries(im)
  <2>1. k + 1 \in 2 .. 6 /\ p + (k + 1) - 1 = p + k
    OBVIOUS
  <2> QED
    BY <1>2, <2>1
<1> QED
  BY <1>1, <1>3, <1>4, <1>5

\* The two registers change only by a store to them.
LEMMA EdgesStay ==
  ASSUME FlowInv, [Next]_vars, ~(Accesses /\ StoresEdges(program[pc]))
  PROVE  intrpt_edge' = intrpt_edge /\ intrpt_en' = intrpt_en
<1>1. ASSUME NEW req, NEW ignored, Hardware(req, ignored),
             ~Writes(req, "GPIO", GPIO.INTRPT_EDGE), ~Writes(req, "GPIO", GPIO.INTRPT_EN)
      PROVE  intrpt_edge' = intrpt_edge /\ intrpt_en' = intrpt_en
  BY <1>1 DEF Hardware, GpioCycle, Updated, GpioWrites
<1>2. CASE UNCHANGED vars
  BY <1>2 DEF vars, gpio
<1>3. CASE Unaccessed
  <2>1. \A offset : ~Writes(NoRequest, "GPIO", offset)
    BY DEF Writes, NoRequest
  <2>2. Request(TRUE, ClintReg(CLINT.MSIP), Bits({0})).port = "CLINT"
    BY WakeRequest
  <2>3. \A offset : ~Writes(Request(TRUE, ClintReg(CLINT.MSIP), Bits({0})), "GPIO", offset)
    BY <2>2 DEF Writes
  <2> QED
    BY <1>1, <1>3, <2>1, <2>3 DEF Unaccessed
<1>4. CASE Accesses
  <2>1. ~StoresEdges(program[pc])
    BY <1>4
  <2>2. /\ ~Writes(TheRequest, "GPIO", GPIO.INTRPT_EDGE)
        /\ ~Writes(TheRequest, "GPIO", GPIO.INTRPT_EN)
    BY <2>1, WritesStored DEF StoresEdges
  <2> QED
    BY <1>1, <1>4, <2>2, AccessMade
<1> QED
  BY <1>2, <1>3, <1>4, StepAccesses

\* A store of acc to one of them.
LEMMA EdgesStored ==
  ASSUME FlowInv, Accesses, NEW offset \in {GPIO.INTRPT_EDGE, GPIO.INTRPT_EN},
         program[pc] = StorePart(GpioReg(offset), "acc")
  PROVE  /\ intrpt_edge' = IF offset = GPIO.INTRPT_EDGE THEN acc.bits ELSE intrpt_edge
         /\ intrpt_en' = IF offset = GPIO.INTRPT_EN THEN acc.bits ELSE intrpt_en
<1> DEFINE req == Request(TRUE, GpioReg(offset), acc)
<1>1. TheRequest = req
  <2>1. /\ program[pc].op = "store" /\ program[pc].addr = GpioReg(offset)
        /\ program[pc].part = "acc"
    BY DEF StorePart
  <2>2. StoreData(program[pc]) = acc
    BY <2>1 DEF StoreData
  <2> QED
    BY <2>1, <2>2 DEF TheRequest, Request
<1>2. req.valid = TRUE /\ req.we = TRUE /\ req.wdata = acc
  BY StoreRequest
<1>3. req.port = "GPIO" /\ req.offset = offset
  <2>1. offset \in GpioRegs
    BY DEF GpioRegs
  <2> QED
    BY <2>1, GpioRequest
<1>4. Hardware(req, {})
  BY <1>1, AccessMade
<1> HIDE DEF req
<1> QED
  BY <1>2, <1>3, <1>4 DEF Hardware, GpioCycle, Updated, GpioWrites, Writes, GPIO

\* What a load of one of them returns.
LEMMA EdgesRead ==
  ASSUME FlowInv, AskedInv, handling = 0, access.valid = TRUE,
         NEW offset \in {GPIO.INTRPT_EDGE, GPIO.INTRPT_EN},
         pc \in 1 .. Len(image.code), image.code[pc] = Load(GpioReg(offset))
  PROVE  ReadData.bits = IF offset = GPIO.INTRPT_EDGE THEN intrpt_edge ELSE intrpt_en
<1>1. MadeBy(Load(GpioReg(offset)), access)
  BY DEF FlowInv, CoreInv, program
<1>2. PICK word : access = Request(FALSE, GpioReg(offset), word)
  BY <1>1 DEF MadeBy, Load
<1>3. access.we = FALSE
  BY <1>2, LoadRequest
<1>4. access.port = "GPIO" /\ access.offset = offset
  <2>1. offset \in GpioRegs
    BY DEF GpioRegs
  <2>2. /\ Request(FALSE, GpioReg(offset), word).port = "GPIO"
        /\ Request(FALSE, GpioReg(offset), word).offset = offset
    BY <2>1, GpioRequest
  <2> QED
    BY <1>2, <2>2
<1>5. ReadData = GpioReadData
  BY <1>4 DEF ReadData
<1>6. GpioReadData = Bits(IF offset = GPIO.INTRPT_EDGE THEN intrpt_edge ELSE intrpt_en)
  BY <1>3, <1>4 DEF AskedInv, GpioReadData, GPIO
<1> QED
  BY <1>5, <1>6 DEF Bits

\* What the theorem asks of an image that watches pins.
Asks(im) == im.rising \cup im.falling # {}

\* Only main() stores to the two registers, in the two functions.
LEMMA StoredByMain ==
  ASSUME EdgesAskedByDriver(Images), Asks(image), FlowInv, Accesses, StoresEdges(program[pc])
  PROVE  /\ handling = 0 /\ program = image.code /\ pc \in 1 .. Len(image.code)
         /\ \E p \in 1 .. pc, edge \in {"rising", "falling"} :
              \E mask \in SUBSET AskedPins(edge) :
                (pc = p + 2 \/ pc = p + 5) /\ Calls(image, Enables(edge, mask), p)
<1>1. pc \in 1 .. Len(program) /\ loaded \in DOMAIN Images /\ handling \in Causes \cup {0}
  BY AccessMade DEF FlowInv, CoreInv
<1>2. handling = 0
  <2> SUFFICES ASSUME handling # 0 PROVE FALSE
    OBVIOUS
  <2>1. program = image.handlers[handling] /\ handling \in Causes
    BY <1>1 DEF program
  <2> QED
    BY <1>1, <2>1 DEF EdgesAskedByDriver, Asks, image
<1>3. program = image.code
  BY <1>2 DEF program
<1>4. PICK p \in {pc - 2, pc - 5} \cap (1 .. pc) : AsksRising(image, p) \/ AsksFalling(image, p)
  BY <1>1, <1>3 DEF EdgesAskedByDriver, Asks, image
<1>5. p \in 1 .. pc /\ (pc = p + 2 \/ pc = p + 5)
  BY <1>1
<1>6. CASE AsksRising(image, p)
  <2>1. PICK mask \in SUBSET image.rising : Calls(image, gpio_enable_rising_interrupts(mask), p)
    BY <1>6 DEF AsksRising
  <2>2. Calls(image, Enables("rising", mask), p) /\ mask \in SUBSET AskedPins("rising")
    BY <2>1 DEF Enables, AskedPins
  <2> QED
    BY <1>1, <1>2, <1>3, <1>5, <2>2
<1>7. CASE AsksFalling(image, p)
  <2>1. PICK mask \in SUBSET image.falling : Calls(image, gpio_enable_falling_interrupts(mask), p)
    BY <1>7 DEF AsksFalling
  <2>2. Calls(image, Enables("falling", mask), p) /\ mask \in SUBSET AskedPins("falling")
    BY <2>1 DEF Enables, AskedPins
  <2> QED
    BY <1>1, <1>2, <1>3, <1>5, <2>2
<1> QED
  BY <1>4, <1>6, <1>7

\* A store of the registers selects the edge of pins, or enables pins whose
\* edge is selected.
LEMMA PinsStep ==
  ASSUME EdgesAskedByDriver(Images), Asks(image), FlowInv, AskedInv, [Next]_vars
  PROVE  /\ image.rising \cap intrpt_en' \subseteq intrpt_edge'
         /\ image.falling \cap intrpt_en' \cap intrpt_edge' = {}
<1>1. CASE ~(Accesses /\ StoresEdges(program[pc]))
  BY <1>1, EdgesStay DEF AskedInv
<1>2. CASE Accesses /\ StoresEdges(program[pc])
  <2>1. handling = 0 /\ program = image.code /\ pc \in 1 .. Len(image.code)
    BY <1>2, StoredByMain
  <2>2. PICK p \in 1 .. pc, edge \in {"rising", "falling"} :
          \E mask \in SUBSET AskedPins(edge) :
            (pc = p + 2 \/ pc = p + 5) /\ Calls(image, Enables(edge, mask), p)
    BY <1>2, StoredByMain
  <2>3. PICK mask \in SUBSET AskedPins(edge) :
          (pc = p + 2 \/ pc = p + 5) /\ Calls(image, Enables(edge, mask), p)
    BY <2>2
  <2>4. EnableInv(edge, mask, p) /\ main_pc = pc /\ main_acc = acc
    <3>1. p \in 1 .. Len(image.code)
      BY <2>1
    <3> QED
      BY <2>1, <2>3, <3>1 DEF AskedInv, main_pc, main_acc
  <2>5. /\ image.code[p + 2] = StorePart(GpioReg(GPIO.INTRPT_EDGE), "acc")
        /\ image.code[p + 5] = StorePart(GpioReg(GPIO.INTRPT_EN), "acc")
    BY <2>3, EnableCode
  <2>6. image.rising \cap image.falling = {} /\ mask \subseteq AskedPins(edge)
    <3>1. loaded \in DOMAIN Images
      BY DEF FlowInv, CoreInv
    <3> QED
      BY <3>1 DEF EdgesAskedByDriver, Asks, image
  <2>7. CASE pc = p + 2
    <3>1. intrpt_edge' = acc.bits /\ intrpt_en' = intrpt_en
      BY <1>2, <2>1, <2>5, <2>7, EdgesStored DEF GPIO
    <3>2. acc.bits = Selection(edge, intrpt_edge, mask)
      BY <2>4, <2>7 DEF EnableInv
    <3> QED
      BY <2>6, <3>1, <3>2 DEF AskedInv, Selection, AskedPins
  <2>8. CASE pc = p + 5
    <3>1. intrpt_en' = acc.bits /\ intrpt_edge' = intrpt_edge
      BY <1>2, <2>1, <2>5, <2>8, EdgesStored DEF GPIO
    <3>2. acc.bits = intrpt_en \cup mask
      BY <2>4, <2>8 DEF EnableInv
    <3>3. Selected(edge, intrpt_edge, mask)
      BY <2>4, <2>8 DEF EnableInv
    <3> QED
      BY <2>6, <3>1, <3>2, <3>3 DEF AskedInv, Selected, AskedPins
  <2> QED
    BY <2>3, <2>7, <2>8
<1> QED
  BY <1>1, <1>2

\* A store in one of the two functions does what main() has prepared.
LEMMA EnableStores ==
  ASSUME FlowInv, Structured(image), Accesses, StoresEdges(program[pc]),
         handling = 0, program = image.code,
         NEW p \in Nat, NEW edge \in {"rising", "falling"}, NEW mask,
         Calls(image, Enables(edge, mask), p), EnableInv(edge, mask, p)
  PROVE  EnableInv(edge, mask, p)'
<1>1. UNCHANGED main /\ main_pc = pc /\ main_acc = acc
  BY AccessMade DEF main, main_pc, main_acc, main_kept, flags
<1>2. /\ image.code[p + 1] = (IF edge = "rising" THEN Or(mask) ELSE AndNot(mask))
      /\ image.code[p + 2] = StorePart(GpioReg(GPIO.INTRPT_EDGE), "acc")
      /\ image.code[p + 3] = Load(GpioReg(GPIO.INTRPT_EN))
      /\ image.code[p + 4] = Or(mask)
      /\ image.code[p + 5] = StorePart(GpioReg(GPIO.INTRPT_EN), "acc")
  BY EnableCode
<1>3. image.code[pc].op = "store"
  BY DEF StoresEdges, StoresTo
<1>4. pc # p + 1 /\ pc # p + 3 /\ pc # p + 4
  BY <1>2, <1>3 DEF Or, AndNot, Load
<1>5. CASE pc = p + 2
  <2>1. intrpt_edge' = acc.bits
    BY <1>2, <1>5, EdgesStored
  <2>2. acc.bits = Selection(edge, intrpt_edge, mask)
    BY <1>1, <1>5 DEF EnableInv
  <2>3. /\ Selected(edge, intrpt_edge', mask)
        /\ Selection(edge, intrpt_edge', mask) = acc.bits
    BY <2>1, <2>2, SelectionSelects
  <2>4. main_pc' = p + 2 /\ main_acc' = acc
    BY <1>1, <1>5 DEF main
  <2> QED
    BY <2>3, <2>4 DEF EnableInv, Selected, Selection
<1>6. CASE pc = p + 5
  <2>1. intrpt_en' = acc.bits /\ intrpt_edge' = intrpt_edge
    BY <1>2, <1>6, EdgesStored DEF GPIO
  <2>2. acc.bits = intrpt_en \cup mask /\ Selected(edge, intrpt_edge, mask)
    BY <1>1, <1>6 DEF EnableInv
  <2>3. main_pc' = p + 5 /\ main_acc' = acc
    BY <1>1, <1>6 DEF main
  <2> QED
    BY <2>1, <2>2, <2>3 DEF EnableInv, Selected
<1>7. CASE pc # p + 2 /\ pc # p + 5
  BY <1>1, <1>4, <1>7 DEF main, EnableInv, Responding
<1> QED
  BY <1>5, <1>6, <1>7

\* Every other step prepares or keeps it.
LEMMA EnableStep ==
  ASSUME FlowInv, Structured(image), AskedInv, [Next]_vars,
         ~(Accesses /\ StoresEdges(program[pc])),
         NEW p \in 1 .. Len(image.code), NEW edge \in {"rising", "falling"}, NEW mask,
         Calls(image, Enables(edge, mask), p), EnableInv(edge, mask, p)
  PROVE  EnableInv(edge, mask, p)'
<1>1. intrpt_edge' = intrpt_edge /\ intrpt_en' = intrpt_en
  BY EdgesStay
<1>2. /\ image.code[p] = Load(GpioReg(GPIO.INTRPT_EDGE))
      /\ image.code[p + 1] = (IF edge = "rising" THEN Or(mask) ELSE AndNot(mask))
      /\ image.code[p + 2] = StorePart(GpioReg(GPIO.INTRPT_EDGE), "acc")
      /\ image.code[p + 3] = Load(GpioReg(GPIO.INTRPT_EN))
      /\ image.code[p + 4] = Or(mask)
      /\ image.code[p + 5] = StorePart(GpioReg(GPIO.INTRPT_EN), "acc")
      /\ \A k \in 1 .. 5 : p + k \notin Entries(image)
  BY EnableCode
<1>3. \A n \in Nat : n \in {p, p + 1, p + 2, p + 3, p + 4} /\ main_pc' = n + 1 =>
        \/ UNCHANGED main
        \/ /\ handling = 0 /\ pc = n /\ main_pc = n /\ Does(image.code[n])
           /\ main_acc = acc /\ main_acc' = acc'
  <2> SUFFICES ASSUME NEW n \in Nat, n \in {p, p + 1, p + 2, p + 3, p + 4}, main_pc' = n + 1
               PROVE  \/ UNCHANGED main
                      \/ /\ handling = 0 /\ pc = n /\ main_pc = n /\ Does(image.code[n])
                         /\ main_acc = acc /\ main_acc' = acc'
    OBVIOUS
  <2>1. n + 1 \notin Entries(image)
    <3>1. PICK k \in 1 .. 5 : n + 1 = p + k
      OBVIOUS
    <3> QED
      BY <1>2, <3>1
  <2> QED
    BY <2>1, FromBefore
<1>4. p + 4 \in 1 .. Len(image.code) /\ p + 3 \in 1 .. Len(image.code)
  <2>1. Len(Enables(edge, mask)) = 6
    <3>1. CASE edge = "rising"
      BY <3>1 DEF Enables, gpio_enable_rising_interrupts, SetBits
    <3>2. CASE edge = "falling"
      BY <3>2 DEF Enables, gpio_enable_falling_interrupts, SetBits, ClearBits
    <3> QED
      BY <3>1, <3>2
  <2>2. p + 6 - 1 <= Len(image.code)
    BY <2>1 DEF Calls
  <2> QED
    BY <2>2
<1>5. main_pc' = p + 1 => main_acc'.bits = intrpt_edge'
  <2> SUFFICES ASSUME main_pc' = p + 1 PROVE main_acc'.bits = intrpt_edge'
    OBVIOUS
  <2>1. CASE UNCHANGED main
    BY <1>1, <2>1 DEF main, EnableInv
  <2>2. CASE handling = 0 /\ pc = p /\ Does(image.code[p]) /\ main_acc' = acc'
    <3>1. access.valid = TRUE /\ acc' = ReadData
      BY <1>2, <2>2 DEF Does, Load
    <3>2. ReadData.bits = intrpt_edge
      BY <1>2, <2>2, <3>1, EdgesRead
    <3> QED
      BY <1>1, <2>2, <3>1, <3>2
  <2> QED
    BY <1>3, <2>1, <2>2
<1>6. main_pc' = p + 2 => main_acc'.bits = Selection(edge, intrpt_edge', mask)
  <2> SUFFICES ASSUME main_pc' = p + 2
               PROVE  main_acc'.bits = Selection(edge, intrpt_edge', mask)
    OBVIOUS
  <2>1. CASE UNCHANGED main
    BY <1>1, <2>1 DEF main, EnableInv
  <2>2. CASE /\ main_pc = p + 1 /\ Does(image.code[p + 1]) /\ main_acc = acc /\ main_acc' = acc'
    <3>1. acc.bits = intrpt_edge
      BY <2>2 DEF EnableInv
    <3>2. CASE edge = "rising"
      BY <1>1, <1>2, <2>2, <3>1, <3>2 DEF Does, Or, Computed, Bits, Selection
    <3>3. CASE edge = "falling"
      BY <1>1, <1>2, <2>2, <3>1, <3>3 DEF Does, AndNot, Computed, Bits, Selection
    <3> QED
      BY <3>2, <3>3
  <2>3. main_pc' = (p + 1) + 1
    OBVIOUS
  <2> QED
    BY <1>3, <2>1, <2>2, <2>3
<1>7. Responding(p + 2)' => Selected(edge, intrpt_edge', mask)
  <2> SUFFICES ASSUME Responding(p + 2)' PROVE Selected(edge, intrpt_edge', mask)
    OBVIOUS
  <2>1. CASE UNCHANGED vars
    BY <1>1, <2>1 DEF vars, core, Responding, main_pc, EnableInv
  <2>2. CASE Accesses /\ main_pc = p + 2 /\ handling = 0 /\ pc = p + 2 /\ program = image.code
    <3>1. intrpt_edge' = acc.bits
      BY <1>2, <2>2, EdgesStored
    <3>2. acc.bits = Selection(edge, intrpt_edge, mask)
      BY <2>2 DEF EnableInv, main_acc
    <3> QED
      BY <3>1, <3>2, SelectionSelects
  <2> QED
    BY <2>1, <2>2, RespondsAfter
<1>8. main_pc' \in {p + 3, p + 4, p + 5} => Selected(edge, intrpt_edge', mask)
  <2> SUFFICES ASSUME NEW n \in {p + 2, p + 3, p + 4}, main_pc' = n + 1
               PROVE  Selected(edge, intrpt_edge, mask)
    BY <1>1
  <2>1. CASE UNCHANGED main
    <3>1. main_pc \in {p + 3, p + 4, p + 5}
      BY <2>1 DEF main
    <3> QED
      BY <3>1 DEF EnableInv
  <2>2. CASE handling = 0 /\ main_pc = n /\ Does(image.code[n])
    <3>1. CASE n = p + 2
      <4>1. access.valid = TRUE
        BY <1>2, <2>2, <3>1 DEF Does, StorePart
      <4> QED
        BY <2>2, <3>1, <4>1 DEF EnableInv, Responding
    <3>2. CASE n # p + 2
      BY <2>2, <3>2 DEF EnableInv
    <3> QED
      BY <3>1, <3>2
  <2> QED
    BY <1>3, <2>1, <2>2
<1>9. main_pc' = p + 4 => main_acc'.bits = intrpt_en'
  <2> SUFFICES ASSUME main_pc' = p + 4 PROVE main_acc'.bits = intrpt_en'
    OBVIOUS
  <2>1. CASE UNCHANGED main
    BY <1>1, <2>1 DEF main, EnableInv
  <2>2. CASE handling = 0 /\ pc = p + 3 /\ Does(image.code[p + 3]) /\ main_acc' = acc'
    <3>1. access.valid = TRUE /\ acc' = ReadData
      BY <1>2, <2>2 DEF Does, Load
    <3>2. ReadData.bits = intrpt_en
      <4>1. GPIO.INTRPT_EN # GPIO.INTRPT_EDGE
        BY DEF GPIO
      <4>2. pc \in 1 .. Len(image.code) /\ image.code[pc] = Load(GpioReg(GPIO.INTRPT_EN))
        BY <1>2, <1>4, <2>2
      <4> QED
        BY <2>2, <3>1, <4>1, <4>2, EdgesRead
    <3> QED
      BY <1>1, <2>2, <3>1, <3>2
  <2>3. main_pc' = (p + 3) + 1
    OBVIOUS
  <2> QED
    BY <1>3, <2>1, <2>2, <2>3
<1>10. main_pc' = p + 5 => main_acc'.bits = intrpt_en' \cup mask
  <2> SUFFICES ASSUME main_pc' = p + 5 PROVE main_acc'.bits = intrpt_en' \cup mask
    OBVIOUS
  <2>1. CASE UNCHANGED main
    BY <1>1, <2>1 DEF main, EnableInv
  <2>2. CASE main_pc = p + 4 /\ Does(image.code[p + 4]) /\ main_acc = acc /\ main_acc' = acc'
    <3>1. acc.bits = intrpt_en
      BY <2>2 DEF EnableInv
    <3> QED
      BY <1>1, <1>2, <2>2, <3>1 DEF Does, Or, Computed, Bits
  <2>3. main_pc' = (p + 4) + 1
    OBVIOUS
  <2> QED
    BY <1>3, <2>1, <2>2, <2>3
<1>11. /\ main_pc' = p + 1 => main_acc'.bits = intrpt_edge'
       /\ main_pc' = p + 2 => main_acc'.bits = Selection(edge, intrpt_edge', mask)
       /\ Responding(p + 2)' \/ main_pc' \in {p + 3, p + 4, p + 5} =>
            Selected(edge, intrpt_edge', mask)
       /\ main_pc' = p + 4 => main_acc'.bits = intrpt_en'
       /\ main_pc' = p + 5 => main_acc'.bits = intrpt_en' \cup mask
  BY <1>5, <1>6, <1>7, <1>8, <1>9, <1>10
<1> QED
  BY <1>11 DEF EnableInv, Selected, Selection

\* Every step keeps enabled pins at the edge that was asked for.
LEMMA AskedStep ==
  ASSUME EdgesAskedByDriver(Images), Asks(image), FlowInv, Structured(image), AskedInv,
         [Next]_vars
  PROVE  AskedInv'
<1>1. image' = image
  BY LoadedStays DEF image
<1>2. /\ image.rising \cap intrpt_en' \subseteq intrpt_edge'
      /\ image.falling \cap intrpt_en' \cap intrpt_edge' = {}
  BY PinsStep
<1>3. (access'.valid = TRUE /\ access'.we = FALSE /\ access'.port = "GPIO")
         => gpio_access' = access'
  <2>1. CASE UNCHANGED vars
    BY <2>1 DEF vars, core, gpio, AskedInv
  <2>2. CASE Unaccessed
    BY <2>2 DEF Unaccessed
  <2>3. CASE Accesses
    BY <2>3, AccessMade DEF Hardware, GpioCycle
  <2> QED
    BY <2>1, <2>2, <2>3, StepAccesses
<1>4. ASSUME NEW p \in 1 .. Len(image.code), NEW edge \in {"rising", "falling"},
             NEW mask \in SUBSET AskedPins(edge), Calls(image, Enables(edge, mask), p)
      PROVE  EnableInv(edge, mask, p)'
  <2>1. EnableInv(edge, mask, p)
    BY <1>4 DEF AskedInv
  <2>2. CASE Accesses /\ StoresEdges(program[pc])
    <3>1. handling = 0 /\ program = image.code
      BY <2>2, StoredByMain
    <3> QED
      BY <1>4, <2>1, <2>2, <3>1, EnableStores
  <2>3. CASE ~(Accesses /\ StoresEdges(program[pc]))
    BY <1>4, <2>1, <2>3, EnableStep
  <2> QED
    BY <2>2, <2>3
<1>5. \A edge : AskedPins(edge)' = AskedPins(edge)
  BY <1>1 DEF AskedPins
<1> QED
  BY <1>1, <1>2, <1>3, <1>4, <1>5 DEF AskedInv

AskedSafe == loaded \in DOMAIN Images /\ (Asks(image) => FlowInv /\ AskedInv)

\* Whatever images run, whatever interrupts them while they set up their pins
\* and however the inputs change meanwhile, a pin that was set up for one edge
\* records no other, provided that the functions of gpio.c set it up and are
\* called as functions (gpio.c, gpio_reg_top.sv).
THEOREM EdgesWereAsked ==
  ASSUME EdgesAskedByDriver(Images)
  PROVE  Spec => []OnlyAskedEdges
<1>1. Asks(image) /\ loaded \in DOMAIN Images => Structured(image)
  BY DEF Asks, EdgesAskedByDriver, image
<1>2. Init => AskedSafe
  <2> SUFFICES ASSUME Init PROVE AskedSafe
    OBVIOUS
  <2>1. loaded \in DOMAIN Images
    BY DEF Init
  <2>2. ASSUME Asks(image) PROVE FlowInv /\ AskedInv
    <3>1. FlowInv
      BY <1>1, <2>1, <2>2, FlowInit
    <3>2. main_pc = 1 /\ access.valid = FALSE /\ intrpt_en = {}
      BY DEF Init, main_pc, GpioInit, NoRequest
    <3>3. \A p \in 1 .. Len(image.code) : \A edge, mask : EnableInv(edge, mask, p)
      BY <3>2 DEF EnableInv, Responding
    <3> QED
      BY <3>1, <3>2, <3>3 DEF AskedInv
  <2> QED
    BY <2>1, <2>2 DEF AskedSafe
<1>3. AskedSafe /\ [Next]_vars => AskedSafe'
  <2> SUFFICES ASSUME AskedSafe, [Next]_vars PROVE AskedSafe'
    OBVIOUS
  <2>1. loaded' = loaded /\ image' = image /\ loaded \in DOMAIN Images
    BY LoadedStays DEF AskedSafe, image
  <2>2. ASSUME Asks(image) PROVE FlowInv' /\ AskedInv'
    <3>1. FlowInv /\ AskedInv /\ Structured(image)
      BY <1>1, <2>2 DEF AskedSafe
    <3> QED
      BY <2>2, <3>1, CoreStep, JumpStep, AskedStep DEF FlowInv
  <2> QED
    BY <2>1, <2>2 DEF AskedSafe, Asks
<1>4. AskedSafe => OnlyAskedEdges
  <2> SUFFICES ASSUME AskedSafe PROVE OnlyAskedEdges
    OBVIOUS
  <2>1. CASE Asks(image)
    <3>1. /\ image.rising \cap intrpt_en \subseteq intrpt_edge
          /\ image.falling \cap intrpt_en \cap intrpt_edge = {}
      BY <2>1 DEF AskedSafe, AskedInv
    <3> QED
      BY <3>1 DEF OnlyAskedEdges, gpio_intrpt
  <2>2. CASE ~Asks(image)
    BY <2>2 DEF Asks, OnlyAskedEdges
  <2> QED
    BY <2>1, <2>2
<1> QED
  BY <1>2, <1>3, <1>4, PTL DEF Spec

-----------------------------------------------------------------------------
(* The alarm.                                                               *)

\* The high half of what is joined.
LEMMA HighOfJoined ==
  ASSUME NEW h \in Nat, NEW l \in 0 .. HalfMax
  PROVE  Joined(h, l) \in Nat /\ High(Joined(h, l)) = h
<1> DEFINE n == HalfMax + 1
           x == Joined(h, l)
           g == High(x)
           r == Low(x)
<1>1. n \in Nat /\ l \in Nat /\ l < n
  BY HalfMaxAssumption
<1>2. h * n \in Nat /\ x = h * n + l
  BY <1>1 DEF Joined
<1>3. x \in Nat
  BY <1>1, <1>2
<1>4. g \in Nat /\ r \in Nat /\ r < n /\ g * n + r = x
  <2>1. g \in Nat /\ r \in Nat /\ r <= HalfMax /\ Joined(g, r) = x
    <3> HIDE DEF x
    <3> QED
      BY <1>3, Halves
  <2> HIDE DEF x, g, r
  <2> QED
    BY <2>1, HalfMaxAssumption DEF Joined
<1> HIDE DEF n, x, g, r
<1>5. g * n \in Nat /\ (g + 1) * n = g * n + n /\ (h + 1) * n = h * n + n
  BY <1>1, <1>4
<1>6. CASE g + 1 <= h
  <2>1. (g + 1) * n <= h * n
    BY <1>1, <1>4, <1>6
  <2> QED
    BY <1>1, <1>2, <1>4, <1>5, <2>1
<1>7. CASE h + 1 <= g
  <2>1. (h + 1) * n <= g * n
    BY <1>1, <1>4, <1>7
  <2> QED
    BY <1>1, <1>2, <1>4, <1>5, <2>1
<1>8. g = h
  BY <1>4, <1>6, <1>7 DEF g, x
<1> QED
  BY <1>3, <1>8 DEF g, x

\* The new high half with the old low half: as late as one of the two alarms,
\* or the alarm goes back to a lower high half and a greater low half.
LEMMA TornAlarm ==
  ASSUME NEW old \in Nat, NEW new \in Nat,
         ~(High(new) < High(old) /\ Low(old) < Low(new))
  PROVE  /\ Joined(High(new), Low(old)) \in Nat
         /\ Joined(High(new), Low(old)) >= old \/ Joined(High(new), Low(old)) >= new
<1> DEFINE n == HalfMax + 1
           h == High(old)
           l == Low(old)
           g == High(new)
           m == Low(new)
<1>1. /\ n \in Nat /\ h \in Nat /\ l \in Nat /\ g \in Nat /\ m \in Nat /\ l < n
      /\ h * n + l = old /\ g * n + m = new
  <2>1. /\ h \in Nat /\ l \in Nat /\ l <= HalfMax /\ Joined(h, l) = old
        /\ g \in Nat /\ m \in Nat /\ Joined(g, m) = new
    BY Halves
  <2> HIDE DEF h, l, g, m
  <2> QED
    BY <2>1, HalfMaxAssumption DEF Joined
<1>2. ~(g < h /\ l < m)
  OBVIOUS
<1> HIDE DEF n, h, l, g, m
<1>3. h * n \in Nat /\ g * n \in Nat /\ g * n + l \in Nat
  BY <1>1
<1>4. CASE h <= g
  <2>1. h * n <= g * n
    BY <1>1, <1>4
  <2> QED
    BY <1>1, <1>3, <2>1 DEF Joined, n, l, g
<1>5. CASE m <= l
  BY <1>1, <1>3, <1>5 DEF Joined, n, l, g
<1> QED
  BY <1>1, <1>2, <1>4, <1>5

\* The two stores of clint_set_mtimecmp.
HighStore == StorePart(ClintReg(CLINT.MTIMECMP_HIGH0), "high")
LowStore  == StorePart(ClintReg(CLINT.MTIMECMP_LOW0), "low")

\* The instructions around a call with a constant.
LEMMA AlarmToCode ==
  ASSUME NEW im, NEW q \in Nat, SetsAlarmTo(im, q)
  PROVE  /\ q > 1 /\ q + 1 <= Len(im.code)
         /\ \E v \in 0 .. TimeMax : im.code[q - 1] = Take(Num(v))
         /\ im.code[q] = HighStore /\ im.code[q + 1] = LowStore
         /\ q \notin Entries(im) /\ q + 1 \notin Entries(im)
<1>1. PICK v \in 0 .. TimeMax : Calls(im, <<Take(Num(v))>> \o clint_set_mtimecmp, q - 1)
  BY DEF SetsAlarmTo
<1> DEFINE f == <<Take(Num(v))>> \o clint_set_mtimecmp
<1>2. Len(f) = 3 /\ f[1] = Take(Num(v)) /\ f[2] = HighStore /\ f[3] = LowStore
  BY DEF clint_set_mtimecmp, HighStore, LowStore
<1> HIDE DEF f
<1>3. /\ (q - 1) + 3 - 1 <= Len(im.code)
      /\ \A k \in 1 .. 3 : im.code[(q - 1) + k - 1] = f[k]
      /\ \A k \in 2 .. 3 : (q - 1) + k - 1 \notin Entries(im)
  BY <1>1, <1>2 DEF Calls, f
<1>4. /\ im.code[(q - 1) + 1 - 1] = f[1] /\ im.code[(q - 1) + 2 - 1] = f[2]
      /\ im.code[(q - 1) + 3 - 1] = f[3]
      /\ (q - 1) + 2 - 1 \notin Entries(im) /\ (q - 1) + 3 - 1 \notin Entries(im)
  BY <1>3
<1>5. (q - 1) + 1 - 1 = q - 1 /\ (q - 1) + 2 - 1 = q /\ (q - 1) + 3 - 1 = q + 1
  OBVIOUS
<1>6. q > 1
  BY DEF SetsAlarmTo
<1> QED
  BY <1>2, <1>3, <1>4, <1>5, <1>6

\* The instructions around a call with some ticks after the time.
LEMMA AlarmInCode ==
  ASSUME NEW im, NEW q \in Nat, SetsAlarmIn(im, q)
  PROVE  /\ q > 6 /\ q + 1 <= Len(im.code)
         /\ im.code[q - 2] = Leave("clint_get_mtime")
         /\ im.code[q - 1].op = "compute" /\ im.code[q - 1].f = "add"
         /\ im.code[q - 1].n \in Nat
         /\ im.code[q] = HighStore /\ im.code[q + 1] = LowStore
         /\ q - 1 \notin Entries(im) /\ q \notin Entries(im) /\ q + 1 \notin Entries(im)
         /\ Calls(im, clint_get_mtime, q - 6)
<1> DEFINE i == im.code[q - 1]
           g == clint_get_mtime
           f == g \o <<i>> \o clint_set_mtimecmp
           p == q - 6
<1>1. q > 6 /\ i.op = "compute" /\ i.f = "add" /\ i.n \in Nat /\ Calls(im, f, p)
  BY DEF SetsAlarmIn
<1>2. /\ Len(g) = 5 /\ Len(f) = 8
      /\ f[1] = g[1] /\ f[2] = g[2] /\ f[3] = g[3] /\ f[4] = g[4] /\ f[5] = g[5]
      /\ g[5] = Leave("clint_get_mtime") /\ f[7] = HighStore /\ f[8] = LowStore
  <2> HIDE DEF i
  <2> QED
    BY DEF clint_get_mtime, clint_set_mtimecmp, HighStore, LowStore
<1> HIDE DEF f, g
<1>3. /\ p + 8 - 1 <= Len(im.code)
      /\ \A k \in 1 .. 8 : im.code[p + k - 1] = f[k]
      /\ \A k \in 2 .. 8 : p + k - 1 \notin Entries(im)
  BY <1>1, <1>2 DEF Calls
<1>4. /\ im.code[p + 5 - 1] = f[5] /\ im.code[p + 7 - 1] = f[7] /\ im.code[p + 8 - 1] = f[8]
      /\ p + 6 - 1 \notin Entries(im) /\ p + 7 - 1 \notin Entries(im)
      /\ p + 8 - 1 \notin Entries(im)
  BY <1>3
<1>5. /\ p + 5 - 1 = q - 2 /\ p + 6 - 1 = q - 1 /\ p + 7 - 1 = q /\ p + 8 - 1 = q + 1
      /\ p + 5 - 1 <= p + 8 - 1
  OBVIOUS
<1>6. Calls(im, clint_get_mtime, p)
  <2>1. \A k \in 1 .. 5 : f[k] = g[k] /\ k \in 1 .. 8
    BY <1>2
  <2>2. \A k \in 1 .. 5 : im.code[p + k - 1] = g[k]
    BY <1>3, <2>1
  <2>3. p + 5 - 1 <= Len(im.code)
    <3>1. p \in Int /\ Len(im.code) >= p + 8 - 1
      BY <1>3
    <3> QED
      BY <1>3
  <2> QED
    BY <1>2, <1>3, <2>2, <2>3 DEF Calls, g
<1> QED
  BY <1>1, <1>2, <1>3, <1>4, <1>5, <1>6

\* The instructions of any call.
LEMMA AlarmCode ==
  ASSUME NEW im, NEW q \in Nat, SetsAlarm(im, q)
  PROVE  /\ q > 1 /\ q + 1 <= Len(im.code)
         /\ im.code[q] = HighStore /\ im.code[q + 1] = LowStore
         /\ q \notin Entries(im) /\ q + 1 \notin Entries(im)
<1>1. CASE SetsAlarmTo(im, q)
  BY <1>1, AlarmToCode
<1>2. CASE SetsAlarmIn(im, q)
  BY <1>2, AlarmInCode
<1> QED
  BY <1>1, <1>2 DEF SetsAlarm

\* Between the two stores.
Halfway(q) == Responding(q) \/ (main_pc = q + 1 /\ ~Responding(q + 1))

\* The alarm is the one asked for, or half of it while it is being set.
AlarmInv ==
  /\ asked.old \in 0 .. TimeMax /\ asked.new \in 0 .. TimeMax
  /\ \A q \in 1 .. Len(image.code) : SetsAlarm(image, q) =>
       /\ SetsAlarmIn(image, q) /\ main_pc = q - 1 => main_acc.num \in Nat
       /\ main_pc = q => main_acc.num \in 0 .. TimeMax
       /\ Responding(q) \/ main_pc = q + 1 => main_acc.num = asked.new
  /\ \/ mtimecmp = asked.new
     \/ /\ mtimecmp = Joined(High(asked.new), Low(asked.old))
        /\ \E q \in 1 .. Len(image.code) : SetsAlarm(image, q) /\ Halfway(q)

\* Both stores set a half of the alarm.
LEMMA StoresAre ==
  StoresAlarm(HighStore) /\ StoresAlarm(LowStore)
<1>1. CLINT.MTIMECMP_HIGH0 \in ClintRegs /\ CLINT.MTIMECMP_LOW0 \in ClintRegs
  BY DEF ClintRegs
<1>2. ASSUME NEW offset \in {CLINT.MTIMECMP_LOW0, CLINT.MTIMECMP_HIGH0}, NEW part
      PROVE  StoresAlarm(StorePart(ClintReg(offset), part))
  <2> DEFINE req == Request(TRUE, ClintReg(offset), Num(0))
  <2>1. req.port = "CLINT" /\ req.offset = offset
    BY <1>1, ClintRequest
  <2>2. req.valid = TRUE /\ req.we = TRUE
    BY StoreRequest
  <2>3. Writes(req, "CLINT", offset)
    BY <2>1, <2>2 DEF Writes
  <2> QED
    BY <2>3 DEF StoresAlarm, StoresTo, StorePart
<1> QED
  BY <1>2 DEF HighStore, LowStore

\* What a step asks of the peripherals, whatever image runs.
LEMMA StepRequests ==
  ASSUME [Next]_vars
  PROVE  \/ UNCHANGED vars
         \/ \E ignored : Hardware(NoRequest, ignored)
         \/ Hardware(Request(TRUE, ClintReg(CLINT.MSIP), Bits({0})), {})
         \/ Accesses /\ Hardware(TheRequest, {})
<1>1. CASE Execute /\ Issue(program[pc])
  BY <1>1 DEF Accesses, Issue, TheRequest
<1>2. CASE Execute /\ Internal(program[pc])
  BY <1>2 DEF Internal, Idle
<1>3. CASE Stall \/ Respond \/ Fault \/ TakeInterrupt \/ Mret \/ Sleep \/ WakeUp \/ DebugPoll
  BY <1>3 DEF Stall, Respond, Fault, TakeInterrupt, Trap, Mret, Sleep, WakeUp, DebugPoll, Idle
<1>4. CASE DebugWake
  BY <1>4 DEF DebugWake
<1>5. CASE Finished
  BY <1>5 DEF Finished
<1> QED
  BY <1>1, <1>2, <1>3, <1>4, <1>5 DEF Next, Execute

\* Only a store to the two registers changes the alarm.
LEMMA AlarmStays ==
  ASSUME [Next]_vars, ~(Accesses /\ StoresAlarm(program[pc]))
  PROVE  mtimecmp' = mtimecmp /\ asked' = asked
<1>1. ASSUME NEW req, NEW ignored, Hardware(req, ignored),
             ~Writes(req, "CLINT", CLINT.MTIMECMP_LOW0),
             ~Writes(req, "CLINT", CLINT.MTIMECMP_HIGH0)
      PROVE  mtimecmp' = mtimecmp /\ asked' = asked
  BY <1>1 DEF Hardware, ClintCycle, AlarmAsked, ClintWrites
<1>2. CASE UNCHANGED vars
  BY <1>2 DEF vars, clint
<1>3. CASE \E ignored : Hardware(NoRequest, ignored)
  <2>1. \A offset : ~Writes(NoRequest, "CLINT", offset)
    BY DEF Writes, NoRequest
  <2> QED
    BY <1>1, <1>3, <2>1
<1>4. CASE Hardware(Request(TRUE, ClintReg(CLINT.MSIP), Bits({0})), {})
  <2> DEFINE req == Request(TRUE, ClintReg(CLINT.MSIP), Bits({0}))
  <2>1. CLINT.MSIP \in ClintRegs
    BY DEF ClintRegs
  <2>2. req.offset = CLINT.MSIP
    BY <2>1, ClintRequest
  <2> HIDE DEF req
  <2>3. req.offset # CLINT.MTIMECMP_LOW0 /\ req.offset # CLINT.MTIMECMP_HIGH0
    BY <2>2 DEF CLINT
  <2>4. /\ ~Writes(req, "CLINT", CLINT.MTIMECMP_LOW0)
        /\ ~Writes(req, "CLINT", CLINT.MTIMECMP_HIGH0)
    BY <2>3 DEF Writes
  <2>5. Hardware(req, {})
    BY <1>4 DEF req
  <2> QED
    BY <1>1, <2>4, <2>5
<1>5. CASE Accesses /\ Hardware(TheRequest, {})
  <2>1. ~StoresAlarm(program[pc])
    BY <1>5
  <2>2. /\ ~Writes(TheRequest, "CLINT", CLINT.MTIMECMP_LOW0)
        /\ ~Writes(TheRequest, "CLINT", CLINT.MTIMECMP_HIGH0)
    BY <2>1, WritesStored DEF StoresAlarm
  <2> QED
    BY <1>1, <1>5, <2>2
<1> QED
  BY <1>2, <1>3, <1>4, <1>5, StepRequests

\* What the two stores do.
LEMMA AlarmWritten ==
  ASSUME FlowInv, Accesses
  PROVE  /\ program[pc] = HighStore => mtimecmp' = Joined(High(acc.num), Low(mtimecmp))
         /\ program[pc] = LowStore => mtimecmp' = Joined(High(mtimecmp), Low(acc.num))
         /\ program[pc] \in {HighStore, LowStore} =>
              asked' = IF asked.new = acc.num THEN asked
                       ELSE [old |-> asked.new, new |-> acc.num]
<1> USE DEF HighStore, LowStore
<1>1. CLINT.MTIMECMP_HIGH0 \in ClintRegs /\ CLINT.MTIMECMP_LOW0 \in ClintRegs
  BY DEF ClintRegs
<1>2. CASE program[pc] = HighStore
  <2> DEFINE req == Request(TRUE, ClintReg(CLINT.MTIMECMP_HIGH0), Num(High(acc.num)))
  <2>1. TheRequest = req
    <3>1. /\ program[pc].op = "store" /\ program[pc].addr = ClintReg(CLINT.MTIMECMP_HIGH0)
          /\ program[pc].part = "high"
      BY <1>2 DEF StorePart
    <3>2. StoreData(program[pc]) = Num(High(acc.num))
      BY <3>1 DEF StoreData
    <3> QED
      BY <3>1, <3>2 DEF TheRequest, Request
  <2>2. req.valid = TRUE /\ req.we = TRUE /\ req.wdata = Num(High(acc.num))
    BY StoreRequest
  <2>3. req.port = "CLINT" /\ req.offset = CLINT.MTIMECMP_HIGH0
    BY <1>1, ClintRequest
  <2>4. Hardware(req, {})
    BY <2>1, AccessMade
  <2> HIDE DEF req
  <2>5. /\ ClintWrites(req, CLINT.MTIMECMP_HIGH0) /\ ~ClintWrites(req, CLINT.MTIMECMP_LOW0)
        /\ req.wdata.num = High(acc.num)
    BY <2>2, <2>3 DEF ClintWrites, Writes, CLINT, Num
  <2>6. mtimecmp' = Joined(High(acc.num), Low(mtimecmp))
    BY <2>4, <2>5 DEF Hardware, ClintCycle
  <2>7. asked' = IF asked.new = acc.num THEN asked ELSE [old |-> asked.new, new |-> acc.num]
    BY <2>4, <2>5 DEF Hardware, AlarmAsked
  <2>8. program[pc] # LowStore
    BY <1>2 DEF StorePart
  <2> QED
    BY <2>6, <2>7, <2>8
<1>3. CASE program[pc] = LowStore
  <2> DEFINE req == Request(TRUE, ClintReg(CLINT.MTIMECMP_LOW0), Num(Low(acc.num)))
  <2>1. TheRequest = req
    <3>1. /\ program[pc].op = "store" /\ program[pc].addr = ClintReg(CLINT.MTIMECMP_LOW0)
          /\ program[pc].part = "low"
      BY <1>3 DEF StorePart
    <3>2. StoreData(program[pc]) = Num(Low(acc.num))
      BY <3>1 DEF StoreData
    <3> QED
      BY <3>1, <3>2 DEF TheRequest, Request
  <2>2. req.valid = TRUE /\ req.we = TRUE /\ req.wdata = Num(Low(acc.num))
    BY StoreRequest
  <2>3. req.port = "CLINT" /\ req.offset = CLINT.MTIMECMP_LOW0
    BY <1>1, ClintRequest
  <2>4. Hardware(req, {})
    BY <2>1, AccessMade
  <2> HIDE DEF req
  <2>5. ClintWrites(req, CLINT.MTIMECMP_LOW0) /\ req.wdata.num = Low(acc.num)
    BY <2>2, <2>3 DEF ClintWrites, Writes, Num
  <2>6. mtimecmp' = Joined(High(mtimecmp), Low(acc.num))
    BY <2>4, <2>5 DEF Hardware, ClintCycle
  <2>7. asked' = IF asked.new = acc.num THEN asked ELSE [old |-> asked.new, new |-> acc.num]
    BY <2>4, <2>5 DEF Hardware, AlarmAsked
  <2>8. program[pc] # HighStore
    BY <1>3 DEF StorePart
  <2> QED
    BY <2>6, <2>7, <2>8
<1> QED
  BY <1>2, <1>3

\* An access that is decoded is answered, and nothing comes in between.
LEMMA Answered ==
  ASSUME FlowInv, access.valid = TRUE, access.port # "ERROR", [Next]_vars
  PROVE  UNCHANGED vars \/ Respond
<1>1. asleep = FALSE
  BY AccessedPort DEF FlowInv, CoreInv
<1> QED
  BY <1>1 DEF Next, Execute, Between, Stall, Fault, TakeInterrupt, Interrupted, Mret, Sleep,
    WakeUp, DebugWake, Wakes, DebugPoll, Polls, Finished

\* Between the two stores, main() goes nowhere else.
LEMMA HalfwayStays ==
  ASSUME FlowInv, Structured(image), [Next]_vars, ~(Accesses /\ StoresAlarm(program[pc])),
         NEW q \in Nat, SetsAlarm(image, q), Halfway(q)
  PROVE  Halfway(q)'
<1>1. image.code[q] = HighStore /\ image.code[q + 1] = LowStore /\ q + 1 <= Len(image.code)
  BY AlarmCode
<1>2. CASE Responding(q)
  <2>1. handling = 0 /\ pc = q /\ access.valid = TRUE /\ program = image.code
    BY <1>2 DEF Responding, main_pc, program
  <2>2. access.port = "CLINT"
    <3>1. access.port = Port(ClintReg(CLINT.MTIMECMP_HIGH0))
      <4>1. program[pc].addr = ClintReg(CLINT.MTIMECMP_HIGH0)
        BY <1>1, <2>1 DEF HighStore, StorePart
      <4> QED
        BY <2>1, <4>1, AccessedPort DEF FlowInv
    <3>2. CLINT.MTIMECMP_HIGH0 \in ClintRegs
      BY DEF ClintRegs
    <3>3. Request(TRUE, ClintReg(CLINT.MTIMECMP_HIGH0), Num(0)).port = "CLINT"
      BY <3>2, ClintRequest
    <3>4. Request(TRUE, ClintReg(CLINT.MTIMECMP_HIGH0), Num(0)).port
            = Port(ClintReg(CLINT.MTIMECMP_HIGH0))
      BY StoreRequest
    <3> QED
      BY <3>1, <3>3, <3>4
  <2>3. CASE UNCHANGED vars
    BY <1>2, <2>3 DEF vars, core, Responding, Halfway, main_pc
  <2>4. CASE Respond
    <3>1. pc' = q + 1 /\ handling' = 0 /\ access' = NoRequest
      BY <2>1, <2>4 DEF Respond, flags
    <3> QED
      BY <3>1, RequestsAre DEF Halfway, Responding, main_pc
  <2> QED
    BY <2>1, <2>2, <2>3, <2>4, Answered
<1>3. CASE main_pc = q + 1 /\ ~Responding(q + 1)
  <2>1. StoresAlarm(image.code[q + 1])
    BY <1>1, StoresAre
  <2>2. ~Responding(q + 1)'
    <3> SUFFICES ASSUME Responding(q + 1)' PROVE FALSE
      OBVIOUS
    <3>1. CASE UNCHANGED vars
      BY <1>3, <3>1 DEF vars, core, Responding, main_pc
    <3>2. CASE Accesses /\ pc = q + 1 /\ program = image.code
      BY <2>1, <3>2
    <3> QED
      BY <3>1, <3>2, RespondsAfter
  <2>3. image.code[q + 1].op = "store"
    BY <1>1 DEF LowStore, StorePart
  <2>4. CASE UNCHANGED main
    BY <1>3, <2>2, <2>4 DEF main, Halfway
  <2>5. CASE Enters
    <3>1. ~Faulting(image, q + 1)
      <4>1. image.code[q + 1].addr = ClintReg(CLINT.MTIMECMP_LOW0)
        BY <1>1 DEF LowStore, StorePart
      <4>2. Port(ClintReg(CLINT.MTIMECMP_LOW0)) = "CLINT"
        <5>1. CLINT.MTIMECMP_LOW0 \in ClintRegs
          BY DEF ClintRegs
        <5>2. Request(TRUE, ClintReg(CLINT.MTIMECMP_LOW0), Num(0)).port = "CLINT"
          BY <5>1, ClintRequest
        <5> QED
          BY <5>2, StoreRequest
      <4> QED
        BY <4>1, <4>2 DEF Faulting
    <3> QED
      BY <1>3, <2>3, <2>5, <3>1 DEF Enters, main_pc
  <2>6. CASE Advances
    BY <1>3, <2>3, <2>6 DEF Advances, Does, Responding, main_pc
  <2> QED
    BY <2>4, <2>5, <2>6, StepFlows DEF Flows
<1> QED
  BY <1>2, <1>3 DEF Halfway

\* Every step but the two stores.
LEMMA AlarmKept ==
  ASSUME FlowInv, Structured(image), TimeInv, AlarmInv, [Next]_vars,
         ~(Accesses /\ StoresAlarm(program[pc]))
  PROVE  AlarmInv'
<1>1. mtimecmp' = mtimecmp /\ asked' = asked /\ image' = image
  BY AlarmStays, LoadedStays DEF image
<1>2. TimeMax \in Nat
  BY HalfMaxAssumption DEF TimeMax, Joined
<1>3. ASSUME NEW q \in 1 .. Len(image.code), SetsAlarm(image, q)
      PROVE  /\ SetsAlarmIn(image, q) /\ main_pc' = q - 1 => main_acc'.num \in Nat
             /\ main_pc' = q => main_acc'.num \in 0 .. TimeMax
             /\ Responding(q)' \/ main_pc' = q + 1 => main_acc'.num = asked.new
  <2>1. /\ q > 1 /\ image.code[q] = HighStore
        /\ q \notin Entries(image) /\ q + 1 \notin Entries(image)
    BY <1>3, AlarmCode
  <2>2. /\ SetsAlarmIn(image, q) /\ main_pc = q - 1 => main_acc.num \in Nat
        /\ main_pc = q => main_acc.num \in 0 .. TimeMax
        /\ Responding(q) \/ main_pc = q + 1 => main_acc.num = asked.new
    BY <1>3 DEF AlarmInv
  <2>3. ASSUME NEW n \in Nat, main_pc' = n + 1, n + 1 \notin Entries(image)
        PROVE  \/ UNCHANGED main
               \/ /\ handling = 0 /\ main_pc = n /\ Does(image.code[n])
                  /\ main_acc = acc /\ main_acc' = acc'
    BY <2>3, FromBefore
  <2>4. ASSUME SetsAlarmIn(image, q), main_pc' = q - 1
        PROVE  main_acc'.num \in Nat
    <3>1. /\ q > 6 /\ image.code[q - 2] = Leave("clint_get_mtime")
          /\ q - 1 \notin Entries(image) /\ Calls(image, clint_get_mtime, q - 6)
      BY <2>4, AlarmInCode
    <3>2. q - 2 \in Nat /\ (q - 2) + 1 = q - 1 /\ (q - 6) + 4 = q - 2
          /\ q - 6 \in 1 .. Len(image.code)
      BY <3>1
    <3>3. CASE UNCHANGED main
      BY <2>2, <2>4, <3>3 DEF main
    <3>4. CASE main_pc = q - 2 /\ Does(image.code[q - 2]) /\ main_acc = acc /\ main_acc' = acc'
      <4>1. acc' = acc
        BY <3>1, <3>4 DEF Does, Leave
      <4>2. main_acc.num \in Nat
        BY <3>1, <3>2, <3>4 DEF TimeInv
      <4> QED
        BY <3>4, <4>1, <4>2
    <3>5. main_pc' = (q - 2) + 1 /\ (q - 2) + 1 \notin Entries(image)
      BY <2>4, <3>1, <3>2
    <3> QED
      BY <2>3, <3>2, <3>3, <3>4, <3>5
  <2>5. ASSUME main_pc' = q
        PROVE  main_acc'.num \in 0 .. TimeMax
    <3>1. CASE UNCHANGED main
      BY <2>2, <2>5, <3>1 DEF main
    <3>2. CASE main_pc = q - 1 /\ Does(image.code[q - 1]) /\ main_acc = acc /\ main_acc' = acc'
      <4>1. CASE SetsAlarmTo(image, q)
        <5>1. PICK v \in 0 .. TimeMax : image.code[q - 1] = Take(Num(v))
          BY <4>1, AlarmToCode
        <5>2. acc' = Num(v)
          BY <3>2, <5>1 DEF Does, Take, Computed
        <5> QED
          BY <3>2, <5>2 DEF Num
      <4>2. CASE SetsAlarmIn(image, q)
        <5> DEFINE i == image.code[q - 1]
        <5>1. i.op = "compute" /\ i.f = "add" /\ i.n \in Nat
          BY <4>2, AlarmInCode
        <5>2. main_acc.num \in Nat
          BY <2>2, <3>2, <4>2
        <5> HIDE DEF i
        <5>3. acc' = Num((acc.num + i.n) % (TimeMax + 1))
          BY <3>2, <5>1 DEF Does, Computed, i
        <5>4. (acc.num + i.n) % (TimeMax + 1) \in 0 .. TimeMax
          BY <1>2, <3>2, <5>1, <5>2
        <5> QED
          BY <3>2, <5>3, <5>4 DEF Num
      <4> QED
        BY <1>3, <4>1, <4>2 DEF SetsAlarm
    <3>3. q - 1 \in Nat /\ main_pc' = (q - 1) + 1 /\ (q - 1) + 1 \notin Entries(image)
      BY <2>1, <2>5
    <3> QED
      BY <2>3, <3>1, <3>2, <3>3
  <2>6. ASSUME Responding(q)'
        PROVE  main_acc'.num = asked.new
    <3>1. CASE UNCHANGED vars
      BY <2>2, <2>6, <3>1 DEF vars, core, Responding, main_pc, main_acc
    <3>2. CASE Accesses /\ pc = q /\ program = image.code
      BY <2>1, <3>2, StoresAre
    <3> QED
      BY <2>6, <3>1, <3>2, RespondsAfter
  <2>7. ASSUME main_pc' = q + 1
        PROVE  main_acc'.num = asked.new
    <3>1. CASE UNCHANGED main
      BY <2>2, <2>7, <3>1 DEF main
    <3>2. CASE /\ handling = 0 /\ main_pc = q /\ Does(image.code[q])
               /\ main_acc = acc /\ main_acc' = acc'
      <4>1. access.valid = TRUE /\ acc' = acc
        BY <2>1, <3>2 DEF Does, HighStore, StorePart
      <4>2. Responding(q)
        BY <3>2, <4>1 DEF Responding
      <4> QED
        BY <2>2, <3>2, <4>1, <4>2
    <3> QED
      BY <2>1, <2>3, <2>7, <3>1, <3>2
  <2> QED
    BY <2>4, <2>5, <2>6, <2>7
<1>4. \/ mtimecmp = asked.new
      \/ /\ mtimecmp = Joined(High(asked.new), Low(asked.old))
         /\ \E q \in 1 .. Len(image.code) : SetsAlarm(image, q) /\ Halfway(q)'
  BY HalfwayStays DEF AlarmInv
<1> QED
  BY <1>1, <1>3, <1>4 DEF AlarmInv, Halfway, Responding

\* A store to the alarm is one of the two that main() makes.
LEMMA AlarmStoredByMain ==
  ASSUME AlarmSetByDriver(Images), SetsAlarms(image), FlowInv, Accesses,
         StoresAlarm(program[pc])
  PROVE  /\ handling = 0 /\ program = image.code /\ pc \in 1 .. Len(image.code)
         /\ SetsAlarm(image, pc) \/ SetsAlarm(image, pc - 1)
<1>1. pc \in 1 .. Len(program) /\ loaded \in DOMAIN Images /\ handling \in Causes \cup {0}
  BY AccessMade DEF FlowInv, CoreInv
<1>2. handling = 0
  <2> SUFFICES ASSUME handling # 0 PROVE FALSE
    OBVIOUS
  <2>1. program = image.handlers[handling] /\ handling \in Causes
    BY <1>1 DEF program
  <2> QED
    BY <1>1, <2>1 DEF AlarmSetByDriver, image
<1>3. program = image.code
  BY <1>2 DEF program
<1> QED
  BY <1>1, <1>2, <1>3 DEF AlarmSetByDriver, image

\* The two stores.
LEMMA AlarmSet ==
  ASSUME AlarmSetByDriver(Images), SetsAlarms(image), FlowInv, AlarmInv, [Next]_vars,
         Accesses, StoresAlarm(program[pc])
  PROVE  AlarmInv'
<1>1. /\ handling = 0 /\ program = image.code /\ pc \in 1 .. Len(image.code)
      /\ SetsAlarm(image, pc) \/ SetsAlarm(image, pc - 1)
  BY AlarmStoredByMain
<1>2. /\ image' = image /\ main' = main /\ main_pc = pc /\ main_acc = acc
      /\ access.valid = FALSE /\ \A n : n = pc => Responding(n)'
  <2>1. /\ UNCHANGED <<pc, acc, kept, flags>> /\ access'.valid = TRUE /\ access.valid = FALSE
    BY AccessMade
  <2> QED
    BY <1>1, <2>1, LoadedStays DEF image, main, main_pc, main_acc, main_kept, flags, Responding
<1>3. asked.old \in 0 .. TimeMax /\ asked.new \in 0 .. TimeMax
  BY DEF AlarmInv
<1>4. TimeMax \in Nat
  BY HalfMaxAssumption DEF TimeMax, Joined
<1> DEFINE v == acc.num
<1>5. ASSUME v \in 0 .. TimeMax, asked'.old \in 0 .. TimeMax, asked'.new = v,
             \/ mtimecmp' = asked'.new
             \/ /\ mtimecmp' = Joined(High(asked'.new), Low(asked'.old))
                /\ SetsAlarm(image, pc)
      PROVE  AlarmInv'
  <2>1. ASSUME NEW q \in 1 .. Len(image.code), SetsAlarm(image, q)
        PROVE  /\ SetsAlarmIn(image, q) /\ main_pc' = q - 1 => main_acc'.num \in Nat
               /\ main_pc' = q => main_acc'.num \in 0 .. TimeMax
               /\ Responding(q)' \/ main_pc' = q + 1 => main_acc'.num = asked'.new
    BY <1>2, <1>5, <2>1 DEF AlarmInv, main
  <2>2. mtimecmp' # asked'.new =>
          \E q \in 1 .. Len(image.code) : SetsAlarm(image, q) /\ Halfway(q)'
    <3>1. \A n : n = pc => Halfway(n)'
      BY <1>2 DEF Halfway
    <3>2. mtimecmp' # asked'.new => SetsAlarm(image, pc) /\ pc \in 1 .. Len(image.code)
      BY <1>1, <1>5
    <3> QED
      BY <3>1, <3>2
  <2> QED
    BY <1>2, <1>5, <2>1, <2>2 DEF AlarmInv
<1>6. CASE SetsAlarm(image, pc)
  <2>1. image.code[pc] = HighStore
    BY <1>1, <1>6, AlarmCode
  <2>2. /\ mtimecmp' = Joined(High(v), Low(mtimecmp))
        /\ asked' = IF asked.new = v THEN asked ELSE [old |-> asked.new, new |-> v]
    BY <1>1, <2>1, AlarmWritten
  <2>3. v \in 0 .. TimeMax
    BY <1>1, <1>2, <1>6 DEF AlarmInv
  <2>4. mtimecmp = asked.new
    <3>1. ASSUME NEW q \in 1 .. Len(image.code), SetsAlarm(image, q), Halfway(q)
          PROVE  FALSE
      <4>1. pc = q + 1
        BY <1>2, <3>1 DEF Halfway, Responding
      <4>2. image.code[q + 1] = LowStore
        BY <3>1, AlarmCode
      <4> QED
        BY <2>1, <4>1, <4>2 DEF HighStore, LowStore, StorePart
    <3> QED
      BY <3>1 DEF AlarmInv
  <2>5. Joined(High(v), Low(v)) = v
    BY <1>4, <2>3, Halves
  <2>6. CASE asked.new = v
    BY <1>3, <1>5, <2>2, <2>3, <2>4, <2>5, <2>6
  <2>7. CASE asked.new # v
    <3>1. asked'.old = asked.new /\ asked'.new = v
      BY <2>2, <2>7
    <3> QED
      BY <1>3, <1>5, <1>6, <2>2, <2>3, <2>4, <3>1
  <2> QED
    BY <2>6, <2>7
<1>7. CASE SetsAlarm(image, pc - 1)
  <2>1. pc - 1 \in 1 .. Len(image.code) /\ image.code[pc] = LowStore
    <3>1. pc - 1 \in Nat /\ (pc - 1) + 1 = pc
      BY <1>1
    <3>2. pc - 1 > 1 /\ image.code[(pc - 1) + 1] = LowStore
      BY <1>7, <3>1, AlarmCode
    <3> QED
      BY <1>1, <3>1, <3>2
  <2>2. v = asked.new
    <3>1. main_pc = (pc - 1) + 1
      BY <1>1, <1>2
    <3> QED
      BY <1>2, <1>7, <2>1, <3>1 DEF AlarmInv
  <2>3. mtimecmp' = Joined(High(mtimecmp), Low(v)) /\ asked' = asked
    BY <1>1, <2>1, <2>2, AlarmWritten
  <2>4. High(mtimecmp) = High(asked.new)
    <3>1. asked.new \in Nat /\ asked.old \in Nat
      BY <1>3, <1>4
    <3>2. High(asked.new) \in Nat /\ Low(asked.old) \in 0 .. HalfMax
      BY <3>1, Halves, HalfMaxAssumption
    <3>3. High(Joined(High(asked.new), Low(asked.old))) = High(asked.new)
      BY <3>2, HighOfJoined
    <3> QED
      BY <3>3 DEF AlarmInv
  <2>5. Joined(High(v), Low(v)) = v
    BY <1>3, <1>4, <2>2, Halves
  <2> QED
    BY <1>3, <1>5, <2>2, <2>3, <2>4, <2>5
<1> QED
  BY <1>1, <1>6, <1>7

\* No alarm is set at reset.
LEMMA AlarmInit ==
  ASSUME Init
  PROVE  AlarmInv /\ mtimecmp = asked.new
<1>1. TimeMax \in Nat
  BY HalfMaxAssumption DEF TimeMax, Joined
<1>2. /\ main_pc = 1 /\ access.valid = FALSE /\ mtimecmp = 0
      /\ asked.old = 0 /\ asked.new = 0
  BY DEF Init, main_pc, ClintInit, NoRequest
<1>3. ASSUME NEW q \in 1 .. Len(image.code), SetsAlarm(image, q)
      PROVE  /\ ~(SetsAlarmIn(image, q) /\ main_pc = q - 1)
             /\ main_pc # q /\ ~Responding(q) /\ main_pc # q + 1
  <2>1. q > 1
    BY <1>3, AlarmCode
  <2>2. SetsAlarmIn(image, q) => q > 6
    BY AlarmInCode
  <2> QED
    BY <1>2, <2>1, <2>2 DEF Responding
<1> QED
  BY <1>1, <1>2, <1>3 DEF AlarmInv

\* A handler is one of a vectored cause, whatever image runs.
LEMMA HandlingTyped ==
  ASSUME handling \in Causes \cup {0}, [Next]_vars
  PROVE  handling' \in Causes \cup {0}
<1>1. CASE Execute
  BY <1>1 DEF Execute, Issue, Internal, Compute, Keeping, Assigning, Delivering, Branch, Pausing,
    Csr, FallAsleep, Leaving, Jumping, Returning, Check, flags
<1>2. CASE Fault \/ TakeInterrupt
  BY <1>2, CauseIsOne DEF Fault, TakeInterrupt, Trap, Causes
<1>3. CASE Mret
  BY <1>3 DEF Mret
<1> QED
  BY <1>1, <1>2, <1>3 DEF Next, Stall, Respond, Sleep, WakeUp, DebugWake, DebugPoll, Finished,
    flags, core, vars

AlarmSafe ==
  /\ loaded \in DOMAIN Images /\ handling \in Causes \cup {0}
  /\ IF SetsAlarms(image) THEN FlowInv /\ TimeInv /\ AlarmInv ELSE mtimecmp = asked.new

\* The alarm is moved to a lower high half with a greater low half.
MovesBack == High(asked.new) < High(asked.old) /\ Low(asked.old) < Low(asked.new)

\* Whatever images run and whatever interrupts them between the two writes of
\* clint_set_mtimecmp, no timer interrupt is raised that neither the former
\* alarm nor the new one would raise, provided that the function is called as
\* one, with a constant or with some ticks after the time.  One alarm is out of
\* its reach: an earlier one than the former, with a lower high half and a
\* greater low half, and still to come (clint.c, clint.sv).
THEOREM NoAlarmBetween ==
  ASSUME AlarmSetByDriver(Images)
  PROVE  Spec /\ [][NoWrap]_vars /\ [](MovesBack => mtime >= asked.new) => []NoSpuriousAlarm
<1>1. SetsAlarms(image) /\ loaded \in DOMAIN Images => Structured(image)
  BY DEF AlarmSetByDriver, image
<1>2. Init => AlarmSafe
  <2> SUFFICES ASSUME Init PROVE AlarmSafe
    OBVIOUS
  <2>1. loaded \in DOMAIN Images /\ handling = 0
    BY DEF Init
  <2>2. ASSUME SetsAlarms(image) PROVE FlowInv /\ TimeInv
    <3>1. FlowInv
      BY <1>1, <2>1, <2>2, FlowInit
    <3> QED
      BY <3>1, TimeInit
  <2> QED
    BY <2>1, <2>2, AlarmInit DEF AlarmSafe
<1>3. AlarmSafe /\ [Next]_vars /\ [NoWrap]_vars => AlarmSafe'
  <2> SUFFICES ASSUME AlarmSafe, [Next]_vars, [NoWrap]_vars PROVE AlarmSafe'
    OBVIOUS
  <2>1. /\ loaded' = loaded /\ image' = image /\ loaded \in DOMAIN Images
        /\ handling' \in Causes \cup {0}
    BY LoadedStays, HandlingTyped DEF AlarmSafe, image
  <2>2. ASSUME SetsAlarms(image) PROVE FlowInv' /\ TimeInv' /\ AlarmInv'
    <3>1. FlowInv /\ TimeInv /\ AlarmInv /\ Structured(image)
      BY <1>1, <2>2 DEF AlarmSafe
    <3>2. mtime' >= mtime
      BY <3>1 DEF NoWrap, vars, clint, TimeInv
    <3>3. AlarmInv'
      BY <2>2, <3>1, AlarmKept, AlarmSet
    <3> QED
      BY <3>1, <3>2, <3>3, CoreStep, JumpStep, TimeStep DEF FlowInv
  <2>3. ASSUME ~SetsAlarms(image) PROVE mtimecmp' = asked'.new
    <3>1. mtimecmp = asked.new
      BY <2>3 DEF AlarmSafe
    <3>2. ~(Accesses /\ StoresAlarm(program[pc]))
      <4>1. program \in Codes(image)
        BY DEF AlarmSafe, program, Codes
      <4>2. Accesses => pc \in 1 .. Len(program)
        BY DEF Accesses, Execute
      <4> QED
        BY <2>3, <4>1, <4>2 DEF SetsAlarms
    <3> QED
      BY <3>1, <3>2, AlarmStays
  <2> QED
    BY <2>1, <2>2, <2>3 DEF AlarmSafe
<1>4. AlarmSafe /\ (MovesBack => mtime >= asked.new) => NoSpuriousAlarm
  <2> SUFFICES ASSUME AlarmSafe, MovesBack => mtime >= asked.new, timer_irq
               PROVE  mtime >= asked.old \/ mtime >= asked.new
    BY DEF NoSpuriousAlarm
  <2>1. mtime >= mtimecmp
    BY DEF timer_irq
  <2>2. CASE mtimecmp = asked.new
    BY <2>1, <2>2
  <2>3. CASE mtimecmp # asked.new
    <3>1. TimeInv /\ AlarmInv
      BY <2>3 DEF AlarmSafe
    <3>2. /\ mtime \in Nat /\ asked.old \in Nat /\ asked.new \in Nat
          /\ mtimecmp = Joined(High(asked.new), Low(asked.old))
      BY <2>3, <3>1, HalfMaxAssumption DEF TimeInv, AlarmInv, TimeMax, Joined
    <3>3. CASE MovesBack
      BY <3>3
    <3>4. CASE ~MovesBack
      <4>1. mtimecmp \in Nat /\ (mtimecmp >= asked.old \/ mtimecmp >= asked.new)
        BY <3>2, <3>4, TornAlarm DEF MovesBack
      <4> QED
        BY <2>1, <3>2, <4>1
    <3> QED
      BY <3>3, <3>4
  <2> QED
    BY <2>2, <2>3
<1> QED
  BY <1>2, <1>3, <1>4, PTL DEF Spec

-----------------------------------------------------------------------------
(* The types of the core and of the peripherals.                            *)

\* The pins and the flags of a status are bits of every word.
LEMMA BitsAre ==
  ASSUME WellTyped(Images)
  PROVE  /\ 0 .. 7 \subseteq Pins
         /\ \A im : Pins \subseteq BitsOf(im)
         /\ \A im, n : IsWord(im, Num(n)) <=> n \in Nat
         /\ \A im, b : IsWord(im, Bits(b)) <=> b \subseteq BitsOf(im)
         /\ \A im, c : IsWord(im, Char(c))
<1>1. 0 .. 7 \subseteq Pins
  BY DEF WellTyped, AllPins
<1>2. \A im : Pins \subseteq BitsOf(im)
  BY DEF BitsOf
<1> QED
  BY <1>1, <1>2 DEF IsWord, Num, Bits, Char

\* What a request may write.
Sound(req) ==
  /\ IsWord(image, req.wdata)
  /\ \A reg \in {OBI_TIMER.COUNT, OBI_TIMER.COMPARE} :
       Writes(req, "TIMER", reg) => req.wdata.num \in 0 .. CountMax
  /\ \A reg \in {CLINT.MTIMECMP_LOW0, CLINT.MTIMECMP_HIGH0} :
       Writes(req, "CLINT", reg) => req.wdata.num \in 0 .. HalfMax
  /\ req.valid /\ req.we /\ req.port = "GPIO" => WritesPins(image)

\* Every counter stays within its width.
LEMMA TimerTyped ==
  ASSUME TimerTypeOK, NEW req, Sound(req), TimerCycle(req)
  PROVE  TimerTypeOK'
<1>1. CountMax \in Nat
  BY CountMaxAssumption
<1>2. count' \in 0 .. CountMax
  <2>1. CASE TimerWrites(req, OBI_TIMER.COUNT)
    BY <2>1 DEF TimerCycle, Sound, TimerWrites
  <2>2. CASE ~TimerWrites(req, OBI_TIMER.COUNT)
    <3>1. (count + 1) % (CountMax + 1) \in 0 .. CountMax
      BY <1>1 DEF TimerTypeOK
    <3>2. count' = 0 \/ count' = (count + 1) % (CountMax + 1) \/ count' = count
      BY <2>2 DEF TimerCycle
    <3> QED
      BY <1>1, <3>1, <3>2 DEF TimerTypeOK
  <2> QED
    BY <2>1, <2>2
<1>3. compare' \in 0 .. CountMax
  BY DEF TimerCycle, Sound, TimerWrites, TimerTypeOK
<1>4. enable' \in BOOLEAN /\ autoreset' \in BOOLEAN /\ expired' \in BOOLEAN /\ overflow' \in BOOLEAN
  <2>1. enable' \in BOOLEAN /\ autoreset' \in BOOLEAN
    <3>1. CASE TimerWrites(req, OBI_TIMER.CTRL)
      BY <3>1 DEF TimerCycle
    <3>2. CASE ~TimerWrites(req, OBI_TIMER.CTRL)
      BY <3>2 DEF TimerCycle, TimerTypeOK
    <3> QED
      BY <3>1, <3>2
  <2>2. expired' \in BOOLEAN /\ overflow' \in BOOLEAN
    BY DEF TimerCycle
  <2> QED
    BY <2>1, <2>2
<1> QED
  BY <1>2, <1>3, <1>4 DEF TimerTypeOK

\* Two halves make a time, and a time has two halves.
LEMMA HalvesWithin ==
  /\ TimeMax \in Nat
  /\ \A h \in 0 .. HalfMax, l \in 0 .. HalfMax : Joined(h, l) \in 0 .. TimeMax
  /\ \A t \in 0 .. TimeMax : High(t) \in 0 .. HalfMax /\ Low(t) \in 0 .. HalfMax
<1>1. HalfMax \in Nat /\ TimeMax \in Nat
  BY HalfMaxAssumption DEF TimeMax, Joined
<1>2. ASSUME NEW h \in 0 .. HalfMax, NEW l \in 0 .. HalfMax
      PROVE  Joined(h, l) \in 0 .. TimeMax
  <2> DEFINE n == HalfMax + 1
  <2>1. n \in Nat /\ h \in Nat /\ l \in Nat /\ h <= HalfMax /\ l <= HalfMax
    BY <1>1
  <2>2. h * n <= HalfMax * n /\ h * n \in Nat /\ HalfMax * n \in Nat
    <3> HIDE DEF n
    <3> QED
      BY <1>1, <2>1
  <2> QED
    BY <1>1, <2>1, <2>2 DEF Joined, TimeMax
<1>3. ASSUME NEW t \in 0 .. TimeMax
      PROVE  High(t) \in 0 .. HalfMax /\ Low(t) \in 0 .. HalfMax
  <2>1. t \in Nat /\ t <= TimeMax
    BY <1>1
  <2>2. High(t) <= High(TimeMax)
    BY <1>1, <2>1, HighGrows
  <2>3. High(TimeMax) = HalfMax
    <3>1. HalfMax \in 0 .. HalfMax
      BY <1>1
    <3> QED
      BY <1>1, <3>1, HighOfJoined DEF TimeMax
  <2>4. High(t) \in Nat /\ Low(t) \in Nat /\ Low(t) <= HalfMax
    BY <2>1, Halves
  <2> QED
    BY <1>1, <2>2, <2>3, <2>4
<1> QED
  BY <1>1, <1>2, <1>3

LEMMA ClintTyped ==
  ASSUME ClintTypeOK, NEW req, Sound(req), NEW tick, ClintCycle(req, tick)
  PROVE  ClintTypeOK'
<1>1. mtime' \in 0 .. TimeMax
  <2>1. (mtime + 1) % (TimeMax + 1) \in 0 .. TimeMax
    BY HalvesWithin DEF ClintTypeOK
  <2> QED
    BY <2>1 DEF ClintCycle, ClintTypeOK
<1>2. mtimecmp' \in 0 .. TimeMax
  <2>1. High(mtimecmp) \in 0 .. HalfMax /\ Low(mtimecmp) \in 0 .. HalfMax
    BY HalvesWithin DEF ClintTypeOK
  <2>2. CASE ClintWrites(req, CLINT.MTIMECMP_LOW0)
    <3>1. req.wdata.num \in 0 .. HalfMax
      BY <2>2 DEF Sound, ClintWrites
    <3> QED
      BY <2>1, <2>2, <3>1, HalvesWithin DEF ClintCycle
  <2>3. CASE ~ClintWrites(req, CLINT.MTIMECMP_LOW0) /\ ClintWrites(req, CLINT.MTIMECMP_HIGH0)
    <3>1. req.wdata.num \in 0 .. HalfMax
      BY <2>3 DEF Sound, ClintWrites
    <3> QED
      BY <2>1, <2>3, <3>1, HalvesWithin DEF ClintCycle
  <2>4. CASE ~ClintWrites(req, CLINT.MTIMECMP_LOW0) /\ ~ClintWrites(req, CLINT.MTIMECMP_HIGH0)
    BY <2>4 DEF ClintCycle, ClintTypeOK
  <2> QED
    BY <2>2, <2>3, <2>4
<1>3. msip' \in BOOLEAN
  <2>1. CASE ClintWrites(req, CLINT.MSIP)
    BY <2>1 DEF ClintCycle
  <2>2. CASE ~ClintWrites(req, CLINT.MSIP)
    BY <2>2 DEF ClintCycle, ClintTypeOK
  <2> QED
    BY <2>1, <2>2
<1> QED
  BY <1>1, <1>2, <1>3 DEF ClintTypeOK

\* Pins are led to pins.
LEMMA GpioTyped ==
  ASSUME WellTyped(Images), GpioTypeOK, outside \subseteq Pins,
         NEW req, Sound(req), NEW ignored, GpioCycle(req, Pads, ignored)
  PROVE  GpioTypeOK'
<1>1. \A offset : GpioWrites(req, offset) => req.wdata.bits \subseteq Pins
  BY DEF Sound, IsWord, BitsOf, GpioWrites, Writes
<1>2. Pads \subseteq Pins
  BY BitsAre DEF Pads
<1> HIDE DEF Pads
<1>3. gpio_intrpt \subseteq Pins
  BY DEF gpio_intrpt, is_input, GpioTypeOK
<1>4. toggle_out(req) \subseteq Pins
  BY DEF toggle_out, is_output, GpioTypeOK
<1>5. dir' \subseteq Pins /\ en' \subseteq Pins /\ intrpt_en' \subseteq Pins /\ intrpt_edge' \subseteq Pins
  BY <1>1 DEF GpioCycle, Updated, GpioTypeOK
<1>6. in' \subseteq Pins /\ stage_1' \subseteq Pins /\ serial_d' \subseteq Pins /\ serial_q' \subseteq Pins
  BY <1>2 DEF GpioCycle, GpioTypeOK
<1>7. out' \subseteq Pins
  BY <1>1, <1>4 DEF GpioCycle, GpioTypeOK
<1>8. intrpt' \subseteq Pins
  BY <1>3 DEF GpioCycle, NextStatus, GpioTypeOK
<1>9. owed' \subseteq Pins
  BY <1>3 DEF GpioCycle, GpioTypeOK
<1> QED
  BY <1>5, <1>6, <1>7, <1>8, <1>9 DEF GpioTypeOK

IsSeq(s) == \E S : s \in Seq(S)

UartTypes ==
  /\ UartTypeOK /\ lcr \subseteq BitsOf(image) /\ mcr \subseteq BitsOf(image)
  /\ IsSeq(tx_fifo) /\ IsSeq(rx_fifo)
  /\ tx_state = "START" => tx_bit = 0
  /\ tx_state = "DATA" => tx_bit < WordBits

\* A FIFO gives its characters away.
LEMMA Shortened ==
  ASSUME NEW s, IsSeq(s)
  PROVE  /\ Len(s) \in Nat
         /\ s # <<>> => IsSeq(Tail(s)) /\ Len(Tail(s)) = Len(s) - 1 /\ Len(Tail(s)) \in Nat
<1>1. PICK S : s \in Seq(S)
  BY DEF IsSeq
<1>2. s # <<>> => Tail(s) \in Seq(S) /\ Len(Tail(s)) = Len(s) - 1
  BY <1>1, HeadTailProperties
<1>3. Len(s) \in Nat /\ (s # <<>> => Len(Tail(s)) \in Nat)
  BY <1>1, <1>2, LenProperties
<1> QED
  BY <1>2, <1>3 DEF IsSeq

\* It takes characters of any kind.
LEMMA Appended ==
  ASSUME NEW s, IsSeq(s), NEW x
  PROVE  IsSeq(Append(s, x)) /\ Len(Append(s, x)) = Len(s) + 1
<1>1. PICK S : s \in Seq(S)
  BY DEF IsSeq
<1>2. s \in Seq(S \cup {x})
  BY <1>1, SeqMonotonic
<1>3. Append(s, x) \in Seq(S \cup {x}) /\ Len(Append(s, x)) = Len(s) + 1
  BY <1>2, AppendProperties
<1> QED
  BY <1>3 DEF IsSeq

\* A FIFO: emptied, or with its head removed, or with a character added while
\* there is room, or both.
LEMMA FifoTyped ==
  ASSUME NEW s, IsSeq(s), Len(s) <= FifoDepth, NEW rest, NEW t, NEW x,
         rest = s \/ (s # <<>> /\ rest = Tail(s)),
         t = <<>> \/ t = rest \/ (Len(s) < FifoDepth /\ t = Append(rest, x))
  PROVE  IsSeq(t) /\ Len(t) <= FifoDepth
<1>1. Len(s) \in Nat /\ FifoDepth \in Nat
  BY Shortened DEF FifoDepth
<1>2. IsSeq(rest) /\ Len(rest) \in Nat /\ Len(rest) <= Len(s)
  <2>1. s # <<>> => IsSeq(Tail(s)) /\ Len(Tail(s)) = Len(s) - 1 /\ Len(Tail(s)) \in Nat
    BY Shortened
  <2>2. CASE rest = s
    BY <1>1, <2>2
  <2>3. CASE s # <<>> /\ rest = Tail(s)
    <3>1. IsSeq(rest) /\ Len(rest) = Len(s) - 1 /\ Len(rest) \in Nat
      BY <2>1, <2>3
    <3> QED
      BY <1>1, <3>1
  <2> QED
    BY <2>2, <2>3
<1>3. IsSeq(<<>>) /\ Len(<<>>) = 0
  <2>1. <<>> \in Seq({})
    BY EmptySeq
  <2> QED
    BY <2>1 DEF IsSeq
<1>4. IsSeq(Append(rest, x)) /\ Len(Append(rest, x)) = Len(rest) + 1
  BY <1>2, Appended
<1>5. CASE t = <<>>
  BY <1>1, <1>3, <1>5
<1>6. CASE t = rest
  BY <1>1, <1>2, <1>6
<1>7. CASE Len(s) < FifoDepth /\ t = Append(rest, x)
  BY <1>1, <1>2, <1>4, <1>7
<1> QED
  BY <1>5, <1>6, <1>7

LEMMA TransmitterTyped ==
  ASSUME UartTypes, NEW req, Transmitter(req)
  PROVE  /\ IsSeq(tx_fifo') /\ Len(tx_fifo') <= FifoDepth /\ thr_full' \in BOOLEAN
         /\ tx_state' \in {"IDLE", "START", "DATA", "STOP1", "STOP2"} /\ tx_bit' \in 0 .. WordBits
         /\ tx_state' = "START" => tx_bit' = 0
         /\ tx_state' = "DATA" => tx_bit' < WordBits
<1>1. IsSeq(tx_fifo') /\ Len(tx_fifo') <= FifoDepth
  <2> DEFINE rest == IF TakesFifo THEN Tail(tx_fifo) ELSE tx_fifo
  <2>1. tx_fifo' = <<>> \/ tx_fifo' = rest \/ (Len(tx_fifo) < FifoDepth /\ tx_fifo' = Append(rest, thr))
    BY DEF Transmitter, PushesThr
  <2>2. rest = tx_fifo \/ (tx_fifo # <<>> /\ rest = Tail(tx_fifo))
    BY DEF TakesFifo
  <2> HIDE DEF rest
  <2> QED
    BY <2>1, <2>2, FifoTyped DEF UartTypes, UartTypeOK
<1>2. thr_full' \in BOOLEAN
  <2>1. CASE PushesThr \/ TakesThr
    BY <2>1 DEF Transmitter
  <2>2. CASE ~(PushesThr \/ TakesThr)
    <3>1. thr_full' = (WritesTHR(req) \/ thr_full)
      BY <2>2 DEF Transmitter
    <3> QED
      BY <3>1
  <2> QED
    BY <2>1, <2>2
<1>3. /\ tx_state' \in {"IDLE", "START", "DATA", "STOP1", "STOP2"} /\ tx_bit' \in 0 .. WordBits
      /\ tx_state' = "START" => tx_bit' = 0
      /\ tx_state' = "DATA" => tx_bit' < WordBits
  <2> HIDE DEF TakesFifo, TakesThr, BaudEdge
  <2>1. WordBits \in Nat \ {0}
    BY UartAssumption
  <2>2. CASE tx_state = "IDLE"
    BY <2>1, <2>2 DEF Transmitter, ShiftRegister, UartTypes
  <2>3. CASE tx_state = "START"
    BY <2>1, <2>3 DEF Transmitter, ShiftRegister, UartTypes
  <2>4. CASE tx_state = "DATA"
    <3>1. tx_bit \in Nat /\ tx_bit < WordBits
      BY <2>1, <2>4 DEF UartTypes, UartTypeOK
    <3>2. CASE BaudEdge
      BY <2>1, <2>4, <3>1, <3>2 DEF Transmitter, ShiftRegister
    <3>3. CASE ~BaudEdge
      BY <2>1, <2>4, <3>1, <3>3 DEF Transmitter, ShiftRegister
    <3> QED
      BY <3>2, <3>3
  <2>5. CASE tx_state = "STOP1"
    BY <2>1, <2>5 DEF Transmitter, ShiftRegister, UartTypes, UartTypeOK
  <2>6. CASE tx_state = "STOP2"
    BY <2>1, <2>6 DEF Transmitter, ShiftRegister, UartTypes, UartTypeOK
  <2> QED
    BY <2>2, <2>3, <2>4, <2>5, <2>6 DEF UartTypes, UartTypeOK
<1> QED
  BY <1>1, <1>2, <1>3

LEMMA ReceiverTyped ==
  ASSUME UartTypes, NEW c, Receiver(c)
  PROVE  IsSeq(rx_fifo') /\ Len(rx_fifo') <= FifoDepth /\ rhr_full' \in BOOLEAN
<1>1. IsSeq(rx_fifo') /\ Len(rx_fifo') <= FifoDepth
  <2> DEFINE rest == IF FifoToRhr THEN Tail(rx_fifo) ELSE rx_fifo
  <2>1. rx_fifo' = <<>> \/ rx_fifo' = rest \/ (Len(rx_fifo) < FifoDepth /\ rx_fifo' = Append(rest, c))
    BY DEF Receiver
  <2>2. rest = rx_fifo \/ (rx_fifo # <<>> /\ rest = Tail(rx_fifo))
    BY DEF FifoToRhr
  <2> HIDE DEF rest
  <2> QED
    BY <2>1, <2>2, FifoTyped DEF UartTypes, UartTypeOK
<1>2. rhr_full' \in BOOLEAN
  <2>1. CASE FifoToRhr \/ (~fifo_en /\ c # Nothing)
    BY <2>1 DEF Receiver
  <2>2. CASE ~(FifoToRhr \/ (~fifo_en /\ c # Nothing))
    <3>1. rhr_full' = (rhr_full /\ ~ReadsRBR)
      BY <2>2 DEF Receiver
    <3> QED
      BY <3>1
  <2> QED
    BY <2>1, <2>2
<1> QED
  BY <1>1, <1>2

LEMMA UartTyped ==
  ASSUME UartTypes, NEW req, Sound(req), NEW c, UartCycle(req, c), image' = image
  PROVE  UartTypes'
<1>1. baud' \in 0 .. BaudPeriod
  <2>1. BaudPeriod \in Nat \ {0} /\ baud \in 0 .. BaudPeriod
    BY UartAssumption DEF UartTypes, UartTypeOK
  <2>2. baud' = 1 \/ (baud' = 0 /\ baud = 0) \/ (baud # BaudPeriod /\ baud' = baud + 1)
    BY DEF UartCycle, ControlRegisters, BaudEdge
  <2> QED
    BY <2>1, <2>2
<1>2. lcr' \subseteq BitsOf(image) /\ mcr' \subseteq BitsOf(image)
  <2>1. req.wdata.bits \subseteq BitsOf(image)
    BY DEF Sound, IsWord
  <2> QED
    BY <2>1 DEF UartCycle, ControlRegisters, UartTypes
<1>3. Transmitter(req) /\ \E d : Receiver(d)
  BY DEF UartCycle
<1> QED
  BY <1>1, <1>2, <1>3, TransmitterTyped, ReceiverTyped DEF UartTypes, UartTypeOK

PortTypes ==
  /\ TimerTypeOK /\ ClintTypeOK /\ GpioTypeOK /\ UartTypes
  /\ outside \subseteq Pins /\ edges \in 0 .. MaxEdges
  /\ boot_addr \in Nat /\ core_status \in Nat

\* A cycle of all of them.
LEMMA HardwareTyped ==
  ASSUME WellTyped(Images), loaded \in DOMAIN Images, PortTypes, image' = image,
         NEW req, Sound(req), NEW ignored, Hardware(req, ignored)
  PROVE  PortTypes'
<1>1. /\ TimerCycle(req) /\ ClintCycle(req, Tick) /\ GpioCycle(req, Pads, ignored)
      /\ SocCtrlCycle(req) /\ InputsChange /\ \E c : UartCycle(req, c)
  BY DEF Hardware
<1>2. TimerTypeOK'
  BY <1>1, TimerTyped DEF PortTypes
<1>3. ClintTypeOK'
  BY <1>1, ClintTyped DEF PortTypes
<1>4. GpioTypeOK'
  BY <1>1, GpioTyped DEF PortTypes
<1>5. UartTypes'
  BY <1>1, UartTyped DEF PortTypes
<1>6. boot_addr' \in Nat /\ core_status' \in Nat
  <2>1. req.wdata.num \in Nat
    BY DEF Sound, IsWord
  <2> QED
    BY <1>1, <2>1 DEF SocCtrlCycle, PortTypes
<1>7. outside' \subseteq Pins /\ edges' \in 0 .. MaxEdges
  <2>1. image.pins \subseteq Pins
    BY DEF WellTyped, image
  <2>2. CASE UNCHANGED <<outside, edges>>
    BY <2>2 DEF PortTypes
  <2>3. CASE edges < MaxEdges /\ edges' = edges + 1
          /\ \E pin \in image.pins : outside' = (outside \ {pin}) \cup ({pin} \ outside)
    <3>1. MaxEdges \in Nat
      BY SocAssumption
    <3>2. edges' \in 0 .. MaxEdges
      BY <2>3, <3>1 DEF PortTypes
    <3>3. outside' \subseteq Pins
      BY <2>1, <2>3 DEF PortTypes
    <3> QED
      BY <3>2, <3>3
  <2> QED
    BY <1>1, <2>2, <2>3 DEF InputsChange
<1> QED
  BY <1>2, <1>3, <1>4, <1>5, <1>6, <1>7 DEF PortTypes

\* Registers and variables of the program are words.
DataTypes ==
  /\ IsWord(image, acc) /\ IsWord(image, kept) /\ IsWord(image, rdata_q)
  /\ ret \in Nat /\ stalled \in 0 .. MaxStall
  /\ DOMAIN globals = Globals /\ \A name \in Globals : IsWord(image, globals[name])

FlagTypes ==
  /\ DOMAIN frame = {"pc", "acc", "kept", "MIE"}
  /\ IsWord(image, frame.acc) /\ IsWord(image, frame.kept) /\ frame.MIE \in BOOLEAN
  /\ mie \subseteq Interrupts /\ MIE \in BOOLEAN

CoreTypes == DataTypes /\ FlagTypes

\* A read that is in its response phase is known to the port it goes to.
AccessTypes ==
  access.valid = TRUE /\ access.we = FALSE =>
    /\ access.port = "GPIO" => gpio_access = access
    /\ access.port = "UART" => uart_access = access

\* clint_set_mtimecmp is called with a time.
ArgumentInv ==
  \A q \in 1 .. Len(image.code) :
    SetsAlarm(image, q) /\ main_pc \in {q, q + 1} => main_acc.num \in 0 .. TimeMax

\* The instruction at pc is well-formed.
LEMMA FetchedWell ==
  ASSUME WellTyped(Images), FlowInv, pc \in 1 .. Len(program)
  PROVE  WellFormed(image, program[pc])
<1>1. loaded \in DOMAIN Images /\ program \in Codes(image)
  BY DEF FlowInv, CoreInv, program, Codes
<1> HIDE DEF program
<1> QED
  BY <1>1 DEF WellTyped, image

\* What a store sends is a word.
LEMMA StoreTyped ==
  ASSUME WellTyped(Images), CoreTypes, NEW i, i.op = "store", WellFormed(image, i)
  PROVE  IsWord(image, StoreData(i))
<1>1. i.part \in {"constant", "acc", "kept", "high", "low", "report"}
  BY DEF WellFormed, StoresWell
<1>2. IsWord(image, acc) /\ IsWord(image, kept) /\ ret \in Nat /\ acc.num \in Nat
  BY DEF CoreTypes, DataTypes, IsWord
<1>3. i.part = "constant" => IsWord(image, i.value)
  BY DEF WellFormed, StoresWell
<1>4. High(acc.num) \in Nat /\ Low(acc.num) \in Nat /\ 2 * ret + 1 \in Nat
  BY <1>2, Halves
<1>5. /\ IsWord(image, Num(High(acc.num))) /\ IsWord(image, Num(Low(acc.num)))
      /\ IsWord(image, Num(2 * ret + 1))
  BY <1>4, BitsAre
<1> QED
  BY <1>1, <1>2, <1>3, <1>5 DEF StoreData

\* The request of a store or a load.
LEMMA RequestSound ==
  ASSUME WellTyped(Images), AlarmSetByDriver(Images), FlowInv, CoreTypes, ArgumentInv, Accesses
  PROVE  Sound(TheRequest)
<1> DEFINE i == program[pc]
           req == TheRequest
<1>1. WellFormed(image, i) /\ pc \in 1 .. Len(program) /\ program \in Codes(image)
  BY AccessMade, FetchedWell
<1>2. /\ req.valid = TRUE /\ req.we = (i.op = "store") /\ req.port = Port(i.addr)
      /\ req.wdata = IF i.op = "store" THEN StoreData(i) ELSE Num(0)
  BY DEF TheRequest, Request
<1>3. IsWord(image, req.wdata)
  <2>1. IsWord(image, Num(0))
    BY BitsAre
  <2> QED
    BY <1>1, <1>2, <2>1, StoreTyped
<1>4. ASSUME NEW reg \in {OBI_TIMER.COUNT, OBI_TIMER.COMPARE}, Writes(req, "TIMER", reg)
      PROVE  req.wdata.num \in 0 .. CountMax
  <2>1. StoresTo(i, "TIMER", reg)
    BY <1>4, WritesStored
  <2>2. i.op = "store" /\ i.part = "constant" /\ i.value.num \in 0 .. CountMax
    BY <1>1, <2>1 DEF StoresTo, WellFormed, StoresWell
  <2> QED
    BY <1>2, <2>2 DEF StoreData
<1>5. ASSUME NEW reg \in {CLINT.MTIMECMP_LOW0, CLINT.MTIMECMP_HIGH0}, Writes(req, "CLINT", reg)
      PROVE  req.wdata.num \in 0 .. HalfMax
  <2>1. StoresAlarm(i)
    BY <1>5, WritesStored DEF StoresAlarm
  <2>2. /\ handling = 0 /\ program = image.code /\ pc \in 1 .. Len(image.code)
        /\ SetsAlarm(image, pc) \/ SetsAlarm(image, pc - 1)
    BY <1>1, <2>1, AlarmStoredByMain DEF SetsAlarms
  <2>3. main_pc = pc /\ main_acc = acc
    BY <2>2 DEF main_pc, main_acc
  <2>4. ASSUME acc.num \in 0 .. TimeMax, i \in {HighStore, LowStore}
        PROVE  req.wdata.num \in 0 .. HalfMax
    <3>1. i.op = "store" /\ (i.part = "high" \/ i.part = "low")
      BY <2>4 DEF HighStore, LowStore, StorePart
    <3>2. req.wdata = Num(High(acc.num)) \/ req.wdata = Num(Low(acc.num))
      BY <1>2, <2>4, <3>1 DEF StoreData, HighStore, LowStore, StorePart
    <3> QED
      BY <2>4, <3>2, HalvesWithin DEF Num
  <2>5. CASE SetsAlarm(image, pc)
    <3>1. i = HighStore
      BY <2>2, <2>5, AlarmCode
    <3> QED
      BY <2>2, <2>3, <2>4, <2>5, <3>1 DEF ArgumentInv
  <2>6. CASE SetsAlarm(image, pc - 1)
    <3>1. pc - 1 \in Nat /\ (pc - 1) + 1 = pc
      BY <2>2
    <3>2. pc - 1 > 1 /\ image.code[(pc - 1) + 1] = LowStore
      BY <2>6, <3>1, AlarmCode
    <3>3. i = LowStore /\ pc - 1 \in 1 .. Len(image.code)
      BY <2>2, <3>1, <3>2
    <3> QED
      BY <2>3, <2>4, <2>6, <3>1, <3>3 DEF ArgumentInv
  <2> QED
    BY <2>2, <2>5, <2>6
<1>6. req.valid /\ req.we /\ req.port = "GPIO" => WritesPins(image)
  BY <1>1, <1>2 DEF WritesPins
<1> QED
  BY <1>3, <1>4, <1>5, <1>6 DEF Sound

\* A cycle without a request, or with the debugger's, writes none of that.
LEMMA OthersSound ==
  ASSUME WellTyped(Images)
  PROVE  Sound(NoRequest) /\ Sound(Request(TRUE, ClintReg(CLINT.MSIP), Bits({0})))
<1>1. Sound(NoRequest)
  <2>1. IsWord(image, NoRequest.wdata) /\ NoRequest.valid = FALSE
    BY BitsAre DEF NoRequest
  <2> QED
    BY <2>1 DEF Sound, Writes
<1>2. Sound(Request(TRUE, ClintReg(CLINT.MSIP), Bits({0})))
  <2> DEFINE req == Request(TRUE, ClintReg(CLINT.MSIP), Bits({0}))
  <2>1. req.port = "CLINT" /\ req.offset = CLINT.MSIP
    <3>1. CLINT.MSIP \in ClintRegs
      BY DEF ClintRegs
    <3> QED
      BY <3>1, ClintRequest
  <2>2. IsWord(image, req.wdata)
    <3>1. req.wdata = Bits({0})
      BY StoreRequest
    <3>2. {0} \subseteq BitsOf(image)
      BY BitsAre
    <3>3. IsWord(image, Bits({0}))
      BY <3>2, BitsAre
    <3> QED
      BY <3>1, <3>3
  <2> HIDE DEF req
  <2>3. \A reg \in {CLINT.MTIMECMP_LOW0, CLINT.MTIMECMP_HIGH0} : req.offset # reg
    BY <2>1 DEF CLINT
  <2> QED
    BY <2>1, <2>2, <2>3 DEF Sound, Writes, req
<1> QED
  BY <1>1, <1>2

\* Every step keeps the types of the peripherals.
LEMMA PortStep ==
  ASSUME WellTyped(Images), AlarmSetByDriver(Images), FlowInv, CoreTypes, ArgumentInv, PortTypes,
         [Next]_vars
  PROVE  PortTypes'
<1>1. image' = image /\ loaded \in DOMAIN Images
  BY LoadedStays DEF image, FlowInv, CoreInv
<1>2. CASE UNCHANGED vars
  BY <1>1, <1>2 DEF vars, timer, clint, gpio, uart, soc_ctrl, board, PortTypes, TimerTypeOK,
    ClintTypeOK, GpioTypeOK, UartTypes, UartTypeOK
<1>3. CASE \E ignored : Hardware(NoRequest, ignored)
  BY <1>1, <1>3, HardwareTyped, OthersSound
<1>4. CASE Hardware(Request(TRUE, ClintReg(CLINT.MSIP), Bits({0})), {})
  <2> DEFINE req == Request(TRUE, ClintReg(CLINT.MSIP), Bits({0}))
  <2>1. Sound(req) /\ Hardware(req, {})
    BY <1>4, OthersSound
  <2> HIDE DEF req
  <2> QED
    BY <1>1, <2>1, HardwareTyped
<1>5. CASE Accesses /\ Hardware(TheRequest, {})
  BY <1>1, <1>5, HardwareTyped, RequestSound
<1> QED
  BY <1>2, <1>3, <1>4, <1>5, StepRequests

\* A load that is answered reads a register there is.
LEMMA LoadsRegister ==
  ASSUME WellTyped(Images), NEW i, i.op = "load", WellFormed(image, i),
         NEW word, NEW req, req = Request(FALSE, i.addr, word)
  PROVE  /\ req.valid = TRUE /\ req.we = FALSE
         /\ \/ req.port \in {"ERROR", "DEBUG", "BOOTROM"}
            \/ req.port = "UART" /\ req.offset \in {UART.RBR, UART.LINE_CONTROL,
                                                    UART.MODEM_CONTROL, UART.LINE_STATUS}
            \/ req.port = "TIMER"   /\ \E reg \in DOMAIN OBI_TIMER : req.offset = OBI_TIMER[reg]
            \/ req.port = "CLINT"   /\ \E reg \in DOMAIN CLINT : req.offset = CLINT[reg]
            \/ req.port = "GPIO"    /\ \E reg \in DOMAIN GPIO : req.offset = GPIO[reg]
            \/ req.port = "SOCCTRL" /\ \E reg \in DOMAIN SOC_CTRL : req.offset = SOC_CTRL[reg]
<1> DEFINE load == Request(FALSE, i.addr, Num(0))
<1>1. Readable(i.addr)
  BY DEF WellFormed
<1>2. req.valid = TRUE /\ req.we = FALSE /\ req.port = Port(i.addr)
  BY LoadRequest
<1>3. req.port = load.port /\ req.offset = load.offset
  BY DEF Request
<1> HIDE DEF load
<1>4. \A port, offset : Reads(load, port, offset) => req.port = port /\ req.offset = offset
  BY <1>3 DEF Reads
<1>5. \/ Port(i.addr) \in {"ERROR", "DEBUG", "BOOTROM"}
      \/ \E reg \in {UART.RBR, UART.LINE_CONTROL, UART.MODEM_CONTROL, UART.LINE_STATUS} :
           Reads(load, "UART", reg)
      \/ \E reg \in DOMAIN OBI_TIMER : Reads(load, "TIMER", OBI_TIMER[reg])
      \/ \E reg \in DOMAIN CLINT : Reads(load, "CLINT", CLINT[reg])
      \/ \E reg \in DOMAIN GPIO : Reads(load, "GPIO", GPIO[reg])
      \/ \E reg \in DOMAIN SOC_CTRL : Reads(load, "SOCCTRL", SOC_CTRL[reg])
  BY <1>1 DEF Readable, load
<1>6. CASE Port(i.addr) \in {"ERROR", "DEBUG", "BOOTROM"}
  BY <1>2, <1>6
<1>7. CASE \E reg \in {UART.RBR, UART.LINE_CONTROL, UART.MODEM_CONTROL, UART.LINE_STATUS} :
             Reads(load, "UART", reg)
  BY <1>2, <1>4, <1>7
<1>8. CASE \E reg \in DOMAIN OBI_TIMER : Reads(load, "TIMER", OBI_TIMER[reg])
  BY <1>2, <1>4, <1>8
<1>9. CASE \E reg \in DOMAIN CLINT : Reads(load, "CLINT", CLINT[reg])
  BY <1>2, <1>4, <1>9
<1>10. CASE \E reg \in DOMAIN GPIO : Reads(load, "GPIO", GPIO[reg])
  BY <1>2, <1>4, <1>10
<1>11. CASE \E reg \in DOMAIN SOC_CTRL : Reads(load, "SOCCTRL", SOC_CTRL[reg])
  BY <1>2, <1>4, <1>11
<1> QED
  BY <1>5, <1>6, <1>7, <1>8, <1>9, <1>10, <1>11

\* What it reads is a word.
LEMMA ReadTyped ==
  ASSUME WellTyped(Images), FlowInv, CoreTypes, PortTypes, AccessTypes,
         access.valid = TRUE, access.we = FALSE
  PROVE  IsWord(image, ReadData)
<1> DEFINE i == program[pc]
<1>1. pc \in 1 .. Len(program) /\ WellFormed(image, i) /\ i.op = "load"
  BY AccessedPort, FetchedWell DEF FlowInv
<1>2. PICK word : access = Request(FALSE, i.addr, word)
  <2>1. MadeBy(i, access)
    BY DEF FlowInv, CoreInv
  <2> QED
    BY <1>1, <2>1 DEF MadeBy
<1> HIDE DEF i
<1>3. \/ access.port \in {"ERROR", "DEBUG", "BOOTROM"}
      \/ access.port = "UART" /\ access.offset \in {UART.RBR, UART.LINE_CONTROL,
                                                    UART.MODEM_CONTROL, UART.LINE_STATUS}
      \/ access.port \in {"TIMER", "CLINT"}
      \/ access.port = "GPIO"    /\ \E reg \in DOMAIN GPIO : access.offset = GPIO[reg]
      \/ access.port = "SOCCTRL" /\ \E reg \in DOMAIN SOC_CTRL : access.offset = SOC_CTRL[reg]
  BY <1>1, <1>2, LoadsRegister
<1>4. CASE access.port \in {"ERROR", "DEBUG", "BOOTROM"}
  BY <1>4, BitsAre DEF ReadData
<1>5. CASE access.port = "UART" /\ access.offset \in {UART.RBR, UART.LINE_CONTROL,
                                                      UART.MODEM_CONTROL, UART.LINE_STATUS}
  <2>1. ReadData = UartReadData /\ uart_access = access
    BY <1>5 DEF ReadData, AccessTypes
  <2>2. UartReadData \in {Char(rhr), Bits(lcr), Bits(mcr), Bits(LineStatus)}
    BY <1>5, <2>1 DEF UartReadData, UART
  <2>3. LineStatus \subseteq BitsOf(image)
    <3>1. LineStatus \subseteq 0 .. 7
      BY DEF LineStatus, LINE_STATUS_DATA_READY_BIT, LINE_STATUS_THR_EMPTY_BIT,
        LINE_STATUS_TMIT_EMPTY_BIT
    <3> HIDE DEF LineStatus
    <3>2. 0 .. 7 \subseteq Pins /\ Pins \subseteq BitsOf(image)
      BY BitsAre
    <3> QED
      BY <3>1, <3>2
  <2>4. /\ IsWord(image, Char(rhr)) /\ IsWord(image, Bits(lcr)) /\ IsWord(image, Bits(mcr))
        /\ IsWord(image, Bits(LineStatus))
    BY <2>3, BitsAre DEF PortTypes, UartTypes
  <2> QED
    BY <2>1, <2>2, <2>4
<1>6. CASE access.port \in {"TIMER", "CLINT"}
  BY <1>6 DEF ReadData, CoreTypes, DataTypes
<1>7. CASE access.port = "GPIO" /\ \E reg \in DOMAIN GPIO : access.offset = GPIO[reg]
  <2>1. ReadData = GpioReadData /\ gpio_access = access
    BY <1>7 DEF ReadData, AccessTypes
  <2>2. GpioReadData \in {Bits(reg) : reg \in {dir, en, in, out, {}, intrpt_en, intrpt, intrpt_edge}}
    BY <1>7, <2>1 DEF GpioReadData, GPIO
  <2>3. \A reg \in {dir, en, in, out, {}, intrpt_en, intrpt, intrpt_edge} : reg \subseteq BitsOf(image)
    BY BitsAre DEF PortTypes, GpioTypeOK
  <2>4. \A reg \in {dir, en, in, out, {}, intrpt_en, intrpt, intrpt_edge} : IsWord(image, Bits(reg))
    BY <2>3, BitsAre
  <2> QED
    BY <2>1, <2>2, <2>4
<1>8. CASE access.port = "SOCCTRL" /\ \E reg \in DOMAIN SOC_CTRL : access.offset = SOC_CTRL[reg]
  <2>1. ReadData = SocCtrlReadData /\ soc_ctrl_access = access
    BY <1>8 DEF ReadData, FlowInv, JumpInv
  <2>2. SocCtrlReadData \in {Num(n) : n \in {boot_addr, core_status, 0, 1}}
    BY <1>8, <2>1 DEF SocCtrlReadData, SOC_CTRL
  <2>3. \A n \in {boot_addr, core_status, 0, 1} : IsWord(image, Num(n))
    BY BitsAre DEF PortTypes
  <2> QED
    BY <2>1, <2>2, <2>3
<1> QED
  BY <1>3, <1>4, <1>5, <1>6, <1>7, <1>8

\* What is registered in the address phase is a word.
LEMMA RegisteredTyped ==
  ASSUME WellTyped(Images), FlowInv, CoreTypes, PortTypes, Accesses
  PROVE  IsWord(image, Registered(TheRequest))
<1> DEFINE i == program[pc]
           req == TheRequest
<1>1. WellFormed(image, i) /\ i.op \in {"load", "store"} /\ req.we = (i.op = "store")
  BY AccessMade, FetchedWell DEF Accesses, Issue
<1>2. IsWord(image, Num(0))
  BY BitsAre
<1>3. CASE i.op = "store"
  <2>1. req.we = TRUE
    <3>1. req = Request(TRUE, i.addr, StoreData(i))
      BY <1>3 DEF TheRequest, Request
    <3> QED
      BY <3>1, StoreRequest
  <2> HIDE DEF req
  <2>2. Registered(req) = Num(0)
    BY <2>1 DEF Registered
  <2> QED
    BY <1>2, <2>2 DEF req
<1>4. CASE i.op = "load"
  <2>1. req = Request(FALSE, i.addr, Num(0))
    BY <1>4 DEF TheRequest, Request
  <2> HIDE DEF i, req
  <2>2. \/ req.port \notin {"TIMER", "CLINT"}
        \/ req.port = "TIMER" /\ \E reg \in DOMAIN OBI_TIMER : req.offset = OBI_TIMER[reg]
        \/ req.port = "CLINT" /\ \E reg \in DOMAIN CLINT : req.offset = CLINT[reg]
    BY <1>1, <1>4, <2>1, LoadsRegister
  <2>3. req.we = FALSE
    BY <2>1, LoadRequest
  <2>4. CASE req.port \notin {"TIMER", "CLINT"}
    BY <1>2, <2>3, <2>4 DEF Registered, req
  <2>5. {0} \subseteq BitsOf(image) /\ {0, 1} \subseteq BitsOf(image)
    BY BitsAre
  <2>6. CASE req.port = "TIMER" /\ \E reg \in DOMAIN OBI_TIMER : req.offset = OBI_TIMER[reg]
    <3>1. Registered(req) = TimerReadData(req)
      BY <2>3, <2>6 DEF Registered
    <3>2. \/ TimerReadData(req) = Num(count) \/ TimerReadData(req) = Num(compare)
          \/ \E b : TimerReadData(req) = Bits(b) /\ b \subseteq {0, 1}
      BY <2>6 DEF TimerReadData, OBI_TIMER, CTRL_ENABLE_BIT, CTRL_AUTORESET_BIT,
        STATUS_EXPIRED_BIT, STATUS_OVERFLOW_BIT
    <3>3. count \in Nat /\ compare \in Nat
      BY CountMaxAssumption DEF PortTypes, TimerTypeOK
    <3>4. IsWord(image, TimerReadData(req))
      BY <2>5, <3>2, <3>3, BitsAre
    <3> QED
      BY <3>1, <3>4 DEF req
  <2>7. CASE req.port = "CLINT" /\ \E reg \in DOMAIN CLINT : req.offset = CLINT[reg]
    <3>1. Registered(req) = ClintReadData(req)
      BY <2>3, <2>7 DEF Registered
    <3>2. \/ ClintReadData(req) \in {Num(Low(mtimecmp)), Num(High(mtimecmp)), Num(Low(mtime)), Num(High(mtime))}
          \/ ClintReadData(req) = Bits({0}) \/ ClintReadData(req) = Bits({})
      BY <2>7 DEF ClintReadData, CLINT
    <3>3. Low(mtimecmp) \in Nat /\ High(mtimecmp) \in Nat /\ Low(mtime) \in Nat /\ High(mtime) \in Nat
      <4>1. mtimecmp \in Nat /\ mtime \in Nat
        BY HalvesWithin DEF PortTypes, ClintTypeOK
      <4> QED
        BY <4>1, Halves
    <3>4. IsWord(image, ClintReadData(req))
      BY <2>5, <3>2, <3>3, BitsAre
    <3> QED
      BY <3>1, <3>4 DEF req
  <2> QED
    BY <2>2, <2>4, <2>6, <2>7 DEF req
<1> QED
  BY <1>1, <1>3, <1>4

\* A load or a store leaves the core a word.
LEMMA IssueTyped ==
  ASSUME WellTyped(Images), FlowInv, CoreTypes, PortTypes, Accesses
  PROVE  CoreTypes'
<1>1. /\ UNCHANGED <<others, pc, acc, kept, ret, flags, data, stalled>>
      /\ rdata_q' = Registered(TheRequest)
  BY AccessMade DEF Accesses, Issue
<1>2. IsWord(image, rdata_q') /\ image' = image
  BY <1>1, RegisteredTyped DEF image, others
<1> QED
  BY <1>1, <1>2 DEF CoreTypes, DataTypes, FlagTypes, flags, data

\* What is computed from words is a word.
LEMMA ComputedTyped ==
  ASSUME WellTyped(Images), DataTypes, NEW i, i.op = "compute", WellFormed(image, i)
  PROVE  IsWord(image, Computed(i))
<1>1. /\ acc.bits \subseteq BitsOf(image) /\ acc.num \in Nat /\ kept.num \in Nat
      /\ \A name \in Globals : IsWord(image, globals[name])
  BY DEF DataTypes, IsWord
<1>2. ComputesWell(image, i)
  BY DEF WellFormed
<1>3. CASE i.f = "take" /\ IsWord(image, i.value)
  BY <1>3 DEF Computed
<1>4. CASE i.f \in {"or", "andnot"} /\ i.bits \subseteq BitsOf(image)
  <2>1. Computed(i) \in {Bits(acc.bits \cup i.bits), Bits(acc.bits \ i.bits)}
    BY <1>4 DEF Computed
  <2>2. acc.bits \cup i.bits \subseteq BitsOf(image) /\ acc.bits \ i.bits \subseteq BitsOf(image)
    BY <1>1, <1>4
  <2>3. IsWord(image, Bits(acc.bits \cup i.bits)) /\ IsWord(image, Bits(acc.bits \ i.bits))
    BY <2>2, BitsAre
  <2> QED
    BY <2>1, <2>3
<1>5. CASE i.f = "add" /\ i.n \in Nat
  <2>1. TimeMax \in Nat
    BY HalvesWithin
  <2>2. (acc.num + i.n) % (TimeMax + 1) \in Nat
    BY <1>1, <1>5, <2>1
  <2>3. IsWord(image, Num((acc.num + i.n) % (TimeMax + 1)))
    BY <2>2, BitsAre
  <2> QED
    BY <1>5, <2>3 DEF Computed
<1>6. CASE i.f \in {"join", "join_swapped"}
  <2>1. Joined(kept.num, acc.num) \in Nat /\ Joined(acc.num, kept.num) \in Nat
    BY <1>1, HalfMaxAssumption DEF Joined
  <2>2. IsWord(image, Num(Joined(kept.num, acc.num))) /\ IsWord(image, Num(Joined(acc.num, kept.num)))
    BY <2>1, BitsAre
  <2> QED
    BY <1>6, <2>2 DEF Computed
<1>7. CASE i.f = "recall" /\ i.name \in Globals
  BY <1>1, <1>7 DEF Computed
<1>8. CASE i.f \in {"shift", "mstatus"}
  <2>1. Computed(i) = Bits({0}) \/ Computed(i) = Bits({})
    BY <1>8 DEF Computed, Flag
  <2>2. {0} \subseteq BitsOf(image)
    BY BitsAre
  <2>3. IsWord(image, Bits({0})) /\ IsWord(image, Bits({}))
    BY <2>2, BitsAre
  <2> QED
    BY <2>1, <2>3
<1> QED
  BY <1>2, <1>3, <1>4, <1>5, <1>6, <1>7, <1>8 DEF ComputesWell

\* An instruction other than a load or a store.
LEMMA InternalTyped ==
  ASSUME WellTyped(Images), FlowInv, CoreTypes, Execute, Internal(program[pc])
  PROVE  CoreTypes'
<1> DEFINE i == program[pc]
<1>1. WellFormed(image, i)
  BY Fetched, FetchedWell DEF FlowInv
<1>2. image' = image /\ rdata_q' = rdata_q /\ stalled' = stalled
  BY DEF Internal, others, bus, image
<1>3. DataTypes /\ FlagTypes
  BY DEF CoreTypes
<1> HIDE DEF i
<1>4. ASSUME UNCHANGED flags, DataTypes' PROVE CoreTypes'
  BY <1>2, <1>3, <1>4 DEF CoreTypes, FlagTypes, flags
<1>5. ASSUME UNCHANGED <<acc, kept, ret, globals>>, FlagTypes' PROVE CoreTypes'
  BY <1>2, <1>3, <1>5 DEF CoreTypes, DataTypes
<1>6. CASE Compute(i)
  <2>1. IsWord(image, acc')
    BY <1>1, <1>3, <1>6, ComputedTyped DEF Compute
  <2> QED
    BY <1>2, <1>3, <1>4, <1>6, <2>1 DEF Compute, DataTypes, data
<1>7. CASE Keeping(i)
  BY <1>2, <1>3, <1>4, <1>7 DEF Keeping, DataTypes, data
<1>8. CASE Assigning(i)
  <2>1. i.name \in Globals /\ IsWord(image, IF i.op = "assign" THEN i.value ELSE acc)
    BY <1>1, <1>3, <1>8 DEF Assigning, WellFormed, DataTypes
  <2>2. DOMAIN globals' = Globals /\ \A name \in Globals : IsWord(image, globals'[name])
    BY <1>3, <1>8, <2>1 DEF Assigning, DataTypes
  <2> QED
    BY <1>2, <1>3, <1>4, <1>8, <2>2 DEF Assigning, DataTypes
<1>9. CASE Delivering(i) \/ Branch(i) \/ Pausing(i) \/ Leaving(i) \/ Jumping(i)
  BY <1>2, <1>3, <1>4, <1>9 DEF Delivering, Branch, Pausing, Leaving, Jumping, DataTypes, data
<1>10. CASE Returning(i) \/ Check(i)
  <2>1. ret' \in Nat
    BY <1>1, <1>3, <1>10 DEF Returning, Check, Returns, WellFormed, DataTypes, Checks
  <2> QED
    BY <1>2, <1>3, <1>4, <1>10, <2>1 DEF Returning, Check, DataTypes, data
<1>11. CASE FallAsleep(i)
  BY <1>2, <1>3, <1>5, <1>11 DEF FallAsleep, FlagTypes, data
<1>12. CASE Csr(i)
  <2>1. MasksWell(i)
    BY <1>1, <1>12 DEF WellFormed, Csr
  <2>2. mie' \subseteq Interrupts
    BY <1>3, <1>12, <2>1 DEF Csr, MasksWell, FlagTypes
  <2>3. MIE' \in BOOLEAN
    <3>1. CASE i.f = "global"
      BY <1>12, <2>1, <3>1 DEF Csr, MasksWell
    <3>2. CASE i.f = "restore_global"
      BY <1>12, <3>2 DEF Csr
    <3>3. CASE i.f \notin {"global", "restore_global"}
      BY <1>3, <1>12, <3>3 DEF Csr, FlagTypes
    <3> QED
      BY <3>1, <3>2, <3>3
  <2>4. /\ DOMAIN frame' = {"pc", "acc", "kept", "MIE"}
        /\ frame'.acc = frame.acc /\ frame'.kept = frame.kept /\ frame'.MIE = frame.MIE
    BY <1>3, <1>12 DEF Csr, FlagTypes
  <2>5. FlagTypes'
    BY <1>2, <1>3, <2>2, <2>3, <2>4 DEF FlagTypes
  <2> QED
    BY <1>5, <1>12, <2>5 DEF Csr, data
<1> QED
  BY <1>6, <1>7, <1>8, <1>9, <1>10, <1>11, <1>12 DEF Internal, i

\* Every step keeps the types of the core.
LEMMA CoreTypesStep ==
  ASSUME WellTyped(Images), FlowInv, CoreTypes, PortTypes, AccessTypes, [Next]_vars
  PROVE  CoreTypes'
<1>1. image' = image
  BY LoadedStays DEF image
<1>2. DataTypes /\ FlagTypes
  BY DEF CoreTypes
<1>3. CASE Execute
  BY <1>3, IssueTyped, InternalTyped, Fetched DEF Accesses, FlowInv
<1>4. CASE Stall
  BY <1>1, <1>2, <1>4, SocAssumption DEF Stall, CoreTypes, DataTypes, FlagTypes, flags, data, bus
<1>5. CASE Respond
  <2>1. UNCHANGED <<kept, ret, flags, data, rdata_q, stalled>> /\ access.valid = TRUE
    BY <1>5 DEF Respond, FlowInv, CoreInv
  <2>2. acc' = IF access.we THEN acc ELSE ReadData
    BY <1>5 DEF Respond
  <2>3. IsWord(image, acc')
    <3>1. access.we = TRUE \/ access.we = FALSE
      BY <2>1, AccessedPort DEF FlowInv
    <3>2. CASE access.we = TRUE
      BY <1>2, <2>2, <3>2 DEF DataTypes
    <3>3. CASE access.we = FALSE
      BY <2>1, <2>2, <3>3, ReadTyped
    <3> QED
      BY <3>1, <3>2, <3>3
  <2> QED
    BY <1>1, <1>2, <2>1, <2>3 DEF CoreTypes, DataTypes, FlagTypes, flags, data
<1>6. CASE Fault \/ TakeInterrupt
  <2>1. /\ frame' = [pc |-> pc, acc |-> acc, kept |-> kept, MIE |-> MIE] /\ MIE' = FALSE
        /\ UNCHANGED <<acc, kept, ret, mie, data, rdata_q, stalled>>
    BY <1>6 DEF Fault, TakeInterrupt, Trap
  <2>2. FlagTypes'
    BY <1>1, <1>2, <2>1 DEF FlagTypes, DataTypes
  <2> QED
    BY <1>1, <1>2, <2>1, <2>2 DEF CoreTypes, DataTypes, data
<1>7. CASE Mret
  <2>1. /\ acc' = frame.acc /\ kept' = frame.kept /\ MIE' = frame.MIE /\ frame' = NoFrame
        /\ UNCHANGED <<ret, mie, data, bus, stalled>>
    BY <1>7 DEF Mret
  <2>2. IsWord(image, Num(0))
    BY BitsAre
  <2>3. FlagTypes'
    BY <1>1, <1>2, <2>1, <2>2 DEF FlagTypes, NoFrame
  <2> QED
    BY <1>1, <1>2, <2>1, <2>3 DEF CoreTypes, DataTypes, FlagTypes, data, bus
<1>8. CASE Sleep \/ WakeUp \/ DebugWake \/ DebugPoll \/ Finished \/ UNCHANGED vars
  <2>1. UNCHANGED <<acc, kept, ret, mie, MIE, frame, globals, rdata_q, stalled>>
    BY <1>8 DEF Sleep, WakeUp, DebugWake, DebugPoll, Finished, vars, core, data, bus
  <2> QED
    BY <1>1, <1>2, <2>1 DEF CoreTypes, DataTypes, FlagTypes
<1> QED
  BY <1>3, <1>4, <1>5, <1>6, <1>7, <1>8 DEF Next

\* Every read in its response phase was taken over by its port.
LEMMA AccessStep ==
  ASSUME FlowInv, AccessTypes, [Next]_vars
  PROVE  AccessTypes'
<1>1. CASE UNCHANGED vars
  BY <1>1 DEF vars, core, gpio, uart, AccessTypes
<1>2. CASE Unaccessed
  BY <1>2 DEF Unaccessed, AccessTypes
<1>3. CASE Accesses
  <2>1. access' = TheRequest /\ Hardware(TheRequest, {}) /\ TheRequest.valid = TRUE
    BY <1>3, AccessMade
  <2>2. GpioCycle(TheRequest, Pads, {}) /\ \E c : UartCycle(TheRequest, c)
    BY <2>1 DEF Hardware
  <2> QED
    BY <2>1, <2>2 DEF AccessTypes, GpioCycle, UartCycle
<1> QED
  BY <1>1, <1>2, <1>3, StepAccesses

\* The alarm that is asked for is a constant or computed within the range.
LEMMA ArgumentStep ==
  ASSUME FlowInv, Structured(image), DataTypes, ArgumentInv, [Next]_vars
  PROVE  ArgumentInv'
<1>1. image' = image
  BY LoadedStays DEF image
<1>2. TimeMax \in Nat
  BY HalvesWithin
<1>3. ASSUME NEW q \in 1 .. Len(image.code), SetsAlarm(image, q), main_pc' \in {q, q + 1}
      PROVE  main_acc'.num \in 0 .. TimeMax
  <2>1. /\ q > 1 /\ image.code[q] = HighStore /\ q \notin Entries(image) /\ q + 1 \notin Entries(image)
    BY <1>3, AlarmCode
  <2>2. q - 1 \in Nat /\ (q - 1) + 1 = q
    BY <2>1
  <2>3. main_pc \in {q, q + 1} => main_acc.num \in 0 .. TimeMax
    BY <1>3 DEF ArgumentInv
  <2>4. CASE UNCHANGED main
    BY <1>3, <2>3, <2>4 DEF main
  <2>5. CASE main_pc' = q /\ ~UNCHANGED main
    <3>1. handling = 0 /\ pc = q - 1 /\ Does(image.code[q - 1]) /\ main_acc' = acc'
      BY <2>1, <2>2, <2>5, FromBefore
    <3>2. CASE SetsAlarmTo(image, q)
      <4>1. PICK v \in 0 .. TimeMax : image.code[q - 1] = Take(Num(v))
        BY <3>2, AlarmToCode
      <4>2. acc' = Num(v)
        BY <3>1, <4>1 DEF Does, Take, Computed
      <4> QED
        BY <3>1, <4>2 DEF Num
    <3>3. CASE SetsAlarmIn(image, q)
      <4> DEFINE i == image.code[q - 1]
      <4>1. i.op = "compute" /\ i.f = "add" /\ i.n \in Nat
        BY <3>3, AlarmInCode
      <4>2. acc' = Num((acc.num + i.n) % (TimeMax + 1))
        BY <3>1, <4>1 DEF Does, Computed
      <4>3. acc.num \in Nat
        BY DEF DataTypes, IsWord
      <4>4. (acc.num + i.n) % (TimeMax + 1) \in 0 .. TimeMax
        BY <1>2, <4>1, <4>3
      <4> QED
        BY <3>1, <4>2, <4>4 DEF Num
    <3> QED
      BY <1>3, <3>2, <3>3 DEF SetsAlarm
  <2>6. CASE main_pc' = q + 1 /\ ~UNCHANGED main
    <3>1. main_pc = q /\ Does(image.code[q]) /\ main_acc = acc /\ main_acc' = acc'
      BY <2>1, <2>6, FromBefore
    <3>2. acc' = acc
      BY <2>1, <3>1 DEF Does, HighStore, StorePart
    <3> QED
      BY <2>3, <3>1, <3>2
  <2> QED
    BY <1>3, <2>4, <2>5, <2>6
<1> QED
  BY <1>1, <1>3 DEF ArgumentInv

\* At reset everything has its type.
LEMMA TypesInit ==
  ASSUME WellTyped(Images), Init
  PROVE  FlowInv /\ CoreTypes /\ PortTypes /\ AccessTypes /\ ArgumentInv
<1>1. Structured(image) /\ loaded \in DOMAIN Images
  BY DEF WellTyped, Init, image
<1>2. FlowInv
  BY <1>1, FlowInit
<1>3. IsWord(image, Num(0))
  BY BitsAre
<1>4. CoreTypes
  <2>1. /\ acc = Num(0) /\ kept = Num(0) /\ rdata_q = Num(0) /\ ret = 0 /\ stalled = 0
        /\ globals = [name \in Globals |-> Num(0)]
        /\ frame = NoFrame /\ mie = {} /\ MIE = FALSE
    BY DEF Init
  <2>2. DataTypes
    BY <1>3, <2>1, SocAssumption DEF DataTypes
  <2>3. FlagTypes
    BY <1>3, <2>1 DEF FlagTypes, NoFrame
  <2> QED
    BY <2>2, <2>3 DEF CoreTypes
<1>5. PortTypes
  <2>0. TimerInit /\ ClintInit /\ GpioInit /\ UartInit
    BY DEF Init
  <2>1. TimerTypeOK
    <3>1. enable \in BOOLEAN /\ autoreset \in BOOLEAN /\ expired \in BOOLEAN /\ overflow \in BOOLEAN
      BY <2>0, Zenon DEF TimerInit
    <3>2. count \in 0 .. CountMax /\ compare \in 0 .. CountMax
      BY <2>0, CountMaxAssumption DEF TimerInit
    <3> QED
      BY <3>1, <3>2 DEF TimerTypeOK
  <2>2. ClintTypeOK
    <3>1. msip \in BOOLEAN
      BY <2>0, Zenon DEF ClintInit
    <3>2. mtime \in 0 .. TimeMax /\ mtimecmp \in 0 .. TimeMax
      BY <2>0, HalvesWithin DEF ClintInit
    <3> QED
      BY <3>1, <3>2 DEF ClintTypeOK
  <2>3. GpioTypeOK
    BY <2>0 DEF GpioInit, GpioTypeOK
  <2>4. UartTypes
    <3>1. IsSeq(<<>>) /\ Len(<<>>) = 0
      <4>1. <<>> \in Seq({})
        BY EmptySeq
      <4> QED
        BY <4>1 DEF IsSeq
    <3>2. FifoDepth \in Nat /\ 0 <= FifoDepth
      BY DEF FifoDepth
    <3>3. UartTypeOK
      <4>1. thr_full \in BOOLEAN /\ rhr_full \in BOOLEAN
        BY <2>0, Zenon DEF UartInit
      <4>2. /\ tx_state = "IDLE" /\ baud \in 0 .. BaudPeriod /\ tx_bit \in 0 .. WordBits
            /\ Len(tx_fifo) <= FifoDepth /\ Len(rx_fifo) <= FifoDepth
        BY <2>0, <3>1, <3>2, UartAssumption DEF UartInit
      <4> QED
        BY <4>1, <4>2 DEF UartTypeOK
    <3> QED
      BY <2>0, <3>1, <3>3 DEF UartInit, UartTypes
  <2> QED
    BY <2>1, <2>2, <2>3, <2>4, SocAssumption, BootAddrAssumption
      DEF Init, SocCtrlInit, PortTypes
<1>6. AccessTypes
  BY DEF Init, NoRequest, AccessTypes
<1>7. ArgumentInv
  <2>1. main_pc = 1
    BY DEF Init, main_pc
  <2>2. ASSUME NEW q \in 1 .. Len(image.code), SetsAlarm(image, q) PROVE q > 1
    BY <2>2, AlarmCode
  <2> QED
    BY <2>1, <2>2 DEF ArgumentInv
<1> QED
  BY <1>2, <1>4, <1>5, <1>6, <1>7

\* Whatever well-typed images run, the core and every peripheral are of their
\* types: no counter, time, FIFO or bit position leaves its range, no handler
\* runs but those of the vectored causes, and no pin or interrupt is known that
\* the SoC does not have (obi_timer.sv, clint.sv, gpio.sv, obi_uart.sv).
THEOREM TypesCorrect ==
  ASSUME WellTyped(Images), AlarmSetByDriver(Images)
  PROVE  Spec => []TypeOK
<1> DEFINE Types == FlowInv /\ CoreTypes /\ PortTypes /\ AccessTypes /\ ArgumentInv
<1>1. Init => Types
  BY TypesInit
<1>2. Types /\ [Next]_vars => Types'
  <2> SUFFICES ASSUME Types, [Next]_vars PROVE Types'
    OBVIOUS
  <2>1. Structured(image)
    BY DEF WellTyped, FlowInv, CoreInv, image
  <2>2. FlowInv'
    BY <2>1, CoreStep, JumpStep DEF FlowInv
  <2>3. CoreTypes' /\ PortTypes'
    BY CoreTypesStep, PortStep
  <2>4. AccessTypes' /\ ArgumentInv'
    BY <2>1, AccessStep, ArgumentStep DEF CoreTypes
  <2> QED
    BY <2>2, <2>3, <2>4
<1>3. Types => TypeOK
  BY DEF FlowInv, CoreInv, CoreTypes, DataTypes, FlagTypes, PortTypes, UartTypes, TypeOK, Interrupts
<1> HIDE DEF Types
<1> QED
  BY <1>1, <1>2, <1>3, PTL DEF Spec

=============================================================================

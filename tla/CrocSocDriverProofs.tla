------------------------- MODULE CrocSocDriverProofs -------------------------
(***************************************************************************)
(* What holds of the SoC by the way programs use interrupts, timer and     *)
(* UART.  With every interrupt masked again by then, the core halts for    *)
(* good behind _eoc, and what the debugger reads there is final.  Set by   *)
(* the functions of obi_timer.c, the timer keeps its period, and           *)
(* obi_timer_sleep is long enough.  Read with getchar, characters come     *)
(* once and in order.                                                      *)
(*                                                                         *)
(* MaskInv says where which interrupt may be enabled, PeriodInv what the   *)
(* timer is while main() sets it, SleepInv what main() has waited for, and *)
(* ReceiverInv in which place every character sent is.                     *)
(***************************************************************************)
EXTENDS CrocSocProofs, SequenceTheorems

-----------------------------------------------------------------------------
(* The end of a program.                                                    *)

\* A wfi is passed by waking up.
LEMMA WfiPassed ==
  ASSUME FlowInv, [Next]_vars, Advances, program[pc].op = "wfi"
  PROVE  WakeUp
<1>1. pc' = pc + 1 /\ handling = 0 /\ handling' = 0 /\ pc \in 1 .. Len(image.code)
  BY DEF Advances
<1>2. pc' # pc
  BY <1>1
<1>3. access.valid = FALSE
  BY AccessedPort DEF FlowInv, CoreInv
<1>4. ~(Execute /\ Issue(program[pc]))
  BY <1>2 DEF Issue
<1>5. ~(Execute /\ Internal(program[pc]))
  <2> SUFFICES ASSUME Internal(program[pc]) PROVE FALSE
    OBVIOUS
  <2>1. FallAsleep(program[pc])
    BY DEF Internal, Compute, Keeping, Assigning, Delivering, Branch, Pausing, Csr, Leaving,
      Jumping, Returning, Check
  <2> QED
    BY <1>2, <2>1 DEF FallAsleep
<1>6. ~UNCHANGED vars /\ ~Finished
  BY <1>2 DEF Finished, vars, core
<1>7. ~Stall /\ ~Sleep /\ ~DebugWake /\ ~DebugPoll
  BY <1>2 DEF Stall, Sleep, DebugWake, DebugPoll, core
<1>8. ~Respond /\ ~Fault /\ ~TakeInterrupt /\ ~Mret
  <2>1. ~Respond /\ ~Fault
    BY <1>3 DEF Respond, Fault
  <2>2. ~Mret
    BY <1>1 DEF Mret, AtEnd
  <2>3. ~TakeInterrupt
    <3> SUFFICES ASSUME TakeInterrupt PROVE FALSE
      OBVIOUS
    <3>1. handling' = Cause /\ Cause \in Causes
      BY CauseIsOne DEF TakeInterrupt, Trap
    <3> QED
      BY <1>1, <3>1 DEF Causes, IRQ_SOFTWARE, IRQ_TIMER, IRQ_OBI_TIMER, IRQ_GPIO, LOAD_FAULT, STORE_FAULT
  <2> QED
    BY <2>1, <2>2, <2>3
<1> QED
  BY <1>4, <1>5, <1>6, <1>7, <1>8, Fetched DEF Next, FlowInv

\* Where an interrupt is enabled next.
LEMMA EnabledNext ==
  ASSUME NEW im, NEW irq, NEW m \in 1 .. Len(im.code),
         irq \in Enabled(im.code[m]) \/ (m \in EnabledAt(im, irq) /\ ~Masks(im.code[m], irq))
  PROVE  m + 1 \in EnabledAt(im, irq)
<1>1. CASE irq \in Enabled(im.code[m])
  <2>1. m \in 1 .. m /\ \A k \in (m + 1) .. m : ~Masks(im.code[k], irq)
    OBVIOUS
  <2> QED
    BY <1>1, <2>1 DEF EnabledAt
<1>2. CASE m \in EnabledAt(im, irq) /\ ~Masks(im.code[m], irq)
  <2>1. PICK l \in 1 .. Len(im.code) : m = l + 1 /\ \E n \in 1 .. l :
          irq \in Enabled(im.code[n]) /\ \A k \in (n + 1) .. l : ~Masks(im.code[k], irq)
    BY <1>2 DEF EnabledAt
  <2>2. PICK n \in 1 .. l :
          irq \in Enabled(im.code[n]) /\ \A k \in (n + 1) .. l : ~Masks(im.code[k], irq)
    BY <2>1
  <2>3. \A k \in (n + 1) .. m : k \in (n + 1) .. l \/ k = m
    BY <2>1
  <2>4. n \in 1 .. m /\ \A k \in (n + 1) .. m : ~Masks(im.code[k], irq)
    BY <1>2, <2>1, <2>2, <2>3
  <2> QED
    BY <2>2, <2>4 DEF EnabledAt
<1> QED
  BY <1>1, <1>2

\* An interrupt is enabled only where the code says so, the sleep functions find
\* it disabled, and no fault is handled meanwhile.
MaskInv ==
  /\ mie \subseteq Interrupts
  /\ \A irq \in mie : main_pc \in EnabledAt(image, irq)
  /\ saved.irq = FALSE
  /\ handling \in Faults => mie = {}

\* An instruction of main() other than a load or a store.
LEMMA MainMasks ==
  ASSUME FlowInv, Structured(image), EndsMasked(image), MaskInv, handling = 0,
         Execute, Internal(program[pc]), ChecksEnabled(image) => ret' = 0
  PROVE  MaskInv'
<1> DEFINE i == program[pc]
<1>1. /\ program = image.code /\ pc \in 1 .. Len(program) /\ asleep = FALSE
      /\ main_pc = pc
  BY Fetched DEF program, FlowInv, main_pc
<1>2. handling' = 0 /\ main_pc' = pc'
  BY MainExecutes DEF main_pc
<1>3. image' = image
  BY DEF Internal, others, image
<1>4. handling' \notin Faults
  BY <1>2 DEF Faults, LOAD_FAULT, STORE_FAULT
<1>5. \A irq \in mie : irq \in Interrupts /\ pc \in EnabledAt(image, irq) /\ KeepsTo(image, pc, irq)
  BY <1>1 DEF MaskInv, EndsMasked
<1>6. Enabled(i) \subseteq Interrupts
  BY <1>1 DEF EndsMasked
<1> HIDE DEF i
<1>7. ASSUME mie' = mie, saved' = saved, pc' = pc
      PROVE  MaskInv'
  BY <1>1, <1>2, <1>3, <1>4, <1>7 DEF MaskInv
<1>8. ASSUME mie' = mie, saved' = saved, pc' = pc + 1, i.op # "csr"
      PROVE  MaskInv'
  <2>1. \A irq : ~Masks(i, irq)
    BY <1>8 DEF Masks
  <2>2. \A irq \in mie : pc + 1 \in EnabledAt(image, irq)
    BY <1>1, <1>5, <2>1, EnabledNext DEF i
  <2> QED
    BY <1>2, <1>3, <1>4, <1>8, <2>2 DEF MaskInv
<1>9. CASE Csr(i)
  <2>1. /\ i.op = "csr" /\ pc' = pc + 1
        /\ mie' = CASE i.f = "csrs"    -> mie \cup {i.irq}
                    [] i.f = "csrc"    -> mie \ {i.irq}
                    [] i.f = "csrw"    -> i.irqs
                    [] i.f = "restore" -> IF saved.irq THEN mie ELSE mie \ {i.irq}
                    [] OTHER           -> mie
        /\ saved' = CASE i.f = "save"           -> [irq |-> i.irq \in mie, global |-> MIE]
                      [] i.f = "restore_global" -> NothingSaved
                      [] OTHER                  -> saved
    BY <1>9 DEF Csr
  <2>2. saved'.irq = FALSE
    <3>1. CASE i.f = "save"
      <4>1. mie = {}
        BY <1>5, <2>1, <3>1, <1>1 DEF KeepsTo, i
      <4>2. saved' = [irq |-> i.irq \in mie, global |-> MIE]
        BY <2>1, <3>1
      <4>3. (i.irq \in mie) = FALSE
        BY <4>1
      <4> QED
        BY <4>2, <4>3
    <3>2. CASE i.f # "save"
      BY <2>1, <3>2 DEF NothingSaved, MaskInv
    <3> QED
      BY <3>1, <3>2
  <2>3. ASSUME NEW irq \in mie'
        PROVE  irq \in Enabled(i) \/ (irq \in mie /\ ~Masks(i, irq))
    <3>1. saved.irq = FALSE
      BY DEF MaskInv
    <3> QED
      BY <2>1, <2>3, <3>1 DEF Enabled, Masks
  <2>4. ASSUME NEW irq \in mie'
        PROVE  irq \in Interrupts /\ pc + 1 \in EnabledAt(image, irq)
    <3>1. pc \in 1 .. Len(image.code) /\ i = image.code[pc]
      BY <1>1 DEF i
    <3> QED
      BY <1>5, <1>6, <2>3, <3>1, EnabledNext
  <2> QED
    BY <1>2, <1>3, <1>4, <2>1, <2>2, <2>4 DEF MaskInv
<1>10. CASE FallAsleep(i)
  BY <1>7, <1>10 DEF FallAsleep
<1>11. CASE Compute(i) \/ Keeping(i) \/ Assigning(i) \/ Delivering(i) \/ Leaving(i)
  BY <1>8, <1>11 DEF Compute, Keeping, Assigning, Delivering, Leaving, flags
<1>12. CASE Pausing(i)
  BY <1>7, <1>8, <1>12 DEF Pausing, flags
<1>13. CASE Branch(i)
  <2>1. i.op = "branch" /\ mie' = mie /\ saved' = saved /\ (pc' = pc + 1 \/ pc' = pc + i.by)
    BY <1>13 DEF Branch, flags
  <2>2. \A irq \in mie : pc + i.by \in EnabledAt(image, irq)
    BY <1>1, <1>5, <2>1 DEF KeepsTo, i
  <2>3. CASE pc' = pc + i.by
    BY <1>2, <1>3, <1>4, <2>1, <2>2, <2>3 DEF MaskInv
  <2> QED
    BY <1>8, <2>1, <2>3
<1>14. CASE Jumping(i) \/ Returning(i)
  <2>1. i.op \in {"jump", "return"} /\ mie' = mie /\ saved' = saved
    BY <1>14 DEF Jumping, Returning, flags
  <2>2. mie = {}
    BY <1>1, <1>5, <2>1 DEF KeepsTo, i
  <2> QED
    BY <1>2, <1>3, <1>4, <2>1, <2>2 DEF MaskInv
<1>15. CASE Check(i)
  <2>1. /\ i.op \in Checks /\ mie' = mie /\ saved' = saved
        /\ pc' = pc + 1 \/ ret' = i.code
    BY <1>15 DEF Check, Checks, Returns, flags
  <2>2. CASE pc' = pc + 1
    BY <1>8, <2>1, <2>2 DEF Checks
  <2>3. CASE ret' = i.code
    <3>1. mie = {}
      <4> SUFFICES ASSUME NEW irq \in mie PROVE FALSE
        OBVIOUS
      <4>1. ChecksEnabled(image) /\ i.code # 0
        BY <1>1, <1>5, <2>1 DEF KeepsTo, ChecksEnabled, i
      <4> QED
        BY <2>3, <4>1
    <3> QED
      BY <1>2, <1>3, <1>4, <2>1, <3>1 DEF MaskInv
  <2> QED
    BY <2>1, <2>2, <2>3
<1> QED
  BY <1>9, <1>10, <1>11, <1>12, <1>13, <1>14, <1>15 DEF Internal, i

\* A handler masks interrupts only.
LEMMA HandlerMasks ==
  ASSUME FlowInv, Structured(image), EndsMasked(image), handling # 0,
         Execute, Internal(program[pc])
  PROVE  mie' \subseteq mie /\ saved' = saved /\ ret' = ret
<1> DEFINE i == program[pc]
<1>1. /\ program = image.handlers[handling] /\ handling \in Causes /\ pc \in 1 .. Len(program)
  BY Fetched DEF program, FlowInv, CoreInv
<1>2. i.op \notin {"return"} \cup Checks /\ (i.op = "csr" => i.f \in {"csrc", "mepc"})
  BY <1>1 DEF EndsMasked
<1> HIDE DEF i
<1>3. CASE Csr(i)
  BY <1>2, <1>3 DEF Csr
<1>4. CASE ~Csr(i)
  BY <1>2, <1>4 DEF i, Internal, Compute, Keeping, Assigning, Delivering, Branch, Pausing,
    FallAsleep, Leaving, Jumping, Returning, Check, Checks, flags
<1> QED
  BY <1>3, <1>4

\* A load or a store that faults is behind no interrupt.
LEMMA FaultsMasked ==
  ASSUME EndsMasked(image), MaskInv, handling = 0, Faulting(image, pc)
  PROVE  mie = {}
<1> SUFFICES ASSUME NEW irq \in mie PROVE FALSE
  OBVIOUS
<1>1. irq \in Interrupts /\ pc \in EnabledAt(image, irq) /\ pc \in 1 .. Len(image.code)
  BY DEF MaskInv, main_pc, Faulting
<1> QED
  BY <1>1 DEF EndsMasked, KeepsTo

\* A step other than an instruction of main() moves main() to the next
\* instruction at most, and then it is none of the csr.
LEMMA MaskStep ==
  ASSUME FlowInv, Structured(image), EndsMasked(image), MaskInv, [Next]_vars,
         ChecksEnabled(image) => ret' = 0
  PROVE  MaskInv'
<1>1. image' = image
  BY StepFlows DEF image
<1>2. ASSUME mie' \subseteq mie, saved' = saved, main_pc' = main_pc,
             handling' \in Faults => (handling \in Faults \/ mie = {})
      PROVE  MaskInv'
  BY <1>1, <1>2 DEF MaskInv
<1>3. CASE Execute /\ Issue(program[pc])
  <2>1. UNCHANGED <<pc, flags>>
    BY <1>3 DEF Issue
  <2> QED
    BY <1>2, <2>1 DEF flags, main_pc
<1>4. CASE Execute /\ Internal(program[pc]) /\ handling = 0
  BY <1>4, MainMasks
<1>5. CASE Execute /\ Internal(program[pc]) /\ handling # 0
  <2>1. mie' \subseteq mie /\ saved' = saved /\ handling' = handling /\ (frame' = frame \/ Skips)
    BY <1>5, HandlerMasks, HandlerExecutes
  <2>2. CASE frame' = frame
    BY <1>2, <1>5, <2>1, <2>2 DEF main_pc
  <2>3. CASE Skips
    <3>1. mie = {} /\ saved.irq = FALSE
      BY <2>3 DEF Skips, MaskInv
    <3>2. mie' = {} /\ saved'.irq = FALSE
      BY <2>1, <3>1
    <3> QED
      BY <3>2 DEF MaskInv
  <2> QED
    BY <2>1, <2>2, <2>3
<1>6. CASE Stall \/ Sleep \/ DebugWake \/ DebugPoll \/ Finished \/ UNCHANGED vars
  <2>1. UNCHANGED <<pc, flags>>
    BY <1>6 DEF Stall, Sleep, DebugWake, DebugPoll, Finished, vars, core, flags
  <2> QED
    BY <1>2, <2>1 DEF flags, main_pc
<1>7. ASSUME handling = 0, handling' = 0, mie' = mie, saved' = saved, pc' = pc + 1,
             pc \in 1 .. Len(image.code), image.code[pc].op # "csr"
      PROVE  MaskInv'
  <2>1. \A irq : ~Masks(image.code[pc], irq)
    BY <1>7 DEF Masks
  <2>2. \A irq \in mie : pc \in EnabledAt(image, irq)
    BY <1>7 DEF MaskInv, main_pc
  <2>3. \A irq \in mie : pc + 1 \in EnabledAt(image, irq)
    BY <1>7, <2>1, <2>2, EnabledNext
  <2> QED
    BY <1>1, <1>7, <2>3 DEF MaskInv, main_pc, Faults, LOAD_FAULT, STORE_FAULT
<1>8. CASE Respond
  <2>1. UNCHANGED flags /\ access.valid = TRUE /\ pc' = pc + 1
    BY <1>8 DEF Respond, FlowInv, CoreInv
  <2>2. pc \in 1 .. Len(program) /\ program[pc].op # "csr"
    BY <2>1, AccessedPort DEF FlowInv
  <2>3. CASE handling = 0
    BY <1>7, <2>1, <2>2, <2>3 DEF program, flags
  <2>4. CASE handling # 0
    BY <1>2, <2>1, <2>4 DEF main_pc, flags
  <2> QED
    BY <2>3, <2>4
<1>9. CASE Fault \/ TakeInterrupt
  <2>1. handling = 0
    BY <1>9, FaultInMain DEF TakeInterrupt, Interrupted, FlowInv, CoreInv
  <2>2. PICK cause \in Causes : Trap(cause) /\ (cause \in Faults => Faulting(image, pc))
    BY <1>9, <2>1, MainTraps
  <2>3. main_pc' = main_pc
    BY <2>1, <2>2, TrapKeepsMain DEF main
  <2>4. handling' = cause /\ mie' = mie /\ saved' = saved
    BY <2>2 DEF Trap
  <2> QED
    BY <1>2, <2>1, <2>2, <2>3, <2>4, FaultsMasked
<1>10. CASE Mret
  <2>1. handling # 0 /\ handling' = 0 /\ pc' = frame.pc /\ mie' = mie /\ saved' = saved
    BY <1>10 DEF Mret, AtEnd
  <2> QED
    BY <1>2, <2>1 DEF main_pc, Faults, LOAD_FAULT, STORE_FAULT
<1>11. CASE WakeUp
  <2>1. asleep = TRUE /\ UNCHANGED <<mie, saved, handling, frame>> /\ pc' = pc + 1
    BY <1>11 DEF WakeUp, FlowInv, CoreInv
  <2>2. pc \in 1 .. Len(program) /\ program[pc].op = "wfi"
    BY <2>1 DEF FlowInv, CoreInv
  <2>3. CASE handling = 0
    BY <1>7, <2>1, <2>2, <2>3 DEF program
  <2>4. CASE handling # 0
    BY <1>2, <2>1, <2>4 DEF main_pc
  <2> QED
    BY <2>3, <2>4
<1> QED
  BY <1>3, <1>4, <1>5, <1>6, <1>8, <1>9, <1>10, <1>11, Fetched DEF Next, FlowInv

\* The three words of _eoc, where the boot ROM has them.
LEMMA EocCode ==
  ASSUME NEW im, EndsMasked(im)
  PROVE  /\ im.code[EocIndex] = StorePart(CORESTATUS, "report")
         /\ im.code[EocIndex + 1] = wfi
         /\ EocIndex = 7 /\ EocIndex + 2 \in 1 .. Len(im.code)
<1>1. Len(eoc) = 3 /\ eoc[1] = StorePart(CORESTATUS, "report") /\ eoc[2] = wfi
  BY DEF eoc
<1>2. EocIndex = 7
  BY DEF EocIndex, bootrom_start
<1>3. EocIndex + 3 - 1 \in 1 .. Len(im.code) /\ \A k \in 1 .. 3 : im.code[EocIndex + k - 1] = eoc[k]
  BY <1>1 DEF EndsMasked
<1>4. im.code[EocIndex + 1 - 1] = eoc[1] /\ im.code[EocIndex + 2 - 1] = eoc[2]
  BY <1>3
<1> QED
  BY <1>1, <1>2, <1>3, <1>4

\* No interrupt is enabled in _eoc.
LEMMA EocMasked ==
  ASSUME EndsMasked(image), MaskInv, main_pc \in {EocIndex, EocIndex + 1}
  PROVE  mie = {}
  BY DEF EndsMasked, MaskInv

\* main() does not come to what follows the wfi that halts.
HaltInv == main_pc # EocIndex + 2

\* The wfi that halts would have to wake up, which it cannot.
LEMMA HaltStep ==
  ASSUME FlowInv, Structured(image), EndsMasked(image), MaskInv, HaltInv, [Next]_vars
  PROVE  HaltInv'
<1> SUFFICES ASSUME main_pc' = EocIndex + 2 PROVE FALSE
  BY DEF HaltInv
<1>1. /\ image.code[EocIndex + 1] = wfi /\ EocIndex = 7
      /\ EocIndex + 2 \in 1 .. Len(image.code)
  BY EocCode
<1>2. CASE UNCHANGED main
  BY <1>2 DEF main, HaltInv
<1>3. CASE Enters
  BY <1>3 DEF Enters, EndsMasked
<1>4. CASE Advances
  <2>1. handling = 0 /\ pc = EocIndex + 1 /\ main_pc = EocIndex + 1 /\ program = image.code
    BY <1>1, <1>4 DEF Advances, main_pc, program
  <2>2. program[pc].op = "wfi"
    BY <1>1, <2>1 DEF wfi
  <2>3. WakeUp
    BY <1>4, <2>2, WfiPassed
  <2>4. mie = {}
    BY <2>1, EocMasked
  <2> QED
    BY <2>3, <2>4 DEF WakeUp
<1> QED
  BY <1>2, <1>3, <1>4, StepFlows DEF Flows

\* Nothing is enabled at reset, when main() has not begun.
LEMMA EndInit ==
  ASSUME Init
  PROVE  MaskInv /\ HaltInv
<1>1. /\ mie = {} /\ saved.irq = FALSE
      /\ main_pc = 1 /\ EocIndex = 7
  BY DEF Init, NothingSaved, main_pc, EocIndex, bootrom_start
<1> QED
  BY <1>1 DEF MaskInv, HaltInv

\* No check has failed in an image that checks something while an interrupt is
\* enabled: a check that fails there goes to _eoc with the interrupt on.
ChecksPass == ChecksEnabled(image) => TestsPass

\* What is so in every state.
EndSafe == FlowInv /\ MaskInv /\ HaltInv

\* Every step keeps it, as long as those checks pass.
LEMMA EndStep ==
  ASSUME MaskedAtEnd(Images), EndSafe, [Next]_vars, ChecksPass'
  PROVE  EndSafe'
<1>1. image' = image /\ Structured(image) /\ EndsMasked(image)
  BY LoadedStays DEF EndSafe, FlowInv, CoreInv, MaskedAtEnd, image
<1>2. ChecksEnabled(image) => ret' = 0
  BY <1>1 DEF ChecksPass, TestsPass
<1> QED
  BY <1>1, <1>2, CoreStep, JumpStep, MaskStep, HaltStep DEF EndSafe, FlowInv

\* The wfi in which bootrom.S halts the core after _eoc is not left: crt0.S and
\* the programs have masked every interrupt that they enabled.
THEOREM HaltsForGood ==
  ASSUME MaskedAtEnd(Images)
  PROVE  Spec /\ []ChecksPass => []HaltIsFinal
<1>1. Init => EndSafe
  <2> SUFFICES ASSUME Init PROVE EndSafe
    OBVIOUS
  <2>1. Structured(image)
    BY DEF Init, MaskedAtEnd, image
  <2> QED
    BY <2>1, FlowInit, EndInit DEF EndSafe
<1>2. EndSafe /\ [Next]_vars /\ ChecksPass' => EndSafe'
  BY EndStep
<1>3. EndSafe => HaltIsFinal
  BY DEF EndSafe, HaltInv, HaltIsFinal, main_pc
<1> QED
  BY <1>1, <1>2, <1>3, PTL DEF Spec

\* The debugger reports only what is final.
Reporting ==
  /\ handling = 0 /\ core_status = 2 * ret + 1
  /\ (pc = EocIndex /\ access.valid = TRUE) \/ pc = EocIndex + 1

\* A report in the core status, and what the debugger has read of it, is final.
ReportInv ==
  /\ core_status # 0 => Reporting
  /\ reported # 0 => core_status = reported /\ pc = EocIndex + 1

\* A request to the core status reaches it.
LEMMA StatusRequest ==
  /\ Port(CORESTATUS) = "SOCCTRL" /\ CORESTATUS - BASE_ADDR["SOCCTRL"] = SOC_CTRL.CORESTATUS
<1>1. /\ "SOCCTRL" \in DOMAIN SpaceSize /\ SOC_CTRL.CORESTATUS \in Nat
      /\ SOC_CTRL.CORESTATUS < SpaceSize["SOCCTRL"]
  BY DEF SpaceSize, SOC_CTRL
<1>2. CORESTATUS = BASE_ADDR["SOCCTRL"] + SOC_CTRL.CORESTATUS
  BY DEF CORESTATUS
<1>3. Port(CORESTATUS) = "SOCCTRL"
  BY <1>1, <1>2, PortOf
<1> QED
  BY <1>1, <1>2, <1>3 DEF BASE_ADDR, SpaceSize

\* A step stores the core status, or keeps it.
LEMMA StatusKept ==
  ASSUME [Next]_vars
  PROVE  \/ core_status' = core_status
         \/ /\ Accesses /\ Hardware(TheRequest, {})
            /\ Writes(TheRequest, "SOCCTRL", SOC_CTRL.CORESTATUS)
            /\ core_status' = TheRequest.wdata.num
<1>1. ASSUME NEW req, NEW ignored, Hardware(req, ignored)
      PROVE  core_status' = IF Writes(req, "SOCCTRL", SOC_CTRL.CORESTATUS) THEN req.wdata.num ELSE core_status
  BY <1>1 DEF Hardware, SocCtrlCycle, SocCtrlWrites
<1>2. ~Writes(NoRequest, "SOCCTRL", SOC_CTRL.CORESTATUS)
  BY DEF Writes, NoRequest
<1>3. ~Writes(Request(TRUE, ClintReg(CLINT.MSIP), Bits({0})), "SOCCTRL", SOC_CTRL.CORESTATUS)
  BY WakeRequest DEF Writes
<1>4. CASE UNCHANGED vars
  BY <1>4 DEF vars, soc_ctrl
<1>5. CASE \E ignored : Hardware(NoRequest, ignored)
  BY <1>1, <1>2, <1>5
<1>6. CASE Hardware(Request(TRUE, ClintReg(CLINT.MSIP), Bits({0})), {})
  BY <1>1, <1>3, <1>6
<1>7. CASE Accesses /\ Hardware(TheRequest, {})
  BY <1>1, <1>7
<1> QED
  BY <1>4, <1>5, <1>6, <1>7, StepRequests

\* The store of the core status is that of _eoc.
LEMMA ReportMade ==
  ASSUME FlowInv, EndsMasked(image), ReportsAtEoc(image), ~Itself, Accesses,
         Writes(TheRequest, "SOCCTRL", SOC_CTRL.CORESTATUS)
  PROVE  handling = 0 /\ pc = EocIndex /\ TheRequest.wdata = Num(2 * ret + 1)
<1>1. /\ StoresTo(program[pc], "SOCCTRL", SOC_CTRL.CORESTATUS)
      /\ pc \in 1 .. Len(program) /\ program[pc].op = "store"
  BY WritesStored, AccessMade DEF StoresTo
<1>2. handling = 0
  <2> SUFFICES ASSUME handling # 0 PROVE FALSE
    OBVIOUS
  <2>1. program = image.handlers[handling] /\ handling \in Causes
    BY DEF program, FlowInv, CoreInv
  <2> QED
    BY <1>1, <2>1 DEF ReportsAtEoc
<1>3. program = image.code
  BY <1>2 DEF program
<1>4. pc = EocIndex
  <2> SUFFICES ASSUME pc # EocIndex PROVE FALSE
    OBVIOUS
  <2>1. pc >= MainIndex /\ image.code[pc].addr = CORESTATUS
    BY <1>1, <1>3 DEF ReportsAtEoc
  <2>2. MainIndex \in Int
    BY EocCode DEF MainIndex, boot_target, eoc
  <2>3. pc \in MainIndex .. Len(image.code)
    BY <1>1, <1>3, <2>1, <2>2
  <2> QED
    BY <1>1, <1>3, <2>1, <2>3 DEF Itself
<1>5. program[pc].part = "report"
  BY <1>3, <1>4, EocCode DEF StorePart
<1>6. StoreData(program[pc]) = Num(2 * ret + 1)
  BY <1>5 DEF StoreData
<1> QED
  BY <1>1, <1>2, <1>4, <1>6, StoreRequest DEF TheRequest

\* What the core does once _eoc has reported.
LEMMA ReportStays ==
  ASSUME FlowInv, EndsMasked(image), MaskInv, Reporting, [Next]_vars
  PROVE  /\ handling' = 0 /\ ret' = ret
         /\ (pc = EocIndex /\ pc' = pc /\ access'.valid = TRUE /\ reported' = reported) \/ pc' = EocIndex + 1
<1> DEFINE Stays == /\ handling' = 0 /\ ret' = ret
                    /\ (pc = EocIndex /\ pc' = pc /\ access'.valid = TRUE /\ reported' = reported)
                         \/ pc' = EocIndex + 1
<1>1. /\ image.code[EocIndex] = StorePart(CORESTATUS, "report") /\ image.code[EocIndex + 1] = wfi
      /\ EocIndex = 7 /\ program = image.code /\ handling = 0
  BY EocCode DEF Reporting, program
<1>2. CASE UNCHANGED vars \/ Finished
  BY <1>2 DEF Finished, vars, core, Reporting
<1>3. CASE access.valid = TRUE
  <2>0. /\ program[pc].op \in {"load", "store"} /\ access.port = Port(program[pc].addr)
    BY <1>3, AccessedPort DEF FlowInv
  <2>1. pc = EocIndex
    <3>1. pc # EocIndex + 1
      BY <1>1, <2>0 DEF wfi
    <3> QED
      BY <3>1 DEF Reporting
  <2>2. access.port = "SOCCTRL"
    <3>1. program[pc].addr = CORESTATUS
      BY <1>1, <2>1 DEF StorePart
    <3> QED
      BY <2>0, <3>1, StatusRequest
  <2>3. ~Interrupted /\ ~Fault /\ asleep = FALSE /\ ~AtEnd
    BY <1>1, <1>3, <2>1, <2>2, AccessedPort
      DEF Interrupted, Fault, FlowInv, CoreInv, StorePart, AtEnd
  <2>4. CASE Respond
    BY <1>1, <2>1, <2>4 DEF Respond, flags
  <2> QED
    BY <1>1, <1>2, <1>3, <2>3, <2>4 DEF Next, Execute, Between, Stall, TakeInterrupt, Mret, Sleep,
      WakeUp, DebugWake, Wakes, DebugPoll, Polls
<1>4. CASE access.valid = FALSE
  <2>1. pc = EocIndex + 1 /\ main_pc = EocIndex + 1
    BY <1>1, <1>4 DEF Reporting, main_pc
  <2>2. mie = {}
    BY <2>1, EocMasked
  <2>3. ~TakeInterrupt /\ ~WakeUp
    BY <2>2 DEF TakeInterrupt, Interrupted, WakeUp
  <2>4. ~Respond /\ ~Fault /\ ~Mret
    BY <1>1, <1>4 DEF Respond, Fault, Mret, AtEnd
  <2>5. CASE Execute
    <3>1. Issue(program[pc]) \/ Internal(program[pc])
      BY <2>5 DEF Execute
    <3>2. program[pc].op = "wfi"
      BY <1>1, <2>1 DEF wfi
    <3>3. FallAsleep(program[pc])
      BY <3>1, <3>2 DEF Issue, Internal, Compute, Keeping, Assigning, Delivering, Branch, Pausing,
        Csr, Leaving, Jumping, Returning, Check
    <3> QED
      BY <1>1, <2>1, <3>3 DEF FallAsleep
  <2>6. CASE Stall \/ Sleep \/ DebugWake \/ DebugPoll
    BY <1>1, <2>1, <2>6 DEF Stall, Sleep, DebugWake, DebugPoll, core, flags
  <2> QED
    BY <1>2, <2>3, <2>4, <2>5, <2>6 DEF Next
<1> QED
  BY <1>3, <1>4 DEF FlowInv, CoreInv

\* The report changes from 0 only, when the debugger reads the core status.
LEMMA ReportedStep ==
  ASSUME [Next]_vars
  PROVE  \/ reported' = reported
         \/ access.valid = FALSE /\ reported = 0 /\ core_status # 0 /\ reported' = core_status /\ pc' = pc
<1>1. CASE DebugPoll
  BY <1>1 DEF DebugPoll, Polls, core
<1> QED
  BY <1>1 DEF Next, Execute, Issue, Internal, Stall, Respond, Fault, TakeInterrupt, Trap, Mret,
    Sleep, WakeUp, DebugWake, Finished, others, vars

\* Every step keeps what has been reported.
LEMMA ReportStep ==
  ASSUME FlowInv, EndsMasked(image), ReportsAtEoc(image), MaskInv, ~Itself, ReportInv, [Next]_vars
  PROVE  ReportInv'
<1>1. CASE /\ Accesses /\ Hardware(TheRequest, {})
           /\ Writes(TheRequest, "SOCCTRL", SOC_CTRL.CORESTATUS)
           /\ core_status' = TheRequest.wdata.num
  <2>1. handling = 0 /\ pc = EocIndex /\ TheRequest.wdata = Num(2 * ret + 1)
    BY <1>1, ReportMade
  <2>2. core_status' = 2 * ret + 1
    BY <1>1, <2>1 DEF Num
  <2>3. /\ pc' = pc /\ handling' = handling /\ ret' = ret
        /\ access'.valid = TRUE /\ reported' = 0
    <3>1. Execute /\ Issue(program[pc]) /\ access' = TheRequest /\ TheRequest.valid = TRUE
      BY <1>1, AccessMade DEF Accesses
    <3> QED
      BY <3>1 DEF Issue, Execute, Between, others, flags
  <2> QED
    BY <2>1, <2>2, <2>3 DEF ReportInv, Reporting
<1>2. CASE core_status' = core_status
  <2>1. CASE core_status = 0
    <3>1. reported = 0
      BY <2>1 DEF ReportInv
    <3>2. reported' = 0
      BY <2>1, <3>1, ReportedStep
    <3> QED
      BY <1>2, <2>1, <3>2 DEF ReportInv
  <2>2. CASE core_status # 0
    <3>1. Reporting
      BY <2>2 DEF ReportInv
    <3>0. EocIndex = 7
      BY EocCode
    <3>1a. /\ handling' = 0 /\ ret' = ret
           /\ \/ pc = EocIndex /\ pc' = pc /\ access'.valid = TRUE /\ reported' = reported
              \/ pc' = EocIndex + 1
      BY <3>1, ReportStays
    <3>2. Reporting'
      <4>1. core_status' = 2 * ret' + 1
        BY <1>2, <3>1, <3>1a DEF Reporting
      <4> QED
        BY <3>1a, <4>1 DEF Reporting
    <3>3. reported' # 0 => core_status = reported' /\ pc' = EocIndex + 1
      <4>2. CASE reported' = reported
        BY <3>0, <3>1a, <4>2 DEF ReportInv
      <4>3. CASE reported' # reported
        BY <3>1, <3>2, <4>3, ReportedStep DEF Reporting
      <4> QED
        BY <4>2, <4>3
    <3> QED
      BY <1>2, <3>2, <3>3 DEF ReportInv
  <2> QED
    BY <2>1, <2>2
<1> QED
  BY <1>1, <1>2, StatusKept

\* The debugger ends with twice what main() has returned plus 1, the core being
\* in the wfi behind _eoc, unless the program stores the core status itself.
THEOREM ReportsAreFinal ==
  ASSUME MaskedAtEnd(Images), ReportedAtEnd(Images)
  PROVE  Spec /\ []ChecksPass => []ReportIsFinal
<1> DEFINE Safe == EndSafe /\ (~Itself => ReportInv)
<1>1. Init => Safe
  <2> SUFFICES ASSUME Init PROVE Safe
    OBVIOUS
  <2>1. Structured(image)
    BY DEF Init, MaskedAtEnd, image
  <2>2. core_status = 0 /\ reported = 0
    BY DEF Init, SocCtrlInit
  <2> QED
    BY <2>1, <2>2, FlowInit, EndInit DEF EndSafe, ReportInv
<1>2. Safe /\ [Next]_vars /\ ChecksPass' => Safe'
  <2> SUFFICES ASSUME Safe, [Next]_vars, ChecksPass' PROVE Safe'
    OBVIOUS
  <2>1. image' = image /\ EndsMasked(image) /\ ReportsAtEoc(image)
    BY LoadedStays DEF EndSafe, FlowInv, CoreInv, MaskedAtEnd, ReportedAtEnd, image
  <2>2. Itself' <=> Itself
    BY <2>1 DEF Itself
  <2>3. EndSafe'
    BY EndStep
  <2> QED
    BY <2>1, <2>2, <2>3, ReportStep DEF EndSafe
<1>3. Safe => ReportIsFinal
  BY EocCode DEF ReportInv, Reporting, ReportIsFinal, Final
<1> QED
  BY <1>1, <1>2, <1>3, PTL DEF Spec

-----------------------------------------------------------------------------
(* The timer.                                                               *)

\* The registers with which the timer is set.
TimerRegs == {OBI_TIMER.COUNT, OBI_TIMER.COMPARE, OBI_TIMER.CTRL}

\* Where main() is as the timer sees it: a store to it is done when it begins.
Stored == Responding(main_pc) /\ access.we = TRUE /\ access.port = "TIMER"
at     == IF Stored THEN main_pc + 1 ELSE main_pc

\* A bit of the control register.
Control(bit) == IF bit = CTRL_ENABLE_BIT THEN enable = TRUE ELSE autoreset = TRUE

\* What main() has done while it is in write_ctrl_reg_bit: the other bit is set
\* in what it has read only if it is set.
WriteBitInv(bit, on, p) ==
  LET other == 1 - bit
  IN  /\ Responding(p)   => (other \in rdata_q.bits => Control(other))
      /\ main_pc = p + 1 => (other \in main_acc.bits => Control(other))
      /\ main_pc = p + 2 => /\ other \in main_acc.bits => Control(other)
                            /\ bit \in main_acc.bits => on = TRUE

\* In autoreset mode the counter stays below the compare value: the timer is off
\* and at 0 wherever the code says so, above all where that mode is turned on.
PeriodInv ==
  /\ count \in Nat /\ compare \in Nat /\ enable \in BOOLEAN /\ autoreset \in BOOLEAN
  /\ autoreset = TRUE /\ compare # 0 => count <= compare
  /\ OffAt(image, at) => enable = FALSE
  /\ ZeroAt(image, at) => count = 0
  /\ \A p \in 1 .. Len(image.code) : \A bit \in {0, 1} : \A on \in BOOLEAN :
       Calls(image, write_ctrl_reg_bit(bit, on), p) => WriteBitInv(bit, on, p)

\* Since the timer was set, it has counted no more than the cycles that it ran.
Counted == count <= run_time \/ run_time > compare
TimeOver == run_time >= compare

\* The global enable as main() has it, and main() in the wfi at w.
main_MIE == IF handling = 0 THEN MIE ELSE frame.MIE
Waits(w) == handling = 0 /\ pc = w /\ asleep = TRUE

\* While main() is in obi_timer_sleep, called at p: behind the last store the
\* counter has only counted, the wfi is reached with the global enable set, so
\* that a stale flag is served before, and is left when the time is over.
SleepInv(p) ==
  /\ at \in (p + 12) .. (p + 17) => Counted
  /\ main_pc = p + 14 => main_MIE = TRUE
  /\ Waits(p + 14) => (expired = TRUE /\ IRQ_OBI_TIMER \in mie => TimeOver)
  /\ main_pc \in (p + 15) .. (p + 17) => TimeOver

\* That is so of every call of obi_timer_sleep.
SleepsInv ==
  /\ run_time \in Nat /\ "MIE" \in DOMAIN frame
  /\ \A n \in 1 .. Len(image.code) : LeavesAt(image.code, n, "obi_timer_sleep") => SleepInv(n - 17)

\* A request to a register of the timer reaches it.
LEMMA TimerRequest ==
  ASSUME NEW word, NEW offset \in TimerRegs
  PROVE  /\ Request(FALSE, TimerReg(offset), word).port = "TIMER"
         /\ Request(FALSE, TimerReg(offset), word).offset = offset
         /\ Request(TRUE, TimerReg(offset), word).port = "TIMER"
         /\ Request(TRUE, TimerReg(offset), word).offset = offset
<1>1. "TIMER" \in DOMAIN SpaceSize /\ offset \in Nat /\ offset < SpaceSize["TIMER"]
  BY DEF SpaceSize, OBI_TIMER, TimerRegs
<1>2. TimerReg(offset) = BASE_ADDR["TIMER"] + offset
  BY DEF TimerReg
<1>3. Port(TimerReg(offset)) = "TIMER"
  BY <1>1, <1>2, PortOf
<1>4. "TIMER" # "ERROR" /\ TimerReg(offset) - BASE_ADDR["TIMER"] = offset
  BY <1>1, <1>2 DEF BASE_ADDR, SpaceSize
<1> QED
  BY <1>3, <1>4 DEF Request

\* An access that stores does store.
LEMMA StoredWrites ==
  ASSUME FlowInv, Accesses, NEW port, NEW offset
  PROVE  Writes(TheRequest, port, offset) <=> StoresTo(program[pc], port, offset)
<1> SUFFICES ASSUME StoresTo(program[pc], port, offset) PROVE Writes(TheRequest, port, offset)
  BY WritesStored
<1> DEFINE i == program[pc]
<1>1. i.op = "store" /\ Writes(Request(TRUE, i.addr, Num(0)), port, offset)
  BY DEF StoresTo
<1> QED
  BY <1>1 DEF Writes, TheRequest, Request

\* A cycle without a store to the timer.
RunsOn ==
  /\ compare' = compare /\ enable' = enable /\ autoreset' = autoreset
  /\ count' = IF Expires /\ autoreset THEN 0
              ELSE IF enable THEN (count + 1) % (CountMax + 1) ELSE count
  /\ run_time' = IF enable /\ run_time <= compare THEN run_time + 1 ELSE run_time
  /\ expired' => expired \/ Expires

\* Every step is one, unless main() or a handler stores to the timer.
LEMMA TimerRuns ==
  ASSUME [Next]_vars, ~(Accesses /\ StoresTimer(program[pc]))
  PROVE  UNCHANGED vars \/ RunsOn
<1>1. ASSUME NEW req, NEW ignored, Hardware(req, ignored),
             \A offset \in TimerRegs : ~Writes(req, "TIMER", offset)
      PROVE  RunsOn
  <2>1. /\ ~TimerWrites(req, OBI_TIMER.COUNT) /\ ~TimerWrites(req, OBI_TIMER.COMPARE)
        /\ ~TimerWrites(req, OBI_TIMER.CTRL)
    BY <1>1 DEF TimerWrites, TimerRegs
  <2>2. TimerCycle(req) /\ RunTime(req)
    BY <1>1 DEF Hardware
  <2> QED
    BY <2>1, <2>2 DEF TimerCycle, RunTime, RunsOn
<1>2. CASE \E ignored : Hardware(NoRequest, ignored)
  <2>1. \A offset : ~Writes(NoRequest, "TIMER", offset)
    BY DEF Writes, NoRequest
  <2> QED
    BY <1>1, <1>2, <2>1
<1>3. CASE Hardware(Request(TRUE, ClintReg(CLINT.MSIP), Bits({0})), {})
  <2>1. \A offset : ~Writes(Request(TRUE, ClintReg(CLINT.MSIP), Bits({0})), "TIMER", offset)
    BY WakeRequest DEF Writes
  <2> QED
    BY <1>1, <1>3, <2>1
<1>4. CASE Accesses /\ Hardware(TheRequest, {})
  <2>1. ~StoresTimer(program[pc])
    BY <1>4
  <2>2. \A offset \in TimerRegs : ~Writes(TheRequest, "TIMER", offset)
    BY <2>1, WritesStored DEF StoresTimer, TimerRegs
  <2> QED
    BY <1>1, <1>4, <2>2
<1> QED
  BY <1>2, <1>3, <1>4, StepRequests

\* What the stores do: to the count, to the compare value, to the control
\* register.
LEMMA TimerStored ==
  ASSUME FlowInv, Accesses
  PROVE  /\ StoresTo(program[pc], "TIMER", OBI_TIMER.COUNT) =>
              /\ count' = TheRequest.wdata.num
              /\ compare' = compare /\ enable' = enable /\ autoreset' = autoreset
         /\ StoresTo(program[pc], "TIMER", OBI_TIMER.COMPARE) =>
              /\ count' = 0 /\ compare' = TheRequest.wdata.num
              /\ enable' = enable /\ autoreset' = autoreset
         /\ StoresTo(program[pc], "TIMER", OBI_TIMER.CTRL) =>
              /\ count' = (IF Expires /\ autoreset THEN 0
                           ELSE IF enable THEN (count + 1) % (CountMax + 1) ELSE count)
              /\ compare' = compare
              /\ enable' = (CTRL_ENABLE_BIT \in TheRequest.wdata.bits)
              /\ autoreset' = (CTRL_AUTORESET_BIT \in TheRequest.wdata.bits)
         /\ StoresTimer(program[pc]) => run_time' = 0
<1>1. TimerCycle(TheRequest) /\ RunTime(TheRequest)
  BY AccessMade DEF Hardware
<1>2. \A offset : TimerWrites(TheRequest, offset) <=> StoresTo(program[pc], "TIMER", offset)
  BY StoredWrites DEF TimerWrites
<1>3. \A a, b : StoresTo(program[pc], "TIMER", a) /\ StoresTo(program[pc], "TIMER", b) => a = b
  BY DEF StoresTo, Writes
<1>4. /\ OBI_TIMER.COUNT # OBI_TIMER.COMPARE /\ OBI_TIMER.COUNT # OBI_TIMER.CTRL
      /\ OBI_TIMER.COMPARE # OBI_TIMER.CTRL
  BY DEF OBI_TIMER
<1>5. StoresTimer(program[pc]) => run_time' = 0
  BY <1>1, <1>2 DEF RunTime, StoresTimer
<1>6. CASE StoresTo(program[pc], "TIMER", OBI_TIMER.COUNT)
  BY <1>1, <1>2, <1>3, <1>4, <1>5, <1>6 DEF TimerCycle
<1>7. CASE StoresTo(program[pc], "TIMER", OBI_TIMER.COMPARE)
  BY <1>1, <1>2, <1>3, <1>4, <1>5, <1>7 DEF TimerCycle
<1>8. CASE StoresTo(program[pc], "TIMER", OBI_TIMER.CTRL)
  BY <1>1, <1>2, <1>3, <1>4, <1>5, <1>8 DEF TimerCycle
<1> QED
  BY <1>5, <1>6, <1>7, <1>8

\* main() stores to the timer.
Storing == Accesses /\ handling = 0 /\ program[pc].op = "store" /\ Port(program[pc].addr) = "TIMER"

\* A step that takes main() on is such a store, or none of the instruction there.
LEMMA AtStep ==
  ASSUME FlowInv, Structured(image), [Next]_vars
  PROVE  \/ ~Storing /\ (at' = at \/ at' \in Entries(image))
         \/ /\ handling = 0 /\ pc = at /\ at \in 1 .. Len(image.code) /\ at' = at + 1
            /\ program = image.code
            /\ Storing \/ ~(image.code[at].op = "store" /\ Port(image.code[at].addr) = "TIMER")
<1>1. CASE UNCHANGED vars
  <2>1. at' = at
    BY <1>1 DEF vars, core, at, Stored, Responding, main_pc
  <2>2. ~Storing
    <3> SUFFICES ASSUME Storing PROVE FALSE
      OBVIOUS
    <3>1. access.valid = FALSE /\ access' = TheRequest /\ TheRequest.valid = TRUE
      BY AccessMade DEF Storing
    <3> QED
      BY <1>1, <3>1 DEF vars, core
  <2> QED
    BY <2>1, <2>2
<1>2. CASE Accesses
  <2>1. /\ access.valid = FALSE /\ access' = TheRequest /\ TheRequest.valid = TRUE
        /\ TheRequest.we = (program[pc].op = "store") /\ TheRequest.port = Port(program[pc].addr)
        /\ UNCHANGED <<main, handling>> /\ pc \in 1 .. Len(program)
    BY <1>2, AccessMade DEF main, main_pc, main_acc, main_kept, flags
  <2>2. at = main_pc /\ main_pc' = main_pc
    BY <2>1 DEF at, Stored, Responding, main
  <2>3. CASE Storing
    <3>1. program = image.code /\ main_pc = pc /\ Stored'
      BY <1>2, <2>1, <2>2, <2>3 DEF Storing, program, main_pc, Stored, Responding
    <3> QED
      BY <2>1, <2>2, <2>3, <3>1 DEF at, Storing
  <2>4. CASE ~Storing
    <3>1. ~Stored'
      BY <1>2, <2>1, <2>4 DEF Storing, Stored, Responding
    <3> QED
      BY <2>2, <2>4, <3>1 DEF at
  <2> QED
    BY <2>3, <2>4
<1>3. CASE ~UNCHANGED vars /\ ~Accesses
  <2>1. Unaccessed /\ ~Storing
    BY <1>3, StepAccesses DEF Storing
  <2>2. at' = main_pc'
    BY <2>1 DEF Unaccessed, at, Stored, Responding
  <2>3. CASE Stored
    <3>1. access.valid = TRUE /\ access.port # "ERROR" /\ handling = 0 /\ main_pc = pc
      BY <2>3 DEF Stored, Responding, main_pc
    <3>2. Respond
      BY <1>3, <3>1, Answered
    <3>3. handling' = 0 /\ pc' = pc + 1
      BY <3>1, <3>2 DEF Respond, flags
    <3> QED
      BY <2>1, <2>2, <2>3, <3>1, <3>3 DEF at, main_pc
  <2>4. CASE ~Stored
    <3>1. at = main_pc
      BY <2>4 DEF at
    <3>2. CASE UNCHANGED main \/ Enters
      BY <2>1, <2>2, <3>1, <3>2 DEF main, Enters
    <3>3. CASE Advances
      <4>1. /\ handling = 0 /\ main_pc = pc /\ main_pc' = pc + 1 /\ program = image.code
            /\ pc \in 1 .. Len(image.code) /\ Does(image.code[pc])
        BY <3>3 DEF Advances, main_pc, program
      <4>2. ~(image.code[pc].op = "store" /\ Port(image.code[pc].addr) = "TIMER")
        <5> SUFFICES ASSUME image.code[pc].op = "store", Port(image.code[pc].addr) = "TIMER"
                     PROVE  FALSE
          OBVIOUS
        <5>1. access.valid = TRUE
          BY <4>1 DEF Does
        <5>2. access.we = TRUE /\ access.port = "TIMER"
          BY <4>1, <5>1, AccessedPort DEF FlowInv
        <5> QED
          BY <2>4, <4>1, <5>1, <5>2 DEF Stored, Responding
      <4> QED
        BY <2>1, <2>2, <3>1, <4>1, <4>2
    <3> QED
      BY <3>2, <3>3, StepFlows DEF Flows
  <2> QED
    BY <2>3, <2>4
<1> QED
  BY <1>1, <1>2, <1>3

\* The instructions of write_ctrl_reg_bit where it is called.
LEMMA WriteBitCode ==
  ASSUME NEW im, NEW p \in Nat, NEW bit, NEW on \in BOOLEAN,
         Calls(im, write_ctrl_reg_bit(bit, on), p)
  PROVE  /\ p + 2 <= Len(im.code)
         /\ im.code[p] = Load(TimerReg(OBI_TIMER.CTRL))
         /\ on = TRUE => im.code[p + 1] = Or({bit})
         /\ on = FALSE => im.code[p + 1] = AndNot({bit})
         /\ im.code[p + 2] = StorePart(TimerReg(OBI_TIMER.CTRL), "acc")
         /\ p + 1 \notin Entries(im) /\ p + 2 \notin Entries(im)
<1> DEFINE f == write_ctrl_reg_bit(bit, on)
<1>1. /\ Len(f) = 3
      /\ f[1] = Load(TimerReg(OBI_TIMER.CTRL))
      /\ on = TRUE => f[2] = Or({bit})
      /\ on = FALSE => f[2] = AndNot({bit})
      /\ f[3] = StorePart(TimerReg(OBI_TIMER.CTRL), "acc")
  BY DEF write_ctrl_reg_bit
<1> HIDE DEF f
<1>2. /\ p + 3 - 1 <= Len(im.code)
      /\ \A k \in 1 .. 3 : im.code[p + k - 1] = f[k]
      /\ \A k \in 2 .. 3 : p + k - 1 \notin Entries(im)
  BY <1>1 DEF Calls, f
<1>3. /\ im.code[p + 1 - 1] = f[1] /\ im.code[p + 2 - 1] = f[2] /\ im.code[p + 3 - 1] = f[3]
      /\ p + 2 - 1 \notin Entries(im) /\ p + 3 - 1 \notin Entries(im)
  BY <1>2
<1>4. p + 1 - 1 = p /\ p + 2 - 1 = p + 1 /\ p + 3 - 1 = p + 2
  OBVIOUS
<1> QED
  BY <1>1, <1>2, <1>3, <1>4

\* The middle instruction of the call that turns a bit of the register on.
LEMMA SetBitCode ==
  ASSUME NEW im, NEW p \in Nat, NEW bit, Calls(im, write_ctrl_reg_bit(bit, TRUE), p)
  PROVE  im.code[p + 1] = Or({bit})
<1> DEFINE f == write_ctrl_reg_bit(bit, TRUE)
<1>1. Len(f) = 3 /\ f[2] = Or({bit})
  BY DEF write_ctrl_reg_bit
<1> HIDE DEF f
<1>2. \A k \in 1 .. 3 : im.code[p + k - 1] = f[k]
  BY <1>1 DEF Calls, f
<1>3. im.code[p + 2 - 1] = f[2]
  BY <1>2
<1>4. p + 2 - 1 = p + 1
  OBVIOUS
<1> QED
  BY <1>1, <1>3, <1>4

\* The middle instruction of the call that turns a bit of the register off.
LEMMA ClearBitCode ==
  ASSUME NEW im, NEW p \in Nat, NEW bit, Calls(im, write_ctrl_reg_bit(bit, FALSE), p)
  PROVE  im.code[p + 1] = AndNot({bit})
<1> DEFINE f == write_ctrl_reg_bit(bit, FALSE)
<1>1. Len(f) = 3 /\ f[2] = AndNot({bit})
  BY DEF write_ctrl_reg_bit
<1> HIDE DEF f
<1>2. \A k \in 1 .. 3 : im.code[p + k - 1] = f[k]
  BY <1>1 DEF Calls, f
<1>3. im.code[p + 2 - 1] = f[2]
  BY <1>2
<1>4. p + 2 - 1 = p + 1
  OBVIOUS
<1> QED
  BY <1>1, <1>3, <1>4

\* A load of the control register registers its two bits, and returns them.
LEMMA ControlLoaded ==
  ASSUME FlowInv, Accesses, program[pc] = Load(TimerReg(OBI_TIMER.CTRL)), NEW bit \in {0, 1},
         bit \in rdata_q'.bits
  PROVE  Control(bit)
<1> DEFINE req == Request(FALSE, TimerReg(OBI_TIMER.CTRL), Num(0))
<1>1. TheRequest = req
  <2>1. program[pc].op = "load" /\ program[pc].addr = TimerReg(OBI_TIMER.CTRL)
    BY DEF Load
  <2> QED
    BY <2>1 DEF TheRequest, Request
<1>2. req.we = FALSE /\ req.port = "TIMER" /\ req.offset = OBI_TIMER.CTRL
  <2>1. OBI_TIMER.CTRL \in TimerRegs
    BY DEF TimerRegs
  <2> QED
    BY <2>1, TimerRequest, LoadRequest
<1> HIDE DEF req
<1>3. rdata_q' = TimerReadData(req)
  BY <1>1, <1>2, AccessMade DEF Registered
<1>4. TimerReadData(req).bits =
        {b \in {CTRL_ENABLE_BIT, CTRL_AUTORESET_BIT} : IF b = CTRL_ENABLE_BIT THEN enable ELSE autoreset}
  BY <1>2 DEF TimerReadData, OBI_TIMER, Bits
<1>5. IF bit = CTRL_ENABLE_BIT THEN enable ELSE autoreset
  BY <1>3, <1>4
<1> QED
  BY <1>5 DEF Control

\* The response to such a load is what was registered.
LEMMA ControlRead ==
  ASSUME FlowInv, handling = 0, access.valid = TRUE,
         image.code[pc] = Load(TimerReg(OBI_TIMER.CTRL))
  PROVE  ReadData = rdata_q
<1>1. access.port = Port(TimerReg(OBI_TIMER.CTRL))
  <2>1. program[pc].addr = TimerReg(OBI_TIMER.CTRL)
    BY DEF program, Load
  <2> QED
    BY <2>1, AccessedPort DEF FlowInv
<1>2. access.port = "TIMER"
  <2>1. OBI_TIMER.CTRL \in TimerRegs
    BY DEF TimerRegs
  <2>2. Request(FALSE, TimerReg(OBI_TIMER.CTRL), Num(0)).port = "TIMER"
    BY <2>1, TimerRequest
  <2> QED
    BY <1>1, <2>2, LoadRequest
<1> QED
  BY <1>2 DEF ReadData

\* Only main() stores to the timer.
LEMMA TimerStoredByMain ==
  ASSUME FlowInv, DrivesTimer(image), Accesses, StoresTimer(program[pc])
  PROVE  /\ handling = 0 /\ program = image.code /\ pc \in 1 .. Len(image.code)
         /\ program[pc].op = "store" /\ Storing /\ main_pc = pc /\ main_acc = acc
         /\ UNCHANGED main
<1>1. pc \in 1 .. Len(program) /\ handling \in Causes \cup {0}
  BY AccessMade DEF FlowInv, CoreInv
<1>2. handling = 0
  <2> SUFFICES ASSUME handling # 0 PROVE FALSE
    OBVIOUS
  <2>1. program = image.handlers[handling] /\ handling \in Causes
    BY <1>1 DEF program
  <2> QED
    BY <1>1, <2>1 DEF DrivesTimer
<1>3. program[pc].op = "store" /\ Port(program[pc].addr) = "TIMER"
  BY DEF StoresTimer, StoresTo, Writes, Request
<1>4. UNCHANGED main
  BY AccessMade DEF main, main_pc, main_acc, main_kept, flags
<1> QED
  BY <1>1, <1>2, <1>3, <1>4 DEF program, Storing, main_pc, main_acc

\* A store in the function: nothing is prepared any more.
LEMMA WriteBitStores ==
  ASSUME FlowInv, DrivesTimer(image), Accesses, StoresTimer(program[pc]),
         NEW p \in Nat, NEW bit \in {0, 1}, NEW on \in BOOLEAN,
         Calls(image, write_ctrl_reg_bit(bit, on), p), WriteBitInv(bit, on, p)
  PROVE  WriteBitInv(bit, on, p)'
<1>1. /\ program = image.code /\ program[pc].op = "store"
      /\ main_pc = pc /\ main_acc = acc /\ UNCHANGED main
  BY TimerStoredByMain
<1>2. /\ image.code[p] = Load(TimerReg(OBI_TIMER.CTRL))
      /\ image.code[p + 1] = Or({bit}) \/ image.code[p + 1] = AndNot({bit})
      /\ image.code[p + 2] = StorePart(TimerReg(OBI_TIMER.CTRL), "acc")
  <2>1. image.code[p] = Load(TimerReg(OBI_TIMER.CTRL))
    BY WriteBitCode
  <2>2. image.code[p + 1] = Or({bit}) \/ image.code[p + 1] = AndNot({bit})
    <3>1. CASE on = TRUE
      <4>1. Calls(image, write_ctrl_reg_bit(bit, TRUE), p)
        BY <3>1
      <4> QED
        BY <4>1, SetBitCode
    <3>2. CASE on = FALSE
      <4>1. Calls(image, write_ctrl_reg_bit(bit, FALSE), p)
        BY <3>2
      <4> QED
        BY <4>1, ClearBitCode
    <3> QED
      BY <3>1, <3>2
  <2>3. image.code[p + 2] = StorePart(TimerReg(OBI_TIMER.CTRL), "acc")
    BY WriteBitCode
  <2> QED
    BY <2>1, <2>2, <2>3
<1>3. pc # p /\ pc # p + 1
  BY <1>1, <1>2 DEF Load, Or, AndNot
<1>4. CASE pc = p + 2
  <2>1. StoresTo(program[pc], "TIMER", OBI_TIMER.CTRL)
    <3>1. program[pc].addr = TimerReg(OBI_TIMER.CTRL)
      BY <1>1, <1>2, <1>4 DEF StorePart
    <3>2. OBI_TIMER.CTRL \in TimerRegs
      BY DEF TimerRegs
    <3>3. Writes(Request(TRUE, TimerReg(OBI_TIMER.CTRL), Num(0)), "TIMER", OBI_TIMER.CTRL)
      BY <3>2, TimerRequest, StoreRequest DEF Writes
    <3> QED
      BY <1>1, <3>1, <3>3 DEF StoresTo
  <2>2. TheRequest.wdata = acc
    <3>1. program[pc].part = "acc"
      BY <1>1, <1>2, <1>4 DEF StorePart
    <3>2. StoreData(program[pc]) = acc
      BY <3>1 DEF StoreData
    <3>3. TheRequest = Request(TRUE, program[pc].addr, acc)
      BY <1>1, <3>2 DEF TheRequest
    <3> QED
      BY <3>3, StoreRequest
  <2>3. /\ enable' = (CTRL_ENABLE_BIT \in acc.bits)
        /\ autoreset' = (CTRL_AUTORESET_BIT \in acc.bits)
    BY <2>1, <2>2, TimerStored
  <2>4. main_pc' = p + 2 /\ main_acc' = acc
    BY <1>1, <1>4 DEF main
  <2>5. \A other \in {0, 1} : other \in acc.bits => Control(other)'
    BY <2>3 DEF Control, CTRL_ENABLE_BIT, CTRL_AUTORESET_BIT
  <2>6. bit \in acc.bits => on = TRUE
    BY <1>1, <1>4 DEF WriteBitInv
  <2>7. (1 - bit) \in {0, 1}
    OBVIOUS
  <2> QED
    BY <2>4, <2>5, <2>6, <2>7 DEF WriteBitInv, Responding, Control
<1>5. CASE pc # p + 2
  <2>1. main_pc' \notin {p, p + 1, p + 2}
    BY <1>1, <1>3, <1>5 DEF main
  <2> QED
    BY <2>1 DEF WriteBitInv, Responding, Control
<1> QED
  BY <1>4, <1>5

\* Every other step prepares or keeps what it stores.
LEMMA WriteBitStep ==
  ASSUME FlowInv, Structured(image), [Next]_vars, ~(Accesses /\ StoresTimer(program[pc])),
         NEW p \in Nat, NEW bit \in {0, 1}, NEW on \in BOOLEAN,
         Calls(image, write_ctrl_reg_bit(bit, on), p), WriteBitInv(bit, on, p)
  PROVE  WriteBitInv(bit, on, p)'
<1> DEFINE other == 1 - bit
<1>1. other \in {0, 1} /\ other # bit
  OBVIOUS
<1>2. enable' = enable /\ autoreset' = autoreset
  BY TimerRuns DEF RunsOn, vars, timer
<1>3. Control(other)' <=> Control(other)
  BY <1>2 DEF Control
<1>4. /\ image.code[p] = Load(TimerReg(OBI_TIMER.CTRL))
      /\ on = TRUE => image.code[p + 1] = Or({bit})
      /\ on = FALSE => image.code[p + 1] = AndNot({bit})
      /\ p + 1 \notin Entries(image) /\ p + 2 \notin Entries(image)
  <2>1. image.code[p] = Load(TimerReg(OBI_TIMER.CTRL))
    BY WriteBitCode
  <2>2. ASSUME on = TRUE PROVE image.code[p + 1] = Or({bit})
    <3>1. Calls(image, write_ctrl_reg_bit(bit, TRUE), p)
      BY <2>2
    <3> QED
      BY <3>1, SetBitCode
  <2>3. ASSUME on = FALSE PROVE image.code[p + 1] = AndNot({bit})
    <3>1. Calls(image, write_ctrl_reg_bit(bit, FALSE), p)
      BY <2>3
    <3> QED
      BY <3>1, ClearBitCode
  <2>4. p + 1 \notin Entries(image) /\ p + 2 \notin Entries(image)
    BY WriteBitCode
  <2> QED
    BY <2>1, <2>2, <2>3, <2>4
<1>5. /\ Responding(p)   => (other \in rdata_q.bits => Control(other))
      /\ main_pc = p + 1 => (other \in main_acc.bits => Control(other))
      /\ main_pc = p + 2 => /\ other \in main_acc.bits => Control(other)
                            /\ bit \in main_acc.bits => on = TRUE
  BY DEF WriteBitInv
<1> HIDE DEF other
<1>6. ASSUME Responding(p)', other \in rdata_q'.bits PROVE Control(other)
  <2>1. CASE UNCHANGED vars
    BY <1>5, <1>6, <2>1 DEF vars, core, Responding, main_pc
  <2>2. CASE Accesses /\ pc = p /\ program = image.code
    BY <1>1, <1>4, <1>6, <2>2, ControlLoaded
  <2> QED
    BY <1>6, <2>1, <2>2, RespondsAfter
<1>7. ASSUME main_pc' = p + 1, other \in main_acc'.bits PROVE Control(other)
  <2>1. CASE UNCHANGED main
    BY <1>5, <1>7, <2>1 DEF main
  <2>2. CASE handling = 0 /\ pc = p /\ main_pc = p /\ Does(image.code[p]) /\ main_acc' = acc'
    <3>1. access.valid = TRUE /\ acc' = ReadData
      BY <1>4, <2>2 DEF Does, Load
    <3>2. ReadData = rdata_q
      BY <1>4, <2>2, <3>1, ControlRead
    <3> QED
      BY <1>5, <1>7, <2>2, <3>1, <3>2 DEF Responding
  <2> QED
    BY <1>4, <1>7, <2>1, <2>2, FromBefore
<1>8. ASSUME main_pc' = p + 2
      PROVE  (other \in main_acc'.bits => Control(other)) /\ (bit \in main_acc'.bits => on = TRUE)
  <2>1. CASE UNCHANGED main
    BY <1>5, <1>8, <2>1 DEF main
  <2>2. CASE /\ main_pc = p + 1 /\ Does(image.code[p + 1]) /\ main_acc = acc /\ main_acc' = acc'
    <3>1. other \in acc.bits => Control(other)
      BY <1>5, <2>2
    <3>2. CASE on = TRUE
      <4>1. acc'.bits = acc.bits \cup {bit}
        BY <1>4, <2>2, <3>2 DEF Does, Or, Computed, Bits
      <4> QED
        BY <1>1, <2>2, <3>1, <3>2, <4>1
    <3>3. CASE on = FALSE
      <4>1. acc'.bits = acc.bits \ {bit}
        BY <1>4, <2>2, <3>3 DEF Does, AndNot, Computed, Bits
      <4> QED
        BY <2>2, <3>1, <4>1
    <3> QED
      BY <3>2, <3>3
  <2>3. main_pc' = (p + 1) + 1 /\ p + 1 \in Nat /\ (p + 1) + 1 \notin Entries(image)
    BY <1>4, <1>8
  <2>4. \/ UNCHANGED main
        \/ main_pc = p + 1 /\ Does(image.code[p + 1]) /\ main_acc = acc /\ main_acc' = acc'
    BY <2>3, FromBefore
  <2> QED
    BY <2>1, <2>2, <2>4
<1>9. /\ Responding(p)'   => (other \in rdata_q'.bits => Control(other)')
      /\ main_pc' = p + 1 => (other \in main_acc'.bits => Control(other)')
      /\ main_pc' = p + 2 => /\ other \in main_acc'.bits => Control(other)'
                             /\ bit \in main_acc'.bits => on = TRUE
  BY <1>3, <1>6, <1>7, <1>8
<1> QED
  BY <1>9 DEF WriteBitInv, other

-----------------------------------------------------------------------------
(* The period.                                                              *)

\* The counter is a natural number and grows by one at most.
LEMMA Counts ==
  ASSUME NEW c \in Nat
  PROVE  (c + 1) % (CountMax + 1) \in Nat /\ (c + 1) % (CountMax + 1) <= c + 1
<1>1. CountMax + 1 \in Nat \ {0} /\ c + 1 \in Nat
  BY CountMaxAssumption
<1>2. \A a, b \in Nat : b # 0 => a % b \in Nat /\ a % b <= a
  <2> SUFFICES ASSUME NEW a \in Nat, NEW b \in Nat, b # 0 PROVE a % b \in Nat /\ a % b <= a
    OBVIOUS
  <2>1. a % b \in 0 .. (b - 1) /\ a \div b \in Nat
    OBVIOUS
  <2>2. (a \div b) * b + (a % b) = a
    OBVIOUS
  <2>3. (a \div b) * b >= 0
    BY <2>1
  <2> QED
    BY <2>1, <2>2, <2>3
<1> QED
  BY <1>1, <1>2

\* The functions that set a bit end in a store of the control register.
LEMMA ControlStored ==
  ASSUME NEW im, NEW n \in 1 .. Len(im.code), NEW bit, NEW on \in BOOLEAN,
         n > 2, Calls(im, write_ctrl_reg_bit(bit, on), n - 2)
  PROVE  StoresTo(im.code[n], "TIMER", OBI_TIMER.CTRL)
<1>1. im.code[(n - 2) + 2] = StorePart(TimerReg(OBI_TIMER.CTRL), "acc")
  BY WriteBitCode, n - 2 \in Nat
<1>2. (n - 2) + 2 = n
  OBVIOUS
<1>3. OBI_TIMER.CTRL \in TimerRegs
  BY DEF TimerRegs
<1>4. Writes(Request(TRUE, TimerReg(OBI_TIMER.CTRL), Num(0)), "TIMER", OBI_TIMER.CTRL)
  BY <1>3, TimerRequest, StoreRequest DEF Writes
<1>5. im.code[n].op = "store" /\ im.code[n].addr = TimerReg(OBI_TIMER.CTRL)
  BY <1>1, <1>2 DEF StorePart
<1> QED
  BY <1>4, <1>5 DEF StoresTo

\* So do obi_timer_set_enable and obi_timer_set_autoreset.
LEMMA SetsStore ==
  ASSUME NEW im, NEW n \in 1 .. Len(im.code), NEW on \in BOOLEAN,
         SetsEnable(im, on, n) \/ SetsAutoreset(im, on, n)
  PROVE  StoresTo(im.code[n], "TIMER", OBI_TIMER.CTRL)
  BY ControlStored DEF SetsEnable, SetsAutoreset, obi_timer_set_enable, obi_timer_set_autoreset

\* What is so behind an instruction was so in front of it, or it made it so.
LEMMA OffNext ==
  ASSUME NEW im, NEW m \in Nat, OffAt(im, m + 1)
  PROVE  SetsEnable(im, FALSE, m) \/ (OffAt(im, m) /\ ~SetsEnable(im, TRUE, m))
<1>1. PICK s \in 1 .. ((m + 1) - 1) :
        /\ SetsEnable(im, FALSE, s)
        /\ \A k \in (s + 1) .. (m + 1) : k \notin Entries(im)
        /\ \A k \in (s + 1) .. ((m + 1) - 1) : ~SetsEnable(im, TRUE, k)
  BY DEF OffAt
<1>2. CASE s = m
  BY <1>1, <1>2
<1>3. CASE s # m
  <2>1. s \in 1 .. (m - 1) /\ m \in (s + 1) .. m
    BY <1>1, <1>3
  <2>2. /\ \A k \in (s + 1) .. m : k \in (s + 1) .. (m + 1) /\ k \in (s + 1) .. ((m + 1) - 1)
        /\ \A k \in (s + 1) .. (m - 1) : k \in (s + 1) .. ((m + 1) - 1)
    OBVIOUS
  <2>3. m \in 1 .. Len(im.code)
    BY <2>1 DEF OffAt
  <2> QED
    BY <1>1, <2>1, <2>2, <2>3 DEF OffAt
<1> QED
  BY <1>2, <1>3

\* main() comes there from the instruction in front only.
LEMMA OffEntry ==
  ASSUME NEW im, NEW m, OffAt(im, m)
  PROVE  m \notin Entries(im)
<1>1. PICK s \in 1 .. (m - 1) : \A k \in (s + 1) .. m : k \notin Entries(im)
  BY DEF OffAt
<1>2. m \in (s + 1) .. m
  BY <1>1 DEF OffAt
<1> QED
  BY <1>1, <1>2

\* The same of where the timer is at 0.
LEMMA ZeroNext ==
  ASSUME NEW im, NEW m \in Nat, ZeroAt(im, m + 1)
  PROVE  /\ OffAt(im, m)
         /\ \/ \E reg \in {OBI_TIMER.COUNT, OBI_TIMER.COMPARE} : StoresTo(im.code[m], "TIMER", reg)
            \/ ZeroAt(im, m)
<1>1. PICK z \in 1 .. ((m + 1) - 1) :
        /\ \E reg \in {OBI_TIMER.COUNT, OBI_TIMER.COMPARE} : StoresTo(im.code[z], "TIMER", reg)
        /\ \A k \in z .. ((m + 1) - 1) : OffAt(im, k)
  BY DEF ZeroAt
<1>2. m \in z .. ((m + 1) - 1)
  BY <1>1
<1>3. OffAt(im, m)
  BY <1>1, <1>2
<1>4. CASE z = m
  BY <1>1, <1>3, <1>4
<1>5. CASE z # m
  <2>1. z \in 1 .. (m - 1) /\ \A k \in z .. (m - 1) : k \in z .. ((m + 1) - 1)
    BY <1>1, <1>5
  <2> QED
    BY <1>1, <1>3, <2>1 DEF ZeroAt
<1> QED
  BY <1>4, <1>5

\* The timer's registers, its count within the period in autoreset mode.
TimerBits ==
  /\ count \in Nat /\ compare \in Nat /\ enable \in BOOLEAN /\ autoreset \in BOOLEAN
  /\ autoreset = TRUE /\ compare # 0 => count <= compare

\* The timer is what the code says it is at n.
Marked(n) ==
  /\ OffAt(image, n) => enable = FALSE
  /\ ZeroAt(image, n) => count = 0

\* A cycle in which nothing is stored leaves the count within the period, and
\* where it is if the timer is off.
LEMMA CountsWithin ==
  ASSUME TimerBits,
         count' = (IF Expires /\ autoreset THEN 0
                   ELSE IF enable THEN (count + 1) % (CountMax + 1) ELSE count)
  PROVE  /\ count' \in Nat /\ (enable = FALSE => count' = count)
         /\ autoreset = TRUE /\ compare # 0 => count' <= compare
<1> DEFINE next == (count + 1) % (CountMax + 1)
<1>1. next \in Nat /\ next <= count + 1
  BY Counts DEF TimerBits
<1>2. count' = IF Expires /\ autoreset THEN 0 ELSE IF enable THEN next ELSE count
  OBVIOUS
<1> HIDE DEF next
<1>3. Expires <=> (enable = TRUE /\ compare # 0 /\ compare <= count)
  BY DEF Expires, TimerBits
<1>4. count' \in Nat /\ (enable = FALSE => count' = count)
  BY <1>1, <1>2, <1>3 DEF TimerBits
<1>5. autoreset = TRUE /\ compare # 0 => count' <= compare
  BY <1>1, <1>2, <1>3, <1>4 DEF TimerBits
<1> QED
  BY <1>4, <1>5

\* So does a step without a store to the timer.
LEMMA RunsWithin ==
  ASSUME TimerBits, RunsOn
  PROVE  TimerBits' /\ (enable = FALSE => count' = count)
  BY CountsWithin DEF TimerBits, RunsOn

\* A store is to one register.
LEMMA OneRegister ==
  /\ \A i, a, b : StoresTo(i, "TIMER", a) /\ StoresTo(i, "TIMER", b) => a = b
  /\ OBI_TIMER.COUNT # OBI_TIMER.COMPARE /\ OBI_TIMER.COUNT # OBI_TIMER.CTRL
  /\ OBI_TIMER.COMPARE # OBI_TIMER.CTRL
<1>1. \A i, a, b : StoresTo(i, "TIMER", a) /\ StoresTo(i, "TIMER", b) => a = b
  BY DEF StoresTo, Writes
<1>2. /\ OBI_TIMER.COUNT # OBI_TIMER.COMPARE /\ OBI_TIMER.COUNT # OBI_TIMER.CTRL
      /\ OBI_TIMER.COMPARE # OBI_TIMER.CTRL
  BY DEF OBI_TIMER
<1> QED
  BY <1>1, <1>2

\* A store to the timer is a store to its window.
LEMMA TimerWindow ==
  ASSUME NEW i, StoresTimer(i)
  PROVE  i.op = "store" /\ Port(i.addr) = "TIMER"
  BY DEF StoresTimer, StoresTo, Writes, Request

\* Where main() goes when it does not store to the timer.
LEMMA AtRuns ==
  ASSUME FlowInv, Structured(image), [Next]_vars, ~(Accesses /\ StoresTimer(program[pc]))
  PROVE  \/ at' = at \/ at' \in Entries(image)
         \/ at \in 1 .. Len(image.code) /\ at' = at + 1 /\ ~StoresTimer(image.code[at])
<1>1. CASE ~Storing /\ (at' = at \/ at' \in Entries(image))
  BY <1>1
<1>2. CASE /\ handling = 0 /\ pc = at /\ at \in 1 .. Len(image.code) /\ at' = at + 1
           /\ program = image.code
           /\ Storing \/ ~(image.code[at].op = "store" /\ Port(image.code[at].addr) = "TIMER")
  <2>1. ~StoresTimer(image.code[at])
    BY <1>2, TimerWindow DEF Storing
  <2> QED
    BY <1>2, <2>1
<1> QED
  BY <1>1, <1>2, AtStep

\* The store that ends write_ctrl_reg_bit sends what it has prepared.
LEMMA ControlSent ==
  ASSUME Accesses, program[pc] = StorePart(TimerReg(OBI_TIMER.CTRL), "acc")
  PROVE  TheRequest.wdata = acc
<1>1. program[pc].op = "store" /\ program[pc].part = "acc"
  BY DEF StorePart
<1>2. StoreData(program[pc]) = acc
  BY <1>1 DEF StoreData
<1>3. TheRequest = Request(TRUE, program[pc].addr, acc)
  BY <1>1, <1>2 DEF TheRequest
<1> QED
  BY <1>3, StoreRequest

\* Every other step keeps the timer as the place in main() says that it is.
LEMMA MarkedRuns ==
  ASSUME FlowInv, Structured(image), DrivesTimer(image), [Next]_vars,
         ~(Accesses /\ StoresTimer(program[pc])), TimerBits, Marked(at)
  PROVE  TimerBits' /\ Marked(at)'
<1>0. image' = image
  BY StepFlows DEF image
<1>1. TimerBits' /\ enable' = enable /\ (enable = FALSE => count' = count)
  <2>1. CASE UNCHANGED vars
    BY <2>1 DEF vars, timer, TimerBits
  <2>2. CASE RunsOn
    BY <2>2, RunsWithin DEF RunsOn
  <2> QED
    BY <2>1, <2>2, TimerRuns
<1>2. ASSUME OffAt(image, at'), ~OffAt(image, at) PROVE FALSE
  <2>1. CASE at' \in Entries(image)
    BY <1>2, <2>1, OffEntry
  <2>2. CASE at \in 1 .. Len(image.code) /\ at' = at + 1 /\ ~StoresTimer(image.code[at])
    <3>1. ~SetsEnable(image, FALSE, at)
      BY <2>2, SetsStore DEF StoresTimer
    <3>2. at \in Nat /\ OffAt(image, at + 1)
      BY <1>2, <2>2
    <3>3. OffAt(image, at)
      BY <3>1, <3>2, OffNext, Zenon
    <3> QED
      BY <1>2, <3>3
  <2>3. at' # at
    BY <1>2
  <2> QED
    BY <2>1, <2>2, <2>3, AtRuns
<1>3. ASSUME ZeroAt(image, at'), ~ZeroAt(image, at) PROVE FALSE
  <2>1. CASE at' \in Entries(image)
    BY <1>3, <2>1, OffEntry DEF ZeroAt
  <2>2. CASE at \in 1 .. Len(image.code) /\ at' = at + 1 /\ ~StoresTimer(image.code[at])
    <3>1. \A reg \in {OBI_TIMER.COUNT, OBI_TIMER.COMPARE} : ~StoresTo(image.code[at], "TIMER", reg)
      BY <2>2 DEF StoresTimer
    <3>2. at \in Nat /\ ZeroAt(image, at + 1)
      BY <1>3, <2>2
    <3>3. ZeroAt(image, at)
      BY <3>1, <3>2, ZeroNext, Zenon
    <3> QED
      BY <1>3, <3>3
  <2>3. at' # at
    BY <1>3
  <2> QED
    BY <2>1, <2>2, <2>3, AtRuns
<1>4. ZeroAt(image, at) => OffAt(image, at)
  BY DEF ZeroAt
<1> QED
  BY <1>0, <1>1, <1>2, <1>3, <1>4 DEF Marked

\* A store to the timer by main() sets the bit that it is about.
LEMMA MarkedStores ==
  ASSUME FlowInv, Structured(image), DrivesTimer(image), [Next]_vars,
         Accesses, StoresTimer(program[pc]), PeriodInv, TimerBits, Marked(at)
  PROVE  TimerBits' /\ Marked(at)'
<1>0. image' = image
  BY StepFlows DEF image
<1>1. /\ program = image.code /\ pc \in 1 .. Len(image.code)
      /\ program[pc].op = "store" /\ Storing /\ main_pc = pc /\ main_acc = acc
  BY TimerStoredByMain
<1>2. at = pc /\ at' = pc + 1 /\ pc \in Nat
  BY <1>1, AtStep
<1> DEFINE i == image.code[pc]
<1>3. ASSUME NEW reg \in {OBI_TIMER.COUNT, OBI_TIMER.COMPARE}, StoresTo(i, "TIMER", reg)
      PROVE  TimerBits' /\ Marked(at)'
  <2>1. /\ i.part = "constant" /\ i.value.num \in Nat /\ (reg = OBI_TIMER.COUNT => i.value.num = 0)
    <3>1. CASE reg = OBI_TIMER.COUNT
      <4>1. i.part = "constant" /\ i.value.num = 0
        BY <1>1, <1>3, <3>1 DEF DrivesTimer
      <4> QED
        BY <3>1, <4>1
    <3>2. CASE reg = OBI_TIMER.COMPARE
      <4>1. i.part = "constant" /\ i.value.num \in 0 .. CountMax
        BY <1>1, <1>3, <3>2 DEF DrivesTimer
      <4>2. OBI_TIMER.COUNT # OBI_TIMER.COMPARE
        BY OneRegister
      <4> QED
        BY <3>2, <4>1, <4>2
    <3> QED
      BY <3>1, <3>2
  <2>2. TheRequest.wdata = i.value
    <3>1. StoreData(program[pc]) = i.value
      BY <1>1, <2>1 DEF StoreData
    <3>2. TheRequest = Request(TRUE, program[pc].addr, i.value)
      BY <1>1, <3>1 DEF TheRequest
    <3> QED
      BY <3>2, StoreRequest
  <2>3. /\ count' = 0 /\ compare' \in Nat /\ enable' = enable /\ autoreset' = autoreset
    BY <1>1, <1>3, <2>1, <2>2, TimerStored DEF TimerBits
  <2>4. ~StoresTo(i, "TIMER", OBI_TIMER.CTRL)
    BY <1>3, OneRegister
  <2>5. ~SetsEnable(image, FALSE, pc)
    BY <1>1, <2>4, SetsStore
  <2>6. OffAt(image, pc + 1) => OffAt(image, pc)
    BY <1>2, <2>5, OffNext, Zenon
  <2> QED
    BY <1>0, <1>2, <2>3, <2>6 DEF TimerBits, Marked
<1>4. CASE StoresTo(i, "TIMER", OBI_TIMER.CTRL)
  <2>1. PICK on \in BOOLEAN : SetsEnable(image, on, pc) \/ SetsAutoreset(image, on, pc)
    BY <1>1, <1>4 DEF DrivesTimer
  <2>2. ASSUME NEW bit \in {0, 1}, NEW v \in BOOLEAN,
               Calls(image, write_ctrl_reg_bit(bit, v), pc - 2), pc > 2
        PROVE  /\ (1 - bit) \in acc.bits => Control(1 - bit)
               /\ bit \in acc.bits => v = TRUE
               /\ TheRequest.wdata = acc
    <3>1. pc - 2 \in 1 .. Len(image.code) /\ pc - 2 \in Nat /\ (pc - 2) + 2 = pc
      BY <1>1, <2>2
    <3>2. WriteBitInv(bit, v, pc - 2)
      BY <2>2, <3>1 DEF PeriodInv
    <3>3. image.code[(pc - 2) + 2] = StorePart(TimerReg(OBI_TIMER.CTRL), "acc")
      BY <2>2, <3>1, WriteBitCode
    <3>4. TheRequest.wdata = acc
      BY <1>1, <3>1, <3>3, ControlSent
    <3> QED
      BY <1>1, <3>1, <3>2, <3>4 DEF WriteBitInv
  <2>3. ASSUME NEW v \in BOOLEAN, SetsEnable(image, v, pc)
        PROVE  /\ CTRL_AUTORESET_BIT \in acc.bits => autoreset = TRUE
               /\ CTRL_ENABLE_BIT \in acc.bits => v = TRUE
               /\ TheRequest.wdata = acc
    <3>1. Calls(image, write_ctrl_reg_bit(0, v), pc - 2) /\ pc > 2
      BY <2>3 DEF SetsEnable, obi_timer_set_enable, CTRL_ENABLE_BIT
    <3>2. /\ (1 - 0) \in acc.bits => Control(1 - 0)
          /\ 0 \in acc.bits => v = TRUE
          /\ TheRequest.wdata = acc
      BY <2>2, <3>1
    <3> QED
      BY <3>2 DEF Control, CTRL_ENABLE_BIT, CTRL_AUTORESET_BIT
  <2>4. ASSUME NEW v \in BOOLEAN, SetsAutoreset(image, v, pc)
        PROVE  /\ CTRL_ENABLE_BIT \in acc.bits => enable = TRUE
               /\ CTRL_AUTORESET_BIT \in acc.bits => v = TRUE
               /\ TheRequest.wdata = acc
    <3>1. Calls(image, write_ctrl_reg_bit(1, v), pc - 2) /\ pc > 2
      BY <2>4 DEF SetsAutoreset, obi_timer_set_autoreset, CTRL_AUTORESET_BIT
    <3>2. /\ (1 - 1) \in acc.bits => Control(1 - 1)
          /\ 1 \in acc.bits => v = TRUE
          /\ TheRequest.wdata = acc
      BY <2>2, <3>1
    <3> QED
      BY <3>2 DEF Control, CTRL_ENABLE_BIT, CTRL_AUTORESET_BIT
  <2>5. TheRequest.wdata = acc
    BY <2>1, <2>3, <2>4
  <2>6. /\ count' = (IF Expires /\ autoreset THEN 0
                     ELSE IF enable THEN (count + 1) % (CountMax + 1) ELSE count)
        /\ compare' = compare
        /\ enable' = (CTRL_ENABLE_BIT \in acc.bits)
        /\ autoreset' = (CTRL_AUTORESET_BIT \in acc.bits)
    BY <1>1, <1>4, <2>5, TimerStored
  <2>7. count' \in Nat /\ (enable = FALSE => count' = count)
        /\ (autoreset = TRUE /\ compare # 0 => count' <= compare)
    BY <2>6, CountsWithin
  <2>8. autoreset' = TRUE => autoreset = TRUE \/ (enable = FALSE /\ count = 0)
    <3>1. SetsAutoreset(image, TRUE, pc) => enable = FALSE /\ count = 0
      BY <1>1, <1>2 DEF DrivesTimer, ZeroAt, Marked
    <3> QED
      BY <2>1, <2>3, <2>4, <2>6, <3>1
  <2>9. TimerBits'
    <3>1. autoreset' = TRUE /\ compare' # 0 => count' <= compare'
      BY <2>6, <2>7, <2>8 DEF TimerBits
    <3>2. enable' \in BOOLEAN /\ autoreset' \in BOOLEAN /\ compare' \in Nat
      BY <2>6 DEF TimerBits
    <3> QED
      BY <2>7, <3>1, <3>2 DEF TimerBits
  <2>10. OffAt(image, pc + 1) => enable' = FALSE
    <3> SUFFICES ASSUME OffAt(image, pc + 1), enable' # FALSE PROVE FALSE
      OBVIOUS
    <3>0. CTRL_ENABLE_BIT \in acc.bits
      <4>1. enable' = (CTRL_ENABLE_BIT \in acc.bits) /\ enable' = TRUE
        BY <2>6, <2>9 DEF TimerBits
      <4> QED
        BY <4>1
    <3>1. ~SetsEnable(image, FALSE, pc)
      BY <2>3, <3>0
    <3>2. OffAt(image, pc) /\ ~SetsEnable(image, TRUE, pc)
      BY <1>2, <3>1, OffNext, Zenon
    <3>3. enable = FALSE
      BY <1>2, <3>2 DEF Marked
    <3>4. CASE SetsEnable(image, on, pc)
      BY <3>1, <3>2, <3>4
    <3>5. CASE SetsAutoreset(image, on, pc)
      BY <2>4, <3>0, <3>3, <3>5
    <3> QED
      BY <2>1, <3>4, <3>5
  <2>11. ZeroAt(image, pc + 1) => count' = 0
    <3> SUFFICES ASSUME ZeroAt(image, pc + 1) PROVE count' = 0
      OBVIOUS
    <3>1. \A reg \in {OBI_TIMER.COUNT, OBI_TIMER.COMPARE} : ~StoresTo(i, "TIMER", reg)
      BY <1>4, OneRegister
    <3>2. ZeroAt(image, pc) /\ OffAt(image, pc)
      BY <1>2, <3>1, ZeroNext, Zenon
    <3> QED
      BY <1>2, <2>7, <3>2 DEF Marked
  <2> QED
    BY <1>0, <1>2, <2>9, <2>10, <2>11 DEF Marked
<1> QED
  BY <1>1, <1>3, <1>4 DEF StoresTimer

\* PeriodInv in its parts.
LEMMA PeriodIs ==
  PeriodInv <=>
    /\ TimerBits /\ Marked(at)
    /\ \A p \in 1 .. Len(image.code) : \A bit \in {0, 1} : \A on \in BOOLEAN :
         Calls(image, write_ctrl_reg_bit(bit, on), p) => WriteBitInv(bit, on, p)
  BY DEF PeriodInv, TimerBits, Marked

\* PeriodInv holds at reset.
LEMMA PeriodInit ==
  ASSUME Init
  PROVE  PeriodInv
<1>1. /\ count = 0 /\ compare = 0 /\ enable = FALSE /\ autoreset = FALSE
      /\ handling = 0 /\ pc = 1 /\ access.valid = FALSE /\ acc.bits = {}
  BY DEF Init, TimerInit, NoRequest, Num
<1>2. main_pc = 1 /\ main_acc.bits = {}
  BY <1>1 DEF main_pc, main_acc
<1>3. ASSUME NEW p \in 1 .. Len(image.code), NEW bit \in {0, 1}, NEW on \in BOOLEAN
      PROVE  WriteBitInv(bit, on, p)
  BY <1>1, <1>2 DEF WriteBitInv, Responding
<1> QED
  BY <1>1, <1>3 DEF PeriodInv

\* Every step keeps it.
LEMMA PeriodStep ==
  ASSUME FlowInv, Structured(image), DrivesTimer(image), PeriodInv, [Next]_vars
  PROVE  PeriodInv'
<1>0. image' = image
  BY StepFlows DEF image
<1>1. TimerBits /\ Marked(at)
  BY PeriodIs
<1>2. ASSUME NEW p \in 1 .. Len(image.code), NEW bit \in {0, 1}, NEW on \in BOOLEAN,
             Calls(image, write_ctrl_reg_bit(bit, on), p)
      PROVE  WriteBitInv(bit, on, p)'
  <2>1. WriteBitInv(bit, on, p) /\ p \in Nat
    BY <1>2 DEF PeriodInv
  <2>2. CASE Accesses /\ StoresTimer(program[pc])
    BY <1>2, <2>1, <2>2, WriteBitStores
  <2>3. CASE ~(Accesses /\ StoresTimer(program[pc]))
    BY <1>2, <2>1, <2>3, WriteBitStep
  <2> QED
    BY <2>2, <2>3
<1>3. TimerBits' /\ Marked(at)'
  BY <1>1, MarkedRuns, MarkedStores
<1> QED
  BY <1>0, <1>2, <1>3 DEF PeriodInv, TimerBits, Marked

\* In autoreset mode the counter of obi_timer.sv never passes the compare value
\* that obi_timer.c has set, so that no period is longer than the first.
THEOREM PeriodsKept ==
  ASSUME TimerSetByDriver(Images)
  PROVE  Spec => []PeriodKept
<1> DEFINE Safe == FlowInv /\ PeriodInv
<1>1. Init => Safe
  <2> SUFFICES ASSUME Init PROVE Safe
    OBVIOUS
  <2>1. Structured(image)
    BY DEF Init, TimerSetByDriver, image
  <2> QED
    BY <2>1, FlowInit, PeriodInit
<1>2. Safe /\ [Next]_vars => Safe'
  <2> SUFFICES ASSUME Safe, [Next]_vars PROVE Safe'
    OBVIOUS
  <2>1. Structured(image) /\ DrivesTimer(image)
    BY LoadedStays DEF FlowInv, CoreInv, TimerSetByDriver, image
  <2> QED
    BY <2>1, CoreStep, JumpStep, PeriodStep DEF FlowInv
<1>3. Safe => PeriodKept
  BY DEF PeriodInv, PeriodKept
<1> QED
  BY <1>1, <1>2, <1>3, PTL DEF Spec

-----------------------------------------------------------------------------
(* obi_timer_sleep.                                                         *)

\* The instructions of obi_timer_sleep.
LEMMA SleepSequence ==
  ASSUME NEW c
  PROVE  LET f    == obi_timer_sleep(c)
             ctrl == TimerReg(OBI_TIMER.CTRL)
         IN  /\ Len(f) = 18
             /\ f[2] = Load(ctrl) /\ f[3] = AndNot({CTRL_ENABLE_BIT}) /\ f[4] = StorePart(ctrl, "acc")
             /\ f[5] = Store(TimerReg(OBI_TIMER.COUNT), Num(0))
             /\ f[6] = Load(ctrl) /\ f[7] = Or({CTRL_AUTORESET_BIT}) /\ f[8] = StorePart(ctrl, "acc")
             /\ f[9] = Store(TimerReg(OBI_TIMER.COMPARE), Num(c))
             /\ f[10] = Load(ctrl) /\ f[11] = Or({CTRL_ENABLE_BIT}) /\ f[12] = StorePart(ctrl, "acc")
             /\ f[13] = Csrs(IRQ_OBI_TIMER) /\ f[14] = Csri(TRUE) /\ f[15] = wfi
             /\ f[16] = Restore(IRQ_OBI_TIMER) /\ f[17] = RestoreGlobal
             /\ f[18] = Leave("obi_timer_sleep")
<1> DEFINE ctrl == TimerReg(OBI_TIMER.CTRL)
           off  == <<Load(ctrl), AndNot({CTRL_ENABLE_BIT}), StorePart(ctrl, "acc")>>
           auto == <<Load(ctrl), Or({CTRL_AUTORESET_BIT}), StorePart(ctrl, "acc")>>
           on   == <<Load(ctrl), Or({CTRL_ENABLE_BIT}), StorePart(ctrl, "acc")>>
           zero == Store(TimerReg(OBI_TIMER.COUNT), Num(0))
           cmp  == Store(TimerReg(OBI_TIMER.COMPARE), Num(c))
           set  == off \o <<zero>> \o auto \o <<cmp>> \o on
           tail == <<wfi, Restore(IRQ_OBI_TIMER), RestoreGlobal, Leave("obi_timer_sleep")>>
<1>1. /\ obi_timer_set_enable(FALSE) = off /\ obi_timer_set_autoreset(TRUE) = auto
      /\ obi_timer_set_enable(TRUE) = on
  BY DEF obi_timer_set_enable, obi_timer_set_autoreset, write_ctrl_reg_bit
<1>2. obi_timer_set(c) = set
  BY <1>1 DEF obi_timer_set, obi_timer_set_count, obi_timer_set_compare
<1>3. obi_timer_sleep(c) =
        <<Save(IRQ_OBI_TIMER)>> \o set \o <<Csrs(IRQ_OBI_TIMER)>> \o <<Csri(TRUE)>> \o tail
  BY <1>2 DEF obi_timer_sleep, set_interrupt_enable, set_global_irq_enable
<1> HIDE DEF ctrl, zero, cmp
<1>4. /\ Len(set) = 11
      /\ set[1] = Load(ctrl) /\ set[2] = AndNot({CTRL_ENABLE_BIT}) /\ set[3] = StorePart(ctrl, "acc")
      /\ set[4] = zero
      /\ set[5] = Load(ctrl) /\ set[6] = Or({CTRL_AUTORESET_BIT}) /\ set[7] = StorePart(ctrl, "acc")
      /\ set[8] = cmp
      /\ set[9] = Load(ctrl) /\ set[10] = Or({CTRL_ENABLE_BIT}) /\ set[11] = StorePart(ctrl, "acc")
  OBVIOUS
<1> DEFINE X == { Load(ctrl), AndNot({CTRL_ENABLE_BIT}), StorePart(ctrl, "acc"), zero, cmp,
                  Or({CTRL_AUTORESET_BIT}), Or({CTRL_ENABLE_BIT}), Save(IRQ_OBI_TIMER),
                  Csrs(IRQ_OBI_TIMER), Csri(TRUE), wfi, Restore(IRQ_OBI_TIMER), RestoreGlobal,
                  Leave("obi_timer_sleep") }
           f == <<Save(IRQ_OBI_TIMER)>> \o set \o <<Csrs(IRQ_OBI_TIMER)>> \o <<Csri(TRUE)>> \o tail
<1>5. set \in Seq(X)
  <2>1. off \in Seq(X) /\ auto \in Seq(X) /\ on \in Seq(X) /\ <<zero>> \in Seq(X) /\ <<cmp>> \in Seq(X)
    OBVIOUS
  <2> HIDE DEF off, auto, on, X
  <2> QED
    BY <2>1
<1>6. /\ Len(tail) = 4 /\ tail \in Seq(X)
      /\ tail[1] = wfi /\ tail[2] = Restore(IRQ_OBI_TIMER) /\ tail[3] = RestoreGlobal
      /\ tail[4] = Leave("obi_timer_sleep")
  OBVIOUS
<1>7. /\ <<Save(IRQ_OBI_TIMER)>> \in Seq(X) /\ <<Csrs(IRQ_OBI_TIMER)>> \in Seq(X)
      /\ <<Csri(TRUE)>> \in Seq(X)
  OBVIOUS
<1> HIDE DEF off, auto, on, set, tail, X
<1> DEFINE first == <<Save(IRQ_OBI_TIMER)>>
           own   == <<Csrs(IRQ_OBI_TIMER)>>
           all   == <<Csri(TRUE)>>
           g == first \o set
           h == g \o own
           j == h \o all
<1>7a. /\ first \in Seq(X) /\ own \in Seq(X) /\ all \in Seq(X)
       /\ Len(first) = 1 /\ Len(own) = 1 /\ Len(all) = 1
       /\ own[1] = Csrs(IRQ_OBI_TIMER) /\ all[1] = Csri(TRUE)
  BY <1>7
<1>11. f = j \o tail
  OBVIOUS
<1> HIDE DEF f, first, own, all
<1>8. g \in Seq(X) /\ Len(g) = 12 /\ \A k \in 1 .. 11 : g[1 + k] = set[k]
  <2>0. first \in Seq(X) /\ set \in Seq(X)
    BY <1>5, <1>7a
  <2>1. /\ g \in Seq(X) /\ Len(g) = Len(first) + Len(set)
        /\ \A k \in 1 .. Len(first) : g[k] = first[k]
        /\ \A k \in 1 .. Len(set) : g[Len(first) + k] = set[k]
    BY <2>0
  <2> HIDE DEF g
  <2> QED
    BY <1>4, <1>7a, <2>1
<1> HIDE DEF g
<1>9. h \in Seq(X) /\ Len(h) = 13 /\ h[13] = own[1] /\ \A k \in 1 .. 12 : h[k] = g[k]
  <2>0. g \in Seq(X) /\ own \in Seq(X)
    BY <1>7a, <1>8
  <2>1. /\ h \in Seq(X) /\ Len(h) = Len(g) + Len(own)
        /\ \A k \in 1 .. Len(g) : h[k] = g[k]
        /\ \A k \in 1 .. Len(own) : h[Len(g) + k] = own[k]
    BY <2>0
  <2> HIDE DEF h
  <2>2. 1 \in 1 .. Len(own) /\ Len(g) + 1 = 13
    BY <1>7a, <1>8
  <2> QED
    BY <1>7a, <1>8, <2>1, <2>2
<1> HIDE DEF h
<1>10. j \in Seq(X) /\ Len(j) = 14 /\ j[14] = all[1] /\ \A k \in 1 .. 13 : j[k] = h[k]
  <2>0. h \in Seq(X) /\ all \in Seq(X)
    BY <1>7a, <1>9
  <2>1. /\ j \in Seq(X) /\ Len(j) = Len(h) + Len(all)
        /\ \A k \in 1 .. Len(h) : j[k] = h[k]
        /\ \A k \in 1 .. Len(all) : j[Len(h) + k] = all[k]
    BY <2>0
  <2> HIDE DEF j
  <2>2. 1 \in 1 .. Len(all) /\ Len(h) + 1 = 14
    BY <1>7a, <1>9
  <2> QED
    BY <1>7a, <1>9, <2>1, <2>2
<1> HIDE DEF j
<1>12. /\ Len(f) = 18 /\ \A k \in 1 .. 14 : f[k] = j[k]
       /\ \A k \in 1 .. 4 : f[14 + k] = tail[k]
  <2> DEFINE e == j \o tail
  <2>0. j \in Seq(X) /\ tail \in Seq(X)
    BY <1>6, <1>10
  <2>1. /\ e \in Seq(X) /\ Len(e) = Len(j) + Len(tail)
        /\ \A k \in 1 .. Len(j) : e[k] = j[k]
        /\ \A k \in 1 .. Len(tail) : e[Len(j) + k] = tail[k]
    BY <2>0
  <2> HIDE DEF e
  <2>2. Len(e) = 18 /\ (\A k \in 1 .. 14 : e[k] = j[k]) /\ \A k \in 1 .. 4 : e[14 + k] = tail[k]
    BY <1>6, <1>10, <2>1
  <2> QED
    BY <1>11, <2>2 DEF e
<1>13. /\ f[13] = Csrs(IRQ_OBI_TIMER) /\ f[14] = Csri(TRUE)
       /\ f[15] = tail[1] /\ f[16] = tail[2] /\ f[17] = tail[3] /\ f[18] = tail[4]
  <2>1. f[14 + 1] = tail[1] /\ f[14 + 2] = tail[2] /\ f[14 + 3] = tail[3] /\ f[14 + 4] = tail[4]
    BY <1>12
  <2>2. f[13] = j[13] /\ j[13] = h[13] /\ f[14] = j[14]
    BY <1>10, <1>12
  <2> QED
    BY <1>7a, <1>9, <1>10, <2>1, <2>2
<1>14. ASSUME NEW k \in 1 .. 11 PROVE f[1 + k] = set[k]
  <2>1. 1 + k \in 1 .. 12 /\ 1 + k \in 1 .. 13 /\ 1 + k \in 1 .. 14
    OBVIOUS
  <2> QED
    BY <1>8, <1>9, <1>10, <1>12, <2>1
<1>15. /\ f[2] = set[1] /\ f[3] = set[2] /\ f[4] = set[3] /\ f[5] = set[4] /\ f[6] = set[5]
       /\ f[7] = set[6] /\ f[8] = set[7] /\ f[9] = set[8] /\ f[10] = set[9] /\ f[11] = set[10]
       /\ f[12] = set[11]
  BY <1>14
<1>16. obi_timer_sleep(c) = f
  BY <1>3 DEF f, first, own, all
<1> QED
  BY <1>4, <1>6, <1>12, <1>13, <1>15, <1>16 DEF ctrl, zero, cmp

\* What is at the instructions from p on, where obi_timer_sleep begins.
SleepsAt(im, p) ==
  LET ctrl == TimerReg(OBI_TIMER.CTRL)
      code == im.code
  IN  /\ p \in Nat \ {0} /\ p + 17 <= Len(code)
      /\ \A k \in 1 .. 17 : p + k \notin Entries(im)
      /\ code[p + 1] = Load(ctrl) /\ code[p + 2] = AndNot({CTRL_ENABLE_BIT})
      /\ code[p + 3] = StorePart(ctrl, "acc")
      /\ code[p + 4] = Store(TimerReg(OBI_TIMER.COUNT), Num(0))
      /\ code[p + 5] = Load(ctrl) /\ code[p + 6] = Or({CTRL_AUTORESET_BIT})
      /\ code[p + 7] = StorePart(ctrl, "acc")
      /\ \E c : code[p + 8] = Store(TimerReg(OBI_TIMER.COMPARE), Num(c))
      /\ code[p + 9] = Load(ctrl) /\ code[p + 10] = Or({CTRL_ENABLE_BIT})
      /\ code[p + 11] = StorePart(ctrl, "acc")
      /\ code[p + 12] = Csrs(IRQ_OBI_TIMER) /\ code[p + 13] = Csri(TRUE) /\ code[p + 14] = wfi
      /\ code[p + 15] = Restore(IRQ_OBI_TIMER) /\ code[p + 16] = RestoreGlobal
      /\ code[p + 17] = Leave("obi_timer_sleep")

\* It is there if it is called from its start.
LEMMA SleepCode ==
  ASSUME NEW im, NEW n \in 1 .. Len(im.code), SleepsAlone(im, n)
  PROVE  SleepsAt(im, n - 17)
<1> DEFINE c == im.code[n - 9].value.num
           f == obi_timer_sleep(c)
           p == n - 17
<1>1. n > 17 /\ Calls(im, f, p)
  BY DEF SleepsAlone
<1>2. Len(f) = 18
  BY SleepSequence
<1>3. p \in Nat \ {0} /\ p + 17 <= Len(im.code)
  BY <1>1
<1> HIDE DEF p, f
<1>4. /\ \A k \in 1 .. 18 : im.code[p + k - 1] = f[k]
      /\ \A k \in 2 .. 18 : p + k - 1 \notin Entries(im)
  BY <1>1, <1>2 DEF Calls
<1>5. \A k \in 1 .. 17 : im.code[p + k] = f[k + 1] /\ p + k \notin Entries(im)
  <2> SUFFICES ASSUME NEW k \in 1 .. 17 PROVE im.code[p + k] = f[k + 1] /\ p + k \notin Entries(im)
    OBVIOUS
  <2>1. k + 1 \in 1 .. 18 /\ k + 1 \in 2 .. 18 /\ p + (k + 1) - 1 = p + k
    BY <1>3
  <2>2. im.code[p + (k + 1) - 1] = f[k + 1] /\ p + (k + 1) - 1 \notin Entries(im)
    BY <1>4, <2>1
  <2> QED
    BY <2>1, <2>2
<1>6. /\ im.code[p + 1] = f[2] /\ im.code[p + 2] = f[3] /\ im.code[p + 3] = f[4]
      /\ im.code[p + 4] = f[5] /\ im.code[p + 5] = f[6] /\ im.code[p + 6] = f[7]
      /\ im.code[p + 7] = f[8] /\ im.code[p + 8] = f[9] /\ im.code[p + 9] = f[10]
      /\ im.code[p + 10] = f[11] /\ im.code[p + 11] = f[12] /\ im.code[p + 12] = f[13]
      /\ im.code[p + 13] = f[14] /\ im.code[p + 14] = f[15] /\ im.code[p + 15] = f[16]
      /\ im.code[p + 16] = f[17] /\ im.code[p + 17] = f[18]
  <2>1. \A k \in 1 .. 17 : im.code[p + k] = f[k + 1]
    BY <1>5
  <2> QED
    BY <2>1
<1>7. SleepsAt(im, p)
  <2> DEFINE ctrl == TimerReg(OBI_TIMER.CTRL)
  <2>1. /\ f[2] = Load(ctrl) /\ f[3] = AndNot({CTRL_ENABLE_BIT}) /\ f[4] = StorePart(ctrl, "acc")
        /\ f[5] = Store(TimerReg(OBI_TIMER.COUNT), Num(0))
        /\ f[6] = Load(ctrl) /\ f[7] = Or({CTRL_AUTORESET_BIT}) /\ f[8] = StorePart(ctrl, "acc")
        /\ f[9] = Store(TimerReg(OBI_TIMER.COMPARE), Num(c))
        /\ f[10] = Load(ctrl) /\ f[11] = Or({CTRL_ENABLE_BIT}) /\ f[12] = StorePart(ctrl, "acc")
        /\ f[13] = Csrs(IRQ_OBI_TIMER) /\ f[14] = Csri(TRUE) /\ f[15] = wfi
        /\ f[16] = Restore(IRQ_OBI_TIMER) /\ f[17] = RestoreGlobal
        /\ f[18] = Leave("obi_timer_sleep")
    BY SleepSequence DEF f
  <2> HIDE DEF ctrl, c
  <2>2. \E v : im.code[p + 8] = Store(TimerReg(OBI_TIMER.COMPARE), Num(v))
    BY <1>6, <2>1
  <2> QED
    BY <1>3, <1>5, <1>6, <2>1, <2>2 DEF SleepsAt, ctrl
<1> QED
  BY <1>7 DEF p

\* The function is a call of the others.
LEMMA SleepCalls ==
  ASSUME NEW im, NEW p, SleepsAt(im, p)
  PROVE  SetsEnable(im, FALSE, p + 3) /\ SetsEnable(im, TRUE, p + 11)
<1>1. ASSUME NEW k \in {1, 9}, NEW on \in BOOLEAN,
             im.code[p + k] = Load(TimerReg(OBI_TIMER.CTRL)),
             im.code[p + k + 1] = (IF on THEN Or({CTRL_ENABLE_BIT}) ELSE AndNot({CTRL_ENABLE_BIT})),
             im.code[p + k + 2] = StorePart(TimerReg(OBI_TIMER.CTRL), "acc")
      PROVE  SetsEnable(im, on, p + k + 2)
  <2> DEFINE f == write_ctrl_reg_bit(CTRL_ENABLE_BIT, on)
             q == p + k
  <2>1. /\ Len(f) = 3 /\ f[1] = im.code[q] /\ f[2] = im.code[q + 1] /\ f[3] = im.code[q + 2]
    BY <1>1 DEF write_ctrl_reg_bit
  <2>2. /\ q \in Nat \ {0} /\ q + 2 <= Len(im.code)
        /\ q + 1 \notin Entries(im) /\ q + 2 \notin Entries(im)
    <3>1. p \in Nat \ {0} /\ p + 17 <= Len(im.code) /\ \A m \in 1 .. 17 : p + m \notin Entries(im)
      BY DEF SleepsAt
    <3>0. k \in Nat /\ k >= 1 /\ k <= 9
      OBVIOUS
    <3>2. k + 1 \in 1 .. 17 /\ k + 2 \in 1 .. 17
      BY <3>0
    <3>2a. /\ p + (k + 1) \notin Entries(im) /\ p + (k + 2) \notin Entries(im)
      BY <3>1, <3>2
    <3>3. p + (k + 1) = q + 1 /\ p + (k + 2) = q + 2 /\ q + 2 <= p + 17
      BY <3>0, <3>1
    <3>4. q \in Nat \ {0}
      BY <3>0, <3>1
    <3>5. q + 2 <= Len(im.code)
      <4> HIDE DEF q
      <4>1. q + 2 <= p + 17 /\ p + 17 <= Len(im.code) /\ Len(im.code) \in Int
        BY <3>1, <3>3, im.code = im.code
      <4> QED
        BY <3>1, <3>4, <4>1
    <3> HIDE DEF q
    <3> QED
      BY <3>2a, <3>3, <3>4, <3>5
  <2> HIDE DEF f, q
  <2>3. \A m \in 1 .. 3 : im.code[q + m - 1] = f[m]
    BY <2>1, <2>2
  <2>4. \A m \in 2 .. 3 : q + m - 1 \notin Entries(im)
    BY <2>2
  <2>5. Calls(im, f, q)
    BY <2>1, <2>2, <2>3, <2>4 DEF Calls
  <2>6. p + k + 2 > 2 /\ (p + k + 2) - 2 = q
    BY <2>2 DEF q
  <2>7. /\ p + k + 2 > 2
        /\ Calls(im, write_ctrl_reg_bit(CTRL_ENABLE_BIT, on), (p + k + 2) - 2)
    BY <2>5, <2>6 DEF f
  <2>8. obi_timer_set_enable(on) = write_ctrl_reg_bit(CTRL_ENABLE_BIT, on)
    BY DEF obi_timer_set_enable
  <2> QED
    BY <2>7, <2>8, Zenon DEF SetsEnable
<1>2. p \in Nat
  BY DEF SleepsAt
<1>3. SetsEnable(im, FALSE, p + 1 + 2)
  <2>1. /\ im.code[p + 1] = Load(TimerReg(OBI_TIMER.CTRL))
        /\ im.code[p + 2] = AndNot({CTRL_ENABLE_BIT})
        /\ im.code[p + 3] = StorePart(TimerReg(OBI_TIMER.CTRL), "acc")
    BY DEF SleepsAt
  <2>2. p + 1 + 1 = p + 2 /\ p + 1 + 2 = p + 3
    BY <1>2
  <2> QED
    BY <1>1, <2>1, <2>2
<1>4. SetsEnable(im, TRUE, p + 9 + 2)
  <2>1. /\ im.code[p + 9] = Load(TimerReg(OBI_TIMER.CTRL))
        /\ im.code[p + 10] = Or({CTRL_ENABLE_BIT})
        /\ im.code[p + 11] = StorePart(TimerReg(OBI_TIMER.CTRL), "acc")
    BY DEF SleepsAt
  <2>2. p + 9 + 1 = p + 10 /\ p + 9 + 2 = p + 11
    BY <1>2
  <2> QED
    BY <1>1, <2>1, <2>2
<1>5. p + 1 + 2 = p + 3 /\ p + 9 + 2 = p + 11
  BY <1>2
<1> QED
  BY <1>3, <1>4, <1>5

\* The function sets the count and the compare value.
LEMMA SleepCompares ==
  ASSUME NEW im, NEW p, SleepsAt(im, p)
  PROVE  /\ StoresTo(im.code[p + 4], "TIMER", OBI_TIMER.COUNT)
         /\ StoresTo(im.code[p + 8], "TIMER", OBI_TIMER.COMPARE)
<1>1. ASSUME NEW reg \in TimerRegs, NEW word
      PROVE  StoresTo(Store(TimerReg(reg), word), "TIMER", reg)
  <2>1. Store(TimerReg(reg), word).op = "store" /\ Store(TimerReg(reg), word).addr = TimerReg(reg)
    BY DEF Store
  <2>2. Writes(Request(TRUE, TimerReg(reg), Num(0)), "TIMER", reg)
    BY TimerRequest, StoreRequest DEF Writes
  <2> QED
    BY <2>1, <2>2 DEF StoresTo
<1>2. OBI_TIMER.COUNT \in TimerRegs /\ OBI_TIMER.COMPARE \in TimerRegs
  BY DEF TimerRegs
<1>3. PICK c : im.code[p + 8] = Store(TimerReg(OBI_TIMER.COMPARE), Num(c))
  BY DEF SleepsAt
<1>4. im.code[p + 4] = Store(TimerReg(OBI_TIMER.COUNT), Num(0))
  BY DEF SleepsAt
<1> QED
  BY <1>1, <1>2, <1>3, <1>4

\* The timer is at 0 when the function turns it on.
LEMMA SleepZero ==
  ASSUME NEW im, NEW p, SleepsAt(im, p)
  PROVE  ZeroAt(im, p + 11)
<1>1. /\ p \in Nat \ {0} /\ \A k \in 1 .. 17 : p + k \notin Entries(im)
      /\ SetsEnable(im, FALSE, p + 3)
  BY SleepCalls DEF SleepsAt
<1>2. \A k \in 1 .. 17 : p + k \in 1 .. Len(im.code)
  <2> SUFFICES ASSUME NEW k \in 1 .. 17 PROVE p + k \in 1 .. Len(im.code)
    OBVIOUS
  <2>1. p + 17 <= Len(im.code) /\ p \in Nat \ {0}
    BY DEF SleepsAt
  <2>2. p + k <= p + 17 /\ p + k \in Nat \ {0}
    BY <2>1
  <2> QED
    BY <2>1, <2>2
<1>3. ASSUME NEW d \in 4 .. 10 PROVE ~SetsEnable(im, TRUE, p + d)
  <2>1. CASE d \in {4, 5, 6, 8, 9, 10}
    <3>1. p + d \in 1 .. Len(im.code)
      <4>1. d \in 1 .. 17
        OBVIOUS
      <4> QED
        BY <1>2, <4>1
    <3>2. ~StoresTo(im.code[p + d], "TIMER", OBI_TIMER.CTRL)
      <4>1. im.code[p + d].op = "store" => d = 4 \/ d = 8
        <5>1. /\ im.code[p + 5].op = "load" /\ im.code[p + 6].op = "compute"
              /\ im.code[p + 9].op = "load" /\ im.code[p + 10].op = "compute"
          BY DEF SleepsAt, Load, Or
        <5> QED
          BY <2>1, <5>1
      <4>2. StoresTo(im.code[p + 4], "TIMER", OBI_TIMER.COUNT)
        BY SleepCompares
      <4>3. StoresTo(im.code[p + 8], "TIMER", OBI_TIMER.COMPARE)
        BY SleepCompares
      <4> QED
        BY <4>1, <4>2, <4>3, OneRegister DEF StoresTo
    <3> QED
      BY <3>1, <3>2, SetsStore
  <2>2. CASE d = 7
    <3> SUFFICES ASSUME SetsEnable(im, TRUE, p + 7) PROVE FALSE
      BY <2>2
    <3>1. Calls(im, write_ctrl_reg_bit(CTRL_ENABLE_BIT, TRUE), (p + 7) - 2)
      BY DEF SetsEnable, obi_timer_set_enable
    <3>2. (p + 7) - 2 = p + 5 /\ p + 5 \in Nat /\ (p + 5) + 1 = p + 6
      BY <1>1
    <3>3. Calls(im, write_ctrl_reg_bit(CTRL_ENABLE_BIT, TRUE), p + 5)
      BY <3>1, <3>2
    <3>4. im.code[(p + 5) + 1] = Or({CTRL_ENABLE_BIT})
      BY <3>2, <3>3, SetBitCode
    <3>5. im.code[p + 6] = Or({CTRL_AUTORESET_BIT})
      BY DEF SleepsAt
    <3>6. Or({CTRL_ENABLE_BIT}) = Or({CTRL_AUTORESET_BIT})
      BY <3>2, <3>4, <3>5
    <3>7. {CTRL_ENABLE_BIT} = {CTRL_AUTORESET_BIT}
      BY <3>6 DEF Or
    <3>8. CTRL_AUTORESET_BIT \in {CTRL_ENABLE_BIT}
      BY <3>7
    <3> QED
      BY <3>8 DEF CTRL_ENABLE_BIT, CTRL_AUTORESET_BIT
  <2> QED
    <3>1. d \in {4, 5, 6, 7, 8, 9, 10}
      OBVIOUS
    <3> QED
      BY <2>1, <2>2, <3>1
<1>4. ASSUME NEW d \in 4 .. 11 PROVE OffAt(im, p + d)
  <2>1. p + 3 \in 1 .. ((p + d) - 1) /\ p + d \in 1 .. Len(im.code)
    <3>1. d \in 1 .. 17 /\ d >= 4
      OBVIOUS
    <3> QED
      BY <1>1, <1>2, <3>1
  <2>2. \A k \in ((p + 3) + 1) .. (p + d) : k - p \in 4 .. 17 /\ k = p + (k - p)
    BY <1>1
  <2>3. \A k \in ((p + 3) + 1) .. (p + d) : k \notin Entries(im)
    BY <1>1, <2>2
  <2>4. \A k \in ((p + 3) + 1) .. ((p + d) - 1) : k - p \in 4 .. 10 /\ k = p + (k - p)
    BY <1>1
  <2>5. \A k \in ((p + 3) + 1) .. ((p + d) - 1) : ~SetsEnable(im, TRUE, k)
    BY <1>3, <2>4
  <2> QED
    BY <1>1, <2>1, <2>3, <2>5 DEF OffAt
<1>5. \A k \in (p + 4) .. ((p + 11) - 1) : OffAt(im, k)
  <2>1. \A k \in (p + 4) .. ((p + 11) - 1) : k - p \in 4 .. 11 /\ k = p + (k - p)
    BY <1>1
  <2> QED
    BY <1>4, <2>1
<1>6. OffAt(im, p + 11) /\ p + 4 \in 1 .. ((p + 11) - 1)
  BY <1>1, <1>4
<1>7. StoresTo(im.code[p + 4], "TIMER", OBI_TIMER.COUNT)
  BY SleepCompares
<1> QED
  BY <1>5, <1>6, <1>7 DEF ZeroAt

\* A csr instruction of main() is passed by executing it.
LEMMA CsrPassed ==
  ASSUME FlowInv, [Next]_vars, Advances, program[pc].op = "csr"
  PROVE  Csr(program[pc])
<1>1. /\ pc' = pc + 1 /\ handling = 0 /\ handling' = 0 /\ pc \in 1 .. Len(image.code)
      /\ program = image.code
  BY DEF Advances, program
<1>2. pc' # pc
  BY <1>1
<1>3. access.valid = FALSE /\ asleep = FALSE
  BY AccessedPort DEF FlowInv, CoreInv
<1>4. CASE Execute
  <2>1. ~Issue(program[pc])
    BY DEF Issue
  <2>2. Internal(program[pc])
    BY <1>4, <2>1, Fetched DEF FlowInv
  <2> QED
    BY <2>2 DEF Internal, Compute, Keeping, Assigning, Delivering, Branch, Pausing, FallAsleep,
      Leaving, Jumping, Returning, Check
<1>5. ~UNCHANGED vars /\ ~Finished
  BY <1>2 DEF Finished, vars, core
<1>6. ~Stall /\ ~Sleep /\ ~DebugWake /\ ~DebugPoll
  BY <1>2 DEF Stall, Sleep, DebugWake, DebugPoll, core
<1>7. ~Respond /\ ~Fault /\ ~WakeUp /\ ~Mret
  BY <1>1, <1>3 DEF Respond, Fault, WakeUp, Mret, AtEnd
<1>8. ~TakeInterrupt
  <2> SUFFICES ASSUME TakeInterrupt PROVE FALSE
    OBVIOUS
  <2>1. handling' = Cause /\ Cause \in Causes
    BY CauseIsOne DEF TakeInterrupt, Trap
  <2> QED
    BY <1>1, <2>1 DEF Causes, IRQ_SOFTWARE, IRQ_TIMER, IRQ_OBI_TIMER, IRQ_GPIO, LOAD_FAULT, STORE_FAULT
<1> QED
  BY <1>4, <1>5, <1>6, <1>7, <1>8 DEF Next

\* Only a csr instruction of main() changes MIE as main() sees it: a handler
\* runs with it clear, and sets it back.
LEMMA GlobalKept ==
  ASSUME FlowInv, Structured(image), [Next]_vars, "MIE" \in DOMAIN frame
  PROVE  /\ "MIE" \in DOMAIN frame'
         /\ main_MIE' = main_MIE \/ (handling = 0 /\ program[pc].op = "csr")
<1>1. CASE UNCHANGED flags
  BY <1>1 DEF flags, main_MIE
<1>2. CASE Execute /\ Internal(program[pc]) /\ handling = 0
  <2>1. handling' = 0
    BY <1>2, MainExecutes
  <2>2. CASE Csr(program[pc])
    BY <1>2, <2>2 DEF Csr
  <2>3. CASE ~Csr(program[pc])
    BY <1>1, <1>2, <2>1, <2>3 DEF Internal, Compute, Keeping, Assigning, Delivering, Branch,
      Pausing, FallAsleep, Leaving, Jumping, Returning, Check, main_MIE, flags
  <2> QED
    BY <2>2, <2>3
<1>3. CASE Execute /\ Internal(program[pc]) /\ handling # 0
  BY <1>3, HandlerExecutes DEF Skips, main_MIE
<1>4. CASE Execute /\ Issue(program[pc])
  BY <1>1, <1>4 DEF Issue
<1>5. CASE Stall \/ Sleep \/ DebugWake \/ DebugPoll \/ Finished \/ UNCHANGED vars \/ Respond
  BY <1>1, <1>5 DEF Stall, Sleep, DebugWake, DebugPoll, Finished, vars, core, flags, Respond
<1>6. CASE Fault \/ TakeInterrupt
  <2>1. handling = 0
    BY <1>6, FaultInMain DEF TakeInterrupt, Interrupted, FlowInv, CoreInv
  <2>2. PICK cause \in Causes : Trap(cause)
    BY <1>6, <2>1, MainTraps
  <2>3. handling' # 0 /\ frame' = [pc |-> pc, acc |-> acc, kept |-> kept, MIE |-> MIE]
    BY <2>2 DEF Trap, Causes, IRQ_SOFTWARE, IRQ_TIMER, IRQ_OBI_TIMER, IRQ_GPIO, LOAD_FAULT, STORE_FAULT
  <2> QED
    BY <2>1, <2>3 DEF main_MIE
<1>7. CASE Mret
  BY <1>7 DEF Mret, AtEnd, NoFrame, main_MIE
<1>8. CASE WakeUp
  BY <1>8 DEF WakeUp, main_MIE
<1> QED
  BY <1>2, <1>3, <1>4, <1>5, <1>6, <1>7, <1>8, Fetched DEF Next, FlowInv

\* main() sleeps on, or falls asleep with no enabled interrupt pending.
LEMMA SleepsOn ==
  ASSUME FlowInv, [Next]_vars, NEW w, Waits(w)'
  PROVE  /\ handling = 0 /\ pc = w /\ mie' = mie /\ ~Accesses
         /\ Waits(w) \/ (MIE = TRUE => pending \cap mie = {})
<1> USE DEF Waits, FlowInv, CoreInv
<1>1. CASE asleep = TRUE
  <2>1. access.valid = FALSE
    BY <1>1, AccessedPort
  <2>2. ~Execute /\ ~Stall /\ ~Respond /\ ~Fault /\ ~TakeInterrupt /\ ~Mret /\ ~WakeUp
    BY <1>1, <2>1 DEF Execute, Stall, Between, Respond, Fault, TakeInterrupt, Interrupted, Mret, WakeUp
  <2>3. UNCHANGED core
    BY <2>2 DEF Next, Sleep, DebugWake, DebugPoll, Finished, vars
  <2> QED
    BY <1>1, <2>2, <2>3 DEF core, Accesses
<1>2. CASE asleep = FALSE
  <2>1. asleep' # asleep
    BY <1>2
  <2>2. ~(Execute /\ Issue(program[pc]))
    BY <2>1 DEF Issue, flags
  <2>3. ~Stall /\ ~Respond /\ ~Fault /\ ~TakeInterrupt /\ ~Mret /\ ~Sleep /\ ~WakeUp /\ ~DebugWake
          /\ ~DebugPoll /\ ~Finished /\ ~UNCHANGED vars
    BY <1>2, <2>1 DEF Stall, Respond, Fault, TakeInterrupt, Trap, Mret, Sleep, WakeUp, DebugWake,
      DebugPoll, Finished, vars, core, flags
  <2>4. Execute /\ Internal(program[pc])
    BY <2>2, <2>3, Fetched DEF Next
  <2>5. FallAsleep(program[pc])
    BY <2>1, <2>4 DEF Internal, Compute, Keeping, Assigning, Delivering, Branch, Pausing, Csr,
      Leaving, Jumping, Returning, Check, flags
  <2>6. UNCHANGED <<pc, mie, handling>> /\ ~Accesses
    BY <2>2, <2>5 DEF FallAsleep, Accesses
  <2>7. MIE = TRUE => pending \cap mie = {}
    BY <1>2, <2>4, Fetched DEF Execute, Interrupted
  <2> QED
    BY <2>6, <2>7
<1> QED
  BY <1>1, <1>2

\* A cycle without a store to the timer counts no more than it runs.
LEMMA SleepRuns ==
  ASSUME [Next]_vars, ~(Accesses /\ StoresTimer(program[pc])), PeriodInv, run_time \in Nat
  PROVE  /\ run_time' \in Nat
         /\ Counted => Counted'
         /\ TimeOver => TimeOver'
         /\ expired' = TRUE => expired = TRUE \/ (Counted => TimeOver')
         /\ UNCHANGED vars \/ RunsOn
<1>1. CASE UNCHANGED vars
  <2>1. UNCHANGED <<run_time, count, compare, expired>>
    BY <1>1 DEF vars, timer
  <2> QED
    BY <1>1, <2>1 DEF Counted, TimeOver
<1>2. CASE RunsOn
  <2> DEFINE next == (count + 1) % (CountMax + 1)
  <2>1. next \in Nat /\ next <= count + 1
    BY Counts DEF PeriodInv
  <2>2. /\ count' = (IF Expires /\ autoreset THEN 0 ELSE IF enable THEN next ELSE count)
        /\ run_time' = (IF enable /\ run_time <= compare THEN run_time + 1 ELSE run_time)
        /\ compare' = compare
    BY <1>2 DEF RunsOn
  <2> HIDE DEF next
  <2>3. count \in Nat /\ compare \in Nat /\ enable \in BOOLEAN /\ autoreset \in BOOLEAN
    BY DEF PeriodInv
  <2>4. Counted => Counted'
    BY <2>1, <2>2, <2>3 DEF Counted
  <2>5. Expires => compare <= count
    BY DEF Expires
  <2>6. run_time' \in Nat /\ run_time' >= run_time
    BY <2>2, <2>3
  <2>7. TimeOver => TimeOver'
    BY <2>2, <2>3, <2>6 DEF TimeOver
  <2>8. Expires => (Counted => TimeOver')
    BY <2>2, <2>3, <2>5, <2>6 DEF Counted, TimeOver
  <2>9. expired' => expired \/ Expires
    BY <1>2 DEF RunsOn
  <2> QED
    BY <1>2, <2>4, <2>6, <2>7, <2>8, <2>9
<1> QED
  BY <1>1, <1>2, TimerRuns

\* The only store to the timer behind the last but one is the one that turns it
\* on, when it is at 0.
LEMMA SleepCounts ==
  ASSUME FlowInv, Structured(image), DrivesTimer(image), PeriodInv, [Next]_vars, run_time \in Nat,
         NEW p, SleepsAt(image, p), at' \in (p + 12) .. (p + 17),
         at \in (p + 12) .. (p + 17) => Counted
  PROVE  Counted'
<1>0. /\ p \in Nat /\ \A k \in 1 .. 17 : p + k \notin Entries(image)
  BY DEF SleepsAt
<1>1. at' \notin Entries(image)
  <2>1. \A a \in (p + 12) .. (p + 17) : a - p \in 1 .. 17 /\ a = p + (a - p)
    BY <1>0
  <2>2. \A a \in (p + 12) .. (p + 17) : a \notin Entries(image)
    BY <1>0, <2>1
  <2> QED
    BY <2>2
<1>2. CASE Accesses /\ StoresTimer(program[pc])
  <2>1. program = image.code /\ program[pc].op = "store" /\ Storing
    BY <1>2, TimerStoredByMain
  <2>2. pc = at /\ at \in 1 .. Len(image.code) /\ at' = at + 1
    BY <2>1, AtStep
  <2>3. at = p + 11
    <3>1. at \in (p + 11) .. (p + 16)
      BY <1>0, <2>2
    <3>2. at \in {p + 11, p + 12, p + 13, p + 14, p + 15, p + 16}
      BY <1>0, <3>1
    <3>3. /\ image.code[p + 12].op # "store" /\ image.code[p + 13].op # "store"
          /\ image.code[p + 14].op # "store" /\ image.code[p + 15].op # "store"
          /\ image.code[p + 16].op # "store"
      BY DEF SleepsAt, Csrs, Csri, wfi, Restore, RestoreGlobal
    <3> QED
      BY <2>1, <2>2, <3>2, <3>3
  <2>4. count = 0 /\ enable = FALSE
    <3>1. ZeroAt(image, p + 11)
      BY SleepZero
    <3>2. OffAt(image, p + 11)
      BY <3>1 DEF ZeroAt
    <3> QED
      BY <2>3, <3>1, <3>2 DEF PeriodInv
  <2>5. SetsEnable(image, TRUE, p + 11)
    BY SleepCalls
  <2>6. StoresTo(image.code[p + 11], "TIMER", OBI_TIMER.CTRL)
    <3>1. p + 11 \in Nat
      BY <1>0
    <3> QED
      BY <2>2, <2>3, <2>5, <3>1, SetsStore
  <2>7. count' = 0 /\ run_time' = 0
    <3>1. StoresTo(program[pc], "TIMER", OBI_TIMER.CTRL)
      BY <2>1, <2>2, <2>3, <2>6
    <3>2. /\ count' = (IF Expires /\ autoreset THEN 0
                       ELSE IF enable THEN (count + 1) % (CountMax + 1) ELSE count)
          /\ run_time' = 0
      BY <1>2, <3>1, TimerStored
    <3> QED
      BY <2>4, <3>2
  <2> QED
    BY <2>7 DEF Counted
<1>3. CASE ~(Accesses /\ StoresTimer(program[pc]))
  <2>1. CASE at' = at
    BY <1>3, <2>1, SleepRuns
  <2>2. CASE at \in 1 .. Len(image.code) /\ at' = at + 1 /\ ~StoresTimer(image.code[at])
    <3>1. at # p + 11
      <4>1. ASSUME at = p + 11 PROVE FALSE
        <5>1. StoresTo(image.code[p + 11], "TIMER", OBI_TIMER.CTRL)
          BY <2>2, <4>1, SleepCalls, SetsStore
        <5> QED
          BY <2>2, <4>1, <5>1 DEF StoresTimer
      <4> QED
        BY <4>1
    <3>2. at \in (p + 12) .. (p + 17)
      <4>1. \A a \in Int : a + 1 \in (p + 12) .. (p + 17) /\ a # p + 11 => a \in (p + 12) .. (p + 17)
        BY <1>0
      <4>2. at \in Int /\ at + 1 \in (p + 12) .. (p + 17)
        <5>1. at \in Int
          BY <2>2
        <5>2. at + 1 \in (p + 12) .. (p + 17)
          BY <2>2
        <5> QED
          BY <5>1, <5>2
      <4> QED
        BY <3>1, <4>1, <4>2
    <3> QED
      BY <1>3, <3>2, SleepRuns
  <2> QED
    BY <1>1, <1>3, <2>1, <2>2, AtRuns
<1> QED
  BY <1>2, <1>3

\* main() comes to the wfi with MIE set.
LEMMA SleepEnables ==
  ASSUME FlowInv, Structured(image), [Next]_vars, "MIE" \in DOMAIN frame,
         NEW p, SleepsAt(image, p), main_pc' = p + 14, main_pc = p + 14 => main_MIE = TRUE
  PROVE  main_MIE' = TRUE
<1>1. /\ p + 13 \in Nat /\ (p + 13) + 1 = p + 14 /\ p + 14 \notin Entries(image)
      /\ image.code[p + 13] = Csri(TRUE) /\ image.code[p + 14] = wfi
  <2>1. p \in Nat /\ \A k \in 1 .. 17 : p + k \notin Entries(image)
    BY DEF SleepsAt
  <2>2. 14 \in 1 .. 17
    OBVIOUS
  <2>3. p + 14 \notin Entries(image)
    BY <2>1, <2>2
  <2>4. image.code[p + 13] = Csri(TRUE) /\ image.code[p + 14] = wfi
    BY DEF SleepsAt
  <2>5. p + 13 \in Nat /\ (p + 13) + 1 = p + 14
    BY <2>1
  <2> QED
    BY <2>3, <2>4, <2>5
<1>2. CASE UNCHANGED main
  <2>1. main_pc = p + 14
    BY <1>2 DEF main
  <2>2. ~(handling = 0 /\ program[pc].op = "csr")
    BY <1>1, <2>1 DEF main_pc, program, wfi
  <2> QED
    BY <2>1, <2>2, GlobalKept
<1>3. CASE Enters
  BY <1>1, <1>3 DEF Enters
<1>4. CASE Advances
  <2>1. /\ handling = 0 /\ handling' = 0 /\ pc \in 1 .. Len(image.code) /\ pc' = pc + 1
        /\ program = image.code
    BY <1>4 DEF Advances, program
  <2>2. pc' = p + 14
    BY <2>1 DEF main_pc
  <2>3. pc = p + 13
    BY <1>1, <2>1, <2>2
  <2>4. program[pc] = Csri(TRUE)
    BY <1>1, <2>1, <2>3
  <2>5. Csr(program[pc])
    BY <1>4, <2>4, CsrPassed DEF Csri
  <2>6. MIE' = TRUE
    BY <2>4, <2>5 DEF Csr, Csri
  <2> QED
    BY <2>1, <2>6 DEF main_MIE
<1> QED
  BY <1>2, <1>3, <1>4, StepFlows DEF Flows

\* A flag that wakes the core up is that of the period that has just ended.
LEMMA SleepWaits ==
  ASSUME FlowInv, PeriodInv, [Next]_vars, run_time \in Nat, NEW p, SleepInv(p), SleepsAt(image, p),
         Waits(p + 14)', expired' = TRUE, IRQ_OBI_TIMER \in mie'
  PROVE  TimeOver'
<1>1. /\ handling = 0 /\ pc = p + 14 /\ mie' = mie /\ ~Accesses
      /\ Waits(p + 14) \/ (MIE = TRUE => pending \cap mie = {})
  BY SleepsOn
<1>2. MIE = TRUE
  BY <1>1 DEF SleepInv, main_pc, main_MIE
<1>3. Counted
  <2>1. program = image.code /\ program[pc] = wfi /\ main_pc = p + 14
    BY <1>1 DEF program, main_pc, SleepsAt
  <2>2. ~Stored
    <3> SUFFICES ASSUME Stored PROVE FALSE
      OBVIOUS
    <3>1. access.valid = TRUE
      BY DEF Stored, Responding
    <3>2. program[pc].op = "wfi"
      BY <2>1 DEF wfi
    <3> QED
      BY <3>1, <3>2, AccessedPort DEF FlowInv
  <2>3. at = p + 14
    BY <2>1, <2>2 DEF at
  <2>4. p + 14 \in (p + 12) .. (p + 17)
    <3>1. p \in Nat
      BY DEF SleepsAt
    <3> QED
      BY <3>1
  <2>5. at \in (p + 12) .. (p + 17)
    BY <2>3, <2>4
  <2> QED
    BY <2>5 DEF SleepInv
<1>4. CASE expired = TRUE
  <2>1. IRQ_OBI_TIMER \in pending \cap mie
    BY <1>1, <1>4 DEF pending
  <2>2. TimeOver
    BY <1>1, <1>2, <1>4, <2>1 DEF SleepInv
  <2> QED
    BY <1>1, <2>2, SleepRuns
<1> QED
  BY <1>1, <1>3, <1>4, SleepRuns

\* Behind the wfi the time is over: the core has been woken up by the timer.
LEMMA SleepOver ==
  ASSUME FlowInv, Structured(image), DrivesTimer(image), PeriodInv, MaskInv, [Next]_vars,
         run_time \in Nat, NEW p, SleepsAt(image, p), SleepInv(p),
         \A irq \in Interrupts \ {IRQ_OBI_TIMER} : p + 14 \notin EnabledAt(image, irq),
         main_pc' \in (p + 15) .. (p + 17)
  PROVE  TimeOver'
<1>0. /\ p \in Nat /\ \A k \in 1 .. 17 : p + k \notin Entries(image)
  BY DEF SleepsAt
<1>1. main_pc' \notin Entries(image)
  <2>1. \A a \in (p + 15) .. (p + 17) : a - p \in 1 .. 17 /\ a = p + (a - p)
    BY <1>0
  <2>2. \A a \in (p + 15) .. (p + 17) : a \notin Entries(image)
    BY <1>0, <2>1
  <2> QED
    BY <2>2
<1>2. ASSUME main_pc \in (p + 14) .. (p + 17), Accesses, StoresTimer(program[pc])
      PROVE  FALSE
  <2>1. program = image.code /\ main_pc = pc /\ program[pc].op = "store"
    BY <1>2, TimerStoredByMain
  <2>2. pc \in {p + 14, p + 15, p + 16, p + 17}
    <3>1. \A a \in (p + 14) .. (p + 17) : a \in {p + 14, p + 15, p + 16, p + 17}
      BY <1>0
    <3> QED
      BY <1>2, <2>1, <3>1
  <2>3. /\ image.code[p + 14].op # "store" /\ image.code[p + 15].op # "store"
        /\ image.code[p + 16].op # "store" /\ image.code[p + 17].op # "store"
    BY DEF SleepsAt, wfi, Restore, RestoreGlobal, Leave
  <2> QED
    BY <2>1, <2>2, <2>3
<1>2a. \A a \in (p + 15) .. (p + 17) : a \in (p + 14) .. (p + 17)
  BY <1>0
<1>3. ASSUME main_pc \in (p + 15) .. (p + 17) PROVE TimeOver'
  <2>1. TimeOver
    BY <1>3 DEF SleepInv
  <2>2. ~(Accesses /\ StoresTimer(program[pc]))
    BY <1>2, <1>2a, <1>3
  <2> QED
    BY <2>1, <2>2, SleepRuns
<1>4. CASE UNCHANGED main
  BY <1>3, <1>4 DEF main
<1>5. CASE Enters
  BY <1>1, <1>5 DEF Enters
<1>6. CASE Advances
  <2>1. /\ handling = 0 /\ handling' = 0 /\ pc \in 1 .. Len(image.code) /\ pc' = pc + 1
        /\ program = image.code /\ main_pc = pc /\ main_pc' = pc + 1
    BY <1>6 DEF Advances, program, main_pc
  <2>2. pc \in (p + 15) .. (p + 17) \/ pc = p + 14
    <3>1. \A a \in Int : a + 1 \in (p + 15) .. (p + 17) => a \in (p + 15) .. (p + 17) \/ a = p + 14
      BY <1>0
    <3>2. pc \in Int
      BY <2>1
    <3>3. pc + 1 \in (p + 15) .. (p + 17)
      BY <2>1
    <3> QED
      BY <3>1, <3>2, <3>3
  <2>3. CASE pc = p + 14
    <3>1. program[pc] = wfi
      BY <2>1, <2>3 DEF SleepsAt
    <3>2. WakeUp
      BY <1>6, <3>1, WfiPassed DEF wfi
    <3>3. asleep = TRUE /\ pending \cap mie # {} /\ ~Accesses
      <4>1. asleep = TRUE /\ pending \cap mie # {}
        BY <3>2 DEF WakeUp, FlowInv, CoreInv
      <4> QED
        BY <4>1, Fetched DEF Accesses, FlowInv
    <3>4. mie \subseteq {IRQ_OBI_TIMER}
      <4> SUFFICES ASSUME NEW irq \in mie PROVE irq = IRQ_OBI_TIMER
        OBVIOUS
      <4>1. irq \in Interrupts /\ p + 14 \in EnabledAt(image, irq)
        BY <2>1, <2>3 DEF MaskInv
      <4> QED
        BY <4>1
    <3>5. IRQ_OBI_TIMER \in mie /\ IRQ_OBI_TIMER \in pending
      BY <3>3, <3>4
    <3>6. expired = TRUE
      BY <3>5 DEF pending, IRQ_OBI_TIMER, IRQ_GPIO, IRQ_SOFTWARE, IRQ_TIMER
    <3>7. TimeOver
      BY <2>1, <2>3, <3>3, <3>5, <3>6 DEF SleepInv, Waits
    <3> QED
      BY <3>3, <3>7, SleepRuns
  <2> QED
    BY <1>3, <2>1, <2>2, <2>3
<1> QED
  BY <1>4, <1>5, <1>6, StepFlows DEF Flows

\* SleepsInv holds at reset.
LEMMA SleepsInit ==
  ASSUME Init, SleptByDriver(Images)
  PROVE  SleepsInv
<1>1. /\ handling = 0 /\ pc = 1 /\ access.valid = FALSE /\ asleep = FALSE /\ run_time = 0
      /\ "MIE" \in DOMAIN frame /\ loaded \in DOMAIN Images
  BY DEF Init, NoRequest, NoFrame
<1>2. main_pc = 1 /\ at = 1
  BY <1>1 DEF main_pc, at, Stored, Responding
<1>3. ASSUME NEW n \in 1 .. Len(image.code), LeavesAt(image.code, n, "obi_timer_sleep")
      PROVE  SleepInv(n - 17)
  <2>1. SleepsAlone(image, n)
    BY <1>1, <1>3 DEF SleptByDriver, image
  <2>2. n > 17
    BY <2>1 DEF SleepsAlone
  <2>3. /\ 1 \notin ((n - 17) + 12) .. ((n - 17) + 17) /\ 1 # (n - 17) + 14
        /\ 1 \notin ((n - 17) + 15) .. ((n - 17) + 17)
    BY <2>2
  <2> QED
    BY <1>1, <1>2, <2>3 DEF SleepInv, Waits
<1> QED
  BY <1>1, <1>3 DEF SleepsInv

\* Every step keeps it.
LEMMA SleepsStep ==
  ASSUME FlowInv, Structured(image), DrivesTimer(image), SleptByDriver(Images), PeriodInv, MaskInv,
         SleepsInv, [Next]_vars
  PROVE  SleepsInv'
<1>1. image' = image /\ loaded \in DOMAIN Images
  BY StepFlows DEF image, FlowInv, CoreInv
<1>2. run_time \in Nat /\ "MIE" \in DOMAIN frame
  BY DEF SleepsInv
<1>3. run_time' \in Nat
  <2>1. CASE Accesses /\ StoresTimer(program[pc])
    BY <2>1, TimerStored
  <2> QED
    BY <1>2, <2>1, SleepRuns
<1>4. "MIE" \in DOMAIN frame'
  BY <1>2, GlobalKept
<1>5. ASSUME NEW n \in 1 .. Len(image.code), LeavesAt(image.code, n, "obi_timer_sleep")
      PROVE  SleepInv(n - 17)'
  <2> DEFINE p == n - 17
  <2>1. SleepsAlone(image, n)
    BY <1>1, <1>5 DEF SleptByDriver, image
  <2>2. SleepsAt(image, p)
    BY <2>1, SleepCode
  <2>3. \A irq \in Interrupts \ {IRQ_OBI_TIMER} : p + 14 \notin EnabledAt(image, irq)
    <3>1. p + 14 = n - 3
      OBVIOUS
    <3> QED
      BY <2>1, <3>1 DEF SleepsAlone
  <2>4. SleepInv(p)
    BY <1>5 DEF SleepsInv
  <2> HIDE DEF p
  <2>5. at' \in (p + 12) .. (p + 17) => Counted'
    BY <1>2, <2>2, <2>4, SleepCounts DEF SleepInv
  <2>6. main_pc' = p + 14 => main_MIE' = TRUE
    BY <1>2, <2>2, <2>4, SleepEnables DEF SleepInv
  <2>7. Waits(p + 14)' => (expired' = TRUE /\ IRQ_OBI_TIMER \in mie' => TimeOver')
    BY <1>2, <2>2, <2>4, SleepWaits
  <2>8. main_pc' \in (p + 15) .. (p + 17) => TimeOver'
    BY <1>2, <2>2, <2>3, <2>4, SleepOver
  <2>9. SleepInv(p)'
    BY <2>5, <2>6, <2>7, <2>8 DEF SleepInv, Waits
  <2> QED
    BY <2>9 DEF p
<1> QED
  BY <1>1, <1>3, <1>4, <1>5 DEF SleepsInv

\* obi_timer_sleep of obi_timer.c returns no earlier than its cycles after it
\* has set the timer, whatever the flag of an earlier period does.
THEOREM SleepIsLongEnough ==
  ASSUME MaskedAtEnd(Images), TimerSetByDriver(Images), SleptByDriver(Images)
  PROVE  Spec /\ []ChecksPass => []SleepsLongEnough
<1> DEFINE Safe == EndSafe /\ PeriodInv /\ SleepsInv
<1>1. Init => Safe
  <2> SUFFICES ASSUME Init PROVE Safe
    OBVIOUS
  <2>1. Structured(image)
    BY DEF Init, TimerSetByDriver, image
  <2> QED
    BY <2>1, FlowInit, EndInit, PeriodInit, SleepsInit DEF EndSafe
<1>2. Safe /\ [Next]_vars /\ ChecksPass' => Safe'
  <2> SUFFICES ASSUME Safe, [Next]_vars, ChecksPass' PROVE Safe'
    OBVIOUS
  <2>1. Structured(image) /\ DrivesTimer(image)
    BY LoadedStays DEF EndSafe, FlowInv, CoreInv, TimerSetByDriver, image
  <2> QED
    BY <2>1, EndStep, PeriodStep, SleepsStep DEF EndSafe
<1>3. Safe => SleepsLongEnough
  <2> SUFFICES ASSUME Safe, Leaves("obi_timer_sleep") PROVE run_time >= compare
    BY DEF SleepsLongEnough
  <2>1. LeavesAt(image.code, pc, "obi_timer_sleep") /\ handling = 0 /\ pc \in 1 .. Len(image.code)
    BY DEF Leaves, LeavesAt, program
  <2>2. SleepInv(pc - 17) /\ main_pc = pc
    BY <2>1 DEF SleepsInv, main_pc
  <2>3. pc \in ((pc - 17) + 15) .. ((pc - 17) + 17)
    BY <2>1
  <2> QED
    BY <2>2, <2>3 DEF SleepInv, TimeOver
<1> QED
  BY <1>1, <1>2, <1>3, PTL DEF Spec

-----------------------------------------------------------------------------
(* The receiver of the UART.                                                *)

\* Where main() goes from one place to another.
Goes ==
  \/ main_pc' \in {main_pc, main_pc + 1, EocIndex}
  \/ Jumps(image, main_pc)
  \/ /\ main_pc \in 1 .. Len(image.code) /\ image.code[main_pc].op = "branch"
     /\ main_pc' = main_pc + image.code[main_pc].by

LEMMA MainGoes ==
  ASSUME FlowInv, Structured(image), [Next]_vars
  PROVE  Goes
<1>1. CASE Execute /\ Issue(program[pc])
  BY <1>1 DEF Issue, flags, main_pc, Goes
<1>2. CASE Execute /\ Internal(program[pc]) /\ handling = 0
  <2> DEFINE i == program[pc]
  <2>1. program = image.code /\ pc \in 1 .. Len(image.code) /\ main_pc = pc
    BY <1>2, Fetched DEF program, main_pc, FlowInv
  <2>2. handling' = 0 /\ main_pc' = pc'
    BY <1>2, MainExecutes DEF main_pc
  <2> HIDE DEF i
  <2>3. CASE Compute(i) \/ Keeping(i) \/ Assigning(i) \/ Delivering(i) \/ Leaving(i) \/ Csr(i)
    <3>1. pc' = pc + 1
      BY <2>3 DEF Compute, Keeping, Assigning, Delivering, Leaving, Csr
    <3> QED
      BY <2>1, <2>2, <3>1 DEF Goes
  <2>4. CASE Branch(i)
    BY <2>1, <2>2, <2>4 DEF i, Branch, Goes
  <2>5. CASE Pausing(i) \/ FallAsleep(i)
    <3>1. pc' \in {pc, pc + 1}
      BY <2>5 DEF Pausing, FallAsleep
    <3> QED
      BY <2>1, <2>2, <3>1 DEF Goes
  <2>6. CASE Jumping(i)
    BY <2>1, <2>6 DEF i, Jumping, Jumps, Goes
  <2>7. CASE Returning(i) \/ Check(i)
    <3>1. pc' \in {EocIndex, pc + 1}
      BY <2>7 DEF Returning, Check, Returns
    <3> QED
      BY <2>1, <2>2, <3>1 DEF Goes
  <2> QED
    BY <1>2, <2>3, <2>4, <2>5, <2>6, <2>7 DEF Internal, i
<1>3. CASE Execute /\ Internal(program[pc]) /\ handling # 0
  <2>1. handling' = handling /\ (frame' = frame \/ Skips) /\ "pc" \in DOMAIN frame
    BY <1>3, HandlerExecutes DEF FlowInv, CoreInv
  <2> QED
    BY <1>3, <2>1 DEF Skips, main_pc, Goes
<1>4. CASE Stall \/ Sleep \/ DebugWake \/ DebugPoll \/ Finished \/ UNCHANGED vars
  <2>1. UNCHANGED <<pc, flags>>
    BY <1>4 DEF Stall, Sleep, DebugWake, DebugPoll, Finished, vars, core, flags
  <2> QED
    BY <2>1 DEF flags, main_pc, Goes
<1>5. CASE Respond \/ WakeUp
  <2>1. pc' = pc + 1 /\ handling' = handling /\ frame' = frame
    BY <1>5 DEF Respond, WakeUp, flags
  <2> QED
    BY <2>1 DEF main_pc, Goes
<1>6. CASE Fault \/ TakeInterrupt
  <2>1. handling = 0
    BY <1>6, FaultInMain DEF TakeInterrupt, Interrupted, FlowInv, CoreInv
  <2>2. PICK cause \in Causes : Trap(cause) /\ (cause \in Faults => Faulting(image, pc))
    BY <1>6, <2>1, MainTraps
  <2>3. UNCHANGED main
    BY <2>1, <2>2, TrapKeepsMain
  <2> QED
    BY <2>3 DEF main, Goes
<1>7. CASE Mret
  BY <1>7 DEF Mret, Between, AtEnd, main_pc, Goes
<1> QED
  BY <1>1, <1>2, <1>3, <1>4, <1>5, <1>6, <1>7, Fetched DEF Next, FlowInv

\* A request to a register of the UART reaches it.
UartRegs == {UART.RBR, UART.LINE_CONTROL, UART.FIFO_CONTROL, UART.MODEM_CONTROL, UART.LINE_STATUS}

LEMMA UartRequest ==
  ASSUME NEW word, NEW offset \in UartRegs
  PROVE  /\ Port(UartReg(offset)) = "UART"
         /\ Request(FALSE, UartReg(offset), word).port = "UART"
         /\ Request(FALSE, UartReg(offset), word).offset = offset
         /\ Request(TRUE, UartReg(offset), word).port = "UART"
         /\ Request(TRUE, UartReg(offset), word).offset = offset
<1>1. "UART" \in DOMAIN SpaceSize /\ offset \in Nat /\ offset < SpaceSize["UART"]
  BY DEF SpaceSize, UART, UartRegs
<1>2. UartReg(offset) = BASE_ADDR["UART"] + offset
  BY DEF UartReg
<1>3. Port(UartReg(offset)) = "UART"
  BY <1>1, <1>2, PortOf
<1>4. "UART" # "ERROR" /\ UartReg(offset) - BASE_ADDR["UART"] = offset
  BY <1>1, <1>2 DEF BASE_ADDR, SpaceSize
<1> QED
  BY <1>3, <1>4 DEF Request

\* One cycle of the UART and of the sender, with the character that arrives.
UartStep(req) ==
  \E c \in {Nothing} \cup {unsent[i] : i \in 1 .. Len(unsent)} : Arrives(c) /\ UartCycle(req, c)

\* Every step is one; what it stores is what the core stores.
LEMMA UartSteps ==
  ASSUME [Next]_vars
  PROVE  \/ UNCHANGED vars
         \/ Accesses /\ UartStep(TheRequest)
         \/ ~Accesses /\ \E req :
              /\ UartStep(req)
              /\ \A offset : ~UartWrites(req, offset)
              /\ ~(req.valid /\ ~req.we)
<1>1. ASSUME NEW req, NEW ignored, Hardware(req, ignored) PROVE UartStep(req)
  BY <1>1 DEF Hardware, UartStep
<1>2. ASSUME NEW ignored, Hardware(NoRequest, ignored)
      PROVE  \E req : UartStep(req) /\ (\A offset : ~UartWrites(req, offset)) /\ ~(req.valid /\ ~req.we)
  <2>1. (\A offset : ~UartWrites(NoRequest, offset)) /\ ~(NoRequest.valid /\ ~NoRequest.we)
    BY DEF UartWrites, Writes, NoRequest
  <2> QED
    BY <1>1, <1>2, <2>1
<1>3. ASSUME Hardware(Request(TRUE, ClintReg(CLINT.MSIP), Bits({0})), {})
      PROVE  \E req : UartStep(req) /\ (\A offset : ~UartWrites(req, offset)) /\ ~(req.valid /\ ~req.we)
  <2> DEFINE req == Request(TRUE, ClintReg(CLINT.MSIP), Bits({0}))
  <2>1. (\A offset : ~UartWrites(req, offset)) /\ ~(req.valid /\ ~req.we)
    BY WakeRequest, StoreRequest DEF UartWrites, Writes
  <2> QED
    BY <1>1, <1>3, <2>1
<1>4. CASE Accesses
  <2>1. UartStep(TheRequest)
    BY <1>1, <1>4 DEF Accesses, Issue, TheRequest
  <2> QED
    BY <1>4, <2>1
<1> QED
  BY <1>2, <1>3, <1>4, StepRequests

\* The instructions of uart_init that matter here, where it is called.
LEMMA UartInitCode ==
  ASSUME NEW im, NEW p \in Nat, Calls(im, uart_init, p)
  PROVE  /\ p + 6 <= Len(im.code)
         /\ im.code[p + 4] = Store(UartReg(UART.LINE_CONTROL), Bits({0, 1}))
         /\ im.code[p + 5] = Store(UartReg(UART.FIFO_CONTROL), Bits({0, 1, 2, 6, 7}))
         /\ im.code[p + 6] = Store(UartReg(UART.MODEM_CONTROL), Bits({5}))
         /\ p + 5 \notin Entries(im)
<1> DEFINE f == uart_init
<1>1. /\ Len(f) = 7
      /\ f[5] = Store(UartReg(UART.LINE_CONTROL), Bits({0, 1}))
      /\ f[6] = Store(UartReg(UART.FIFO_CONTROL), Bits({0, 1, 2, 6, 7}))
      /\ f[7] = Store(UartReg(UART.MODEM_CONTROL), Bits({5}))
  BY DEF uart_init
<1> HIDE DEF f
<1>2. /\ p + 7 - 1 <= Len(im.code)
      /\ \A k \in 1 .. 7 : im.code[p + k - 1] = f[k]
      /\ \A k \in 2 .. 7 : p + k - 1 \notin Entries(im)
  BY <1>1 DEF Calls, f
<1>3. /\ im.code[p + 5 - 1] = f[5] /\ im.code[p + 6 - 1] = f[6] /\ im.code[p + 7 - 1] = f[7]
      /\ p + 6 - 1 \notin Entries(im)
  BY <1>2
<1>4. p + 5 - 1 = p + 4 /\ p + 6 - 1 = p + 5 /\ p + 7 - 1 = p + 6
  OBVIOUS
<1> QED
  BY <1>1, <1>2, <1>3, <1>4

\* Only main() accesses the UART, with the instruction at pc.
LEMMA UartByMain ==
  ASSUME FlowInv, ReadsByDriver(image), Accesses, Port(program[pc].addr) = "UART"
  PROVE  /\ handling = 0 /\ program = image.code /\ pc \in 1 .. Len(image.code)
         /\ main_pc = pc /\ access.valid = FALSE /\ UNCHANGED main
<1>1. pc \in 1 .. Len(program) /\ handling \in Causes \cup {0} /\ access.valid = FALSE
  BY AccessMade DEF FlowInv, CoreInv
<1>2. handling = 0
  <2> SUFFICES ASSUME handling # 0 PROVE FALSE
    OBVIOUS
  <2>1. program = image.handlers[handling] /\ handling \in Causes
    BY <1>1 DEF program
  <2>2. program[pc].op \in {"load", "store"}
    BY DEF Accesses, Issue
  <2> QED
    BY <1>1, <2>1, <2>2 DEF ReadsByDriver
<1>3. UNCHANGED main
  BY AccessMade DEF main, main_pc, main_acc, main_kept, flags
<1> QED
  BY <1>1, <1>2, <1>3 DEF program, main_pc

LEMMA UartStored ==
  ASSUME FlowInv, ReadsByDriver(image), Accesses, NEW offset, UartWrites(TheRequest, offset)
  PROVE  /\ handling = 0 /\ program = image.code /\ pc \in 1 .. Len(image.code)
         /\ main_pc = pc /\ access.valid = FALSE /\ UNCHANGED main
         /\ StoresTo(image.code[pc], "UART", offset)
         /\ TheRequest.wdata = StoreData(image.code[pc])
<1>1. StoresTo(program[pc], "UART", offset) /\ TheRequest.port = "UART"
  BY WritesStored DEF UartWrites, Writes
<1>2. program[pc].op = "store"
  BY <1>1 DEF StoresTo
<1>3. TheRequest.port = Port(program[pc].addr)
  BY AccessMade
<1>4. TheRequest.wdata = StoreData(program[pc])
  BY <1>2 DEF TheRequest, Request
<1> QED
  BY <1>1, <1>3, <1>4, UartByMain

\* The control registers: the FIFOs are in use from uart_init on, with the
\* receive register in the place of the divisor and no loopback.
SetUp(p) == main_pc \in {EocIndex, EocIndex + 1} \/ (main_pc \in Nat /\ main_pc > p + 5)

ControlInv(p) ==
  /\ 4 \notin mcr
  /\ Responding(p + 4) \/ main_pc = p + 5 \/ fifo_en => ~dlab
  /\ fifo_en => Responding(p + 5) \/ SetUp(p)

\* A step other than a store to them.
LEMMA ControlsStay ==
  ASSUME NEW req, UartStep(req)
  PROVE  /\ ~UartWrites(req, UART.LINE_CONTROL) => lcr' = lcr
         /\ ~UartWrites(req, UART.FIFO_CONTROL) => (fifo_en' = fifo_en /\ (rx_fifo_rst' => rx_fifo_rst))
         /\ ~UartWrites(req, UART.MODEM_CONTROL) => mcr' = mcr
         /\ UartWrites(req, UART.LINE_CONTROL) => lcr' = req.wdata.bits
         /\ UartWrites(req, UART.FIFO_CONTROL) => fcr' = req.wdata.bits
         /\ UartWrites(req, UART.MODEM_CONTROL) => mcr' = req.wdata.bits
         /\ rx_fifo_rst => (rx_fifo_rst' => UartWrites(req, UART.FIFO_CONTROL) \/ ~fifo_en)
<1>1. ControlRegisters(req)
  BY DEF UartStep, UartCycle
<1> QED
  BY <1>1 DEF ControlRegisters, fifo_en, rx_fifo_rst

\* The place of main() once the UART is set up.
LEMMA SetUpStays ==
  ASSUME FlowInv, Structured(image), EndsMasked(image), [Next]_vars, HaltInv',
         NEW p \in Nat, SetUpAt(image, p),
         SetUp(p) \/ main_pc = p + 5
  PROVE  SetUp(p)' \/ main_pc' = main_pc
<1>1. /\ image.code[EocIndex] = StorePart(CORESTATUS, "report")
      /\ image.code[EocIndex + 1] = wfi /\ EocIndex = 7
      /\ p >= 11
  <2>1. MainIndex = 11
    BY DEF MainIndex, boot_target, eoc, EocIndex, bootrom_start
  <2> QED
    BY <2>1, EocCode DEF SetUpAt
<1>2. CASE main_pc \in {EocIndex, EocIndex + 1}
  <2>1. image.code[main_pc].op \in {"store", "wfi"}
    BY <1>1, <1>2 DEF StorePart, wfi
  <2>2. main_pc' \in {main_pc, main_pc + 1, EocIndex}
    BY <2>1, MainGoes DEF Goes, Jumps
  <2>3. main_pc' # EocIndex + 2
    BY DEF HaltInv
  <2> QED
    BY <1>1, <1>2, <2>2, <2>3 DEF SetUp
<1>3. CASE main_pc \in Nat /\ main_pc > p + 4
  <2>1. ~Jumps(image, main_pc)
    BY <1>3 DEF SetUpAt, Jumps
  <2>2. CASE main_pc' \in {main_pc, main_pc + 1, EocIndex}
    BY <1>1, <1>3, <2>2 DEF SetUp
  <2>3. CASE /\ main_pc \in 1 .. Len(image.code) /\ image.code[main_pc].op = "branch"
             /\ main_pc' = main_pc + image.code[main_pc].by
    <3>1. main_pc' \in (p + 7) .. Len(image.code)
      BY <1>3, <2>3 DEF SetUpAt
    <3> QED
      BY <3>1 DEF SetUp
  <2> QED
    BY <2>1, <2>2, <2>3, MainGoes DEF Goes
<1> QED
  BY <1>2, <1>3 DEF SetUp

\* Who stores to a control register is in uart_init.
LEMMA UartControlStored ==
  ASSUME FlowInv, ReadsByDriver(image), EndsMasked(image), Accesses,
         NEW p \in Nat, SetUpAt(image, p), ControlInv(p)
  PROVE  /\ UartWrites(TheRequest, UART.LINE_CONTROL)  => ~fifo_en /\ main_pc < p + 5
         /\ UartWrites(TheRequest, UART.FIFO_CONTROL)  => ~fifo_en /\ main_pc = p + 5
         /\ UartWrites(TheRequest, UART.MODEM_CONTROL) => main_pc = p + 6
<1>1. ASSUME NEW offset, UartWrites(TheRequest, offset)
      PROVE  /\ pc = main_pc /\ main_pc \in 1 .. Len(image.code) /\ access.valid = FALSE
             /\ StoresTo(image.code[main_pc], "UART", offset)
             /\ main_pc \notin {EocIndex, EocIndex + 1}
  <2>1. /\ pc = main_pc /\ main_pc \in 1 .. Len(image.code) /\ access.valid = FALSE
        /\ StoresTo(image.code[main_pc], "UART", offset)
    BY <1>1, UartStored
  <2>2. image.code[EocIndex] = StorePart(CORESTATUS, "report") /\ image.code[EocIndex + 1] = wfi
    BY EocCode
  <2>3. Port(CORESTATUS) = "SOCCTRL"
    BY StatusRequest
  <2>4. ~StoresTo(StorePart(CORESTATUS, "report"), "UART", offset)
    BY <2>3, StoreRequest DEF StoresTo, Writes, StorePart
  <2>5. ~StoresTo(wfi, "UART", offset)
    BY DEF StoresTo, wfi
  <2> QED
    BY <2>1, <2>2, <2>4, <2>5
<1>2. ASSUME fifo_en, main_pc \in Nat, main_pc < p + 6, access.valid = FALSE
      PROVE  main_pc \in {EocIndex, EocIndex + 1}
  BY <1>2 DEF ControlInv, SetUp, Responding
<1>3. UartWrites(TheRequest, UART.LINE_CONTROL) => main_pc < p + 5
  BY <1>1 DEF SetUpAt
<1>4. UartWrites(TheRequest, UART.FIFO_CONTROL) => main_pc = p + 5
  BY <1>1 DEF SetUpAt
<1>5. UartWrites(TheRequest, UART.MODEM_CONTROL) => main_pc = p + 6
  BY <1>1 DEF SetUpAt
<1>6. ASSUME UartWrites(TheRequest, UART.LINE_CONTROL) PROVE ~fifo_en
  <2>1. /\ main_pc \in 1 .. Len(image.code) /\ access.valid = FALSE
        /\ main_pc \notin {EocIndex, EocIndex + 1}
    BY <1>1, <1>6
  <2>2. main_pc \in Nat /\ main_pc < p + 6
    BY <1>3, <1>6, <2>1
  <2> QED
    BY <1>2, <2>1, <2>2
<1>7. ASSUME UartWrites(TheRequest, UART.FIFO_CONTROL) PROVE ~fifo_en
  <2>1. /\ main_pc \in 1 .. Len(image.code) /\ access.valid = FALSE
        /\ main_pc \notin {EocIndex, EocIndex + 1}
    BY <1>1, <1>7
  <2>2. main_pc \in Nat /\ main_pc < p + 6
    BY <1>4, <1>7, <2>1
  <2> QED
    BY <1>2, <2>1, <2>2
<1> QED
  BY <1>3, <1>4, <1>5, <1>6, <1>7

\* A step keeps the control registers as uart_init leaves them.
LEMMA ControlStep ==
  ASSUME FlowInv, Structured(image), EndsMasked(image), [Next]_vars, HaltInv',
         ReadsByDriver(image), NEW p \in Nat, SetUpAt(image, p), ControlInv(p)
  PROVE  ControlInv(p)'
<1>0. /\ image.code[p + 4] = Store(UartReg(UART.LINE_CONTROL), Bits({0, 1}))
      /\ image.code[p + 5] = Store(UartReg(UART.FIFO_CONTROL), Bits({0, 1, 2, 6, 7}))
      /\ image.code[p + 6] = Store(UartReg(UART.MODEM_CONTROL), Bits({5}))
      /\ p + 5 \notin Entries(image)
  BY UartInitCode DEF SetUpAt
<1>1. CASE UNCHANGED vars
  BY <1>1 DEF vars, core, uart, ControlInv, SetUp, Responding, main_pc, fifo_en, dlab
<1>2. CASE Accesses /\ UartStep(TheRequest)
  <2>1. UNCHANGED main /\ main_pc' = main_pc
    BY <1>2, AccessMade DEF main, main_pc, main_acc, main_kept, flags
  <2>2. access.valid = FALSE
    BY <1>2, AccessMade
  <2>3. 4 \notin mcr'
    <3>1. CASE UartWrites(TheRequest, UART.MODEM_CONTROL)
      <4>1. TheRequest.wdata = StoreData(image.code[p + 6])
        BY <1>2, <3>1, UartStored, UartControlStored
      <4>2. TheRequest.wdata.bits = {5}
        BY <1>0, <4>1 DEF StoreData, Store, Bits
      <4> QED
        BY <1>2, <3>1, <4>2, ControlsStay
    <3> QED
      BY <1>2, <3>1, ControlsStay DEF ControlInv
  <2>4. CASE UartWrites(TheRequest, UART.LINE_CONTROL)
    <3>1. ~fifo_en /\ main_pc < p + 5 /\ handling = 0 /\ pc = main_pc
          /\ TheRequest.wdata = StoreData(image.code[main_pc]) /\ main_pc \in 1 .. Len(image.code)
      BY <1>2, <2>4, UartControlStored, UartStored
    <3>2. ~UartWrites(TheRequest, UART.FIFO_CONTROL)
      BY <2>4 DEF UartWrites, Writes, UART
    <3>3. fifo_en' = fifo_en /\ lcr' = TheRequest.wdata.bits
      BY <1>2, <2>4, <3>2, ControlsStay
    <3>4. ASSUME Responding(p + 4)' PROVE ~dlab'
      <4>1. main_pc = p + 4
        BY <2>1, <3>4 DEF Responding
      <4>2. lcr' = {0, 1}
        BY <1>0, <3>1, <3>3, <4>1 DEF StoreData, Store, Bits
      <4> QED
        BY <4>2 DEF dlab
    <3>5. main_pc' # p + 5
      BY <2>1, <3>1
    <3> QED
      BY <2>3, <3>1, <3>3, <3>4, <3>5 DEF ControlInv
  <2>5. CASE UartWrites(TheRequest, UART.FIFO_CONTROL)
    <3>1. main_pc = p + 5 /\ handling = 0 /\ handling' = 0 /\ access'.valid = TRUE
      BY <1>2, <2>5, UartControlStored, UartStored, AccessMade DEF flags
    <3>2. ~UartWrites(TheRequest, UART.LINE_CONTROL)
      BY <2>5 DEF UartWrites, Writes, UART
    <3>3. lcr' = lcr /\ ~dlab
      BY <1>2, <3>1, <3>2, ControlsStay DEF ControlInv
    <3>4. Responding(p + 5)'
      BY <2>1, <3>1 DEF Responding
    <3> QED
      BY <2>3, <3>3, <3>4 DEF ControlInv, dlab
  <2>6. CASE ~UartWrites(TheRequest, UART.LINE_CONTROL) /\ ~UartWrites(TheRequest, UART.FIFO_CONTROL)
    <3>1. lcr' = lcr /\ fifo_en' = fifo_en /\ dlab' = dlab
      BY <1>2, <2>6, ControlsStay DEF dlab
    <3>2. fifo_en => SetUp(p)'
      BY <2>1, <2>2 DEF ControlInv, SetUp, Responding
    <3>3. ASSUME Responding(p + 4)' PROVE ~dlab
      <4>1. handling = 0 /\ pc = p + 4 /\ program = image.code
        BY <1>2, <2>1, <3>3, AccessMade DEF Responding, flags, main_pc, program
      <4>2. StoresTo(program[pc], "UART", UART.LINE_CONTROL)
        <5>1. UART.LINE_CONTROL \in UartRegs
          BY DEF UartRegs
        <5>2. Writes(Request(TRUE, UartReg(UART.LINE_CONTROL), Num(0)), "UART", UART.LINE_CONTROL)
          BY <5>1, UartRequest, StoreRequest DEF Writes
        <5>3. program[pc].op = "store" /\ program[pc].addr = UartReg(UART.LINE_CONTROL)
          BY <1>0, <4>1 DEF Store
        <5> QED
          BY <5>2, <5>3 DEF StoresTo
      <4>3. UartWrites(TheRequest, UART.LINE_CONTROL)
        BY <1>2, <4>2, StoredWrites DEF UartWrites
      <4> QED
        BY <2>6, <4>3
    <3> QED
      BY <2>1, <2>3, <3>1, <3>2, <3>3 DEF ControlInv
  <2> QED
    BY <2>4, <2>5, <2>6
<1>3. CASE ~Accesses /\ ~UNCHANGED vars
  <2>1. PICK req : UartStep(req) /\ \A offset : ~UartWrites(req, offset)
    BY <1>3, UartSteps
  <2>2. lcr' = lcr /\ mcr' = mcr /\ fifo_en' = fifo_en /\ dlab' = dlab
    BY <2>1, ControlsStay DEF dlab
  <2>3. access'.valid = FALSE
    BY <1>3, StepAccesses DEF Unaccessed
  <2>4. fifo_en => SetUp(p)'
    <3>1. CASE Responding(p + 5)
      <4>1. access.valid = TRUE /\ main_pc = p + 5 /\ handling = 0 /\ pc = p + 5 /\ program = image.code
        BY <3>1 DEF Responding, main_pc, program
      <4>2. access.port # "ERROR"
        <5>1. access.port = Port(UartReg(UART.FIFO_CONTROL))
          <6>1. program[pc].addr = UartReg(UART.FIFO_CONTROL)
            BY <1>0, <4>1 DEF Store
          <6> QED
            BY <4>1, <6>1, AccessedPort DEF FlowInv
        <5>2. UART.FIFO_CONTROL \in UartRegs
          BY DEF UartRegs
        <5> QED
          BY <5>1, <5>2, UartRequest
      <4>3. Respond
        BY <1>3, <4>1, <4>2, Answered
      <4>4. main_pc' = p + 6
        BY <4>1, <4>3 DEF Respond, flags, main_pc
      <4> QED
        BY <4>4 DEF SetUp
    <3>2. CASE SetUp(p)
      <4>1. SetUp(p)' \/ main_pc' = main_pc
        BY <3>2, SetUpStays
      <4> QED
        BY <3>2, <4>1 DEF SetUp
    <3> QED
      BY <3>1, <3>2 DEF ControlInv
  <2>5. ASSUME main_pc' = p + 5 PROVE ~dlab
    <3>1. CASE main_pc = p + 5
      BY <3>1 DEF ControlInv
    <3>2. CASE main_pc # p + 5
      <4>1. p + 5 = (p + 4) + 1 /\ p + 4 \in Nat
        OBVIOUS
      <4>2. handling = 0 /\ pc = p + 4 /\ main_pc = p + 4 /\ Does(image.code[p + 4])
        BY <1>0, <2>5, <3>2, <4>1, FromBefore DEF main
      <4>3. Responding(p + 4)
        BY <1>0, <4>2 DEF Does, Store, Responding
      <4> QED
        BY <4>3 DEF ControlInv
    <3> QED
      BY <3>1, <3>2
  <2>6. ~Responding(p + 4)'
    BY <2>3 DEF Responding
  <2> QED
    BY <2>2, <2>4, <2>5, <2>6 DEF ControlInv
<1> QED
  BY <1>1, <1>2, <1>3, UartSteps

\* The queue q holds the characters of s behind the first k, and u the rest.
InOrder(s, k, q, u) ==
  /\ k \in Nat /\ k + Len(q) + Len(u) = Len(s)
  /\ \A j \in 1 .. Len(q) : q[j] = s[k + j]
  /\ \A j \in 1 .. Len(u) : u[j] = s[k + Len(q) + j]

\* The next character joins the queue.
LEMMA ArrivesInOrder ==
  ASSUME NEW C, NEW s \in Seq(C), NEW q \in Seq(C), NEW u \in Seq(C), NEW k,
         InOrder(s, k, q, u), u # <<>>
  PROVE  /\ InOrder(s, k, Append(q, Head(u)), Tail(u)) /\ Append(q, Head(u)) # <<>>
         /\ Append(q, Head(u)) \in Seq(C) /\ Tail(u) \in Seq(C) /\ Head(u) \in C
<1> DEFINE h == Head(u)
           t == Tail(u)
           a == Append(q, Head(u))
<1>1. /\ h \in C /\ t \in Seq(C) /\ Len(t) = Len(u) - 1
      /\ \A j \in 1 .. Len(t) : t[j] = u[j + 1]
  BY HeadTailProperties
<1>2. h = u[1]
  OBVIOUS
<1>3. /\ a \in Seq(C) /\ a # <<>> /\ Len(a) = Len(q) + 1
      /\ \A j \in 1 .. Len(q) : a[j] = q[j]
      /\ a[Len(q) + 1] = h
  BY <1>1, AppendProperties
<1>4. k \in Nat /\ Len(q) \in Nat /\ Len(u) \in Nat /\ Len(u) > 0 /\ Len(t) \in Nat /\ Len(a) \in Nat
  BY <1>1, <1>3, EmptySeq, LenProperties DEF InOrder
<1> HIDE DEF h, t, a
<1>5. k + Len(a) + Len(t) = Len(s)
  <2>1. k + Len(q) + Len(u) = Len(s)
    BY DEF InOrder
  <2>2. Len(a) = Len(q) + 1 /\ Len(t) = Len(u) - 1
    BY <1>1, <1>3
  <2>3. k \in Nat /\ Len(q) \in Nat /\ Len(u) \in Nat
    BY <1>4
  <2> QED
    BY <2>1, <2>2, <2>3
<1>6. ASSUME NEW j \in 1 .. Len(a) PROVE a[j] = s[k + j]
  <2>1. CASE j \in 1 .. Len(q)
    BY <1>3, <2>1 DEF InOrder
  <2>2. CASE j = Len(q) + 1
    <3>1. u[1] = s[k + Len(q) + 1]
      BY <1>4 DEF InOrder
    <3>2. k + j = k + Len(q) + 1
      BY <1>4, <2>2
    <3> QED
      BY <1>2, <1>3, <2>2, <3>1, <3>2
  <2> QED
    BY <1>3, <1>4, <2>1, <2>2
<1>7. ASSUME NEW j \in 1 .. Len(t) PROVE t[j] = s[k + Len(a) + j]
  <2>1. j + 1 \in 1 .. Len(u) /\ k + Len(q) + (j + 1) = k + Len(a) + j
    BY <1>1, <1>3, <1>4
  <2>2. u[j + 1] = s[k + Len(q) + (j + 1)]
    BY <2>1 DEF InOrder
  <2> QED
    BY <1>1, <2>1, <2>2
<1>8. InOrder(s, k, a, t)
  BY <1>4, <1>5, <1>6, <1>7 DEF InOrder
<1> QED
  BY <1>1, <1>3, <1>8 DEF h, t, a

\* The first character of the queue leaves it.
LEMMA LeavesInOrder ==
  ASSUME NEW C, NEW s \in Seq(C), NEW q \in Seq(C), NEW u \in Seq(C), NEW k,
         InOrder(s, k, q, u), q # <<>>
  PROVE  /\ InOrder(s, k + 1, Tail(q), u)
         /\ Tail(q) \in Seq(C) /\ Len(Tail(q)) = Len(q) - 1
         /\ Head(q) = s[k + 1]
<1> DEFINE t == Tail(q)
<1>1. /\ t \in Seq(C) /\ Len(t) = Len(q) - 1
      /\ \A j \in 1 .. Len(t) : t[j] = q[j + 1]
  BY HeadTailProperties
<1>2. k \in Nat /\ Len(q) \in Nat /\ Len(q) > 0 /\ Len(u) \in Nat /\ Len(t) \in Nat
  BY <1>1, EmptySeq, LenProperties DEF InOrder
<1>3. Head(q) = s[k + 1]
  <2>1. Head(q) = q[1]
    OBVIOUS
  <2>2. q[1] = s[k + 1]
    BY <1>2 DEF InOrder
  <2> QED
    BY <2>1, <2>2
<1> HIDE DEF t
<1>4. (k + 1) + Len(t) + Len(u) = Len(s) /\ k + 1 \in Nat
  <2>1. k + Len(q) + Len(u) = Len(s)
    BY DEF InOrder
  <2>2. Len(t) = Len(q) - 1
    BY <1>1
  <2>3. k \in Nat /\ Len(q) \in Nat /\ Len(u) \in Nat
    BY <1>2
  <2> QED
    BY <2>1, <2>2, <2>3
<1>5. ASSUME NEW j \in 1 .. Len(t) PROVE t[j] = s[(k + 1) + j]
  <2>1. j + 1 \in 1 .. Len(q) /\ k + (j + 1) = (k + 1) + j
    BY <1>1, <1>2
  <2>2. q[j + 1] = s[k + (j + 1)]
    BY <2>1 DEF InOrder
  <2> QED
    BY <1>1, <2>1, <2>2
<1>6. ASSUME NEW j \in 1 .. Len(u) PROVE u[j] = s[(k + 1) + Len(t) + j]
  <2>1. k + Len(q) + j = (k + 1) + Len(t) + j
    BY <1>1, <1>2
  <2>2. u[j] = s[k + Len(q) + j]
    BY DEF InOrder
  <2> QED
    BY <2>1, <2>2
<1>7. InOrder(s, k + 1, t, u)
  BY <1>4, <1>5, <1>6 DEF InOrder
<1> QED
  BY <1>1, <1>3, <1>7 DEF t

\* The instructions of getchar where a character is used.
LEMMA GetcharCode ==
  ASSUME NEW im, NEW n \in Nat, Receives(im, n)
  PROVE  /\ n > 3 /\ n <= Len(im.code)
         /\ im.code[n - 3] = Load(LSR)
         /\ im.code[n - 2] = Unless({LINE_STATUS_DATA_READY_BIT}, -1)
         /\ im.code[n - 1] = Load(UartReg(UART.RBR))
         /\ im.code[n] = Deliver
         /\ n - 2 \notin Entries(im) /\ n - 1 \notin Entries(im) /\ n \notin Entries(im)
<1> DEFINE f == getchar \o <<Deliver>>
<1>1. /\ Len(f) = 4
      /\ f[1] = Load(LSR) /\ f[2] = Unless({LINE_STATUS_DATA_READY_BIT}, -1)
      /\ f[3] = Load(UartReg(UART.RBR)) /\ f[4] = Deliver
  BY DEF getchar, uart_read, uart_read_ready
<1> HIDE DEF f
<1>2. n > 3 /\ Calls(im, f, n - 3)
  BY DEF Receives, f
<1>3. /\ (n - 3) + 4 - 1 <= Len(im.code)
      /\ \A k \in 1 .. 4 : im.code[(n - 3) + k - 1] = f[k]
      /\ \A k \in 2 .. 4 : (n - 3) + k - 1 \notin Entries(im)
  BY <1>1, <1>2 DEF Calls
<1>4. /\ im.code[(n - 3) + 1 - 1] = f[1] /\ im.code[(n - 3) + 2 - 1] = f[2]
      /\ im.code[(n - 3) + 3 - 1] = f[3] /\ im.code[(n - 3) + 4 - 1] = f[4]
      /\ (n - 3) + 2 - 1 \notin Entries(im) /\ (n - 3) + 3 - 1 \notin Entries(im)
      /\ (n - 3) + 4 - 1 \notin Entries(im)
  BY <1>3
<1>5. /\ (n - 3) + 1 - 1 = n - 3 /\ (n - 3) + 2 - 1 = n - 2
      /\ (n - 3) + 3 - 1 = n - 1 /\ (n - 3) + 4 - 1 = n
  OBVIOUS
<1> QED
  BY <1>1, <1>2, <1>3, <1>4, <1>5

\* main() goes on behind an instruction that accesses nothing by executing it.
LEMMA AdvanceExecutes ==
  ASSUME FlowInv, [Next]_vars, Advances, program[pc].op \notin {"load", "store", "wfi"}
  PROVE  Execute /\ Internal(program[pc]) /\ program = image.code
<1>1. /\ pc \in 1 .. Len(image.code) /\ pc' = pc + 1 /\ handling = 0 /\ handling' = 0
      /\ program = image.code
  BY DEF Advances, program
<1>2. pc' # pc
  BY <1>1
<1>3. access.valid = FALSE /\ asleep = FALSE
  BY <1>1, AccessedPort DEF FlowInv, CoreInv
<1>4. ~Issue(program[pc])
  BY DEF Issue
<1>5. ~Stall /\ ~Sleep /\ ~DebugWake /\ ~DebugPoll /\ ~Finished /\ ~UNCHANGED vars
  BY <1>2 DEF Stall, Sleep, DebugWake, DebugPoll, Finished, vars, core
<1>6. ~Respond /\ ~Fault /\ ~WakeUp /\ ~Mret
  BY <1>1, <1>3 DEF Respond, Fault, WakeUp, Mret, AtEnd
<1>7. ~TakeInterrupt
  <2> SUFFICES ASSUME TakeInterrupt PROVE FALSE
    OBVIOUS
  <2>1. handling' = Cause /\ Cause \in Causes
    BY CauseIsOne DEF TakeInterrupt, Trap
  <2> QED
    BY <1>1, <2>1 DEF Causes, IRQ_SOFTWARE, IRQ_TIMER, IRQ_OBI_TIMER, IRQ_GPIO,
      LOAD_FAULT, STORE_FAULT
<1> QED
  BY <1>1, <1>4, <1>5, <1>6, <1>7, Fetched DEF Next, FlowInv

\* A step uses a character, or leaves main() in front of its use.
LEMMA CharactersUsed ==
  ASSUME FlowInv, Structured(image), [Next]_vars,
         \A cause \in Causes : \A n \in 1 .. Len(image.handlers[cause]) :
           image.handlers[cause][n].op # "deliver"
  PROVE  \/ /\ Delivers(image, main_pc) /\ main_pc' = main_pc + 1
            /\ received' = Append(received, main_acc.char)
         \/ received' = received /\ (Delivers(image, main_pc) => UNCHANGED main)
<1> DEFINE Uses == Execute /\ Internal(program[pc]) /\ Delivering(program[pc])
<1>1. CASE Uses
  <2>1. pc \in 1 .. Len(program) /\ program[pc].op = "deliver" /\ handling \in Causes \cup {0}
    BY <1>1, Fetched DEF Delivering, FlowInv, CoreInv
  <2>2. handling = 0
    BY <2>1 DEF program
  <2>3. handling' = 0 /\ pc' = pc + 1 /\ received' = Append(received, acc.char)
    BY <1>1, <2>2 DEF Delivering, flags
  <2> QED
    BY <2>1, <2>2, <2>3 DEF Delivers, program, main_pc, main_acc
<1>2. CASE ~Uses
  <2>1. received' = received
    <3>1. CASE Execute
      <4>1. CASE Issue(program[pc])
        BY <4>1 DEF Issue, data
      <4>2. CASE Internal(program[pc])
        BY <1>2, <3>1, <4>2 DEF Internal, Compute, Keeping, Assigning, Branch, Pausing, Csr,
          FallAsleep, Leaving, Jumping, Returning, Check, data
      <4> QED
        BY <3>1, <4>1, <4>2, Fetched DEF FlowInv
    <3>2. CASE Stall \/ Respond \/ Fault \/ TakeInterrupt \/ Mret \/ Sleep \/ WakeUp
                 \/ DebugWake \/ DebugPoll \/ Finished \/ UNCHANGED vars
      BY <3>2 DEF Stall, Respond, Fault, TakeInterrupt, Trap, Mret, Sleep, WakeUp, DebugWake,
        DebugPoll, Finished, vars, core, data
    <3> QED
      BY <3>1, <3>2 DEF Next
  <2>2. ASSUME Delivers(image, main_pc), Enters PROVE FALSE
    BY <2>2 DEF Delivers, Enters, Faulting, main_pc
  <2>3. ASSUME Delivers(image, main_pc), Advances PROVE FALSE
    <3>1. program[pc].op = "deliver"
      BY <2>3 DEF Advances, Delivers, main_pc, program
    <3>2. Execute /\ Internal(program[pc])
      BY <2>3, <3>1, AdvanceExecutes
    <3>3. Delivering(program[pc])
      BY <3>1, <3>2 DEF Internal, Compute, Keeping, Assigning, Branch, Pausing, Csr,
        FallAsleep, Leaving, Jumping, Returning, Check
    <3> QED
      BY <1>2, <3>2, <3>3
  <2> QED
    BY <2>1, <2>2, <2>3, StepFlows DEF Flows
<1> QED
  BY <1>1, <1>2

\* What the FIFO keeps when its first character moves on.
Rest == IF FifoToRhr THEN Tail(rx_fifo) ELSE rx_fifo

\* The receiver is in use, or empty.
InUse == fifo_en /\ ~rx_fifo_rst
Empty == rx_fifo = <<>> /\ rhr_full = FALSE /\ data_ready = FALSE

\* One cycle of the receiver without loopback.
LEMMA ReceiverRuns ==
  ASSUME NEW C, NEW req, UartStep(req), 4 \notin mcr, Nothing \notin C,
         rx_fifo \in Seq(C), unsent \in Seq(C), Len(rx_fifo) + Len(unsent) <= FifoDepth,
         rhr_full \in BOOLEAN, InUse \/ Empty
  PROVE  \/ ~InUse /\ Empty' /\ unsent' = unsent
         \/ /\ InUse
            /\ \/ rx_fifo' = Rest /\ unsent' = unsent
                    /\ (data_ready' = TRUE <=> rx_fifo # <<>> \/ rhr_full = TRUE)
               \/ /\ unsent # <<>> /\ unsent' = Tail(unsent)
                  /\ rx_fifo' = Append(Rest, Head(unsent)) /\ data_ready' = TRUE
            /\ rhr' = IF FifoToRhr THEN Head(rx_fifo) ELSE IF ReadsRBR THEN Nothing ELSE rhr
            /\ rhr_full' = IF FifoToRhr THEN TRUE ELSE rhr_full /\ ~ReadsRBR
            /\ data_ready' \in BOOLEAN
<1>1. PICK c \in {Nothing} \cup {unsent[i] : i \in 1 .. Len(unsent)} : Arrives(c) /\ UartCycle(req, c)
  BY DEF UartStep
<1>2. Receiver(c)
  BY <1>1 DEF UartCycle, loopback
<1>3. CASE ~InUse
  <2>1. unsent' = unsent /\ c = Nothing
    BY <1>1, <1>3 DEF Arrives, InUse
  <2>2. rx_fifo' = <<>>
    BY <1>2, <1>3 DEF Receiver, InUse
  <2>3. ~FifoToRhr
    BY <1>3 DEF FifoToRhr, Empty
  <2>4. rhr_full' = FALSE
    BY <1>2, <1>3, <2>1, <2>3 DEF Receiver, Empty
  <2>5. data_ready' = FALSE
    BY <1>2, <1>3, <2>1 DEF Receiver, Empty
  <2> QED
    BY <1>3, <2>1, <2>2, <2>4, <2>5 DEF Empty
<1>4. CASE InUse
  <2>1. /\ fifo_en /\ ~rx_fifo_rst
        /\ rx_fifo' = IF c # Nothing /\ Len(rx_fifo) < FifoDepth THEN Append(Rest, c) ELSE Rest
        /\ rhr' = IF FifoToRhr THEN Head(rx_fifo) ELSE IF ReadsRBR THEN Nothing ELSE rhr
        /\ rhr_full' = IF FifoToRhr THEN TRUE ELSE rhr_full /\ ~ReadsRBR
        /\ data_ready' = (c # Nothing \/ rx_fifo # <<>> \/ rhr_full)
    BY <1>2, <1>4 DEF Receiver, InUse, Rest
  <2>2. CASE c = Nothing
    <3>1. unsent' = unsent
      <4>1. unsent # <<>> => Head(unsent) \in C
        BY HeadTailProperties
      <4> QED
        BY <1>1, <2>2, <4>1 DEF Arrives
    <3> QED
      BY <1>4, <2>1, <2>2, <3>1
  <2>3. CASE c # Nothing
    <3>1. unsent # <<>> /\ c = Head(unsent) /\ unsent' = Tail(unsent)
      BY <1>1, <2>3 DEF Arrives
    <3>2. Len(rx_fifo) < FifoDepth
      <4>1. Len(unsent) \in Nat \ {0} /\ Len(rx_fifo) \in Nat
        BY <3>1, EmptySeq, LenProperties
      <4> QED
        BY <4>1 DEF FifoDepth
    <3> QED
      BY <1>4, <2>1, <2>3, <3>1, <3>2
  <2> QED
    BY <2>2, <2>3
<1> QED
  BY <1>3, <1>4

\* What waits to be read, and what is on its way from there to its use.
CharacterWaits == rx_fifo # <<>> \/ rhr_full = TRUE
InHand  == IF Delivers(image, main_pc) THEN 1 ELSE 0
InRhr   == IF rhr_full = TRUE THEN 1 ELSE 0
Fresh   == handling = 0 /\ access.valid = FALSE /\ Delivers(image, main_pc)

\* The read in its response phase is that of the core.
ReadAccessInv ==
  /\ uart_access.valid \in BOOLEAN
  /\ uart_access.valid = TRUE => uart_access = access
  /\ (access.valid = TRUE /\ access.we = FALSE /\ access.port = "UART") => uart_access = access

\* Every character sent is in one place, in order; data_ready lags behind by the
\* cycle in which the character read last is used.
ReceiverInv ==
  /\ rx_fifo \in Seq(Characters(image)) /\ unsent \in Seq(Characters(image))
  /\ received \in Seq(Characters(image)) /\ rhr_full \in BOOLEAN /\ data_ready \in BOOLEAN
  /\ InOrder(image.sends, Len(received) + InHand + InRhr, rx_fifo, unsent)
  /\ \A j \in 1 .. Len(received) : received[j] = image.sends[j]
  /\ Delivers(image, main_pc) => main_acc.char = image.sends[Len(received) + 1]
  /\ rhr_full = TRUE => rhr = image.sends[Len(received) + InHand + 1]
  /\ InUse \/ Empty
  /\ data_ready = TRUE => CharacterWaits \/ Fresh

\* What getchar knows of the receiver.
GetcharInv ==
  \A n \in 1 .. Len(image.code) : Receives(image, n) =>
    /\ main_pc = n - 2 /\ LINE_STATUS_DATA_READY_BIT \in main_acc.bits => CharacterWaits
    /\ main_pc = n - 1 => rhr_full = TRUE

\* The characters of the queue after one cycle in which g have left it for good.
LEMMA QueueRuns ==
  ASSUME NEW C, NEW s \in Seq(C), NEW req, UartStep(req), 4 \notin mcr, Nothing \notin C,
         rx_fifo \in Seq(C), unsent \in Seq(C), Len(s) <= FifoDepth,
         rhr_full \in BOOLEAN, InUse \/ Empty, ReadsRBR => rhr_full = TRUE,
         NEW g \in Nat, InOrder(s, g + InRhr, rx_fifo, unsent),
         rhr_full = TRUE => rhr = s[g + 1]
  PROVE  /\ rx_fifo' \in Seq(C) /\ unsent' \in Seq(C) /\ rhr_full' \in BOOLEAN
         /\ data_ready' \in BOOLEAN
         /\ ReadsRBR => InOrder(s, g + 1 + InRhr', rx_fifo', unsent') /\ rhr_full' = FALSE
         /\ ~ReadsRBR => /\ InOrder(s, g + InRhr', rx_fifo', unsent')
                         /\ rhr_full' = TRUE => rhr' = s[g + 1]
                         /\ CharacterWaits => CharacterWaits' /\ rhr_full' = TRUE
                         /\ data_ready' = TRUE => CharacterWaits'
         /\ InUse \/ Empty'
<1>1. Len(rx_fifo) \in Nat /\ Len(unsent) \in Nat /\ Len(s) \in Nat /\ InRhr \in {0, 1}
  BY LenProperties DEF InRhr
<1>2. Len(rx_fifo) + Len(unsent) <= FifoDepth
  BY <1>1 DEF InOrder, FifoDepth
<1>3. \/ ~InUse /\ Empty' /\ unsent' = unsent
      \/ /\ InUse
         /\ \/ rx_fifo' = Rest /\ unsent' = unsent
                 /\ (data_ready' = TRUE <=> rx_fifo # <<>> \/ rhr_full = TRUE)
            \/ /\ unsent # <<>> /\ unsent' = Tail(unsent)
               /\ rx_fifo' = Append(Rest, Head(unsent)) /\ data_ready' = TRUE
         /\ rhr' = IF FifoToRhr THEN Head(rx_fifo) ELSE IF ReadsRBR THEN Nothing ELSE rhr
         /\ rhr_full' = IF FifoToRhr THEN TRUE ELSE rhr_full /\ ~ReadsRBR
         /\ data_ready' \in BOOLEAN
  BY <1>2, ReceiverRuns
<1>4. CASE ~InUse
  <2>1. Empty /\ Empty' /\ unsent' = unsent
    BY <1>3, <1>4
  <2>2. ~ReadsRBR /\ ~CharacterWaits /\ InRhr' = InRhr /\ rx_fifo' = rx_fifo
    BY <2>1 DEF Empty, CharacterWaits, InRhr
  <2> QED
    BY <2>1, <2>2 DEF Empty
<1>5. CASE InUse
  <2>1. fifo_en
    BY <1>5 DEF InUse
  <2> DEFINE k == IF FifoToRhr THEN g + 1 ELSE g + InRhr
  <2>2. Rest \in Seq(C) /\ InOrder(s, k, Rest, unsent) /\ (FifoToRhr => Head(rx_fifo) = s[g + 1])
    <3>1. CASE FifoToRhr
      <4>1. InRhr = 0 /\ rx_fifo # <<>>
        BY <3>1 DEF FifoToRhr, InRhr
      <4>2. g + InRhr = g
        BY <4>1
      <4>3. InOrder(s, g, rx_fifo, unsent)
        BY <4>2
      <4>4. InOrder(s, g + 1, Tail(rx_fifo), unsent) /\ Tail(rx_fifo) \in Seq(C) /\ Head(rx_fifo) = s[g + 1]
        BY <4>1, <4>3, LeavesInOrder
      <4> QED
        BY <3>1, <4>4 DEF Rest
    <3>2. CASE ~FifoToRhr
      BY <3>2 DEF Rest
    <3> QED
      BY <3>1, <3>2
  <2> HIDE DEF k
  <2>3. rx_fifo' \in Seq(C) /\ unsent' \in Seq(C) /\ InOrder(s, k, rx_fifo', unsent')
    <3>1. CASE rx_fifo' = Rest /\ unsent' = unsent
      BY <2>2, <3>1
    <3>2. CASE unsent # <<>> /\ unsent' = Tail(unsent) /\ rx_fifo' = Append(Rest, Head(unsent))
      <4>1. /\ InOrder(s, k, Append(Rest, Head(unsent)), Tail(unsent))
            /\ Append(Rest, Head(unsent)) \in Seq(C) /\ Tail(unsent) \in Seq(C)
        BY <2>2, <3>2, ArrivesInOrder
      <4> QED
        BY <3>2, <4>1
    <3> QED
      BY <1>3, <1>5, <3>1, <3>2
  <2>4. /\ rhr' = IF FifoToRhr THEN Head(rx_fifo) ELSE IF ReadsRBR THEN Nothing ELSE rhr
        /\ rhr_full' = IF FifoToRhr THEN TRUE ELSE rhr_full /\ ~ReadsRBR
        /\ data_ready' \in BOOLEAN
    BY <1>3, <1>5
  <2>5. FifoToRhr <=> rhr_full = FALSE /\ rx_fifo # <<>>
    BY <2>1 DEF FifoToRhr
  <2>6. rhr_full' \in BOOLEAN
    BY <2>4
  <2>7. CASE ReadsRBR
    <3>1. ~FifoToRhr /\ rhr_full' = FALSE /\ InRhr' = 0 /\ InRhr = 1
      BY <2>4, <2>5, <2>7 DEF InRhr
    <3>2. k = g + 1 + InRhr'
      BY <3>1 DEF k
    <3> QED
      BY <1>5, <2>3, <2>4, <2>7, <3>1, <3>2
  <2>8. CASE ~ReadsRBR
    <3>1. k = g + InRhr'
      BY <2>4, <2>8 DEF k, InRhr
    <3>2. rhr_full' = TRUE => rhr' = s[g + 1]
      BY <2>2, <2>4, <2>8
    <3>3. CharacterWaits => rhr_full' = TRUE
      BY <2>4, <2>5, <2>8 DEF CharacterWaits
    <3>4. data_ready' = TRUE => CharacterWaits'
      <4>1. CASE rx_fifo # <<>> \/ rhr_full = TRUE
        BY <3>3, <4>1 DEF CharacterWaits
      <4>2. CASE unsent # <<>> /\ rx_fifo' = Append(Rest, Head(unsent))
        <5>1. rx_fifo' # <<>>
          BY <2>2, <4>2, ArrivesInOrder
        <5> QED
          BY <5>1 DEF CharacterWaits
      <4> QED
        BY <1>3, <1>5, <4>1, <4>2
    <3>5. CharacterWaits => CharacterWaits'
      BY <3>3 DEF CharacterWaits
    <3> QED
      BY <1>5, <2>3, <2>4, <2>6, <2>8, <3>1, <3>2, <3>3, <3>4, <3>5
  <2> QED
    BY <2>7, <2>8
<1> QED
  BY <1>4, <1>5

\* A read of the receive register is that of getchar.
LEMMA ReadAtLoad ==
  ASSUME FlowInv, ReadsByDriver(image), ReadAccessInv, ReadsRBR
  PROVE  /\ handling = 0 /\ pc \in 1 .. Len(image.code) /\ main_pc = pc /\ program = image.code
         /\ access.valid = TRUE /\ access.we = FALSE /\ access.port = "UART"
         /\ access = uart_access /\ uart_access.offset = UART.RBR
         /\ image.code[pc].op = "load" /\ Receives(image, pc + 1)
<1>1. /\ access = uart_access /\ access.valid = TRUE /\ ~access.we /\ access.port = "UART"
      /\ access.offset = UART.RBR
  BY DEF ReadsRBR, Reads, ReadAccessInv
<1>2. /\ pc \in 1 .. Len(program) /\ access.port = Port(program[pc].addr)
      /\ \/ program[pc].op = "load" /\ access.we = FALSE
         \/ program[pc].op = "store" /\ access.we = TRUE
  BY <1>1, AccessedPort DEF FlowInv
<1>3. program[pc].op = "load" /\ access.we = FALSE
  BY <1>1, <1>2
<1>4. PICK word : access = Request(FALSE, program[pc].addr, word)
  BY <1>1, <1>3 DEF FlowInv, CoreInv, MadeBy
<1>5. LoadsCharacter(program[pc])
  <2> DEFINE req == Request(FALSE, program[pc].addr, Num(0))
  <2>1. req.valid = access.valid /\ req.we = access.we /\ req.port = access.port /\ req.offset = access.offset
    BY <1>4 DEF Request
  <2> QED
    BY <1>1, <1>3, <2>1 DEF LoadsCharacter, Reads
<1>6. handling = 0
  <2> SUFFICES ASSUME handling # 0 PROVE FALSE
    OBVIOUS
  <2>1. program = image.handlers[handling] /\ handling \in Causes
    BY DEF program, FlowInv, CoreInv
  <2> QED
    BY <1>1, <1>2, <1>3, <2>1 DEF ReadsByDriver
<1>7. program = image.code /\ main_pc = pc
  BY <1>6 DEF program, main_pc
<1>8. Receives(image, pc + 1)
  BY <1>2, <1>5, <1>7 DEF ReadsByDriver
<1> QED
  BY <1>1, <1>2, <1>3, <1>6, <1>7, <1>8

\* It takes the character from the register to main().
LEMMA CharacterRead ==
  ASSUME FlowInv, ReadsByDriver(image), ReadAccessInv, ReadsRBR, [Next]_vars, ~UNCHANGED vars
  PROVE  /\ main_pc \in 1 .. Len(image.code) /\ main_pc' = main_pc + 1
         /\ Receives(image, main_pc + 1) /\ ~Delivers(image, main_pc)
         /\ Delivers(image, main_pc + 1)
         /\ main_acc' = Char(rhr) /\ handling' = 0 /\ access'.valid = FALSE
<1>1. /\ handling = 0 /\ pc \in 1 .. Len(image.code) /\ main_pc = pc /\ program = image.code
      /\ access.valid = TRUE /\ access.we = FALSE /\ access.port = "UART"
      /\ access = uart_access /\ uart_access.offset = UART.RBR
      /\ image.code[pc].op = "load" /\ Receives(image, pc + 1)
  BY ReadAtLoad
<1>2. Respond
  BY <1>1, Answered
<1>3. acc' = ReadData /\ pc' = pc + 1 /\ handling' = handling /\ access' = NoRequest
  BY <1>1, <1>2 DEF Respond, flags
<1>4. ReadData = Char(rhr)
  <2>1. ReadData = UartReadData
    BY <1>1 DEF ReadData
  <2>2. UartReadData = Char(rhr)
    BY <1>1 DEF UartReadData, UART
  <2> QED
    BY <2>1, <2>2
<1>5. Delivers(image, pc + 1)
  <2>1. pc + 1 \in Nat /\ pc + 1 <= Len(image.code) /\ image.code[pc + 1] = Deliver
    BY <1>1, GetcharCode
  <2> QED
    BY <1>1, <2>1 DEF Delivers, Deliver
<1> QED
  BY <1>1, <1>3, <1>4, <1>5 DEF main_pc, main_acc, Delivers, NoRequest

\* main() has a character in hand only after such a read.
LEMMA HandStays ==
  ASSUME FlowInv, Structured(image), ReadsByDriver(image), ReadAccessInv, GetcharInv,
         [Next]_vars, fifo_en => ~dlab, InUse \/ Empty,
         ~ReadsRBR, Delivers(image, main_pc')
  PROVE  UNCHANGED main
<1> DEFINE n == main_pc'
<1>1. n \in 1 .. Len(image.code) /\ Receives(image, n)
  BY DEF ReadsByDriver, Delivers
<1>2. /\ n > 3 /\ image.code[n - 1] = Load(UartReg(UART.RBR)) /\ n \notin Entries(image)
  BY <1>1, GetcharCode
<1> HIDE DEF n
<1>3. n - 1 \in Nat /\ (n - 1) + 1 = n
  BY <1>1, <1>2
<1>4. main_pc' = (n - 1) + 1 /\ (n - 1) + 1 \notin Entries(image)
  BY <1>2, <1>3 DEF n
<1>5. ASSUME handling = 0, pc = n - 1, main_pc = n - 1, Does(image.code[n - 1]) PROVE FALSE
  <2>1. access.valid = TRUE
    BY <1>2, <1>5 DEF Does, Load
  <2>2. program[pc].op = "load" /\ program[pc].addr = UartReg(UART.RBR)
    BY <1>2, <1>5 DEF program, Load
  <2>3. PICK word : access = Request(FALSE, UartReg(UART.RBR), word)
    BY <2>1, <2>2 DEF FlowInv, CoreInv, MadeBy
  <2>4. UART.RBR \in UartRegs
    BY DEF UartRegs
  <2>5. access.port = "UART" /\ access.offset = UART.RBR /\ access.we = FALSE
    BY <2>3, <2>4, UartRequest, LoadRequest
  <2>6. uart_access = access
    BY <2>1, <2>5 DEF ReadAccessInv
  <2>7. rhr_full = TRUE
    BY <1>1, <1>5 DEF GetcharInv
  <2>8. ~dlab
    BY <2>7 DEF InUse, Empty
  <2> QED
    BY <2>1, <2>5, <2>6, <2>8 DEF ReadsRBR, Reads
<1> QED
  BY <1>3, <1>4, <1>5, FromBefore

\* The read in its response phase.
LEMMA ReadAccessStep ==
  ASSUME FlowInv, ReadAccessInv, [Next]_vars
  PROVE  ReadAccessInv'
<1>1. ASSUME NEW req, UartStep(req)
      PROVE  uart_access' = IF req.valid /\ ~req.we /\ req.port = "UART" THEN req ELSE NoRequest
  BY <1>1 DEF UartStep, UartCycle
<1>2. NoRequest.valid = FALSE
  BY DEF NoRequest
<1>3. CASE UNCHANGED vars
  BY <1>3 DEF vars, core, uart, ReadAccessInv
<1>4. CASE Accesses /\ UartStep(TheRequest)
  <2>1. access' = TheRequest /\ TheRequest.valid = TRUE
    BY <1>4, AccessMade
  <2> QED
    BY <1>1, <1>2, <1>4, <2>1 DEF ReadAccessInv
<1>5. CASE ~Accesses /\ ~UNCHANGED vars
  <2>1. PICK req : UartStep(req) /\ ~(req.valid /\ ~req.we)
    BY <1>5, UartSteps
  <2>2. uart_access' = NoRequest
    BY <1>1, <2>1
  <2>3. access'.valid = FALSE
    BY <1>5, StepAccesses DEF Unaccessed
  <2> QED
    BY <1>2, <2>2, <2>3 DEF ReadAccessInv
<1> QED
  BY <1>3, <1>4, <1>5, UartSteps

\* What the receiver relies on: getchar, the control registers, the characters.
Settled ==
  /\ ReadsByDriver(image) /\ image.sends \in Seq(Characters(image))
  /\ 4 \notin mcr /\ (fifo_en => ~dlab)
  /\ ReadAccessInv /\ GetcharInv /\ ReceiverInv
  /\ \A cause \in Causes : \A n \in 1 .. Len(image.handlers[cause]) :
       image.handlers[cause][n].op # "deliver"

LEMMA Sent ==
  ASSUME ReadsByDriver(image), image.sends \in Seq(Characters(image))
  PROVE  Nothing \notin Characters(image) /\ Len(image.sends) <= FifoDepth /\ Len(image.sends) \in Nat
  BY LenProperties DEF ReadsByDriver

\* While main() reads the register, a character is there.
LEMMA ReadsFull ==
  ASSUME FlowInv, Settled, ReadsRBR
  PROVE  rhr_full = TRUE
<1>1. pc \in 1 .. Len(image.code) /\ main_pc = pc /\ Receives(image, pc + 1)
  BY ReadAtLoad DEF Settled
<1>2. pc + 1 \in Nat /\ pc + 1 <= Len(image.code) /\ (pc + 1) - 1 = pc
  BY <1>1, GetcharCode
<1> QED
  BY <1>1, <1>2 DEF Settled, GetcharInv

\* One cycle of the receiver in the state of the SoC: g characters are used or
\* in hand.
LEMMA QueueStep ==
  ASSUME FlowInv, Settled, NEW req, UartStep(req)
  PROVE  LET g == Len(received) + InHand
             s == image.sends
             C == Characters(image)
         IN  /\ rx_fifo' \in Seq(C) /\ unsent' \in Seq(C) /\ rhr_full' \in BOOLEAN
             /\ data_ready' \in BOOLEAN
             /\ ReadsRBR => InOrder(s, g + 1 + InRhr', rx_fifo', unsent') /\ rhr_full' = FALSE
             /\ ~ReadsRBR => /\ InOrder(s, g + InRhr', rx_fifo', unsent')
                             /\ rhr_full' = TRUE => rhr' = s[g + 1]
                             /\ CharacterWaits => CharacterWaits' /\ rhr_full' = TRUE
                             /\ data_ready' = TRUE => CharacterWaits'
             /\ InUse \/ Empty'
<1> DEFINE g == Len(received) + InHand
           s == image.sends
           C == Characters(image)
<1>1. s \in Seq(C) /\ Nothing \notin C /\ Len(s) <= FifoDepth
  BY Sent DEF Settled
<1>2. /\ rx_fifo \in Seq(C) /\ unsent \in Seq(C) /\ received \in Seq(C)
      /\ rhr_full \in BOOLEAN /\ 4 \notin mcr
      /\ InOrder(s, g + InRhr, rx_fifo, unsent)
      /\ rhr_full = TRUE => rhr = s[g + 1]
      /\ InUse \/ Empty
  BY DEF Settled, ReceiverInv
<1>3. g \in Nat
  <2>1. Len(received) \in Nat /\ InHand \in {0, 1}
    BY <1>2, LenProperties DEF InHand
  <2> QED
    BY <2>1
<1>4. ReadsRBR => rhr_full = TRUE
  BY ReadsFull
<1> HIDE DEF g, s, C
<1>5. /\ rx_fifo' \in Seq(C) /\ unsent' \in Seq(C) /\ rhr_full' \in BOOLEAN
      /\ data_ready' \in BOOLEAN
      /\ ReadsRBR => InOrder(s, g + 1 + InRhr', rx_fifo', unsent') /\ rhr_full' = FALSE
      /\ ~ReadsRBR => /\ InOrder(s, g + InRhr', rx_fifo', unsent')
                      /\ rhr_full' = TRUE => rhr' = s[g + 1]
                      /\ CharacterWaits => CharacterWaits' /\ rhr_full' = TRUE
                      /\ data_ready' = TRUE => CharacterWaits'
      /\ InUse \/ Empty'
  BY <1>1, <1>2, <1>3, <1>4, QueueRuns
<1> QED
  BY <1>5 DEF g, s, C

\* main() in front of a use, or behind it, after a step.
LEMMA HandNext ==
  ASSUME FlowInv, Structured(image), Settled, [Next]_vars, ~ReadsRBR
  PROVE  /\ received' \in Seq(Characters(image))
         /\ Len(received)' + InHand' = Len(received) + InHand
         /\ \A j \in 1 .. Len(received)' : received'[j] = image.sends[j]
         /\ Delivers(image, main_pc') => main_acc'.char = image.sends[Len(received)' + 1]
<1>1. /\ received \in Seq(Characters(image)) /\ Len(received) \in Nat
      /\ \A j \in 1 .. Len(received) : received[j] = image.sends[j]
      /\ Delivers(image, main_pc) => main_acc.char = image.sends[Len(received) + 1]
  BY LenProperties DEF Settled, ReceiverInv
<1>2. Delivers(image, main_pc') => UNCHANGED main
  BY HandStays DEF Settled, ReceiverInv
<1>3. image' = image
  BY StepFlows DEF image
<1>4. CASE /\ Delivers(image, main_pc) /\ main_pc' = main_pc + 1
           /\ received' = Append(received, main_acc.char)
  <2>1. main_pc' # main_pc
    BY <1>4 DEF Delivers
  <2>2. ~Delivers(image, main_pc')
    BY <1>2, <2>1 DEF main
  <2>3. InHand = 1 /\ InHand' = 0
    BY <1>3, <1>4, <2>2 DEF InHand
  <2>4. main_acc.char = image.sends[Len(received) + 1]
    BY <1>1, <1>4
  <2>5. image.sends[Len(received) + 1] \in Characters(image)
    <3>1. InOrder(image.sends, Len(received) + InHand + InRhr, rx_fifo, unsent)
      BY DEF Settled, ReceiverInv
    <3>2. Len(rx_fifo) \in Nat /\ Len(unsent) \in Nat /\ InRhr \in {0, 1}
      BY LenProperties DEF Settled, ReceiverInv, InRhr
    <3>3. Len(received) + InHand + InRhr + Len(rx_fifo) + Len(unsent) = Len(image.sends)
      BY <3>1 DEF InOrder
    <3>4. Len(received) + 1 \in 1 .. Len(image.sends)
      BY <1>1, <2>3, <3>2, <3>3
    <3> QED
      BY <3>4 DEF Characters
  <2>6. /\ received' \in Seq(Characters(image)) /\ Len(received)' = Len(received) + 1
        /\ \A j \in 1 .. Len(received) : received'[j] = received[j]
        /\ received'[Len(received) + 1] = main_acc.char
    BY <1>1, <1>4, <2>4, <2>5, AppendProperties
  <2>7. \A j \in 1 .. Len(received)' : j \in 1 .. Len(received) \/ j = Len(received) + 1
    BY <1>1, <2>6
  <2>8. \A j \in 1 .. Len(received)' : received'[j] = image.sends[j]
    BY <1>1, <2>4, <2>6, <2>7
  <2> QED
    BY <1>1, <2>2, <2>3, <2>6, <2>8
<1>5. CASE received' = received /\ (Delivers(image, main_pc) => UNCHANGED main)
  <2>1. Delivers(image, main_pc') <=> Delivers(image, main_pc)
    BY <1>2, <1>5 DEF main
  <2>2. InHand' = InHand
    BY <1>3, <2>1 DEF InHand
  <2>3. Delivers(image, main_pc') => main_acc' = main_acc
    BY <1>2 DEF main
  <2> QED
    BY <1>1, <1>5, <2>1, <2>2, <2>3
<1> QED
  BY <1>4, <1>5, CharactersUsed DEF Settled

\* ReceiverInv after a step that leaves the receiver in use.
LEMMA ReceiverStep ==
  ASSUME FlowInv, Structured(image), Settled, [Next]_vars,
         InUse => InUse' \/ UNCHANGED vars
  PROVE  ReceiverInv'
<1>1. image' = image
  BY StepFlows DEF image
<1>2. CASE UNCHANGED vars
  BY <1>1, <1>2 DEF vars, core, board, uart, Settled, ReceiverInv, InOrder, InHand, InRhr, main_pc,
    main_acc, InUse, Empty, fifo_en, rx_fifo_rst, CharacterWaits, Fresh
<1>3. CASE ~UNCHANGED vars
  <2> DEFINE g == Len(received) + InHand
  <2>1. PICK req : UartStep(req)
    BY <1>3, UartSteps
  <2>2. /\ rx_fifo' \in Seq(Characters(image)) /\ unsent' \in Seq(Characters(image))
        /\ rhr_full' \in BOOLEAN /\ data_ready' \in BOOLEAN
        /\ ReadsRBR => InOrder(image.sends, g + 1 + InRhr', rx_fifo', unsent') /\ rhr_full' = FALSE
        /\ ~ReadsRBR => /\ InOrder(image.sends, g + InRhr', rx_fifo', unsent')
                        /\ rhr_full' = TRUE => rhr' = image.sends[g + 1]
                        /\ CharacterWaits => CharacterWaits' /\ rhr_full' = TRUE
                        /\ data_ready' = TRUE => CharacterWaits'
        /\ InUse \/ Empty'
    BY <2>1, QueueStep
  <2>3. InUse' \/ Empty'
    BY <1>3, <2>2
  <2>4. CASE ReadsRBR
    <3>1. /\ main_pc \in 1 .. Len(image.code) /\ main_pc' = main_pc + 1
          /\ ~Delivers(image, main_pc) /\ Delivers(image, main_pc + 1)
          /\ main_acc' = Char(rhr) /\ handling' = 0 /\ access'.valid = FALSE
      BY <1>3, <2>4, CharacterRead DEF Settled
    <3>2. InHand = 0 /\ InHand' = 1
      BY <1>1, <3>1 DEF InHand
    <3>3. received' = received
      BY <3>1, CharactersUsed DEF Settled
    <3>4. rhr = image.sends[Len(received) + 1]
      <4>1. rhr = image.sends[Len(received) + InHand + 1]
        BY <2>4, ReadsFull DEF Settled, ReceiverInv
      <4>2. Len(received) \in Nat
        BY LenProperties DEF Settled, ReceiverInv
      <4> QED
        BY <3>2, <4>1, <4>2
    <3>5. InOrder(image.sends, Len(received)' + InHand' + InRhr', rx_fifo', unsent')
      <4>1. g + 1 = Len(received)' + InHand'
        <5>1. Len(received) \in Nat
          BY LenProperties DEF Settled, ReceiverInv
        <5> QED
          BY <3>2, <3>3, <5>1
      <4> QED
        BY <2>2, <2>4, <4>1
    <3>6. main_acc'.char = image.sends[Len(received)' + 1]
      BY <3>1, <3>3, <3>4 DEF Char
    <3>7. Fresh'
      BY <1>1, <3>1 DEF Fresh
    <3>8. received' \in Seq(Characters(image)) /\ \A j \in 1 .. Len(received)' : received'[j] = image.sends[j]
      BY <3>3 DEF Settled, ReceiverInv
    <3> QED
      BY <1>1, <2>2, <2>3, <2>4, <3>5, <3>6, <3>7, <3>8 DEF ReceiverInv
  <2>5. CASE ~ReadsRBR
    <3>1. /\ received' \in Seq(Characters(image))
          /\ Len(received)' + InHand' = g
          /\ \A j \in 1 .. Len(received)' : received'[j] = image.sends[j]
          /\ Delivers(image, main_pc') => main_acc'.char = image.sends[Len(received)' + 1]
      BY <2>5, HandNext
    <3>2. InOrder(image.sends, Len(received)' + InHand' + InRhr', rx_fifo', unsent')
      BY <2>2, <2>5, <3>1
    <3>3. rhr_full' = TRUE => rhr' = image.sends[Len(received)' + InHand' + 1]
      BY <2>2, <2>5, <3>1
    <3> HIDE DEF g
    <3> QED
      BY <1>1, <2>2, <2>3, <2>5, <3>1, <3>2, <3>3 DEF ReceiverInv
  <2> QED
    BY <2>4, <2>5
<1> QED
  BY <1>2, <1>3

\* GetcharInv after a step.
LEMMA GetcharStep ==
  ASSUME FlowInv, Structured(image), Settled, [Next]_vars
  PROVE  GetcharInv'
<1>1. image' = image
  BY StepFlows DEF image
<1>2. CASE UNCHANGED vars
  BY <1>1, <1>2 DEF vars, core, uart, Settled, GetcharInv, main_pc, main_acc, CharacterWaits
<1>3. CASE ~UNCHANGED vars
  <2>1. PICK req : UartStep(req)
    BY <1>3, UartSteps
  <2>2. ~ReadsRBR => (CharacterWaits => CharacterWaits' /\ rhr_full' = TRUE)
    BY <2>1, QueueStep
  <2>3. ReadsRBR => main_pc \in Nat /\ main_pc' = main_pc + 1 /\ Delivers(image, main_pc')
    <3> SUFFICES ASSUME ReadsRBR PROVE main_pc \in Nat /\ main_pc' = main_pc + 1 /\ Delivers(image, main_pc')
      OBVIOUS
    <3>1. ReadsByDriver(image) /\ ReadAccessInv
      BY DEF Settled
    <3>2. /\ main_pc \in 1 .. Len(image.code) /\ main_pc' = main_pc + 1
          /\ Delivers(image, main_pc + 1)
      BY <1>3, <3>1, CharacterRead
    <3> QED
      BY <3>2
  <2>4. UNCHANGED main => ~ReadsRBR
    BY <2>3 DEF main
  <2> SUFFICES ASSUME NEW n \in 1 .. Len(image.code), Receives(image, n)
               PROVE  /\ main_pc' = n - 2 /\ LINE_STATUS_DATA_READY_BIT \in main_acc'.bits => CharacterWaits'
                      /\ main_pc' = n - 1 => rhr_full' = TRUE
    BY <1>1 DEF GetcharInv
  <2>5. /\ n > 3 /\ image.code[n - 3] = Load(LSR)
        /\ image.code[n - 2] = Unless({LINE_STATUS_DATA_READY_BIT}, -1)
        /\ image.code[n - 1] = Load(UartReg(UART.RBR))
        /\ n - 2 \notin Entries(image) /\ n - 1 \notin Entries(image)
    BY GetcharCode, n \in Nat
  <2>6. /\ n - 3 \in Nat /\ (n - 3) + 1 = n - 2 /\ n - 2 \in Nat /\ (n - 2) + 1 = n - 1
        /\ n - 2 \in 1 .. Len(image.code) /\ n - 1 \in 1 .. Len(image.code)
    BY <2>5
  <2>7. /\ main_pc = n - 2 /\ LINE_STATUS_DATA_READY_BIT \in main_acc.bits => CharacterWaits
        /\ main_pc = n - 1 => rhr_full = TRUE
    BY DEF Settled, GetcharInv
  <2>8. ASSUME main_pc' = n - 2, LINE_STATUS_DATA_READY_BIT \in main_acc'.bits PROVE CharacterWaits'
    <3>1. CASE UNCHANGED main
      BY <2>2, <2>4, <2>7, <2>8, <3>1 DEF main
    <3>2. CASE /\ handling = 0 /\ handling' = 0 /\ pc = n - 3 /\ main_pc = n - 3
               /\ Does(image.code[n - 3]) /\ main_acc' = acc'
      <4>1. access.valid = TRUE /\ acc' = ReadData
        BY <2>5, <3>2 DEF Does, Load
      <4>2. program[pc].op = "load" /\ program[pc].addr = UartReg(UART.LINE_STATUS)
        BY <2>5, <3>2 DEF program, Load, LSR
      <4>3. PICK word : access = Request(FALSE, UartReg(UART.LINE_STATUS), word)
        BY <4>1, <4>2 DEF FlowInv, CoreInv, MadeBy
      <4>4. UART.LINE_STATUS \in UartRegs
        BY DEF UartRegs
      <4>5. access.port = "UART" /\ access.offset = UART.LINE_STATUS /\ access.we = FALSE
        BY <4>3, <4>4, UartRequest, LoadRequest
      <4>6. uart_access = access
        BY <4>1, <4>5 DEF Settled, ReadAccessInv
      <4>7. ReadData = Bits(LineStatus)
        <5>1. ReadData = UartReadData
          BY <4>5 DEF ReadData
        <5>2. UartReadData = Bits(LineStatus)
          BY <4>5, <4>6 DEF UartReadData, UART
        <5> QED
          BY <5>1, <5>2
      <4>8. LINE_STATUS_DATA_READY_BIT \in LineStatus
        BY <2>8, <3>2, <4>1, <4>7 DEF Bits
      <4>9. data_ready = TRUE
        <5>1. data_ready \in BOOLEAN
          BY DEF Settled, ReceiverInv
        <5> QED
          BY <4>8, <5>1 DEF LineStatus, LINE_STATUS_DATA_READY_BIT, LINE_STATUS_THR_EMPTY_BIT,
            LINE_STATUS_TMIT_EMPTY_BIT
      <4>10. CharacterWaits
        BY <4>1, <4>9 DEF Settled, ReceiverInv, Fresh
      <4>11. ~ReadsRBR
        BY <4>5, <4>6 DEF ReadsRBR, Reads, UART
      <4> QED
        BY <2>2, <4>10, <4>11
    <3> QED
      BY <2>5, <2>6, <2>8, <3>1, <3>2, FromBefore
  <2>9. ASSUME main_pc' = n - 1 PROVE rhr_full' = TRUE
    <3>1. CASE UNCHANGED main
      <4>1. rhr_full = TRUE /\ ~ReadsRBR
        BY <2>4, <2>7, <2>9, <3>1 DEF main
      <4> QED
        BY <2>2, <4>1 DEF CharacterWaits
    <3>2. CASE /\ handling = 0 /\ handling' = 0 /\ pc = n - 2 /\ main_pc = n - 2 /\ main_acc = acc
      <4>1. program = image.code /\ program[pc].op = "branch" /\ pc' = n - 1 /\ program[pc].by = -1
            /\ program[pc].test = "bits" /\ program[pc].bits = {LINE_STATUS_DATA_READY_BIT}
        BY <2>5, <2>9, <3>2 DEF program, Unless, main_pc
      <4>2. Advances
        <5>1. Does(image.code[pc])
          BY <4>1 DEF Does
        <5> QED
          BY <2>6, <3>2, <4>1, <5>1 DEF Advances
      <4>3. Internal(program[pc])
        BY <4>1, <4>2, AdvanceExecutes
      <4>4. Branch(program[pc])
        BY <4>1, <4>3 DEF Internal, Compute, Keeping, Assigning, Delivering, Pausing, Csr,
          FallAsleep, Leaving, Jumping, Returning, Check
      <4>5. ~Taken(program[pc])
        <5>1. Taken(program[pc]) => pc' = pc + (-1)
          BY <4>1, <4>4 DEF Branch
        <5>2. pc + (-1) # n - 1
          BY <2>6, <3>2
        <5> QED
          BY <4>1, <5>1, <5>2
      <4>6. LINE_STATUS_DATA_READY_BIT \in acc.bits
        BY <4>1, <4>5 DEF Taken
      <4>7. CharacterWaits
        BY <2>7, <3>2, <4>6
      <4>8. ~ReadsRBR
        <5>1. ReadsRBR => image.code[pc].op = "load"
          BY ReadAtLoad DEF Settled
        <5> QED
          BY <4>1, <5>1
      <4> QED
        BY <2>2, <4>7, <4>8
    <3> QED
      BY <2>5, <2>6, <2>9, <3>1, <3>2, FromBefore
  <2> QED
    BY <2>8, <2>9
<1> QED
  BY <1>2, <1>3

\* What keeps the order of what a program receives. A program that uses no
\* character has received none.
Receiving ==
  /\ \A p \in 1 .. Len(image.code) : SetUpAt(image, p) => ControlInv(p)
  /\ ReadAccessInv /\ GetcharInv /\ ReceiverInv

UsesCharacters(im) == \E n \in 1 .. Len(im.code) : Delivers(im, n)

OrderInv == IF UsesCharacters(image) THEN Receiving ELSE received = <<>>

\* It holds at reset.
LEMMA OrderInit ==
  ASSUME Init, ReceivedByDriver(Images)
  PROVE  OrderInv
<1>1. /\ loaded \in DOMAIN Images /\ handling = 0 /\ pc = 1 /\ access = NoRequest /\ received = <<>>
      /\ unsent = image.sends
  BY DEF Init
<1>2. /\ lcr = {} /\ fcr = {} /\ mcr = {} /\ rhr_full = FALSE /\ rx_fifo = <<>>
      /\ data_ready = FALSE /\ uart_access = NoRequest
  BY DEF Init, UartInit
<1>3. NoRequest.valid = FALSE
  BY DEF NoRequest
<1>4. main_pc = 1
  BY <1>1 DEF main_pc
<1>5. CASE ~UsesCharacters(image)
  BY <1>1, <1>5 DEF OrderInv
<1>6. CASE UsesCharacters(image)
  <2>1. ReadsByDriver(image)
    BY <1>1, <1>6 DEF UsesCharacters, ReceivedByDriver, image
  <2>2. ASSUME NEW p \in 1 .. Len(image.code) PROVE ControlInv(p)
    BY <1>1, <1>2, <1>3, <1>4 DEF ControlInv, Responding, fifo_en
  <2>3. ReadAccessInv
    BY <1>1, <1>2, <1>3 DEF ReadAccessInv
  <2>4. GetcharInv
    <3>1. ASSUME NEW n \in 1 .. Len(image.code), Receives(image, n) PROVE n - 2 # 1 /\ n - 1 # 1
      <4>1. n > 3
        BY <3>1 DEF Receives
      <4> QED
        BY <4>1
    <3> QED
      BY <1>4, <3>1 DEF GetcharInv
  <2>5. ~Delivers(image, main_pc)
    <3> SUFFICES ASSUME Delivers(image, 1) PROVE FALSE
      BY <1>4
    <3>1. 1 \in 1 .. Len(image.code)
      BY DEF Delivers
    <3>2. Receives(image, 1)
      BY <2>1, <3>1 DEF ReadsByDriver
    <3> QED
      BY <3>2 DEF Receives
  <2>6. Empty
    BY <1>2 DEF Empty
  <2>7. Len(received) = 0 /\ InHand = 0 /\ InRhr = 0
    BY <1>1, <1>2, <2>5 DEF InHand, InRhr
  <2>8. image.sends \in Seq(Characters(image)) /\ Len(image.sends) \in Nat
    BY <1>1, <2>1, Sent DEF ReceivedByDriver, image
  <2>9. InOrder(image.sends, Len(received) + InHand + InRhr, rx_fifo, unsent)
    <3>1. InOrder(image.sends, 0, <<>>, image.sends)
      <4>1. Len(<<>>) = 0
        OBVIOUS
      <4>2. \A j \in 1 .. Len(image.sends) : image.sends[j] = image.sends[0 + 0 + j]
        BY <2>8
      <4> QED
        BY <2>8, <4>1, <4>2 DEF InOrder
    <3> QED
      BY <1>1, <1>2, <2>7, <3>1
  <2>10. ReceiverInv
    <3>1. <<>> \in Seq(Characters(image))
      BY EmptySeq
    <3>2. 1 .. Len(received) = {}
      BY <2>7
    <3> QED
      BY <1>1, <1>2, <2>5, <2>6, <2>8, <2>9, <3>1, <3>2 DEF ReceiverInv
  <2> QED
    BY <1>6, <2>2, <2>3, <2>4, <2>10 DEF OrderInv, Receiving
<1> QED
  BY <1>5, <1>6

\* A receiver in use stays so.
LEMMA InUseStays ==
  ASSUME FlowInv, ReadsByDriver(image), EndsMasked(image), [Next]_vars,
         NEW p \in Nat, SetUpAt(image, p), ControlInv(p), InUse
  PROVE  InUse' \/ UNCHANGED vars
<1>1. ASSUME NEW req, UartStep(req), ~UartWrites(req, UART.FIFO_CONTROL) PROVE InUse'
  BY <1>1, ControlsStay DEF InUse
<1>2. CASE Accesses /\ UartStep(TheRequest)
  <2>1. ~UartWrites(TheRequest, UART.FIFO_CONTROL)
    BY <1>2, UartControlStored DEF InUse
  <2> QED
    BY <1>1, <1>2, <2>1
<1>3. CASE ~Accesses /\ ~UNCHANGED vars
  <2>1. PICK req : UartStep(req) /\ ~UartWrites(req, UART.FIFO_CONTROL)
    BY <1>3, UartSteps
  <2> QED
    BY <1>1, <2>1
<1> QED
  BY <1>2, <1>3, UartSteps

\* Every step keeps the order.
LEMMA OrderStep ==
  ASSUME FlowInv, MaskedAtEnd(Images), ReceivedByDriver(Images), OrderInv, [Next]_vars, HaltInv'
  PROVE  OrderInv'
<1>1. image' = image /\ loaded \in DOMAIN Images /\ Structured(image) /\ EndsMasked(image)
  <2>1. loaded \in DOMAIN Images
    BY DEF FlowInv, CoreInv
  <2>2. Structured(image) /\ EndsMasked(image)
    BY <2>1 DEF MaskedAtEnd, image
  <2> QED
    BY <2>1, <2>2, StepFlows DEF image
<1>2. \A cause \in Causes : \A n \in 1 .. Len(image.handlers[cause]) :
        image.handlers[cause][n].op # "deliver"
  BY <1>1 DEF ReceivedByDriver, image
<1>3. CASE ~UsesCharacters(image)
  <2>1. ~Delivers(image, main_pc)
    BY <1>3 DEF UsesCharacters, Delivers
  <2>2. received' = received
    BY <1>1, <1>2, <2>1, CharactersUsed
  <2> QED
    BY <1>1, <1>3, <2>2 DEF OrderInv
<1>4. CASE UsesCharacters(image)
  <2>1. ReadsByDriver(image)
    BY <1>1, <1>4 DEF UsesCharacters, ReceivedByDriver, image
  <2>2. Receiving
    BY <1>4 DEF OrderInv
  <2>3. PICK p \in 1 .. Len(image.code) : SetUpAt(image, p)
    BY <2>1 DEF ReadsByDriver
  <2>4. ControlInv(p) /\ p \in Nat
    BY <2>2, <2>3 DEF Receiving
  <2>5. Settled
    <3>1. 4 \notin mcr /\ (fifo_en => ~dlab)
      BY <2>4 DEF ControlInv
    <3>2. image.sends \in Seq(Characters(image))
      BY <1>1 DEF ReceivedByDriver, image
    <3> QED
      BY <1>2, <2>1, <2>2, <3>1, <3>2 DEF Settled, Receiving
  <2>6. ASSUME NEW q \in 1 .. Len(image.code), SetUpAt(image, q) PROVE ControlInv(q)'
    <3>1. ControlInv(q) /\ q \in Nat
      BY <2>2, <2>6 DEF Receiving
    <3> QED
      BY <1>1, <2>1, <2>6, <3>1, ControlStep
  <2>7. ReadAccessInv'
    BY <2>5, ReadAccessStep DEF Settled
  <2>8. GetcharInv'
    BY <1>1, <2>5, GetcharStep
  <2>9. InUse => InUse' \/ UNCHANGED vars
    BY <1>1, <2>1, <2>3, <2>4, InUseStays
  <2>10. ReceiverInv'
    BY <1>1, <2>5, <2>9, ReceiverStep
  <2>11. UsesCharacters(image')
    BY <1>1, <1>4
  <2> QED
    BY <1>1, <2>6, <2>7, <2>8, <2>10, <2>11 DEF OrderInv, Receiving
<1> QED
  BY <1>3, <1>4

\* What has been received is what was sent first.
LEMMA OrderKept ==
  ASSUME FlowInv, ReceivedByDriver(Images), OrderInv, image.sends \in Seq(Characters(image))
  PROVE  ReceivedInOrder
<1>1. Len(image.sends) \in Nat /\ \A j \in 1 .. Len(image.sends) : image.sends[j] \in Characters(image)
  BY LenProperties, ElementOfSeq
<1>2. CASE ~UsesCharacters(image)
  <2>1. received = <<>>
    BY <1>2 DEF OrderInv
  <2>2. Len(received) = 0
    BY <2>1
  <2>3. SubSeq(image.sends, 1, 0) = <<>>
    BY SubSeqEmpty
  <2> QED
    BY <1>1, <2>1, <2>2, <2>3 DEF ReceivedInOrder
<1>3. CASE UsesCharacters(image)
  <2> DEFINE m == Len(received)
  <2>1. ReceiverInv
    BY <1>3 DEF OrderInv, Receiving
  <2>2. /\ received \in Seq(Characters(image)) /\ m \in Nat
        /\ \A j \in 1 .. m : received[j] = image.sends[j]
    BY <2>1, LenProperties DEF ReceiverInv
  <2>3. m <= Len(image.sends)
    <3>1. InOrder(image.sends, m + InHand + InRhr, rx_fifo, unsent)
      BY <2>1 DEF ReceiverInv
    <3>2. Len(rx_fifo) \in Nat /\ Len(unsent) \in Nat /\ InHand \in {0, 1} /\ InRhr \in {0, 1}
      BY <2>1, LenProperties DEF ReceiverInv, InHand, InRhr
    <3>3. m + InHand + InRhr + Len(rx_fifo) + Len(unsent) = Len(image.sends)
      BY <3>1 DEF InOrder
    <3> QED
      BY <2>2, <3>2, <3>3
  <2>4. /\ SubSeq(image.sends, 1, m) \in Seq(Characters(image))
        /\ Len(SubSeq(image.sends, 1, m)) = m
        /\ \A j \in 1 .. m : SubSeq(image.sends, 1, m)[j] = image.sends[j]
    <3>1. \A j \in 1 .. m : image.sends[j] \in Characters(image)
      BY <1>1, <2>2, <2>3
    <3>2. /\ SubSeq(image.sends, 1, m) \in Seq(Characters(image))
          /\ Len(SubSeq(image.sends, 1, m)) = IF 1 <= m THEN m - 1 + 1 ELSE 0
          /\ \A j \in 1 .. m - 1 + 1 : SubSeq(image.sends, 1, m)[j] = image.sends[1 + j - 1]
      BY <2>2, <3>1, SubSeqProperties
    <3>3. m - 1 + 1 = m /\ (~(1 <= m) => m = 0)
      BY <2>2
    <3>4. ASSUME NEW j \in 1 .. m PROVE SubSeq(image.sends, 1, m)[j] = image.sends[j]
      <4>1. 1 + j - 1 = j
        OBVIOUS
      <4> QED
        BY <3>2, <3>3, <4>1
    <3> QED
      BY <3>2, <3>3, <3>4
  <2>5. received = SubSeq(image.sends, 1, m)
    BY <2>2, <2>4, SeqEqual
  <2> QED
    BY <2>3, <2>5 DEF ReceivedInOrder
<1> QED
  BY <1>2, <1>3

\* getchar of print.c returns every character that arrives once and in order,
\* although data_ready of the UART lags behind its receive register.
THEOREM CharactersInOrder ==
  ASSUME MaskedAtEnd(Images), ReceivedByDriver(Images)
  PROVE  Spec /\ []ChecksPass => []ReceivedInOrder
<1> DEFINE Safe == EndSafe /\ OrderInv
<1>1. Init => Safe
  <2> SUFFICES ASSUME Init PROVE Safe
    OBVIOUS
  <2>1. Structured(image)
    BY DEF Init, MaskedAtEnd, image
  <2> QED
    BY <2>1, FlowInit, EndInit, OrderInit DEF EndSafe
<1>2. Safe /\ [Next]_vars /\ ChecksPass' => Safe'
  <2> SUFFICES ASSUME Safe, [Next]_vars, ChecksPass' PROVE Safe'
    OBVIOUS
  <2>1. EndSafe'
    BY EndStep
  <2>2. HaltInv'
    BY <2>1 DEF EndSafe
  <2> QED
    BY <2>1, <2>2, OrderStep DEF EndSafe
<1>3. Safe => ReceivedInOrder
  <2> SUFFICES ASSUME Safe PROVE ReceivedInOrder
    OBVIOUS
  <2>1. loaded \in DOMAIN Images
    BY DEF EndSafe, FlowInv, CoreInv
  <2>2. image.sends \in Seq(Characters(image))
    BY <2>1 DEF ReceivedByDriver, image
  <2> QED
    BY <2>2, OrderKept DEF EndSafe
<1> QED
  BY <1>1, <1>2, <1>3, PTL DEF Spec
=============================================================================

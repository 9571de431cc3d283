------------------------ MODULE CrocdicProgramsProofs -------------------------
(***************************************************************************)
(* What holds of every set of programs that use CROCDIC with discipline:   *)
(* no write is dropped and every job awaited, and the memory the           *)
(* accelerator leaves is that of main() read as a sequential program, so   *)
(* that a program which compares equal elements there counts no mismatch.  *)
(***************************************************************************)
EXTENDS CrocdicPrograms, FiniteSetTheorems, TLAPS

R == INSTANCE CordicReferenceProofs

ProgramsDisciplined == \A p \in DOMAIN Programs : Disciplined(Programs[p].main)
ProgramsCompareEqual == \A p \in DOMAIN Programs : ComparesEqual(Programs[p])

-----------------------------------------------------------------------------
(* The accelerator, as far as its driver can tell.                          *)

ParametersKept ==
  UNCHANGED <<operation, source_array_address, number_of_elements,
              destination_array_address>>

\* At rest CROCDIC does what it is told: a write of START begins a job, a write
\* of a parameter changes that register, and nothing else has an effect.
LEMMA AtRest ==
  ASSUME NEW req, NEW gnt, Top!Tick(req, gnt), state = "IDLE"
  PROVE  /\ sbr' = req
         /\ Top!Writes("START") =>
              state' # "IDLE" /\ started' = started + 1 /\ ParametersKept
         /\ ~Top!Writes("START") =>
              /\ state' = "IDLE" /\ started' = started
              /\ operation' = IF Top!Writes("OPERATION") THEN sbr.wdata % 8 ELSE operation
              /\ source_array_address' =
                   IF Top!Writes("SOURCE") THEN sbr.wdata ELSE source_array_address
              /\ number_of_elements' =
                   IF Top!Writes("NR_OF_ELEMENTS") THEN sbr.wdata ELSE number_of_elements
              /\ destination_array_address' =
                   IF Top!Writes("DESTINATION") THEN sbr.wdata ELSE destination_array_address
<1>1. CASE Top!IdleStart(req, gnt)
  BY <1>1 DEF Top!IdleStart, Top!ClockEdge, Top!SubordinatePort, Top!regs, ParametersKept
<1>2. CASE Top!IdleWriteRegister(req, gnt)
  BY <1>2 DEF Top!IdleWriteRegister, Top!ClockEdge, Top!SubordinatePort, Top!history,
    Top!Writes, Top!Parameters
<1>3. CASE Top!IdleOther(req, gnt)
  BY <1>3 DEF Top!IdleOther, Top!ClockEdge, Top!SubordinatePort, Top!history, Top!regs,
    Top!Parameters
<1>4. \/ Top!IdleStart(req, gnt) \/ Top!IdleWriteRegister(req, gnt) \/ Top!IdleOther(req, gnt)
  BY DEF Top!Tick, Top!ReadElements, Top!WaitReadResponse, Top!StartCordic, Top!WaitCordic,
    Top!WriteElements, Top!WaitWriteResponse, Top!Done
<1> QED
  BY <1>1, <1>2, <1>3, <1>4

\* From START to the read of DONE that reports the end of the job CROCDIC takes
\* no notice of its driver.
LEMMA DuringAJob ==
  ASSUME NEW req, NEW gnt, Top!Tick(req, gnt), state # "IDLE"
  PROVE  /\ sbr' = req
         /\ started' = started /\ ParametersKept
         /\ state' = "IDLE" <=>
              state = "DONE" /\ sbr.valid /\ ~sbr.we /\ sbr.reg = "DONE"
<1>1. CASE Top!ReadElements(req, gnt)
  BY <1>1 DEF Top!ReadElements, Top!ClockEdge, Top!SubordinatePort, Top!history, Top!regs,
    ParametersKept
<1>2. CASE Top!WaitReadResponse(req, gnt)
  BY <1>2 DEF Top!WaitReadResponse, Top!ClockEdge, Top!SubordinatePort, Top!history, Top!regs,
    ParametersKept
<1>3. CASE Top!StartCordic(req, gnt)
  BY <1>3 DEF Top!StartCordic, Top!ClockEdge, Top!SubordinatePort, Top!history, Top!regs,
    ParametersKept
<1>4. CASE Top!WaitCordic(req, gnt)
  BY <1>4 DEF Top!WaitCordic, Top!ClockEdge, Top!SubordinatePort, Top!history, Top!regs,
    ParametersKept
<1>5. CASE Top!WriteElements(req, gnt)
  BY <1>5 DEF Top!WriteElements, Top!ClockEdge, Top!SubordinatePort, Top!history, Top!regs,
    ParametersKept
<1>6. CASE Top!WaitWriteResponse(req, gnt)
  BY <1>6 DEF Top!WaitWriteResponse, Top!ClockEdge, Top!SubordinatePort, Top!history, Top!regs,
    ParametersKept
<1>7. CASE Top!Done(req, gnt)
  BY <1>7 DEF Top!Done, Top!ClockEdge, Top!SubordinatePort, Top!regs, ParametersKept
<1>8. /\ ~Top!IdleStart(req, gnt) /\ ~Top!IdleWriteRegister(req, gnt)
      /\ ~Top!IdleOther(req, gnt)
  BY DEF Top!IdleStart, Top!IdleWriteRegister, Top!IdleOther
<1> QED
  BY <1>1, <1>2, <1>3, <1>4, <1>5, <1>6, <1>7, <1>8 DEF Top!Tick

\* A cycle without an access to the registers, or with a read of anything but
\* DONE, neither begins nor ends a job and changes no register.
LEMMA QuietCycle ==
  ASSUME NEW req, NEW gnt, Top!Tick(req, gnt),
         sbr.valid => ~sbr.we /\ sbr.reg # "DONE"
  PROVE  /\ sbr' = req
         /\ state' = "IDLE" <=> state = "IDLE"
         /\ started' = started /\ ParametersKept
<1>1. \A reg : ~Top!Writes(reg)
  BY DEF Top!Writes
<1> QED
  BY <1>1, AtRest, DuringAJob DEF ParametersKept

-----------------------------------------------------------------------------
(* The driver.                                                              *)

Awaited == {i \in 1 .. pc - 1 : Main[i].do = "await"}

\* The access of the present step is the one latched by the register file.
AccessInv ==
  /\ waiting => /\ Running
                /\ \/ Step.do = "write" /\ sbr = Request(TRUE, Step.addr, Step.value)
                   \/ /\ Step.do \in {"await", "string"}
                      /\ sbr = Request(FALSE, Step.addr + index, 0)
  /\ ~waiting => sbr = Top!NoRequest

\* The loop variable starts from 0, and a string is read to its end at most.
IndexInv ==
  index # 0 =>
    /\ Running
    /\ Step.do = "compare" \/ (Step.do = "string" /\ Step.addr + index <= NameLength)

\* CROCDIC rests exactly while main() has no job to await.
JobInv ==
  /\ state = "IDLE" <=> ~JobRuns(Main, pc)
  /\ started = Cardinality(Awaited) + (IF JobRuns(Main, pc) THEN 1 ELSE 0)

\* The registers hold what main() has written last.
RegistersInv ==
  /\ operation = Latest("OPERATION")
  /\ source_array_address = Latest("SOURCE")
  /\ number_of_elements = Latest("NR_OF_ELEMENTS")
  /\ destination_array_address = Latest("DESTINATION")
  /\ started = Cardinality(Written("START"))

LoadedInv ==
  /\ program \in DOMAIN Programs
  /\ pc \in Nat \ {0} /\ index \in Nat /\ waiting \in BOOLEAN
  /\ AccessInv /\ IndexInv /\ JobInv /\ RegistersInv

\* Before a program is loaded CROCDIC is as reset has left it.
ResetInv ==
  /\ pc = 1 /\ index = 0 /\ waiting = FALSE
  /\ state = "IDLE" /\ sbr = Top!NoRequest /\ started = 0
  /\ operation = 0 /\ source_array_address = 0
  /\ number_of_elements = 0 /\ destination_array_address = 0

ProgInv == IF program = "none" THEN ResetInv ELSE LoadedInv

\* Each register has an address of its own.
LEMMA DecodeRegister ==
  ASSUME NEW reg \in DOMAIN Present
  PROVE  Decode(Present[reg]) = reg
<1>1. DOMAIN Present =
        {"START", "OPERATION", "SOURCE", "NR_OF_ELEMENTS", "DESTINATION", "DONE"}
  BY DEF Present
<1>2. /\ Present["START"] = 128 /\ Present["OPERATION"] = 132 /\ Present["SOURCE"] = 136
      /\ Present["NR_OF_ELEMENTS"] = 140 /\ Present["DESTINATION"] = 144
      /\ Present["DONE"] = 148
  BY DEF Present
<1>3. ASSUME NEW other \in DOMAIN Present, Present[other] = Present[reg]
      PROVE  other = reg
  BY <1>1, <1>2, <1>3
<1>4. ~(Present[reg] < Present.START)
  BY <1>1, <1>2
<1>5. Decode(Present[reg]) = CHOOSE other \in DOMAIN Present : Present[other] = Present[reg]
  BY <1>4 DEF Decode
<1> QED
  BY <1>3, <1>5

\* A job runs from its START to its await.
LEMMA JobRunsNext ==
  ASSUME NEW main, NEW i \in Nat \ {0}
  PROVE  JobRuns(main, i + 1) <=>
           WritesTo(main[i], "START") \/ (JobRuns(main, i) /\ main[i].do # "await")
<1>1. WritesTo(main[i], "START") => main[i].do # "await"
  BY DEF WritesTo
<1>2. ASSUME JobRuns(main, i + 1)
      PROVE  WritesTo(main[i], "START") \/ (JobRuns(main, i) /\ main[i].do # "await")
  <2>1. PICK k \in 1 .. i : /\ WritesTo(main[k], "START")
                           /\ \A l \in k + 1 .. i : main[l].do # "await"
    BY <1>2 DEF JobRuns
  <2>2. CASE k = i
    BY <2>1, <2>2
  <2>3. CASE k # i
    <3>1. k \in 1 .. i - 1 /\ i \in k + 1 .. i /\ k + 1 .. i - 1 \subseteq k + 1 .. i
      BY <2>3
    <3> QED
      BY <2>1, <3>1 DEF JobRuns
  <2> QED
    BY <2>2, <2>3
<1>3. ASSUME WritesTo(main[i], "START")
      PROVE  JobRuns(main, i + 1)
  <2>1. i \in 1 .. (i + 1) - 1 /\ i + 1 .. (i + 1) - 1 = {}
    OBVIOUS
  <2> QED
    BY <1>3, <2>1 DEF JobRuns
<1>4. ASSUME JobRuns(main, i), main[i].do # "await"
      PROVE  JobRuns(main, i + 1)
  <2>1. PICK k \in 1 .. i - 1 : /\ WritesTo(main[k], "START")
                               /\ \A l \in k + 1 .. i - 1 : main[l].do # "await"
    BY <1>4 DEF JobRuns
  <2>2. \A l \in k + 1 .. (i + 1) - 1 : l = i \/ l \in k + 1 .. i - 1
    OBVIOUS
  <2>3. k \in 1 .. (i + 1) - 1
    OBVIOUS
  <2> QED
    BY <1>4, <2>1, <2>2, <2>3 DEF JobRuns
<1> QED
  BY <1>2, <1>3, <1>4

\* What main() has written, awaited and started as it goes on to the next step.
LEMMA StepCounts ==
  ASSUME pc \in Nat \ {0}, program' = program, pc' = pc + 1
  PROVE  /\ \A reg : Written(reg)' = IF Step.do = "write" /\ Decode(Step.addr) = reg
                                    THEN Written(reg) \cup {pc} ELSE Written(reg)
         /\ Awaited' = IF Step.do = "await" THEN Awaited \cup {pc} ELSE Awaited
         /\ IsFiniteSet(Awaited) /\ pc \notin Awaited
         /\ \A reg : IsFiniteSet(Written(reg)) /\ pc \notin Written(reg)
<1>1. Main' = Main /\ 1 .. pc' - 1 = (1 .. pc - 1) \cup {pc} /\ pc \notin 1 .. pc - 1
  BY DEF Main
<1>2. IsFiniteSet(1 .. pc - 1)
  BY FS_Interval
<1>3. Awaited \subseteq 1 .. pc - 1 /\ \A reg : Written(reg) \subseteq 1 .. pc - 1
  BY DEF Awaited, Written
<1>4. IsFiniteSet(Awaited) /\ \A reg : IsFiniteSet(Written(reg))
  BY <1>2, <1>3, FS_Subset
<1>5. Awaited' = IF Step.do = "await" THEN Awaited \cup {pc} ELSE Awaited
  BY <1>1 DEF Awaited, Step
<1>6. ASSUME NEW reg
      PROVE  Written(reg)' = IF Step.do = "write" /\ Decode(Step.addr) = reg
                             THEN Written(reg) \cup {pc} ELSE Written(reg)
  BY <1>1 DEF Written, Step
<1> QED
  BY <1>1, <1>3, <1>4, <1>5, <1>6

\* And what it has written last.
LEMMA StepLatest ==
  ASSUME pc \in Nat \ {0}, program' = program, pc' = pc + 1, NEW reg
  PROVE  Latest(reg)' = IF Step.do = "write" /\ Decode(Step.addr) = reg
                        THEN Step.value ELSE Latest(reg)
<1>1. Main' = Main
  BY DEF Main
<1>2. CASE Step.do = "write" /\ Decode(Step.addr) = reg
  <2>1. Written(reg)' = Written(reg) \cup {pc}
    BY <1>2, StepCounts
  <2>2. \A k \in Written(reg) : k \in Nat /\ k < pc
    BY DEF Written
  <2> DEFINE last == CHOOSE i \in Written(reg)' : \A k \in Written(reg)' : k <= i
  <2>3. last = pc
    <3>1. pc \in Written(reg)' /\ \A k \in Written(reg)' : k <= pc
      BY <2>1, <2>2
    <3>2. last \in Written(reg)' /\ \A k \in Written(reg)' : k <= last
      BY <3>1
    <3> HIDE DEF last
    <3>3. pc <= last /\ last <= pc /\ last \in Nat
      BY <2>1, <2>2, <3>1, <3>2
    <3> QED
      BY <3>3
  <2>4. Latest(reg)' = Main'[last].value
    BY <2>1 DEF Latest
  <2> QED
    BY <1>1, <1>2, <2>3, <2>4 DEF Step
<1>3. CASE ~(Step.do = "write" /\ Decode(Step.addr) = reg)
  <2>1. Written(reg)' = Written(reg)
    BY <1>3, StepCounts
  <2> QED
    BY <1>1, <1>3, <2>1 DEF Latest
<1> QED
  BY <1>2, <1>3

\* What the discipline says of the present step.
LEMMA PresentStep ==
  ASSUME ProgramsDisciplined, LoadedInv, Running
  PROVE  \/ /\ Step.do = "write" /\ ~JobRuns(Main, pc)
            /\ Decode(Step.addr) \in Parameters \cup {"START"}
            /\ Decode(Step.addr) = "OPERATION" => Step.value \in Operations
            /\ WritesTo(Step, "START") <=> Decode(Step.addr) = "START"
         \/ Step.do = "await" /\ Decode(Step.addr) = "DONE" /\ JobRuns(Main, pc)
         \/ Step.do = "string" /\ Step.addr \in 0 .. NameLength
         \/ Step.do = "compare"
<1>1. /\ program \in DOMAIN Programs /\ pc \in 1 .. Len(Main)
      /\ Disciplined(Main)
  BY DEF LoadedInv, Running, ProgramsDisciplined, Disciplined, Main
<1>2. Parameters \cup {"START", "DONE"} = DOMAIN Present
  BY DEF Parameters, Present
<1>3. ASSUME NEW reg \in Parameters \cup {"START"}, WritesTo(Step, reg)
      PROVE  Decode(Step.addr) = reg
  BY <1>2, <1>3, DecodeRegister DEF WritesTo
<1>4. Step.addr = Present.DONE => Decode(Step.addr) = "DONE"
  BY <1>2, DecodeRegister
<1>5. Present["START"] = Present.START
  OBVIOUS
<1> QED
  BY <1>1, <1>3, <1>4, <1>5 DEF Disciplined, Step, WritesTo

\* A cycle in which the CPU has no response, and goes on in the same step.
LEMMA SameStep ==
  ASSUME LoadedInv, program' = program, pc' = pc,
         state' = "IDLE" <=> state = "IDLE", started' = started, ParametersKept
  PROVE  JobInv' /\ RegistersInv'
<1>1. Main' = Main
  BY DEF Main
<1>2. Awaited' = Awaited /\ \A reg : Written(reg)' = Written(reg)
  BY <1>1 DEF Awaited, Written
<1>3. ASSUME NEW reg
      PROVE  Latest(reg)' = Latest(reg)
  <2>1. Written(reg)' = Written(reg)
    BY <1>2
  <2> QED
    BY <1>1, <2>1 DEF Latest
<1>4. JobInv'
  BY <1>1, <1>2 DEF LoadedInv, JobInv
<1>5. RegistersInv'
  BY <1>2, <1>3 DEF LoadedInv, RegistersInv, ParametersKept
<1> QED
  BY <1>4, <1>5

\* A step that writes nothing and awaits nothing leaves the job as it is.
LEMMA NextStepSameJob ==
  ASSUME LoadedInv, program' = program, pc' = pc + 1, Step.do \notin {"write", "await"},
         state' = "IDLE" <=> state = "IDLE", started' = started, ParametersKept
  PROVE  JobInv' /\ RegistersInv'
<1>1. Main' = Main /\ pc \in Nat \ {0}
  BY DEF Main, LoadedInv
<1>2. Awaited' = Awaited /\ \A reg : Written(reg)' = Written(reg)
  BY <1>1, StepCounts
<1>3. \A reg : Latest(reg)' = Latest(reg)
  BY <1>1, StepLatest
<1>4. JobRuns(Main, pc)' <=> JobRuns(Main, pc)
  BY <1>1, JobRunsNext DEF WritesTo, Step
<1>5. JobInv'
  BY <1>2, <1>4 DEF LoadedInv, JobInv
<1>6. RegistersInv'
  BY <1>2, <1>3 DEF LoadedInv, RegistersInv, ParametersKept
<1> QED
  BY <1>5, <1>6

\* A write arrives at rest: the register holds the value, or the job begins.
LEMMA WriteArrives ==
  ASSUME ProgramsDisciplined, LoadedInv, Running, Step.do = "write",
         sbr = Request(TRUE, Step.addr, Step.value), program' = program, pc' = pc + 1,
         NEW gnt, Top!Tick(Top!NoRequest, gnt)
  PROVE  JobInv' /\ RegistersInv'
<1> DEFINE reg == Decode(Step.addr)
<1>1. Main' = Main /\ pc \in Nat \ {0}
  BY DEF Main, LoadedInv
<1>2. /\ reg \in Parameters \cup {"START"} /\ ~JobRuns(Main, pc)
      /\ reg = "OPERATION" => Step.value \in Operations
      /\ WritesTo(Step, "START") <=> reg = "START"
  BY PresentStep
<1>3. state = "IDLE" /\ started = Cardinality(Awaited)
  <2>1. Cardinality(Awaited) \in Nat
    BY <1>1, StepCounts, FS_CardinalityType
  <2> QED
    BY <1>2, <2>1 DEF LoadedInv, JobInv
<1>4. sbr.valid /\ sbr.we /\ sbr.reg = reg /\ sbr.wdata = Step.value
  BY DEF Request
<1> HIDE DEF reg
<1>5. \A r : Top!Writes(r) <=> r = reg
  BY <1>4 DEF Top!Writes
<1>6. Awaited' = Awaited
  BY <1>1, StepCounts
<1>7. JobRuns(Main, pc)' <=> reg = "START"
  BY <1>1, <1>2, JobRunsNext DEF Step
<1>8. \A r : Latest(r)' = IF r = reg THEN Step.value ELSE Latest(r)
  BY <1>1, StepLatest DEF reg
<1>9. Cardinality(Written("START"))' =
        IF reg = "START" THEN Cardinality(Written("START")) + 1 ELSE Cardinality(Written("START"))
  <2>1. Written("START")' = IF reg = "START" THEN Written("START") \cup {pc} ELSE Written("START")
    BY <1>1, StepCounts DEF reg
  <2>2. IsFiniteSet(Written("START")) /\ pc \notin Written("START")
    BY <1>1, StepCounts
  <2>3. Cardinality(Written("START") \cup {pc}) = Cardinality(Written("START")) + 1
    BY <2>2, FS_AddElement
  <2> QED
    BY <2>1, <2>3
<1>10. RegistersInv
  BY DEF LoadedInv
<1>11. CASE reg = "START"
  <2>1. state' # "IDLE" /\ started' = started + 1 /\ ParametersKept
    BY <1>3, <1>5, <1>11, AtRest
  <2>2. JobInv'
    BY <1>3, <1>6, <1>7, <1>11, <2>1 DEF JobInv
  <2> QED
    BY <1>8, <1>9, <1>10, <1>11, <2>1, <2>2 DEF RegistersInv, ParametersKept
<1>12. CASE reg # "START"
  <2>1. /\ state' = "IDLE" /\ started' = started
        /\ operation' = IF reg = "OPERATION" THEN Step.value % 8 ELSE operation
        /\ source_array_address' = IF reg = "SOURCE" THEN Step.value ELSE source_array_address
        /\ number_of_elements' = IF reg = "NR_OF_ELEMENTS" THEN Step.value ELSE number_of_elements
        /\ destination_array_address' =
             IF reg = "DESTINATION" THEN Step.value ELSE destination_array_address
    BY <1>3, <1>4, <1>5, <1>12, AtRest
  <2>2. reg = "OPERATION" => Step.value % 8 = Step.value
    BY <1>2 DEF Operations
  <2>3. JobInv'
    <3>1. Cardinality(Awaited) \in Nat
      BY <1>1, StepCounts, FS_CardinalityType
    <3> QED
      BY <1>3, <1>6, <1>7, <1>12, <2>1, <3>1 DEF JobInv
  <2> QED
    BY <1>8, <1>9, <1>10, <1>12, <2>1, <2>2, <2>3 DEF RegistersInv
<1> QED
  BY <1>11, <1>12

\* DONE is read: as zero until the job has ended, and then the job is over.
LEMMA DoneIsRead ==
  ASSUME ProgramsDisciplined, LoadedInv, Running, Step.do = "await",
         sbr = Request(FALSE, Step.addr + index, 0), program' = program,
         pc' = IF ReadsZero THEN pc ELSE pc + 1,
         NEW gnt, Top!Tick(Top!NoRequest, gnt)
  PROVE  JobInv' /\ RegistersInv'
<1>1. Main' = Main /\ pc \in Nat \ {0}
  BY DEF Main, LoadedInv
<1>2. JobRuns(Main, pc) /\ Decode(Step.addr) = "DONE" /\ index = 0
  BY PresentStep DEF LoadedInv, IndexInv
<1>3. state # "IDLE" /\ started = Cardinality(Awaited) + 1
  BY <1>2 DEF LoadedInv, JobInv
<1>4. sbr.valid /\ ~sbr.we /\ sbr.reg = "DONE"
  <2>1. Step.addr + index = Step.addr
    BY <1>2, ProgramsDisciplined DEF LoadedInv, Running, ProgramsDisciplined, Disciplined, Step,
      Main, Present
  <2> QED
    BY <1>2, <2>1 DEF Request
<1>5. Top!SbrReply.rdata = IF state = "DONE" THEN "ones" ELSE "zero"
  BY <1>3, <1>4 DEF Top!SbrReply
<1>6. ReadsZero <=> state # "DONE"
  BY <1>5 DEF ReadsZero
<1>7. started' = started /\ ParametersKept /\ (state' = "IDLE" <=> state = "DONE")
  BY <1>3, <1>4, DuringAJob
<1>8. CASE state # "DONE"
  BY <1>3, <1>6, <1>7, <1>8, SameStep
<1>9. CASE state = "DONE"
  <2>1. pc' = pc + 1
    BY <1>6, <1>9
  <2>2. Awaited' = Awaited \cup {pc} /\ \A reg : Written(reg)' = Written(reg)
    BY <1>1, <2>1, StepCounts
  <2>3. Cardinality(Awaited)' = Cardinality(Awaited) + 1
    BY <1>1, <2>1, <2>2, StepCounts, FS_AddElement
  <2>4. \A reg : Latest(reg)' = Latest(reg)
    BY <1>1, <2>1, StepLatest
  <2>5. ~JobRuns(Main, pc)'
    BY <1>1, <2>1, JobRunsNext DEF WritesTo, Step
  <2>6. Cardinality(Awaited) \in Nat
    BY <1>1, <2>1, StepCounts, FS_CardinalityType
  <2>7. JobInv'
    BY <1>3, <1>7, <1>9, <2>3, <2>5, <2>6 DEF JobInv
  <2>8. RegistersInv'
    BY <1>7, <2>2, <2>4 DEF LoadedInv, RegistersInv, ParametersKept
  <2> QED
    BY <2>7, <2>8
<1> QED
  BY <1>8, <1>9

-----------------------------------------------------------------------------
(* Every step keeps the invariant.                                          *)

\* The debugger loads a program that has not run.
LEMMA Load ==
  ASSUME ProgInv, LoadProgram
  PROVE  ProgInv'
<1>1. /\ program = "none" /\ program' \in DOMAIN Programs
      /\ UNCHANGED <<pc, index, waiting, state, sbr, started>> /\ ParametersKept
  BY DEF LoadProgram, ParametersKept
<1>2. ResetInv
  BY <1>1 DEF ProgInv
<1>3. ResetInv'
  BY <1>1, <1>2 DEF ResetInv, ParametersKept, Top!NoRequest
<1>4. 1 .. pc' - 1 = {} /\ pc' = 1
  BY <1>1, <1>2 DEF ResetInv
<1>5. Awaited' = {} /\ \A reg : Written(reg)' = {}
  BY <1>4 DEF Awaited, Written
<1>6. \A reg : Latest(reg)' = 0
  BY <1>5 DEF Latest
<1>7. ~JobRuns(Main, pc)'
  BY <1>4 DEF JobRuns
<1>8. JobInv' /\ RegistersInv'
  BY <1>3, <1>5, <1>6, <1>7, FS_EmptySet DEF ResetInv, JobInv, RegistersInv
<1>9. AccessInv' /\ IndexInv'
  BY <1>3 DEF ResetInv, AccessInv, IndexInv
<1>10. /\ pc' \in Nat \ {0} /\ index' \in Nat /\ waiting' \in BOOLEAN
       /\ program' \in DOMAIN Programs
  <2>1. pc' = 1 /\ index' = 0 /\ waiting' = FALSE
    BY <1>3 DEF ResetInv
  <2>2. pc' \in Nat \ {0} /\ index' \in Nat
    BY <2>1
  <2>3. waiting' \in BOOLEAN
    BY <2>1
  <2> QED
    BY <1>1, <2>2, <2>3
<1>11. LoadedInv'
  BY <1>8, <1>9, <1>10 DEF LoadedInv
<1> QED
  BY <1>3, <1>11 DEF ProgInv

\* The CPU lets a cycle go by.
LEMMA ElsewhereStep ==
  ASSUME LoadedInv, NEW gnt, Elsewhere(gnt)
  PROVE  LoadedInv'
<1>1. /\ ~waiting /\ Top!Tick(Top!NoRequest, gnt)
      /\ UNCHANGED <<program, pc, index, waiting>>
  BY DEF Elsewhere, cpu
<1>2. ~sbr.valid
  BY <1>1 DEF LoadedInv, AccessInv, Top!NoRequest
<1>3. /\ sbr' = Top!NoRequest /\ (state' = "IDLE" <=> state = "IDLE")
      /\ started' = started /\ ParametersKept
  BY <1>1, <1>2, QuietCycle
<1>4. JobInv' /\ RegistersInv'
  BY <1>1, <1>3, SameStep
<1> QED
  BY <1>1, <1>3, <1>4 DEF LoadedInv, AccessInv, IndexInv, Running, Main, Step, Top!NoRequest

\* The CPU puts an access on the bus.
LEMMA AccessStep ==
  ASSUME LoadedInv, NEW gnt, WriteRegister(gnt) \/ ReadRegister(gnt)
  PROVE  LoadedInv'
<1>1. /\ ~waiting /\ Running /\ waiting' = TRUE /\ UNCHANGED <<program, pc, index>>
      /\ \/ /\ Step.do = "write"
            /\ Top!Tick(Request(TRUE, Step.addr, Step.value), gnt)
         \/ /\ Step.do \in {"await", "string"}
            /\ Top!Tick(Request(FALSE, Step.addr + index, 0), gnt)
  BY DEF WriteRegister, ReadRegister
<1>2. ~sbr.valid
  BY <1>1 DEF LoadedInv, AccessInv, Top!NoRequest
<1>3. /\ (state' = "IDLE" <=> state = "IDLE") /\ started' = started /\ ParametersKept
      /\ \/ Step.do = "write" /\ sbr' = Request(TRUE, Step.addr, Step.value)
         \/ /\ Step.do \in {"await", "string"}
            /\ sbr' = Request(FALSE, Step.addr + index, 0)
  BY <1>1, <1>2, QuietCycle
<1>4. JobInv' /\ RegistersInv'
  BY <1>1, <1>3, SameStep
<1>5. Main' = Main /\ Step' = Step /\ Running'
  BY <1>1 DEF Main, Step, Running
<1>6. AccessInv'
  BY <1>1, <1>3, <1>5 DEF AccessInv, Request
<1>7. IndexInv'
  BY <1>1, <1>5 DEF LoadedInv, IndexInv
<1> QED
  BY <1>1, <1>4, <1>6, <1>7 DEF LoadedInv

\* CROCDIC answers no access of a disciplined program with an error.
LEMMA NoFault ==
  ASSUME ProgramsDisciplined, LoadedInv, waiting
  PROVE  ~Faults
<1>1. /\ Running
      /\ \/ Step.do = "write" /\ sbr = Request(TRUE, Step.addr, Step.value)
         \/ Step.do \in {"await", "string"} /\ sbr = Request(FALSE, Step.addr + index, 0)
  BY DEF LoadedInv, AccessInv
<1>2. CASE Step.do = "write"
  <2>1. sbr.we /\ sbr.reg \in Parameters \cup {"START"}
    BY <1>1, <1>2, PresentStep DEF Request
  <2> QED
    BY <2>1 DEF Faults, Top!SbrReply, Parameters
<1>3. CASE Step.do = "await"
  <2>1. Decode(Step.addr) = "DONE" /\ index = 0
    BY <1>1, <1>3, PresentStep DEF LoadedInv, IndexInv
  <2>2. Step.addr + index = Step.addr
    <3>1. pc \in 1 .. Len(Main) /\ Disciplined(Main)
      BY <1>1 DEF LoadedInv, Running, ProgramsDisciplined, Disciplined, Main
    <3>2. Step.addr \in Nat
      <4>1. Main[pc].addr = Present.DONE
        BY <1>1, <1>3, <3>1, PresentStep DEF Disciplined, WritesTo, Step
      <4> QED
        BY <4>1 DEF Step, Present
    <3> QED
      BY <2>1, <3>2
  <2>3. ~sbr.we /\ sbr.reg = "DONE"
    BY <1>1, <1>3, <2>1, <2>2 DEF Request
  <2> QED
    BY <2>3 DEF Faults, Top!SbrReply, Top!Parameters
<1>4. CASE Step.do = "string"
  <2>1. Step.addr + index \in 0 .. NameLength
    BY <1>1, <1>4, PresentStep DEF LoadedInv, IndexInv, NameLength
  <2>2. Decode(Step.addr + index) = "STUDENT_NAMES"
    BY <2>1 DEF Decode, Present, NameLength
  <2>3. ~sbr.we /\ sbr.reg = "STUDENT_NAMES"
    BY <1>1, <1>4, <2>2 DEF Request
  <2> QED
    BY <2>3 DEF Faults, Top!SbrReply, Top!Parameters
<1> QED
  BY <1>1, <1>2, <1>3, <1>4

\* The CPU gets its response.
LEMMA ResponseStep ==
  ASSUME ProgramsDisciplined, LoadedInv, NEW gnt, Response(gnt)
  PROVE  LoadedInv'
<1>1. /\ waiting /\ waiting' = FALSE /\ program' = program
      /\ Top!Tick(Top!NoRequest, gnt)
  BY DEF Response
<1>2. /\ Running /\ pc \in Nat \ {0} /\ index \in Nat
      /\ \/ Step.do = "write" /\ sbr = Request(TRUE, Step.addr, Step.value)
         \/ Step.do \in {"await", "string"} /\ sbr = Request(FALSE, Step.addr + index, 0)
  BY <1>1 DEF LoadedInv, AccessInv
<1>3. sbr' = Top!NoRequest
  BY <1>1, AtRest, DuringAJob
<1>4. Main' = Main
  BY <1>1 DEF Main
<1>5. ASSUME pc' \in Nat \ {0}, index' \in Nat, IndexInv', JobInv', RegistersInv'
      PROVE  LoadedInv'
  BY <1>1, <1>3, <1>5 DEF LoadedInv, AccessInv, Top!NoRequest
<1>6. CASE Step.do = "write"
  <2>1. pc' = pc + 1 /\ index' = index
    BY <1>1, <1>6, NoFault DEF Response
  <2>2. index = 0
    BY <1>6 DEF LoadedInv, IndexInv
  <2>3. JobInv' /\ RegistersInv'
    BY <1>1, <1>2, <1>6, <2>1, WriteArrives
  <2> QED
    BY <1>2, <1>5, <2>1, <2>2, <2>3 DEF IndexInv
<1>7. CASE Step.do = "await"
  <2>1. pc' = (IF ReadsZero THEN pc ELSE pc + 1) /\ index' = index
    BY <1>1, <1>7, NoFault DEF Response
  <2>2. index = 0
    BY <1>7 DEF LoadedInv, IndexInv
  <2>3. JobInv' /\ RegistersInv'
    BY <1>1, <1>2, <1>7, <2>1, DoneIsRead
  <2> QED
    BY <1>2, <1>5, <2>1, <2>2, <2>3 DEF IndexInv
<1>8. CASE Step.do = "string"
  <2>1. /\ pc' = (IF ReadsZero THEN pc + 1 ELSE pc)
        /\ index' = (IF ReadsZero THEN 0 ELSE index + 1)
    BY <1>1, <1>8, NoFault DEF Response
  <2>2. Step.addr \in 0 .. NameLength /\ Step.addr + index \in 0 .. NameLength
    BY <1>2, <1>8, PresentStep DEF LoadedInv, IndexInv, NameLength
  <2>3. sbr.valid /\ ~sbr.we /\ sbr.reg = "STUDENT_NAMES"
    <3>1. Decode(Step.addr + index) = "STUDENT_NAMES"
      BY <2>2 DEF Decode, Present, NameLength
    <3> QED
      BY <1>2, <1>8, <3>1 DEF Request
  <2>4. (state' = "IDLE" <=> state = "IDLE") /\ started' = started /\ ParametersKept
    BY <1>1, <2>3, QuietCycle
  <2>5. JobInv' /\ RegistersInv'
    BY <1>1, <1>8, <2>1, <2>4, SameStep, NextStepSameJob
  <2>6. CASE ReadsZero
    BY <1>2, <1>5, <2>1, <2>5, <2>6 DEF IndexInv
  <2>7. CASE ~ReadsZero
    <3>1. Top!SbrReply.rdata = "name" /\ ~(Step.addr + index >= NameLength)
      BY <2>3, <2>7 DEF ReadsZero, Top!SbrReply
    <3>2. Step.addr + index' <= NameLength
      BY <1>2, <2>1, <2>2, <2>7, <3>1 DEF NameLength
    <3>3. IndexInv'
      BY <1>1, <1>2, <1>4, <1>8, <2>1, <2>7, <3>2 DEF IndexInv, Running, Step
    <3> QED
      BY <1>2, <1>5, <2>1, <2>5, <2>7, <3>3
  <2> QED
    BY <2>6, <2>7
<1> QED
  BY <1>2, <1>6, <1>7, <1>8

\* The CPU compares an element of the two arrays.
LEMMA CompareStep ==
  ASSUME LoadedInv, NEW gnt, CompareElement(gnt)
  PROVE  LoadedInv'
<1>1. /\ Running /\ Step.do = "compare" /\ Top!Tick(Top!NoRequest, gnt)
      /\ \/ pc' = pc + 1 /\ index' = 0
         \/ pc' = pc /\ index' = index + 1
      /\ UNCHANGED <<program, waiting>>
  BY DEF CompareElement
<1>2. ~waiting /\ ~sbr.valid
  BY <1>1 DEF LoadedInv, AccessInv, Top!NoRequest
<1>3. /\ sbr' = Top!NoRequest /\ (state' = "IDLE" <=> state = "IDLE")
      /\ started' = started /\ ParametersKept
  BY <1>1, <1>2, QuietCycle
<1>4. JobInv' /\ RegistersInv'
  BY <1>1, <1>3, SameStep, NextStepSameJob
<1>5. IndexInv'
  BY <1>1 DEF IndexInv, Running, Step, Main
<1>6. AccessInv'
  BY <1>1, <1>2, <1>3 DEF AccessInv, Top!NoRequest
<1>7. pc' \in Nat \ {0} /\ index' \in Nat
  BY <1>1 DEF LoadedInv
<1> QED
  BY <1>1, <1>4, <1>5, <1>6, <1>7 DEF LoadedInv

\* One cycle of CPU and accelerator, whatever each of them does.
LEMMA ProgStep ==
  ASSUME ProgramsDisciplined, ProgInv, [Next]_vars
  PROVE  ProgInv'
<1>1. CASE LoadProgram
  BY <1>1, Load
<1>2. ASSUME NEW gnt \in BOOLEAN,
             \/ Elsewhere(gnt) \/ WriteRegister(gnt) \/ ReadRegister(gnt)
             \/ Response(gnt) \/ CompareElement(gnt)
      PROVE  ProgInv'
  <2>1. program # "none" /\ program' = program
    <3>1. program = "none" => waiting = FALSE
      BY DEF ProgInv, ResetInv
    <3> QED
      BY <1>2, <3>1 DEF Elsewhere, WriteRegister, ReadRegister, Response, CompareElement,
        Running, cpu
  <2>2. LoadedInv
    BY <2>1 DEF ProgInv
  <2>3. LoadedInv'
    BY <1>2, <2>2, ElsewhereStep, AccessStep, ResponseStep, CompareStep
  <2> QED
    BY <2>1, <2>3 DEF ProgInv
<1>3. CASE UNCHANGED vars
  <2>1. UNCHANGED <<program, pc, index, waiting, state, operation, source_array_address,
                    number_of_elements, destination_array_address, sbr, started>>
    BY <1>3 DEF vars, cpu, accelerator
  <2>2. ParametersKept
    BY <2>1 DEF ParametersKept
  <2>3. CASE program = "none"
    BY <2>1, <2>3 DEF ProgInv, ResetInv, Top!NoRequest
  <2>4. CASE program # "none"
    <3>1. LoadedInv
      BY <2>4 DEF ProgInv
    <3>2. JobInv' /\ RegistersInv'
      BY <2>1, <2>2, <3>1, SameStep
    <3>3. AccessInv' /\ IndexInv'
      BY <2>1, <3>1 DEF LoadedInv, AccessInv, IndexInv, Running, Step, Main, Request,
        Top!NoRequest
    <3> QED
      BY <2>1, <2>4, <3>1, <3>2, <3>3 DEF ProgInv, LoadedInv
  <2> QED
    BY <2>3, <2>4
<1> QED
  BY <1>1, <1>2, <1>3 DEF Next

\* No program is loaded after reset, and no register written.
LEMMA ProgInit == Init => ProgInv
BY DEF Init, Top!Init, ProgInv, ResetInv, Top!SIN

-----------------------------------------------------------------------------
(* What a program computes, read without time: shorts all along.           *)

Snapshots ==
  [op : Nat, src : Nat, n : Nat, dst : Nat, mem : [Top!Halfwords -> C!Shorts]]

\* The two instances of the software CORDIC are one.
LEMMA SameShorts == C!Shorts = R!Shorts
BY DEF C!Shorts, R!Shorts

\* And so is what they compute.
LEMMA SameSoftware ==
  ASSUME NEW op, NEW x, NEW y
  PROVE  C!SoftwareResult(op, x, y) = R!SoftwareResult(op, x, y)
BY DEF C!SoftwareResult, R!SoftwareResult, C!cordic, R!cordic, C!rotations, R!rotations,
  C!rotation, R!rotation, C!turns, R!turns, C!Short, R!Short, C!Quotient, R!Quotient,
  C!cordic_tab, R!cordic_tab, C!cordic_hyp_steps, R!cordic_hyp_steps,
  C!cordic_1K, R!cordic_1K, C!cordic_1Kp, R!cordic_1Kp, C!MUL, R!MUL,
  C!CORDIC_NTAB, R!CORDIC_NTAB, C!SIN, R!SIN, C!COS, R!COS, C!ATAN, R!ATAN, C!SQRT, R!SQRT,
  C!RECIPROCAL, R!RECIPROCAL

\* Zero is a short.
LEMMA ZeroIsShort == 0 \in C!Shorts
BY DEF C!Shorts

\* The results of the software are shorts.
LEMMA SoftwareIsShort ==
  ASSUME NEW op \in {SIN, COS, ATAN, SQRT, RECIPROCAL}, NEW x \in C!Shorts, NEW y \in C!Shorts
  PROVE  C!SoftwareResult(op, x, y) \in C!Shorts
<1>1. op \in {R!SIN, R!COS, R!ATAN, R!SQRT, R!RECIPROCAL} 
  BY DEF SIN, R!SIN, COS, R!COS, ATAN, R!ATAN, SQRT, R!SQRT, RECIPROCAL, R!RECIPROCAL
<1>2. R!SoftwareResult(op, x, y) \in R!Shorts
  BY <1>1, SameShorts, R!ResultsAreShorts
<1> QED
  BY <1>2, SameShorts, SameSoftware

\* And so is whatever an engine delivers.
LEMMA ResultIsShort ==
  ASSUME NEW op \in Nat, NEW x \in C!Shorts, NEW y \in C!Shorts
  PROVE  Top!Result(op, x, y) \in C!Shorts
<1>1. 0 \in C!Shorts
  BY ZeroIsShort
<1>2. CASE op = ATAN
  <2>1. Top!Result(op, x, y) = C!SoftwareResult(ATAN, x, y)
    BY <1>2 DEF Top!Result, ATAN, Top!ATAN, Top!SIN, Top!COS, Top!SQRT, Top!RECIPROCAL
  <2> QED
    BY <2>1, SoftwareIsShort
<1>3. CASE op \in {SIN, COS, SQRT, RECIPROCAL}
  <2>1. Top!Result(op, x, y) = C!SoftwareResult(op, x, 0)
    BY <1>3 DEF Top!Result, Top!ATAN, Top!SIN, Top!COS, Top!SQRT, Top!RECIPROCAL,
      ATAN, SIN, COS, SQRT, RECIPROCAL
  <2> QED
    BY <1>1, <1>3, <2>1, SoftwareIsShort
<1>4. CASE op \notin {SIN, COS, ATAN, SQRT, RECIPROCAL}
  <2>1. Top!Result(op, x, y) = 0
    BY <1>4 DEF Top!Result, Top!ATAN, Top!SIN, Top!COS, Top!SQRT, Top!RECIPROCAL,
      ATAN, SIN, COS, SQRT, RECIPROCAL
  <2> QED
    BY <1>1, <2>1
<1> QED
  BY <1>2, <1>3, <1>4

\* An element of an array lies in the memory.
LEMMA AtIsHalfword ==
  ASSUME NEW base \in Nat, NEW k \in Nat
  PROVE  Top!At(base, k) \in Top!Halfwords
BY DEF Top!At, Top!Wrap, Top!AddrSpace, Top!Halfwords, NumWords

\* A job leaves a memory of shorts.
LEMMA CompletedType ==
  ASSUME NEW s \in Snapshots
  PROVE  Completed(s) \in [Top!Halfwords -> C!Shorts]
<1>1. /\ s.op \in Nat /\ s.src \in Nat /\ s.n \in Nat /\ s.dst \in Nat
      /\ s.mem \in [Top!Halfwords -> C!Shorts] /\ 0 \in C!Shorts
  BY ZeroIsShort DEF Snapshots
<1>2. ASSUME NEW k \in Nat
      PROVE  Top!ResultOf(s, k) \in C!Shorts
  <2>1. /\ Top!At(s.src, 2 * k) \in Top!Halfwords /\ Top!At(s.src, 2 * k + 1) \in Top!Halfwords
        /\ Top!At(s.src, k) \in Top!Halfwords
    BY <1>1, AtIsHalfword
  <2> DEFINE a == s.mem[Top!At(s.src, 2 * k)]
             b == s.mem[Top!At(s.src, 2 * k + 1)]
             c == s.mem[Top!At(s.src, k)]
  <2>2. a \in C!Shorts /\ b \in C!Shorts /\ c \in C!Shorts
    BY <1>1, <2>1
  <2>3. Top!ResultOf(s, k) =
          IF s.op = Top!ATAN THEN Top!Result(s.op, a, b) ELSE Top!Result(s.op, c, 0)
    BY DEF Top!ResultOf
  <2> HIDE DEF a, b, c
  <2>4. Top!Result(s.op, a, b) \in C!Shorts /\ Top!Result(s.op, c, 0) \in C!Shorts
    BY <1>1, <2>2, ResultIsShort
  <2> QED
    BY <2>3, <2>4
<1>3. ASSUME NEW h \in Top!Halfwords, 0 <= h - s.dst \div 2
      PROVE  h - s.dst \div 2 \in Nat
  BY <1>1, <1>3 DEF Top!Halfwords, NumWords
<1> QED
  BY <1>1, <1>2, <1>3 DEF Completed

\* The steps of main() keep their snapshots of that kind.
LEMMA EffectType ==
  ASSUME NEW step, step.do = "write" => step.value \in Top!WordRange, NEW s \in Snapshots
  PROVE  Effect(step, s) \in Snapshots
<1>1. /\ s.op \in Nat /\ s.src \in Nat /\ s.n \in Nat /\ s.dst \in Nat
      /\ s.mem \in [Top!Halfwords -> C!Shorts]
  BY DEF Snapshots
<1>2. \A reg : WritesTo(step, reg) => step.value \in Nat
  BY DEF WritesTo, Top!WordRange, Top!AddrSpace, NumWords
<1>3. Completed(s) \in [Top!Halfwords -> C!Shorts]
  BY CompletedType
<1> QED
  BY <1>1, <1>2, <1>3 DEF Effect, Snapshots

\* A program is loaded as shorts.
LEMMA ImageType ==
  ASSUME NEW p, ComparesEqual(p)
  PROVE  Image(p) \in [Top!Halfwords -> C!Shorts]
<1>1. p.source \in Seq(C!Shorts) /\ p.hardware \in Seq(C!Shorts) /\ 0 \in C!Shorts
  BY ZeroIsShort DEF ComparesEqual
<1>2. Top!Halfwords = 0 .. 2 * NumWords - 1
  BY DEF Top!Halfwords
<1> SUFFICES ASSUME NEW h \in Top!Halfwords
             PROVE  Image(p)[h] \in C!Shorts
  BY <1>2 DEF Image
<1> DEFINE d == h - destination_array \div 2
<1>3. h \in Nat /\ d \in Int
  BY <1>2 DEF NumWords, destination_array
<1>4. ASSUME NEW q \in Seq(C!Shorts), NEW i \in Nat, i < Len(q)
      PROVE  q[i + 1] \in C!Shorts
  BY <1>4
<1> HIDE DEF d
<1> QED
  <2>1. Image(p)[h] = IF h < Len(p.source) THEN p.source[h + 1]
                       ELSE IF 0 <= d /\ d < Len(p.hardware)
                       THEN p.hardware[d + 1] ELSE 0
    BY <1>2 DEF Image, d
  <2> QED
    BY <1>1, <1>3, <1>4, <2>1

\* f is what main() of p makes of the registers and the memory, step by step.
IsReading(f, p) ==
  f = [i \in 0 .. Len(p.main) |->
         IF i = 0 THEN [op |-> SIN, src |-> 0, n |-> 0, dst |-> 0, mem |-> Image(p)]
         ELSE Effect(p.main[i], f[i - 1])]

\* Every program can be read, from its first step to its last.
LEMMA ReadingExists ==
  ASSUME NEW p, Len(p.main) \in Nat, ComparesEqual(p)
  PROVE  IsReading(InSteps(p), p)
<1> DEFINE N == Len(p.main)
           start == [op |-> SIN, src |-> 0, n |-> 0, dst |-> 0, mem |-> Image(p)]
           F == [i \in 1 .. N |-> [s \in Snapshots |-> Effect(p.main[i], s)]]
           Reading(f) == f = [i \in 0 .. N |-> IF i = 0 THEN start
                                ELSE Effect(p.main[i], f[i - 1])]
<1>1. start \in Snapshots
  BY ImageType DEF Snapshots, SIN
<1>2. F \in [1 .. N -> [Snapshots -> Snapshots]]
  <2>1. \A i \in 1 .. N : p.main[i].do = "write" => p.main[i].value \in Top!WordRange
    BY DEF ComparesEqual
  <2> QED
    BY <2>1, EffectType
<1>3. \E f : Reading(f)
  <2> HIDE DEF N, start, F
  <2>0. N \in Nat
    BY DEF N
  <2>1. PICK f : R!Iterates(f, N, start, F)
    BY <1>1, <1>2, <2>0, R!LoopExists
  <2> DEFINE T == {n \in Nat : n <= N => f[n] \in Snapshots}
  <2>2. 0 \in T
    BY <1>1, <2>0, <2>1 DEF R!Iterates
  <2>3. ASSUME NEW n \in Nat, n \in T
        PROVE  n + 1 \in T
    <3>1. SUFFICES ASSUME n + 1 <= N
                   PROVE  f[n + 1] \in Snapshots
      OBVIOUS
    <3>2. f[n + 1] = F[n + 1][f[n]]
      BY <2>0, <2>1, <3>1 DEF R!Iterates
    <3>3. f[n] \in Snapshots
      BY <2>0, <2>3, <3>1
    <3> QED
      BY <1>2, <2>0, <3>1, <3>2, <3>3
  <2>4. Nat \subseteq T
    <3> HIDE DEF T
    <3> QED
      BY <2>2, <2>3, R!SetInduction
  <2>5. ASSUME NEW i \in 0 .. N, i # 0
        PROVE  F[i][f[i - 1]] = Effect(p.main[i], f[i - 1])
    <3>1. f[i - 1] \in Snapshots
      BY <2>0, <2>4, <2>5
    <3> QED
      BY <2>0, <2>5, <3>1 DEF F
  <2>6. Reading(f)
    BY <2>1, <2>5 DEF R!Iterates
  <2> QED
    BY <2>6
<1>4. InSteps(p) = CHOOSE f : Reading(f)
  BY DEF InSteps
<1>5. Reading(InSteps(p))
  <2> HIDE DEF Reading
  <2> QED
    BY <1>3, <1>4
<1> QED
  BY <1>5 DEF IsReading

\* Where the reading begins, and how it goes on.
LEMMA ReadingSteps ==
  ASSUME NEW p, Len(p.main) \in Nat, ComparesEqual(p)
  PROVE  /\ InSteps(p)[0] = [op |-> SIN, src |-> 0, n |-> 0, dst |-> 0, mem |-> Image(p)]
         /\ \A i \in 1 .. Len(p.main) : InSteps(p)[i] = Effect(p.main[i], InSteps(p)[i - 1])
<1> DEFINE f == InSteps(p)
<1>1. f = [i \in 0 .. Len(p.main) |->
         IF i = 0 THEN [op |-> SIN, src |-> 0, n |-> 0, dst |-> 0, mem |-> Image(p)]
         ELSE Effect(p.main[i], f[i - 1])]
  BY ReadingExists DEF IsReading
<1> HIDE DEF f
<1>2. f[0] = [op |-> SIN, src |-> 0, n |-> 0, dst |-> 0, mem |-> Image(p)]
  BY <1>1
<1>3. \A i \in 1 .. Len(p.main) : f[i] = Effect(p.main[i], f[i - 1])
  BY <1>1
<1> QED
  BY <1>2, <1>3 DEF f

-----------------------------------------------------------------------------
(* CrocdicTop with the arithmetic and the memory of the programs: what      *)
(* CrocdicProofs proves of it.                                       *)

\* What the CPU may ask of the register file.
BusRequests ==
  [valid : {TRUE}, we : BOOLEAN, reg : Registers, wdata : 0 .. 4 * NumWords - 1]

P == INSTANCE CrocdicProofs WITH
  Data <- C!Shorts, Zero <- 0, NoData <- 2^15,
  Unary <- LAMBDA op, x : C!SoftwareResult(op, x, 0),
  Atan <- LAMBDA x, y : C!SoftwareResult(ATAN, x, y),
  ITER <- C!CORDIC_NTAB, InitMem <- [h \in 0 .. 2 * NumWords - 1 |-> 0],
  Requests <- BusRequests, MaxJobs <- 2

\* The assumptions on the constants of CrocdicTop hold of them.
LEMMA ConstantsFit ==
  /\ 0 \in C!Shorts /\ 2^15 \notin C!Shorts
  /\ \A op \in {P!SIN, P!COS, P!SQRT, P!RECIPROCAL}, x \in C!Shorts :
       C!SoftwareResult(op, x, 0) \in C!Shorts
  /\ \A x, y \in C!Shorts : C!SoftwareResult(ATAN, x, y) \in C!Shorts
  /\ NumWords \in Nat \ {0}
  /\ [h \in 0 .. 2 * NumWords - 1 |-> 0] \in [P!Halfwords -> C!Shorts]
  /\ C!CORDIC_NTAB \in Nat \ {0}
  /\ BusRequests \subseteq P!RequestType
  /\ MaxDenied \in Nat /\ 2 \in Nat
<1>1. 0 \in C!Shorts
  BY ZeroIsShort
<1>2. 2^15 \notin C!Shorts
  BY DEF C!Shorts
<1>3. \A op \in {P!SIN, P!COS, P!SQRT, P!RECIPROCAL} :
        op \in {SIN, COS, ATAN, SQRT, RECIPROCAL}
  BY DEF P!SIN, P!COS, P!SQRT, P!RECIPROCAL, SIN, COS, SQRT, RECIPROCAL
<1>4. \A op \in {P!SIN, P!COS, P!SQRT, P!RECIPROCAL}, x \in C!Shorts :
        C!SoftwareResult(op, x, 0) \in C!Shorts
  BY <1>1, <1>3, SoftwareIsShort
<1>5. \A x, y \in C!Shorts : C!SoftwareResult(ATAN, x, y) \in C!Shorts
  BY SoftwareIsShort
<1>6. NumWords \in Nat \ {0}
  BY DEF NumWords
<1>7. [h \in 0 .. 2 * NumWords - 1 |-> 0] \in [P!Halfwords -> C!Shorts]
  BY <1>1 DEF P!Halfwords
<1>8. C!CORDIC_NTAB \in Nat \ {0}
  BY DEF C!CORDIC_NTAB
<1>9. BusRequests \subseteq P!RequestType
  BY DEF BusRequests, P!RequestType, P!Registers, Registers, P!WordRange, P!AddrSpace
<1> QED
  BY <1>1, <1>2, <1>4, <1>5, <1>6, <1>7, <1>8, <1>9, ProgramsAssumption

\* So what is proved of every cycle of CrocdicTop, and of its power-up, holds
\* here.
LEMMA InvTick ==
  ASSUME P!ResultsInv, NEW req \in BusRequests \cup {P!NoRequest}, NEW gnt \in BOOLEAN,
         P!Tick(req, gnt)
  PROVE  P!ResultsInv'
BY ConstantsFit, P!ResultsTick

\* At power-up it holds.
LEMMA InvInit ==
  ASSUME P!Init
  PROVE  P!ResultsInv
BY ConstantsFit, P!ResultsInit

\* The two instances of CrocdicTop are one: they differ in the requests the
\* environment may make, and a cycle names its request.
LEMMA SameEdge ==
  ASSUME NEW req, NEW gnt, NEW en, Top!ClockEdge(req, gnt, en)
  PROVE  P!ClockEdge(req, gnt, en)
BY DEF Top!ClockEdge, P!ClockEdge, Top!SubordinatePort, P!SubordinatePort,
  Top!ManagerPort, P!ManagerPort, Top!Crossbar, P!Crossbar, Top!Sram, P!Sram,
  Top!CordicEngines, P!CordicEngines, Top!MgrReq, P!MgrReq, Top!MgrWe, P!MgrWe,
  Top!MemRead, P!MemRead, Top!ReadAddr, P!ReadAddr, Top!NoPair, P!NoPair, Top!Pair, P!Pair,
  Top!Lane, P!Lane, Top!MemAfterWrite, P!MemAfterWrite, Top!WriteAddr, P!WriteAddr,
  Top!WriteOne, P!WriteOne, Top!WriteData, P!WriteData, Top!Halfwords, P!Halfwords,
  Top!Wrap, P!Wrap, Top!AddrSpace, P!AddrSpace, Top!ATAN, P!ATAN, Top!Engines, P!Engines,
  Top!CordicNext, P!CordicNext, Top!CordicLoad, P!CordicLoad,
  Top!CordicIterate, P!CordicIterate, Top!Kfinal, P!Kfinal, Top!SQRT, P!SQRT

\* At rest, ...
LEMMA SameAtRest ==
  ASSUME NEW req, NEW gnt,
         Top!IdleStart(req, gnt) \/ Top!IdleWriteRegister(req, gnt) \/ Top!IdleOther(req, gnt)
  PROVE  P!IdleStart(req, gnt) \/ P!IdleWriteRegister(req, gnt) \/ P!IdleOther(req, gnt)
<1>1. \A reg : Top!Writes(reg) <=> P!Writes(reg)
  BY DEF Top!Writes, P!Writes
<1>2. CASE Top!IdleStart(req, gnt)
  BY <1>1, <1>2, SameEdge DEF Top!IdleStart, P!IdleStart, Top!ThisJob, P!ThisJob,
    Top!regs, P!regs
<1>3. CASE Top!IdleWriteRegister(req, gnt)
  BY <1>1, <1>3, SameEdge DEF Top!IdleWriteRegister, P!IdleWriteRegister, Top!datapath,
    P!datapath, Top!history, P!history, Top!Parameters, P!Parameters
<1>4. CASE Top!IdleOther(req, gnt)
  BY <1>1, <1>4, SameEdge DEF Top!IdleOther, P!IdleOther, Top!regs, P!regs, Top!datapath,
    P!datapath, Top!history, P!history, Top!Parameters, P!Parameters
<1> QED
  BY <1>2, <1>3, <1>4

\* while it reads, ...
LEMMA SameReads ==
  ASSUME NEW req, NEW gnt,
         Top!ReadElements(req, gnt) \/ Top!WaitReadResponse(req, gnt)
  PROVE  P!ReadElements(req, gnt) \/ P!WaitReadResponse(req, gnt)
BY SameEdge DEF Top!ReadElements, P!ReadElements, Top!WaitReadResponse, P!WaitReadResponse,
  Top!regs, P!regs, Top!datapath, P!datapath, Top!history, P!history, Top!ATAN, P!ATAN,
  Top!Wrap, P!Wrap, Top!AddrSpace, P!AddrSpace

\* in what the engines deliver, ...
LEMMA SameOutput ==
  ASSUME NEW c, NEW op
  PROVE  Top!Output(c, op) = P!Output(c, op)
<1>1. \A x, y : Top!Result(op, x, y) = P!Result(op, x, y)
  BY DEF Top!Result, P!Result, Top!ATAN, P!ATAN, Top!SIN, P!SIN, Top!COS, P!COS,
    Top!SQRT, P!SQRT, Top!RECIPROCAL, P!RECIPROCAL
<1> QED
  BY <1>1 DEF Top!Output, P!Output

\* while they compute, ...
LEMMA SameCordic ==
  ASSUME NEW req, NEW gnt,
         Top!StartCordic(req, gnt) \/ Top!WaitCordic(req, gnt)
  PROVE  P!StartCordic(req, gnt) \/ P!WaitCordic(req, gnt)
BY SameEdge, SameOutput DEF Top!StartCordic, P!StartCordic, Top!WaitCordic, P!WaitCordic,
  Top!regs, P!regs, Top!datapath, P!datapath, Top!history, P!history,
  Top!CordicDone, P!CordicDone, Top!Engines, P!Engines

\* and while it writes, ...
LEMMA SameWrites ==
  ASSUME NEW req, NEW gnt,
         \/ Top!WriteElements(req, gnt) \/ Top!WaitWriteResponse(req, gnt)
         \/ Top!Done(req, gnt)
  PROVE  \/ P!WriteElements(req, gnt) \/ P!WaitWriteResponse(req, gnt)
         \/ P!Done(req, gnt)
BY SameEdge DEF Top!WriteElements, P!WriteElements, Top!WaitWriteResponse,
  P!WaitWriteResponse, Top!Done, P!Done, Top!NoJob, P!NoJob, Top!SIN, P!SIN,
  Top!regs, P!regs, Top!datapath, P!datapath, Top!history, P!history, Top!ATAN, P!ATAN,
  Top!Wrap, P!Wrap, Top!AddrSpace, P!AddrSpace, Top!LastChunk, P!LastChunk,
  Top!Step, P!Step

\* every cycle of the one is a cycle of the other,
LEMMA SameTick ==
  ASSUME NEW req, NEW gnt, Top!Tick(req, gnt)
  PROVE  P!Tick(req, gnt)
BY SameAtRest, SameReads, SameCordic, SameWrites DEF Top!Tick, P!Tick

\* and they start alike.
LEMMA SameInit == Top!Init => P!Init
BY DEF Top!Init, P!Init, Top!SIN, P!SIN, Top!Engines, P!Engines, Top!Pair, P!Pair,
  Top!NoRequest, P!NoRequest, Top!NoResponse, P!NoResponse, Top!NoPair, P!NoPair,
  Top!CordicReset, P!CordicReset, Top!NoSramResponse, P!NoSramResponse, Top!NoJob, P!NoJob

\* They mean the same by a job and its results.
LEMMA SameArrays ==
  ASSUME NEW s
  PROVE  /\ Top!WellFormed(s) <=> P!WellFormed(s)
         /\ Top!NumResults(s) = P!NumResults(s)
         /\ \A k : Top!ResultOf(s, k) = P!ResultOf(s, k)
         /\ Top!Halfwords = P!Halfwords
<1>1. \A base, k : Top!At(base, k) = P!At(base, k)
  BY DEF Top!At, P!At, Top!Wrap, P!Wrap, Top!AddrSpace, P!AddrSpace
<1>2. Top!NumResults(s) = P!NumResults(s)
  BY DEF Top!NumResults, P!NumResults, Top!ATAN, P!ATAN
<1>3. Top!WellFormed(s) <=> P!WellFormed(s)
  BY <1>1, <1>2 DEF Top!WellFormed, P!WellFormed, Top!Aligned, P!Aligned, Top!Fits, P!Fits,
    Top!OverlapSafe, P!OverlapSafe, Top!Operands, P!Operands, Top!ATAN, P!ATAN,
    Top!AddrSpace, P!AddrSpace
<1>4. \A op, x, y : Top!Result(op, x, y) = P!Result(op, x, y)
  BY DEF Top!Result, P!Result, Top!ATAN, P!ATAN, Top!SIN, P!SIN, Top!COS, P!COS,
    Top!SQRT, P!SQRT, Top!RECIPROCAL, P!RECIPROCAL
<1>5. \A k : Top!ResultOf(s, k) = P!ResultOf(s, k)
  BY <1>1, <1>4 DEF Top!ResultOf, P!ResultOf, Top!ATAN, P!ATAN
<1>6. Top!Halfwords = P!Halfwords
  BY DEF Top!Halfwords, P!Halfwords
<1> QED
  BY <1>2, <1>3, <1>5, <1>6

-----------------------------------------------------------------------------
(* The accelerator follows that reading.                                    *)

\* What main() has made of the registers and the memory so far, read as a
\* sequential program.
Now == InSteps(Programs[program])[pc - 1]

\* The registers are as in that reading; so is the memory while CROCDIC rests,
\* and a job that runs has been started from there.
ReadingInv ==
  /\ pc <= Len(Main) + 1
  /\ operation = Now.op /\ source_array_address = Now.src
  /\ number_of_elements = Now.n /\ destination_array_address = Now.dst
  /\ JobRuns(Main, pc) => job = Now
  /\ ~JobRuns(Main, pc) => mem = Now.mem

\* A comparison stays within its bounds and finds equal elements.
ComparisonInv ==
  /\ mismatch_counter = 0
  /\ Running /\ Step.do = "compare" => Step.first + index <= Step.last

ComparedInv ==
  IF program = "none" THEN mismatch_counter = 0 ELSE ReadingInv /\ ComparisonInv

\* CROCDIC writes the memory and begins or ends jobs only where it may.
LEMMA MemoryAtRest ==
  ASSUME NEW req, NEW gnt, Top!Tick(req, gnt)
  PROVE  /\ state \in {"IDLE", "DONE"} => mem' = mem
         /\ state = "IDLE" /\ Top!Writes("START") => job' = Top!ThisJob
         /\ state # "IDLE" /\ state' # "IDLE" => job' = job
<1>1. \E en : Top!ClockEdge(req, gnt, en)
  BY DEF Top!Tick, Top!IdleStart, Top!IdleWriteRegister, Top!IdleOther, Top!ReadElements,
    Top!WaitReadResponse, Top!StartCordic, Top!WaitCordic, Top!WriteElements,
    Top!WaitWriteResponse, Top!Done
<1>2. state \in {"IDLE", "DONE"} => mem' = mem
  BY <1>1 DEF Top!ClockEdge, Top!Sram, Top!MgrWe
<1>3. ASSUME state = "IDLE", Top!Writes("START")
      PROVE  job' = Top!ThisJob
  BY <1>3 DEF Top!Tick, Top!IdleStart, Top!IdleWriteRegister, Top!IdleOther,
    Top!ReadElements, Top!WaitReadResponse, Top!StartCordic, Top!WaitCordic,
    Top!WriteElements, Top!WaitWriteResponse, Top!Done, Top!Parameters, Top!Writes
<1>4. ASSUME state # "IDLE", state' # "IDLE"
      PROVE  job' = job
  BY <1>4 DEF Top!Tick, Top!IdleStart, Top!IdleWriteRegister, Top!IdleOther,
    Top!ReadElements, Top!WaitReadResponse, Top!StartCordic, Top!WaitCordic,
    Top!WriteElements, Top!WaitWriteResponse, Top!Done, Top!history
<1> QED
  BY <1>2, <1>3, <1>4

\* The reading goes on with the step main() has done.
LEMMA NowNext ==
  ASSUME ProgramsDisciplined, ProgramsCompareEqual, LoadedInv, Running,
         program' = program, pc' = pc + 1
  PROVE  Now' = Effect(Step, Now)
<1> DEFINE p == Programs[program]
<1>1. program \in DOMAIN Programs /\ pc \in 1 .. Len(p.main) /\ Step = p.main[pc]
  BY DEF LoadedInv, Running, ProgramsDisciplined, Disciplined, Main, Step
<1>2. Len(p.main) \in Nat /\ ComparesEqual(p)
  BY <1>1 DEF ProgramsDisciplined, Disciplined, ProgramsCompareEqual
<1>3. Now' = InSteps(p)[pc]
  <2>1. Now' = InSteps(p)[(pc + 1) - 1]
    BY DEF Now
  <2> QED
    BY <1>1, <2>1
<1>4. InSteps(p)[pc] = Effect(p.main[pc], InSteps(p)[pc - 1])
  <2> HIDE DEF p
  <2> QED
    BY <1>1, <1>2, ReadingSteps
<1> QED
  BY <1>1, <1>3, <1>4 DEF Now

\* And what its fields are then.
LEMMA EffectFields ==
  ASSUME NEW step, NEW s
  PROVE  /\ Effect(step, s).op = IF WritesTo(step, "OPERATION") THEN step.value ELSE s.op
         /\ Effect(step, s).src = IF WritesTo(step, "SOURCE") THEN step.value ELSE s.src
         /\ Effect(step, s).n = IF WritesTo(step, "NR_OF_ELEMENTS") THEN step.value ELSE s.n
         /\ Effect(step, s).dst = IF WritesTo(step, "DESTINATION") THEN step.value ELSE s.dst
         /\ Effect(step, s).mem = IF step.do = "await" THEN Completed(s) ELSE s.mem
         /\ Effect(step, s) = [op |-> Effect(step, s).op, src |-> Effect(step, s).src,
                               n |-> Effect(step, s).n, dst |-> Effect(step, s).dst,
                               mem |-> Effect(step, s).mem]
BY DEF Effect

\* The reading consists of records of the five.
LEMMA NowRecord ==
  ASSUME ProgramsDisciplined, ProgramsCompareEqual, LoadedInv, pc <= Len(Main) + 1
  PROVE  Now = [op |-> Now.op, src |-> Now.src, n |-> Now.n, dst |-> Now.dst,
                mem |-> Now.mem]
<1> DEFINE p == Programs[program]
<1>1. Len(p.main) \in Nat /\ ComparesEqual(p) /\ pc \in 1 .. Len(p.main) + 1
  BY DEF LoadedInv, Main, ProgramsDisciplined, Disciplined, ProgramsCompareEqual
<1>2. Now = InSteps(p)[pc - 1]
  BY DEF Now
<1> HIDE DEF p
<1>3. CASE pc = 1
  <2>1. InSteps(p)[0] = [op |-> SIN, src |-> 0, n |-> 0, dst |-> 0, mem |-> Image(p)]
    BY <1>1, ReadingSteps
  <2> QED
    BY <1>2, <1>3, <2>1
<1>4. CASE pc # 1
  <2>1. pc - 1 \in 1 .. Len(p.main)
    BY <1>1, <1>4
  <2>2. InSteps(p)[pc - 1] = Effect(p.main[pc - 1], InSteps(p)[pc - 1 - 1])
    BY <1>1, <2>1, ReadingSteps
  <2> QED
    BY <1>2, <2>2, EffectFields
<1> QED
  BY <1>3, <1>4

\* A write has one register.
LEMMA PresentWrite ==
  ASSUME ProgramsDisciplined, LoadedInv, Running, Step.do = "write",
         NEW reg \in Parameters \cup {"START"}
  PROVE  WritesTo(Step, reg) <=> Decode(Step.addr) = reg
<1>1. Parameters \cup {"START"} \subseteq DOMAIN Present
  BY DEF Parameters, Present
<1>2. ASSUME WritesTo(Step, reg)
      PROVE  Decode(Step.addr) = reg
  BY <1>1, <1>2, DecodeRegister DEF WritesTo
<1>3. program \in DOMAIN Programs /\ pc \in 1 .. Len(Main) /\ Disciplined(Main)
  BY DEF LoadedInv, Running, ProgramsDisciplined, Disciplined, Main
<1>4. PICK other \in Parameters \cup {"START"} : WritesTo(Step, other)
  BY <1>3 DEF Disciplined, Step
<1>5. Decode(Step.addr) = other
  BY <1>1, <1>4, DecodeRegister DEF WritesTo
<1> QED
  BY <1>2, <1>4, <1>5

\* When CROCDIC reports the end of a well-formed job, the memory is as the
\* reading completes it.
LEMMA DoneIsCompleted ==
  ASSUME P!ResultsInv, state = "DONE", job = Now, Top!WellFormed(Now)
  PROVE  mem = Completed(Now)
<1>1. mem \in [Top!Halfwords -> C!Shorts]
  BY SameArrays DEF P!ResultsInv, P!IInv, P!TypeOK
<1>2. P!Holds(mem, job, P!NumResults(job))
  <2>1. P!WellFormed(job)
    BY SameArrays
  <2> QED
    BY <2>1 DEF P!ResultsInv, P!DoneInv
<1>3. Top!NumResults(job) = P!NumResults(job)
      /\ \A k : Top!ResultOf(job, k) = P!ResultOf(job, k)
      /\ Top!Halfwords = P!Halfwords
  BY SameArrays
<1>4. ASSUME NEW h \in Top!Halfwords
      PROVE  mem[h] = Completed(job)[h]
  <2> DEFINE k == h - job.dst \div 2
  <2>1. mem[h] = IF 0 <= k /\ k < P!NumResults(job) /\ k < P!NumResults(job)
                 THEN P!ResultOf(job, k) ELSE job.mem[h]
    BY <1>2, <1>3 DEF P!Holds
  <2>2. Completed(job)[h] = IF 0 <= k /\ k < Top!NumResults(job)
                            THEN Top!ResultOf(job, k) ELSE job.mem[h]
    BY DEF Completed
  <2> HIDE DEF k
  <2> QED
    BY <1>3, <2>1, <2>2
<1>5. Completed(job) = [h \in Top!Halfwords |-> Completed(job)[h]]
  BY DEF Completed
<1>6. mem = [h \in Top!Halfwords |-> mem[h]]
  BY <1>1
<1> QED
  BY <1>4, <1>5, <1>6

\* What the reading says of the present step.
LEMMA ReadStep ==
  ASSUME ProgramsCompareEqual, LoadedInv, Running, Len(Main) \in Nat
  PROVE  /\ Step.do = "write" => Step.value \in Top!WordRange
         /\ Step.do = "await" => Top!WellFormed(Now)
         /\ Step.do = "compare" =>
              /\ ~JobRuns(Main, pc)
              /\ Step.first \in Nat /\ Step.last \in Nat /\ Step.first <= Step.last
              /\ \A k \in Step.first .. Step.last :
                   Programs[program].software[k] = Now.mem[destination_array \div 2 + k - 1]
<1> DEFINE p == Programs[program]
<1>1. program \in DOMAIN Programs /\ pc \in 1 .. Len(p.main)
      /\ Step = p.main[pc] /\ Main = p.main
  BY DEF LoadedInv, Running, Main, Step
<1>2. ComparesEqual(p)
  BY <1>1 DEF ProgramsCompareEqual
<1> HIDE DEF p
<1>3. /\ p.main[pc].do = "write" => p.main[pc].value \in Top!WordRange
      /\ p.main[pc].do = "await" => Top!WellFormed(InSteps(p)[pc - 1])
      /\ p.main[pc].do = "compare" =>
           /\ ~JobRuns(p.main, pc)
           /\ p.main[pc].first \in Nat /\ p.main[pc].last \in Nat
           /\ p.main[pc].first <= p.main[pc].last
           /\ \A k \in p.main[pc].first .. p.main[pc].last :
                p.software[k] = InSteps(p)[pc - 1].mem[destination_array \div 2 + k - 1]
  BY <1>1, <1>2 DEF ComparesEqual
<1> QED
  BY <1>1, <1>3 DEF Now, p

\* main() has a length.
LEMMA MainLength ==
  ASSUME ProgramsDisciplined, LoadedInv
  PROVE  Len(Main) \in Nat
BY DEF ProgramsDisciplined, Disciplined, LoadedInv, Main

\* The CPU asks for what the accelerator's proofs allow for.
LEMMA AccessIsRequest ==
  ASSUME ProgramsDisciplined, ProgramsCompareEqual, LoadedInv, Running
  PROVE  /\ Step.do = "write" => Request(TRUE, Step.addr, Step.value) \in BusRequests
         /\ Step.do \in {"await", "string"} =>
              Request(FALSE, Step.addr + index, 0) \in BusRequests
<1>1. ASSUME Step.do = "write"
      PROVE  Request(TRUE, Step.addr, Step.value) \in BusRequests
  <2>1. Decode(Step.addr) \in Registers
    BY <1>1, PresentStep DEF Parameters, Registers
  <2>2. Step.value \in 0 .. 4 * NumWords - 1
    BY <1>1, ReadStep, MainLength DEF Top!WordRange, Top!AddrSpace
  <2> QED
    BY <2>1, <2>2 DEF Request, BusRequests
<1>2. ASSUME Step.do \in {"await", "string"}
      PROVE  Request(FALSE, Step.addr + index, 0) \in BusRequests
  <2>1. CASE Step.do = "await"
    <3>1. index = 0 /\ Decode(Step.addr) = "DONE"
      BY <2>1, PresentStep DEF LoadedInv, IndexInv
    <3>2. Step.addr + index = Step.addr
      BY <2>1, <3>1 DEF ProgramsDisciplined, LoadedInv, Running, Disciplined, Step, Main,
        Present, WritesTo
    <3>3. Decode(Step.addr + index) \in Registers
      BY <3>1, <3>2 DEF Registers
    <3> QED
      BY <3>3 DEF Request, BusRequests, NumWords
  <2>2. CASE Step.do = "string"
    <3>1. Step.addr + index \in 0 .. NameLength
      BY <2>2, PresentStep DEF LoadedInv, IndexInv, NameLength
    <3>2. Decode(Step.addr + index) \in Registers
      BY <3>1 DEF Decode, Present, NameLength, Registers
    <3> QED
      BY <3>2 DEF Request, BusRequests, NumWords
  <2> QED
    BY <1>2, <2>1, <2>2
<1> QED
  BY <1>1, <1>2

\* So every cycle keeps what is proved of the accelerator.
LEMMA TickKeepsResults ==
  ASSUME P!ResultsInv, NEW req \in BusRequests \cup {Top!NoRequest}, NEW gnt \in BOOLEAN,
         Top!Tick(req, gnt)
  PROVE  P!ResultsInv'
<1>1. req \in BusRequests \cup {P!NoRequest}
  BY DEF Top!NoRequest, P!NoRequest
<1> QED
  BY <1>1, SameTick, InvTick

-----------------------------------------------------------------------------
(* Every step keeps the invariant of the comparing programs.                *)

\* A comparison begins within its bounds.
LEMMA ComparisonStarts ==
  ASSUME ProgramsDisciplined, ProgramsCompareEqual, LoadedInv', index' = 0
  PROVE  (Running /\ Step.do = "compare" => Step.first + index <= Step.last)'
<1> SUFFICES ASSUME Running', (Step.do)' = "compare"
             PROVE  (Step.first)' + index' <= (Step.last)'
  OBVIOUS
<1>1. program' \in DOMAIN Programs /\ pc' \in Nat \ {0} /\ pc' <= Len(Programs[program'].main)
  BY DEF LoadedInv, Running, Main
<1>2. Disciplined(Programs[program'].main) /\ ComparesEqual(Programs[program'])
  BY <1>1 DEF ProgramsDisciplined, ProgramsCompareEqual
<1>3. pc' \in 1 .. Len(Programs[program'].main)
  BY <1>1, <1>2 DEF Disciplined
<1>4. Step' = Programs[program'].main[pc']
  BY DEF Step, Main
<1>5. /\ (Step.first)' \in Nat /\ (Step.first)' <= (Step.last)'
  BY <1>2, <1>3, <1>4 DEF ComparesEqual
<1> QED
  BY <1>5

\* DONE is read as zero as long as CROCDIC is busy.
LEMMA AwaitedState ==
  ASSUME ProgramsDisciplined, LoadedInv, Running, Step.do = "await", state # "IDLE",
         sbr = Request(FALSE, Step.addr + index, 0),
         NEW gnt, Top!Tick(Top!NoRequest, gnt)
  PROVE  /\ ParametersKept /\ (state' = "IDLE" <=> ~ReadsZero)
         /\ ~ReadsZero <=> state = "DONE"
<1>1. Decode(Step.addr) = "DONE" /\ index = 0
  BY PresentStep DEF LoadedInv, IndexInv
<1>2. sbr.valid /\ ~sbr.we /\ sbr.reg = "DONE"
  <2>1. Step.addr + index = Step.addr
    BY <1>1, ProgramsDisciplined DEF LoadedInv, Running, ProgramsDisciplined, Disciplined, Step,
      Main, Present, WritesTo
  <2> QED
    BY <1>1, <2>1 DEF Request
<1>3. Top!SbrReply.rdata = IF state = "DONE" THEN "ones" ELSE "zero"
  BY <1>2 DEF Top!SbrReply
<1>4. ReadsZero <=> state # "DONE"
  BY <1>3 DEF ReadsZero
<1> QED
  BY <1>2, <1>4, DuringAJob

\* While the program is in the same step, and its job or its memory as they
\* were, the reading is too.
LEMMA SameReading ==
  ASSUME LoadedInv, ReadingInv, program' = program, pc' = pc, ParametersKept,
         state # "IDLE" => job' = job, state = "IDLE" => mem' = mem
  PROVE  ReadingInv'
<1>1. Main' = Main /\ Now' = Now
  BY DEF Main, Now
<1>2. state = "IDLE" <=> ~JobRuns(Main, pc)
  BY DEF LoadedInv, JobInv
<1>3. JobRuns(Main, pc)' <=> JobRuns(Main, pc)
  BY <1>1
<1> QED
  BY <1>1, <1>2, <1>3 DEF ReadingInv, ParametersKept

\* A step that writes nothing and awaits nothing has no effect on it.
LEMMA NextReadingSame ==
  ASSUME ProgramsDisciplined, ProgramsCompareEqual, LoadedInv, ReadingInv, Running,
         Step.do \notin {"write", "await"}, program' = program, pc' = pc + 1,
         ParametersKept, state # "IDLE" => job' = job, state = "IDLE" => mem' = mem
  PROVE  ReadingInv'
<1>1. Main' = Main /\ pc \in Nat \ {0} /\ pc + 1 <= Len(Main) + 1
  BY MainLength DEF Main, LoadedInv, Running
<1>2. Now' = Effect(Step, Now)
  BY NowNext
<1>3. /\ Now'.op = Now.op /\ Now'.src = Now.src /\ Now'.n = Now.n /\ Now'.dst = Now.dst
      /\ Now'.mem = Now.mem
      /\ Now' = [op |-> Now'.op, src |-> Now'.src, n |-> Now'.n, dst |-> Now'.dst,
                 mem |-> Now'.mem]
  BY <1>2, EffectFields DEF WritesTo
<1>4. JobRuns(Main, pc)' <=> JobRuns(Main, pc)
  BY <1>1, JobRunsNext DEF WritesTo, Step
<1>5. state = "IDLE" <=> ~JobRuns(Main, pc)
  BY DEF LoadedInv, JobInv
<1>6. Now' = Now
  <2>1. Now = [op |-> Now.op, src |-> Now.src, n |-> Now.n, dst |-> Now.dst,
               mem |-> Now.mem]
    BY NowRecord DEF ReadingInv
  <2> QED
    BY <1>3, <2>1
<1> QED
  BY <1>1, <1>4, <1>5, <1>6 DEF ReadingInv, ParametersKept

\* A write at rest has the effect the reading gives it.
LEMMA NextReadingWrite ==
  ASSUME ProgramsDisciplined, ProgramsCompareEqual, LoadedInv, ReadingInv, Running,
         Step.do = "write", sbr = Request(TRUE, Step.addr, Step.value),
         program' = program, pc' = pc + 1, NEW gnt, Top!Tick(Top!NoRequest, gnt)
  PROVE  ReadingInv'
<1> DEFINE reg == Decode(Step.addr)
<1>1. Main' = Main /\ pc \in Nat \ {0} /\ pc + 1 <= Len(Main) + 1
  BY MainLength DEF Main, LoadedInv, Running
<1>2. /\ reg \in Parameters \cup {"START"} /\ ~JobRuns(Main, pc)
      /\ reg = "OPERATION" => Step.value \in Operations
      /\ \A r \in Parameters \cup {"START"} : WritesTo(Step, r) <=> r = reg
  BY PresentStep, PresentWrite
<1>3. state = "IDLE" /\ mem = Now.mem
  BY <1>2 DEF LoadedInv, JobInv, ReadingInv
<1>4. sbr.valid /\ sbr.we /\ sbr.reg = reg /\ sbr.wdata = Step.value
  BY DEF Request
<1> HIDE DEF reg
<1>5. \A r : Top!Writes(r) <=> r = reg
  BY <1>4 DEF Top!Writes
<1>6. Now' = Effect(Step, Now)
  BY NowNext
<1>7. /\ Now'.op = IF reg = "OPERATION" THEN Step.value ELSE Now.op
      /\ Now'.src = IF reg = "SOURCE" THEN Step.value ELSE Now.src
      /\ Now'.n = IF reg = "NR_OF_ELEMENTS" THEN Step.value ELSE Now.n
      /\ Now'.dst = IF reg = "DESTINATION" THEN Step.value ELSE Now.dst
      /\ Now'.mem = Now.mem
      /\ Now' = [op |-> Now'.op, src |-> Now'.src, n |-> Now'.n, dst |-> Now'.dst,
                 mem |-> Now'.mem]
  BY <1>2, <1>6, EffectFields DEF Parameters
<1>8. JobRuns(Main, pc)' <=> reg = "START"
  BY <1>1, <1>2, JobRunsNext DEF Step
<1>9. mem' = mem
  BY <1>3, MemoryAtRest
<1>10. CASE reg = "START"
  <2>1. ParametersKept /\ job' = Top!ThisJob
    BY <1>3, <1>5, <1>10, AtRest, MemoryAtRest
  <2>2. job' = [op |-> Now.op, src |-> Now.src, n |-> Now.n, dst |-> Now.dst,
                mem |-> Now.mem]
    BY <1>3, <2>1 DEF ReadingInv, Top!ThisJob
  <2> QED
    BY <1>1, <1>7, <1>8, <1>10, <2>1, <2>2 DEF ReadingInv, ParametersKept
<1>11. CASE reg # "START"
  <2>1. /\ operation' = IF reg = "OPERATION" THEN Step.value % 8 ELSE operation
        /\ source_array_address' = IF reg = "SOURCE" THEN Step.value ELSE source_array_address
        /\ number_of_elements' = IF reg = "NR_OF_ELEMENTS" THEN Step.value ELSE number_of_elements
        /\ destination_array_address' =
             IF reg = "DESTINATION" THEN Step.value ELSE destination_array_address
    BY <1>3, <1>4, <1>5, <1>11, AtRest
  <2>2. reg = "OPERATION" => Step.value % 8 = Step.value
    BY <1>2 DEF Operations
  <2> QED
    BY <1>1, <1>3, <1>7, <1>8, <1>9, <1>11, <2>1, <2>2 DEF ReadingInv
<1> QED
  BY <1>10, <1>11

\* A read of DONE completes the memory as the reading does, or waits.
LEMMA NextReadingAwait ==
  ASSUME ProgramsDisciplined, ProgramsCompareEqual, LoadedInv, ReadingInv, P!ResultsInv,
         Running, Step.do = "await", sbr = Request(FALSE, Step.addr + index, 0),
         program' = program, pc' = IF ReadsZero THEN pc ELSE pc + 1,
         NEW gnt, Top!Tick(Top!NoRequest, gnt)
  PROVE  ReadingInv'
<1>1. Main' = Main /\ pc \in Nat \ {0} /\ pc + 1 <= Len(Main) + 1
  BY MainLength DEF Main, LoadedInv, Running
<1>2. JobRuns(Main, pc) /\ state # "IDLE" /\ job = Now
  BY PresentStep DEF LoadedInv, JobInv, ReadingInv
<1>3. ParametersKept /\ (state' = "IDLE" <=> ~ReadsZero) /\ (~ReadsZero => state = "DONE")
  BY <1>2, AwaitedState
<1>4. CASE ReadsZero
  <2>1. job' = job /\ pc' = pc
    BY <1>2, <1>3, <1>4, MemoryAtRest
  <2> QED
    BY <1>2, <1>3, <2>1, SameReading
<1>5. CASE ~ReadsZero
  <2>1. pc' = pc + 1 /\ state = "DONE" /\ mem' = mem
    BY <1>3, <1>5, MemoryAtRest
  <2>2. mem = Completed(Now)
    <3>1. Top!WellFormed(Now)
      BY ReadStep, MainLength
    <3> QED
      BY <1>2, <2>1, <3>1, DoneIsCompleted
  <2>3. Now' = Effect(Step, Now)
    BY <2>1, NowNext
  <2>4. /\ Now'.op = Now.op /\ Now'.src = Now.src /\ Now'.n = Now.n /\ Now'.dst = Now.dst
        /\ Now'.mem = Completed(Now)
    BY <2>3, EffectFields DEF WritesTo
  <2>5. ~JobRuns(Main, pc)'
    BY <1>1, <2>1, JobRunsNext DEF WritesTo, Step
  <2> QED
    BY <1>1, <1>3, <2>1, <2>2, <2>4, <2>5 DEF ReadingInv, ParametersKept
<1> QED
  BY <1>4, <1>5

\* The turns of the comparing loop count nothing and stay within it.
LEMMA ComparisonStep ==
  ASSUME ProgramsDisciplined, ProgramsCompareEqual, LoadedInv, ReadingInv, ComparisonInv,
         LoadedInv', NEW gnt,
         \/ Elsewhere(gnt) \/ WriteRegister(gnt) \/ ReadRegister(gnt)
         \/ Response(gnt) \/ CompareElement(gnt)
  PROVE  ComparisonInv'
<1>1. program' = program /\ Main' = Main /\ (pc' = pc => Running' = Running /\ Step' = Step)
  BY DEF Elsewhere, WriteRegister, ReadRegister, Response, CompareElement, cpu, Main,
    Running, Step
<1>2. CASE CompareElement(gnt)
  <2> DEFINE i == Step.first + index
  <2>1. /\ Running /\ Step.do = "compare"
        /\ mismatch_counter' = IF Programs[program].software[i]
                                    = mem[destination_array \div 2 + i - 1]
                               THEN mismatch_counter ELSE mismatch_counter + 1
        /\ IF i = Step.last THEN pc' = pc + 1 /\ index' = 0
           ELSE pc' = pc /\ index' = index + 1
    BY <1>2 DEF CompareElement
  <2>2. /\ ~JobRuns(Main, pc) /\ Step.first \in Nat /\ Step.last \in Nat
        /\ \A k \in Step.first .. Step.last :
             Programs[program].software[k] = Now.mem[destination_array \div 2 + k - 1]
    BY <2>1, ReadStep, MainLength
  <2>3. i \in Step.first .. Step.last /\ index \in Nat
    BY <2>1, <2>2 DEF ComparisonInv, LoadedInv
  <2>4. mem = Now.mem
    BY <2>2 DEF ReadingInv
  <2>5. mismatch_counter' = 0
    BY <2>1, <2>2, <2>3, <2>4 DEF ComparisonInv
  <2>6. CASE i = Step.last
    BY <2>1, <2>5, <2>6, ComparisonStarts DEF ComparisonInv
  <2>7. CASE i # Step.last
    BY <1>1, <2>1, <2>2, <2>3, <2>5, <2>7 DEF ComparisonInv
  <2> QED
    BY <2>6, <2>7
<1>3. CASE ~CompareElement(gnt)
  <2>1. mismatch_counter' = mismatch_counter
    BY <1>3 DEF Elsewhere, WriteRegister, ReadRegister, Response, cpu
  <2>2. CASE pc' = pc /\ index' = index
    BY <1>1, <2>1, <2>2 DEF ComparisonInv
  <2>3. CASE pc' = pc /\ index' # index
    <3>1. Step.do = "string"
      BY <1>3, <2>3 DEF Elsewhere, WriteRegister, ReadRegister, Response, cpu
    <3> QED
      BY <1>1, <2>1, <2>3, <3>1 DEF ComparisonInv
  <2>4. CASE pc' # pc
    <3>1. Step.do \in {"write", "await", "string"} /\ waiting /\ Running
      BY <1>3, <2>4 DEF Elsewhere, WriteRegister, ReadRegister, Response, cpu, LoadedInv,
        AccessInv
    <3>2. index' = 0
      BY <1>3, <2>4, <3>1 DEF Elsewhere, WriteRegister, ReadRegister, Response, cpu, LoadedInv,
        IndexInv
    <3> QED
      BY <2>1, <3>2, ComparisonStarts DEF ComparisonInv
  <2> QED
    BY <2>2, <2>3, <2>4
<1> QED
  BY <1>2, <1>3

\* Each cycle of a loaded program follows the reading.
LEMMA ReadingStep ==
  ASSUME ProgramsDisciplined, ProgramsCompareEqual, LoadedInv, ReadingInv, P!ResultsInv,
         NEW gnt \in BOOLEAN,
         \/ Elsewhere(gnt) \/ WriteRegister(gnt) \/ ReadRegister(gnt)
         \/ Response(gnt) \/ CompareElement(gnt)
  PROVE  ReadingInv' /\ P!ResultsInv'
<1>1. program' = program
  BY DEF Elsewhere, WriteRegister, ReadRegister, Response, CompareElement, cpu
<1>2. CASE Elsewhere(gnt) \/ WriteRegister(gnt) \/ ReadRegister(gnt) \/ CompareElement(gnt)
  <2>1. ~sbr.valid
    <3>1. ~waiting
      BY <1>2 DEF Elsewhere, WriteRegister, ReadRegister, CompareElement, LoadedInv, AccessInv
    <3> QED
      BY <3>1 DEF LoadedInv, AccessInv, Top!NoRequest
  <2>2. PICK req \in BusRequests \cup {Top!NoRequest} : Top!Tick(req, gnt)
    BY <1>2, AccessIsRequest DEF Elsewhere, WriteRegister, ReadRegister, CompareElement
  <2>3. P!ResultsInv'
    BY <2>2, TickKeepsResults
  <2>4. /\ (state' = "IDLE" <=> state = "IDLE") /\ ParametersKept
        /\ state # "IDLE" => job' = job
        /\ state = "IDLE" => mem' = mem
    BY <2>1, <2>2, QuietCycle, MemoryAtRest
  <2>5. CASE pc' = pc
    BY <1>1, <2>3, <2>4, <2>5, SameReading
  <2>6. CASE pc' # pc
    <3>1. Running /\ Step.do = "compare" /\ pc' = pc + 1
      BY <1>2, <2>6 DEF Elsewhere, WriteRegister, ReadRegister, CompareElement, cpu
    <3> QED
      BY <1>1, <2>3, <2>4, <3>1, NextReadingSame
  <2> QED
    BY <2>5, <2>6
<1>3. CASE Response(gnt)
  <2>1. Top!Tick(Top!NoRequest, gnt) /\ waiting
    BY <1>3 DEF Response
  <2>2. P!ResultsInv'
    BY <2>1, TickKeepsResults
  <2>3. /\ Running
        /\ \/ Step.do = "write" /\ sbr = Request(TRUE, Step.addr, Step.value)
           \/ Step.do \in {"await", "string"} /\ sbr = Request(FALSE, Step.addr + index, 0)
    BY <2>1 DEF LoadedInv, AccessInv
  <2>4. CASE Step.do = "write"
    <3>1. pc' = pc + 1
      BY <1>3, <2>1, <2>4, NoFault DEF Response
    <3> QED
      BY <1>1, <2>1, <2>2, <2>3, <2>4, <3>1, NextReadingWrite
  <2>5. CASE Step.do = "await"
    <3>1. pc' = IF ReadsZero THEN pc ELSE pc + 1
      BY <1>3, <2>1, <2>5, NoFault DEF Response
    <3> QED
      BY <1>1, <2>1, <2>2, <2>3, <2>5, <3>1, NextReadingAwait
  <2>6. CASE Step.do = "string"
    <3>1. sbr.valid /\ ~sbr.we /\ sbr.reg = "STUDENT_NAMES"
      <4>1. Step.addr + index \in 0 .. NameLength
        BY <2>3, <2>6, PresentStep DEF LoadedInv, IndexInv, NameLength
      <4>2. Decode(Step.addr + index) = "STUDENT_NAMES"
        BY <4>1 DEF Decode, Present, NameLength
      <4> QED
        BY <2>3, <2>6, <4>2 DEF Request
    <3>2. /\ (state' = "IDLE" <=> state = "IDLE") /\ ParametersKept
          /\ state # "IDLE" => job' = job
          /\ state = "IDLE" => mem' = mem
      BY <2>1, <3>1, QuietCycle, MemoryAtRest
    <3>3. pc' = pc \/ pc' = pc + 1
      BY <1>3, <2>1, <2>6, NoFault DEF Response
    <3> QED
      BY <1>1, <2>2, <2>3, <2>6, <3>2, <3>3, SameReading, NextReadingSame
  <2> QED
    BY <2>2, <2>3, <2>4, <2>5, <2>6
<1> QED
  BY <1>2, <1>3

\* The program and its arrays are put in memory while CROCDIC rests, and the
\* reading begins there.
LEMMA LoadReading ==
  ASSUME ProgramsDisciplined, ProgramsCompareEqual, ProgInv, ProgInv', P!ResultsInv,
         mismatch_counter = 0, LoadProgram
  PROVE  ComparedInv' /\ P!ResultsInv'
<1>1. /\ program = "none" /\ program' \in DOMAIN Programs
      /\ mem' = Image(Programs[program'])
      /\ UNCHANGED <<pc, index, waiting, mismatch_counter, state, operation,
                     source_array_address, number_of_elements, destination_array_address,
                     elements, element_counter, which_input, sbr, mgr, cordic, sram, denied,
                     job, started>>
  BY DEF LoadProgram
<1>2. ResetInv
  BY <1>1 DEF ProgInv
<1> DEFINE p == Programs[program']
<1>3. Disciplined(p.main) /\ ComparesEqual(p) /\ Len(p.main) \in Nat
  BY <1>1 DEF ProgramsDisciplined, ProgramsCompareEqual, Disciplined
<1>4. mem' \in [P!Halfwords -> C!Shorts]
  <2> HIDE DEF p
  <2>1. Image(p) \in [Top!Halfwords -> C!Shorts]
    BY <1>3, ImageType
  <2> QED
    BY <1>1, <2>1, SameArrays DEF p
<1>5. P!ResultsInv'
  <2>1. P!TypeOK'
    BY <1>1, <1>4 DEF P!ResultsInv, P!IInv, P!TypeOK
  <2>2. state = "IDLE" /\ state' = "IDLE"
    BY <1>1, <1>2 DEF ResetInv
  <2>3. P!HandshakeInv'
    BY <1>1, <2>2 DEF P!ResultsInv, P!IInv, P!HandshakeInv
  <2>4. P!EnginesInv'
    BY <1>1 DEF P!ResultsInv, P!IInv, P!EnginesInv, P!Kfinal, P!Engines
  <2>5. ~P!Busy /\ ~P!Busy'
    BY <2>2 DEF P!Busy
  <2>6. P!SecondWordInv'
    BY <1>1 DEF P!ResultsInv, P!SecondWordInv
  <2> QED
    BY <2>1, <2>2, <2>3, <2>4, <2>5, <2>6
      DEF P!ResultsInv, P!IInv, P!ParametersFrozen, P!CounterInBounds, P!CounterAligned,
        P!OutsideUntouched, P!ChunkInv, P!DoneInv
<1>6. pc' = 1 /\ index' = 0 /\ mismatch_counter' = 0 /\ Main' = p.main
  BY <1>1, <1>2 DEF ResetInv, Main
<1>8. Now' = [op |-> SIN, src |-> 0, n |-> 0, dst |-> 0, mem |-> Image(p)]
  <2>1. Now' = InSteps(p)[0]
    BY <1>6 DEF Now
  <2> HIDE DEF p
  <2> QED
    BY <1>3, <2>1, ReadingSteps
<1>9. ~JobRuns(Main, pc)'
  BY <1>6 DEF JobRuns
<1>10. ReadingInv'
  BY <1>1, <1>2, <1>3, <1>6, <1>8, <1>9 DEF ReadingInv, ResetInv, SIN
<1>11. ASSUME program' # "none"
       PROVE  ComparisonInv'
  <2>1. LoadedInv'
    BY <1>11 DEF ProgInv
  <2> QED
    BY <1>6, <2>1, ComparisonStarts DEF ComparisonInv
<1> QED
  BY <1>5, <1>6, <1>10, <1>11 DEF ComparedInv

\* The invariant of the comparing programs.
ComparingInv == ProgInv /\ P!ResultsInv /\ ComparedInv

\* Every step keeps it.
LEMMA ComparingStep ==
  ASSUME ProgramsDisciplined, ProgramsCompareEqual, ComparingInv, [Next]_vars
  PROVE  ComparingInv'
<1>1. ProgInv'
  BY ProgStep DEF ComparingInv
<1>2. CASE LoadProgram
  BY <1>1, <1>2, LoadReading DEF ComparingInv, ComparedInv, LoadProgram
<1>3. ASSUME NEW gnt \in BOOLEAN,
             \/ Elsewhere(gnt) \/ WriteRegister(gnt) \/ ReadRegister(gnt)
             \/ Response(gnt) \/ CompareElement(gnt)
      PROVE  ComparingInv'
  <2>1. program # "none" /\ program' = program
    <3>1. program = "none" => waiting = FALSE
      BY DEF ComparingInv, ProgInv, ResetInv
    <3> QED
      BY <1>3, <3>1 DEF Elsewhere, WriteRegister, ReadRegister, Response, CompareElement,
        Running, cpu
  <2>2. LoadedInv /\ LoadedInv' /\ ReadingInv /\ ComparisonInv
    BY <1>1, <2>1 DEF ComparingInv, ProgInv, ComparedInv
  <2>3. ReadingInv' /\ P!ResultsInv'
    BY <1>3, <2>2, ReadingStep DEF ComparingInv
  <2>4. ComparisonInv'
    BY <1>3, <2>2, ComparisonStep
  <2> QED
    BY <1>1, <2>1, <2>3, <2>4 DEF ComparingInv, ComparedInv
<1>4. CASE UNCHANGED vars
  <2>1. UNCHANGED <<program, pc, index, mismatch_counter>> /\ UNCHANGED P!vars
        /\ UNCHANGED <<operation, source_array_address, number_of_elements,
                       destination_array_address, job, mem>>
    BY <1>4 DEF vars, cpu, accelerator, P!vars, P!regs, P!datapath, P!history
  <2>2. P!ResultsInv'
    BY <2>1, ConstantsFit, P!ResultsStutter DEF ComparingInv
  <2>3. Main' = Main /\ Now' = Now
    BY <2>1 DEF Main, Now
  <2>4. ReadingInv => ReadingInv'
    BY <2>1, <2>3 DEF ReadingInv
  <2>5. ComparisonInv => ComparisonInv'
    BY <2>1, <2>3 DEF ComparisonInv, Running, Step
  <2> QED
    BY <1>1, <2>1, <2>2, <2>4, <2>5 DEF ComparingInv, ComparedInv
<1> QED
  BY <1>2, <1>3, <1>4 DEF Next


-----------------------------------------------------------------------------
(* The theorems.                                                            *)

\* The invariant of CPU and CROCDIC together.
THEOREM ProgramsInvariant ==
  ASSUME ProgramsDisciplined
  PROVE  Spec => []ProgInv
<1>1. Init => ProgInv
  BY ProgInit
<1>2. ProgInv /\ [Next]_vars => ProgInv'
  BY ProgStep
<1> QED
  BY <1>1, <1>2, PTL DEF Spec

\* No write of a disciplined program is dropped by a busy CROCDIC
\* (crocdic_top.sv answers it without an error and forgets it).
THEOREM WritesArrive ==
  ASSUME ProgramsDisciplined
  PROVE  Spec => []NothingDropped
<1>1. ProgInv => NothingDropped
  BY DEF ProgInv, LoadedInv, RegistersInv, NothingDropped
<1> QED
  BY <1>1, ProgramsInvariant, PTL

\* And none leaves its polling loop before the job it waits for has ended.
THEOREM JobsAreAwaited ==
  ASSUME ProgramsDisciplined
  PROVE  Spec => []CompletionAwaited
<1>1. ProgInv => CompletionAwaited
  <2> SUFFICES ASSUME ProgInv, program # "none"
               PROVE  /\ started >= Cardinality(Awaited)
                      /\ Top!Busy => started > Cardinality(Awaited)
    BY DEF CompletionAwaited, Awaited
  <2>1. JobInv /\ pc \in Nat \ {0}
    BY DEF ProgInv, LoadedInv
  <2>2. Cardinality(Awaited) \in Nat
    <3>1. Awaited \subseteq 1 .. pc - 1 /\ IsFiniteSet(1 .. pc - 1)
      BY <2>1, FS_Interval DEF Awaited
    <3> QED
      BY <3>1, FS_Subset, FS_CardinalityType
  <2> QED
    BY <2>1, <2>2 DEF JobInv, Top!Busy
<1> QED
  BY <1>1, ProgramsInvariant, PTL

\* The programs' results, job after job, are those of their software pass: no
\* program counts a mismatch, whatever arrays and jobs it has, if its main(),
\* read as a sequential program, compares equal elements.
THEOREM NoneMismatches ==
  ASSUME ProgramsDisciplined, ProgramsCompareEqual
  PROVE  Spec => []NoMismatch
<1>1. Init => ComparingInv
  <2>1. Init => ProgInv
    BY ProgInit
  <2>2. Init => P!ResultsInv
    BY SameInit, InvInit DEF Init
  <2>3. Init => ComparedInv
    BY DEF Init, ComparedInv
  <2> QED
    BY <2>1, <2>2, <2>3 DEF ComparingInv
<1>2. ComparingInv /\ [Next]_vars => ComparingInv'
  BY ComparingStep
<1>3. ComparingInv => NoMismatch
  BY DEF ComparingInv, ComparedInv, ComparisonInv, NoMismatch
<1> QED
  BY <1>1, <1>2, <1>3, PTL DEF Spec

=============================================================================

--------------------------- MODULE CrocdicPrograms ---------------------------
(***************************************************************************)
(* The C programs of sw/ that drive CROCDIC, run by the CPU against the    *)
(* accelerator of CrocdicTop, cycle by cycle: the eight benchmarks         *)
(* cordic_*.c with the arrays they hold, and the bring-up programs.        *)
(*                                                                         *)
(* The CPU executes one bus access at a time: a request that the register  *)
(* file grants at once, the response in the next cycle.  Between two       *)
(* accesses it may spend any number of cycles (instruction fetches, the    *)
(* UART, printf).  The arithmetic is that of CordicReference, which        *)
(* CrocdicCordic is shown to compute.  A program's software pass runs      *)
(* before it touches CROCDIC and is a constant of the program here.        *)
(***************************************************************************)
EXTENDS UserPkg, Sequences, FiniteSets

CONSTANTS
  Programs,   \* the programs that may be loaded, by name
  MaxDenied   \* longest run of cycles CROCDIC waits for the bus

ASSUME ProgramsAssumption == MaxDenied \in Nat

C == INSTANCE CordicReference

-----------------------------------------------------------------------------
(* What a program is made of: its source array, the array its software     *)
(* pass fills, the initial destination_array_HW, and the steps of main().  *)

\* Where the linker puts the two arrays CROCDIC sees, on word boundaries.
NumWords          == 112
source_array      == 0
destination_array == 256

\* Offsets of the registers in the user domain.
Present == [ START |-> 128, OPERATION |-> 132, SOURCE |-> 136,
             NR_OF_ELEMENTS |-> 140, DESTINATION |-> 144, DONE |-> 148 ]

Write(addr, v)       == [do |-> "write", addr |-> addr, value |-> v]
AwaitDone(map)       == [do |-> "await", addr |-> map.DONE]
Compare(first, last) == [do |-> "compare", first |-> first, last |-> last]

\* START is written with 0xDEADBEEF; nothing looks at the value.
StartJob(map, op, src, n, dst) ==
  << Write(map.OPERATION, op), Write(map.SOURCE, src),
     Write(map.NR_OF_ELEMENTS, n), Write(map.DESTINATION, dst),
     Write(map.START, 1) >>

\* An array of n elements with the same initial value.
Filled(n, v) == [i \in 1 .. n |-> v]

Root(v) == C!cordic("VECTORING", "HYPERBOLIC", C!Short(v + 4096), C!Short(v - 4096), 0).x

\* (CORDIC_1KP*x2)/MUL, stored in a short
Scaled(v) == C!Short(C!Quotient(C!cordic_1Kp * v, C!MUL))

\* The names are twenty-nine characters; zeroes follow.
NameLength == 29

\* A step of main() that writes a register, and whether main() has started a
\* job before step i that it has not awaited.
WritesTo(step, reg) == step.do = "write" /\ step.addr = Present[reg]

JobRuns(main, i) ==
  \E k \in 1 .. i - 1 :
    WritesTo(main[k], "START") /\ \A l \in k + 1 .. i - 1 : main[l].do # "await"

\* How a program is to use CROCDIC: registers are written only while none of
\* its jobs runs, DONE is awaited once for each job, the names are not overrun.
Disciplined(main) ==
  /\ Len(main) \in Nat
  /\ \A i \in 1 .. Len(main) :
       \/ /\ \E reg \in Parameters \cup {"START"} : WritesTo(main[i], reg)
          /\ WritesTo(main[i], "OPERATION") => main[i].value \in Operations
          /\ ~JobRuns(main, i)
       \/ main[i].do = "await" /\ main[i].addr = Present.DONE /\ JobRuns(main, i)
       \/ main[i].do = "string" /\ main[i].addr \in 0 .. NameLength
       \/ main[i].do = "compare"

-----------------------------------------------------------------------------
(* The benchmarks: source array, destination_array_SW after the software   *)
(* pass, initial destination_array_HW, and main() from there on.  Each     *)
(* file holds its own copy of cordic() and its tables.                     *)

cordic_sin ==
  LET source == [i \in 1 .. 50 |-> ((i - 1) * 514718) \div 1000]
  IN  [ source   |-> source,
        software |-> [i \in 1 .. 50 |->
                        C!cordic("ROTATION", "CIRCULAR", C!cordic_1K, 0, source[i]).y],
        hardware |-> Filled(50, 0),
        main     |-> StartJob(Present, SIN, source_array, 50, destination_array)
                       \o <<AwaitDone(Present), Compare(1, 50)>> ]

cordic_cos ==
  LET source == [i \in 1 .. 50 |-> ((i - 1) * 514718) \div 1000]
  IN  [ source   |-> source,
        software |-> [i \in 1 .. 50 |->
                        C!cordic("ROTATION", "CIRCULAR", C!cordic_1K, 0, source[i]).x],
        hardware |-> Filled(50, 0),
        main     |-> StartJob(Present, COS, source_array, 50, destination_array)
                       \o <<AwaitDone(Present), Compare(1, 50)>> ]

\* Pairs (x, y) of thousands, x the slower one.
AtanPairs ==
  [i \in 1 .. 128 |-> IF i % 2 = 1 THEN 1000 * ((i - 1) \div 16)
                      ELSE 1000 * (((i - 1) \div 2) % 8)]

cordic_atan ==
  [ source   |-> AtanPairs,
    software |-> [i \in 1 .. 64 |->
                    C!cordic("VECTORING", "CIRCULAR", AtanPairs[2 * i - 1],
                           AtanPairs[2 * i], 0).z],
    hardware |-> Filled(64, 0),
    main     |-> StartJob(Present, ATAN, source_array, 128, destination_array)
                   \o <<AwaitDone(Present), Compare(1, 64)>> ]

cordic_sqrt ==
  LET source == [i \in 1 .. 70 |-> 100 * i]
  IN  [ source   |-> source,
        software |-> [i \in 1 .. 70 |-> Scaled(Root(source[i]))],
        hardware |-> Filled(70, 0),
        main     |-> StartJob(Present, SQRT, source_array, 70, destination_array)
                       \o <<AwaitDone(Present), Compare(1, 70)>> ]

cordic_reciprocal ==
  LET source == [i \in 1 .. 96 |-> 32000 - 250 * (i - 1)]
  IN  [ source   |-> source,
        software |-> [i \in 1 .. 96 |->
                        C!cordic("VECTORING", "LINEAR", source[i], C!MUL, 0).z],
        hardware |-> Filled(96, 0),
        main     |-> StartJob(Present, RECIPROCAL, source_array, 96, destination_array)
                       \o <<AwaitDone(Present), Compare(1, 96)>> ]

\* Two jobs: the second works in place on the results of the first, with
\* the number of elements and the destination the first has left.
SecondJob ==
  << Write(Present.OPERATION, RECIPROCAL), Write(Present.SOURCE, destination_array),
     Write(Present.START, 1), AwaitDone(Present) >>

cordic_inverse_sqrt ==
  LET source == [i \in 1 .. 62 |-> 4000 + 400 * (i - 1)]
  IN  [ source   |-> source,
        software |-> [i \in 1 .. 62 |->
                        C!cordic("VECTORING", "LINEAR",
                               Scaled(Root(source[i])), C!MUL, 0).z],
        hardware |-> Filled(62, 0),
        main     |-> StartJob(Present, SQRT, source_array, 62, destination_array)
                       \o <<AwaitDone(Present)>> \o SecondJob \o <<Compare(1, 62)>> ]

\* Odd numbers of results; the element after the last must stay 9.
cordic_sin_odd ==
  LET source == [i \in 1 .. 49 |-> (i * 514718) \div 1000]
  IN  [ source   |-> source,
        software |-> [i \in 1 .. 50 |->
                        IF i = 50 THEN 9
                        ELSE C!cordic("ROTATION", "CIRCULAR", C!cordic_1K, 0, source[i]).y],
        hardware |-> Filled(50, 9),
        main     |-> StartJob(Present, SIN, source_array, 49, destination_array)
                       \o <<AwaitDone(Present), Compare(1, 49), Compare(50, 50)>> ]

cordic_atan_odd ==
  LET source == [i \in 1 .. 126 |-> AtanPairs[i + 2]]
  IN  [ source   |-> source,
        software |-> [i \in 1 .. 64 |->
                        IF i = 64 THEN 9
                        ELSE C!cordic("VECTORING", "CIRCULAR", source[2 * i - 1],
                                    source[2 * i], 0).z],
        hardware |-> Filled(64, 9),
        main     |-> StartJob(Present, ATAN, source_array, 126, destination_array)
                       \o <<AwaitDone(Present), Compare(1, 63), Compare(64, 64)>> ]

-----------------------------------------------------------------------------
(* The bring-up programs, written for an earlier address map.  They print  *)
(* their destination array and compare nothing.                            *)

Earlier == [ START |-> 4, OPERATION |-> 8, SOURCE |-> 12,
             NR_OF_ELEMENTS |-> 16, DESTINATION |-> 20, DONE |-> 24 ]

BringUp(n, initial) ==
  [ source   |-> [i \in 1 .. 8 |-> i], software |-> <<>>,
    hardware |-> Filled(8, initial),
    main     |-> StartJob(Earlier, SQRT, source_array, n, destination_array)
                   \o <<AwaitDone(Earlier)>> ]

DMA_test_1  == BringUp(8, 9)
DMA_test_2  == BringUp(0, 9)
DMA_test_3  == BringUp(1, 9)
DMA_test_4  == BringUp(6, 9)
DMA_test_5  == BringUp(7, 9)
MMIO_test_2 == BringUp(8, 0)

\* printf("%s\n", STUDENT_NAMES): bytes are read up to the first zero.
print_names ==
  [ source |-> <<>>, software |-> <<>>, hardware |-> <<>>,
    main   |-> <<[do |-> "string", addr |-> 0]>> ]

-----------------------------------------------------------------------------
(* The CPU and the accelerator.                                            *)

VARIABLES
  program,     \* name of the program in memory, "none" before it is loaded
  pc,          \* step of main()
  index,       \* loop variable of a comparison, or characters printed
  waiting,     \* a bus access of the CPU awaits its response
  mismatch_counter,
  \* the accelerator, as in CrocdicTop
  state, operation, source_array_address, number_of_elements,
  destination_array_address, elements, element_counter, which_input, sbr, mgr,
  cordic, sram, denied, mem, job, started

cpu         == <<program, pc, index, waiting, mismatch_counter>>
accelerator == <<state, operation, source_array_address, number_of_elements,
                 destination_array_address, elements, element_counter,
                 which_input, sbr, mgr, cordic, sram, denied, mem, job,
                 started>>
vars        == <<cpu, accelerator>>

Top == INSTANCE CrocdicTop WITH
  Data <- C!Shorts, Zero <- 0, NoData <- 2^15,
  Unary <- LAMBDA op, x : C!SoftwareResult(op, x, 0),
  Atan <- LAMBDA x, y : C!SoftwareResult(ATAN, x, y),
  ITER <- C!CORDIC_NTAB, InitMem <- [h \in 0 .. 2 * NumWords - 1 |-> 0],
  Requests <- {}, MaxJobs <- 2

Main    == Programs[program].main
Running == program # "none" /\ pc <= Len(Main)
Step    == Main[pc]

\* The memory that holds program p.
Image(p) ==
  [h \in 0 .. 2 * NumWords - 1 |->
     LET d == h - destination_array \div 2
     IN  IF h < Len(p.source) THEN p.source[h + 1]
         ELSE IF 0 <= d /\ d < Len(p.hardware) THEN p.hardware[d + 1] ELSE 0]

\* The debugger writes a program into memory while CROCDIC rests.
LoadProgram ==
  /\ program = "none"
  /\ program' \in DOMAIN Programs
  /\ mem' = Image(Programs[program'])
  /\ UNCHANGED <<pc, index, waiting, mismatch_counter, state, operation,
                 source_array_address, number_of_elements,
                 destination_array_address, elements, element_counter,
                 which_input, sbr, mgr, cordic, sram, denied, job, started>>

\* The user domain's address decoder.
Decode(addr) ==
  IF addr < Present.START THEN "STUDENT_NAMES"
  ELSE CHOOSE reg \in DOMAIN Present : Present[reg] = addr

Request(we, addr, v) ==
  [valid |-> TRUE, we |-> we, reg |-> Decode(addr), wdata |-> v]

\* One cycle in which the CPU does something else.
Elsewhere(gnt) ==
  /\ program # "none"
  /\ ~waiting
  /\ Top!Tick(Top!NoRequest, gnt)
  /\ UNCHANGED cpu

WriteRegister(gnt) ==
  /\ Running /\ ~waiting /\ Step.do = "write"
  /\ Top!Tick(Request(TRUE, Step.addr, Step.value), gnt)
  /\ waiting' = TRUE
  /\ UNCHANGED <<program, pc, index, mismatch_counter>>

ReadRegister(gnt) ==
  /\ Running /\ ~waiting /\ Step.do \in {"await", "string"}
  /\ Top!Tick(Request(FALSE, Step.addr + index, 0), gnt)
  /\ waiting' = TRUE
  /\ UNCHANGED <<program, pc, index, mismatch_counter>>

\* Seeded defect: the loop waits while DONE is not zero.
ReadsOther == Top!SbrReply.rdata # "zero"

ReadsZero ==
  \/ Top!SbrReply.rdata = "zero"
  \/ Top!SbrReply.rdata = "name" /\ Step.addr + index >= NameLength

\* An answer with the error bit traps.  The default croc_exception_handler just
\* returns, to the access that has faulted.
Faults == Top!SbrReply.err

\* The while loop around the read of DONE, and the one of printf("%s").
Response(gnt) ==
  /\ waiting /\ Top!SbrReply.rvalid
  /\ waiting' = FALSE
  /\ \/ /\ Step.do = "write"
        /\ pc' = IF Faults THEN pc ELSE pc + 1
        /\ UNCHANGED index
     \/ /\ Step.do = "await"
        /\ pc' = IF Faults \/ ReadsZero THEN pc ELSE pc + 1
        /\ UNCHANGED index
     \/ /\ Step.do = "string"
        /\ pc' = IF ~Faults /\ ReadsZero THEN pc + 1 ELSE pc
        /\ index' = IF Faults THEN index
                    ELSE IF ReadsZero THEN 0 ELSE index + 1
  /\ Top!Tick(Top!NoRequest, gnt)
  /\ UNCHANGED <<program, mismatch_counter>>

\* One turn of the loop that compares the two destination arrays.
CompareElement(gnt) ==
  /\ Running /\ Step.do = "compare"
  /\ LET i == Step.first + index
     IN  /\ mismatch_counter' =
              IF Programs[program].software[i]
                   = mem[destination_array \div 2 + i - 1]
              THEN mismatch_counter ELSE mismatch_counter + 1
         /\ IF i = Step.last THEN pc' = pc + 1 /\ index' = 0
            ELSE pc' = pc /\ index' = index + 1
  /\ Top!Tick(Top!NoRequest, gnt)
  /\ UNCHANGED <<program, waiting>>

Init ==
  /\ program = "none" /\ pc = 1 /\ index = 0
  /\ waiting = FALSE /\ mismatch_counter = 0
  /\ Top!Init

Next ==
  \/ LoadProgram
  \/ \E gnt \in BOOLEAN :
       \/ Elsewhere(gnt) \/ WriteRegister(gnt) \/ ReadRegister(gnt)
       \/ Response(gnt) \/ CompareElement(gnt)

\* A running CPU does not stay elsewhere for ever.  This is weak fairness of
\* the actions other than Elsewhere, one of which is enabled while Running.
CpuRuns == []<>~Running \/ []<><<TRUE>>_cpu

Spec == Init /\ [][Next]_vars /\ WF_vars(LoadProgram) /\ CpuRuns

-----------------------------------------------------------------------------
(* The programs as their main() reads, one step after the other and with   *)
(* no time between them: the registers of CROCDIC and the memory, in which *)
(* the results are when main() has awaited them.                           *)

Completed(s) ==
  [h \in Top!Halfwords |->
     LET k == h - s.dst \div 2
     IN  IF 0 <= k /\ k < Top!NumResults(s) THEN Top!ResultOf(s, k) ELSE s.mem[h]]

Effect(step, s) ==
  [ op  |-> IF WritesTo(step, "OPERATION") THEN step.value ELSE s.op,
    src |-> IF WritesTo(step, "SOURCE") THEN step.value ELSE s.src,
    n   |-> IF WritesTo(step, "NR_OF_ELEMENTS") THEN step.value ELSE s.n,
    dst |-> IF WritesTo(step, "DESTINATION") THEN step.value ELSE s.dst,
    mem |-> IF step.do = "await" THEN Completed(s) ELSE s.mem ]

\* What main() of p has made of them after each number of steps.
InSteps(p) ==
  LET after[i \in 0 .. Len(p.main)] ==
        IF i = 0 THEN [op |-> SIN, src |-> 0, n |-> 0, dst |-> 0, mem |-> Image(p)]
        ELSE Effect(p.main[i], after[i - 1])
  IN  after

\* A program that, read so, compares equal elements only.  Its arrays are
\* shorts, its jobs well-formed, and no job runs while it compares.
ComparesEqual(p) ==
  /\ p.source \in Seq(C!Shorts) /\ p.hardware \in Seq(C!Shorts)
  /\ \A i \in 1 .. Len(p.main) :
       LET step == p.main[i]
           now  == InSteps(p)[i - 1]
       IN  /\ step.do = "write" => step.value \in Top!WordRange
           /\ step.do = "await" => Top!WellFormed(now)
           /\ step.do = "compare" =>
                /\ ~JobRuns(p.main, i)
                /\ step.first \in Nat /\ step.last \in Nat /\ step.first <= step.last
                /\ \A k \in step.first .. step.last :
                     p.software[k] = now.mem[destination_array \div 2 + k - 1]

-----------------------------------------------------------------------------
(* Properties.                                                             *)

\* No program ever counts a mismatch between the results of its software pass
\* and those CROCDIC left, the guard element of the odd programs included.
NoMismatch == mismatch_counter = 0

\* Whatever main() has written to the registers is what CROCDIC holds: no
\* parameter and no START arrives while it is busy and would be dropped
\* without an error, the two jobs of cordic_inverse_sqrt included.
Written(reg) ==
  {i \in 1 .. pc - 1 : Main[i].do = "write" /\ Decode(Main[i].addr) = reg}

Latest(reg) ==
  IF Written(reg) = {} THEN 0
  ELSE Main[CHOOSE i \in Written(reg) : \A k \in Written(reg) : k <= i].value

NothingDropped ==
  program # "none" /\ ~waiting =>
    /\ operation = Latest("OPERATION")
    /\ source_array_address = Latest("SOURCE")
    /\ number_of_elements = Latest("NR_OF_ELEMENTS")
    /\ destination_array_address = Latest("DESTINATION")
    /\ started = Cardinality(Written("START"))

\* "wait until crocdic_top sets the done signal": when a program leaves its
\* loop, the job it waits for has been started and has ended.
CompletionAwaited ==
  program # "none" =>
    LET awaited == Cardinality({i \in 1 .. pc - 1 : Main[i].do = "await"})
    IN  started >= awaited /\ (Top!Busy => started > awaited)

\* "start crocdic_top by writing something to the start_address": a program that
\* does so gets a job started.
JobStarts == <>(started > 0)

\* Every program comes to its end: no poll misses the one report of its job.
ProgramEnds == <>(program # "none" /\ ~Running)

=============================================================================

----------------------- MODULE CrocdicRefinementProofs -----------------------
(***************************************************************************)
(* CrocdicTop implements the safety part of CrocdicJob, for every memory,  *)
(* every length but the largest register value, every word-aligned         *)
(* position of the arrays (overlapping or beyond the end of the memory     *)
(* included) and every arithmetic.                                         *)
(***************************************************************************)
EXTENDS CrocdicRefinement, CrocdicProofs

\* The registers hold what DriverAssumption lets managers write.
DriverInv ==
  /\ source_array_address % 4 = 0
  /\ destination_array_address % 4 = 0
  /\ number_of_elements < AddrSpace - 1

\* The operands x, y are those the present memory has for engine k.
Fresh(k, x, y) ==
  Results + k < NumResults(ThisJob) =>
    Result(operation, x, y) = ResultOf(ThisJob, Results + k)

\* From its reads to its write a chunk is computed from the present memory.
FreshInv ==
  /\ which_input = 1 => Fresh(0, elements[0].lo, elements[0].hi)
  /\ state = "START_CORDIC" =>
       \A k \in Engines : Fresh(k, elements[k].lo, elements[k].hi)
  /\ state = "WAIT_CORDIC" =>
       \A k \in Engines : Fresh(k, cordic[k].in0, cordic[k].in1)
  /\ state = "WRITE_ELEMENTS" /\ ~mgr.gnt =>
       \A k \in Engines : Results + k < NumResults(ThisJob) =>
                            elements[k].lo = ResultOf(ThisJob, Results + k)

RefinementInv == ResultsInv /\ DriverInv /\ FreshInv

-----------------------------------------------------------------------------
(* Addresses, where the end of the memory may be passed.                   *)

\* The two lanes of a word are two neighbouring elements of an array.
LEMMA WordLanes ==
  \A x \in Nat : x % 4 = 0 /\ x < 3 * AddrSpace =>
    /\ Lane(Wrap(x), 0) = Wrap(x) \div 2
    /\ Lane(Wrap(x), 1) = Wrap(x + 2) \div 2
  <1> SUFFICES ASSUME NEW x \in Nat, x % 4 = 0, x < 3 * AddrSpace
               PROVE  /\ Lane(Wrap(x), 0) = Wrap(x) \div 2
                      /\ Lane(Wrap(x), 1) = Wrap(x + 2) \div 2
    OBVIOUS
  <1>1. AddrSpace \in Nat /\ AddrSpace > 0 /\ AddrSpace % 4 = 0
    BY ArraysAssumption DEF AddrSpace
  <1>2. CASE x < AddrSpace
    <2>1. Wrap(x) = x /\ Wrap(x + 2) = x + 2
      BY <1>1, <1>2 DEF Wrap
    <2> QED
      BY <1>1, <2>1 DEF Lane
  <1>3. CASE AddrSpace <= x /\ x < 2 * AddrSpace
    <2>1. Wrap(x) = x - AddrSpace /\ Wrap(x + 2) = x + 2 - AddrSpace
      BY <1>1, <1>3 DEF Wrap
    <2> QED
      BY <1>1, <1>3, <2>1 DEF Lane
  <1>4. CASE 2 * AddrSpace <= x
    <2>1. Wrap(x) = x - 2 * AddrSpace /\ Wrap(x + 2) = x + 2 - 2 * AddrSpace
      BY <1>1, <1>4 DEF Wrap
    <2> QED
      BY <1>1, <1>4, <2>1 DEF Lane
  <1> QED
    BY <1>1, <1>2, <1>3, <1>4

\* The chunk the counter stands at, wherever the arrays lie.
LEMMA ChunkAddresses ==
  ASSUME TypeOK, DriverInv, CounterInBounds, CounterAligned, Busy
  PROVE  /\ Results \in Nat /\ Results < NumResults(ThisJob)
         /\ NumResults(ThisJob) \in Nat
         /\ Lane(WriteAddr, 0) = At(destination_array_address, Results)
         /\ Lane(WriteAddr, 1) = At(destination_array_address, Results + 1)
         /\ WriteOne <=> Results + 1 = NumResults(ThisJob)
         /\ operation # ATAN =>
              \A l \in {0, 1} :
                Lane(ReadAddr, l) = At(source_array_address, Results + l)
         /\ operation = ATAN =>
              \A l \in {0, 1} :
                Lane(ReadAddr, l) =
                  At(source_array_address, 2 * (Results + which_input) + l)
  <1> DEFINE A == AddrSpace
             n == number_of_elements
             c == element_counter
             d == destination_array_address
             s == source_array_address
  <1>1. /\ A \in Nat /\ A > 0 /\ A % 4 = 0
        /\ n \in Nat /\ n < A - 1 /\ c \in Nat /\ c < n /\ c % Step = 0
        /\ d \in Nat /\ d < A /\ d % 4 = 0
        /\ s \in Nat /\ s < A /\ s % 4 = 0
    BY ArraysAssumption
       DEF TypeOK, WordRange, AddrSpace, DriverInv, CounterInBounds, CounterAligned
  <1>2. CASE operation = ATAN
    <2>1. NumResults(ThisJob) = (n + 1) \div 2 /\ Results = c \div 2 /\ c % 4 = 0
      BY <1>1, <1>2 DEF NumResults, Results, Step, ThisJob
    <2>2. WriteAddr = Wrap(d + 2 * Results)
      BY <1>1, <1>2, <2>1 DEF WriteAddr
    <2>3. /\ d + 2 * Results \in Nat /\ (d + 2 * Results) % 4 = 0
          /\ d + 2 * Results < 3 * A
          /\ d + 2 * Results + 2 = d + 2 * (Results + 1)
      BY <1>1, <2>1
    <2>4. /\ Lane(WriteAddr, 0) = At(d, Results)
          /\ Lane(WriteAddr, 1) = At(d, Results + 1)
      BY <2>2, <2>3, WordLanes DEF At
    <2>5. WriteOne <=> Results + 1 = NumResults(ThisJob)
      <3>1. Wrap(c + 1) = n <=> c + 1 = n
        BY <1>1, WrapValue
      <3>2. Wrap(c + 2) = n <=> c + 2 = n
        BY <1>1, <2>1, WrapValue
      <3> QED
        BY <1>1, <1>2, <2>1, <3>1, <3>2 DEF WriteOne
    <2> DEFINE r == Results + which_input
    <2>6. ReadAddr = Wrap(s + 4 * r)
      <3>1. which_input = 0 => s + 4 * r = s + 2 * c
        BY <1>1, <2>1
      <3>2. which_input = 1 => s + 4 * r = s + 2 * (c + 2)
        BY <1>1, <2>1
      <3> QED
        BY <1>2, <3>1, <3>2 DEF ReadAddr, TypeOK
    <2>7. /\ s + 4 * r \in Nat /\ (s + 4 * r) % 4 = 0 /\ s + 4 * r < 3 * A
          /\ s + 4 * r = s + 2 * (2 * r + 0)
          /\ s + 4 * r + 2 = s + 2 * (2 * r + 1)
      BY <1>1, <2>1 DEF TypeOK
    <2>8. \A l \in {0, 1} : Lane(ReadAddr, l) = At(s, 2 * r + l)
      BY <2>6, <2>7, WordLanes DEF At
    <2> QED
      BY <1>1, <1>2, <2>1, <2>4, <2>5, <2>8
  <1>3. CASE operation # ATAN
    <2>1. NumResults(ThisJob) = n /\ Results = c /\ c % 2 = 0
      BY <1>1, <1>3 DEF NumResults, Results, Step, ThisJob
    <2>2. WriteAddr = Wrap(d + 2 * c) /\ ReadAddr = Wrap(s + 2 * c)
      BY <1>3 DEF WriteAddr, ReadAddr
    <2>3. /\ d + 2 * c \in Nat /\ (d + 2 * c) % 4 = 0 /\ d + 2 * c < 3 * A
          /\ s + 2 * c \in Nat /\ (s + 2 * c) % 4 = 0 /\ s + 2 * c < 3 * A
          /\ d + 2 * c + 2 = d + 2 * (c + 1) /\ s + 2 * c + 2 = s + 2 * (c + 1)
      BY <1>1, <2>1
    <2>4. /\ Lane(WriteAddr, 0) = At(d, c) /\ Lane(WriteAddr, 1) = At(d, c + 1)
          /\ Lane(ReadAddr, 0) = At(s, c) /\ Lane(ReadAddr, 1) = At(s, c + 1)
      BY <2>2, <2>3, WordLanes DEF At
    <2>5. WriteOne <=> c + 1 = n
      BY <1>1, <1>3, WrapValue DEF WriteOne
    <2> QED
      BY <1>1, <1>3, <2>1, <2>4, <2>5
  <1> QED
    BY <1>2, <1>3

-----------------------------------------------------------------------------
(* RefinementInv.                                                          *)

\* Managers write aligned addresses and representable lengths only.
LEMMA DriverStep ==
  ASSUME RefinementInv, NEW req \in Requests \cup {NoRequest}, NEW gnt \in BOOLEAN,
         Tick(req, gnt)
  PROVE  DriverInv'
  <1> USE DEF RefinementInv, ResultsInv, IInv
  <1>1. CASE IdleWriteRegister(req, gnt)
    <2>1. sbr \in Requests /\ sbr.we
      BY <1>1 DEF IdleWriteRegister, Writes, TypeOK, NoRequest
    <2>2. /\ Writes("SOURCE") => sbr.wdata % 4 = 0
          /\ Writes("DESTINATION") => sbr.wdata % 4 = 0
          /\ Writes("NR_OF_ELEMENTS") => sbr.wdata < AddrSpace - 1
      BY <2>1, DriverAssumption DEF Writes
    <2> QED
      BY <1>1, <2>2 DEF IdleWriteRegister, DriverInv
  <1>2. CASE ~IdleWriteRegister(req, gnt)
    BY <1>2
       DEF Tick, IdleStart, IdleOther, ReadElements, WaitReadResponse, StartCordic,
           WaitCordic, WriteElements, WaitWriteResponse, Done, DriverInv, regs
  <1> QED
    BY <1>1, <1>2

\* A response word holds the operands the present memory has.
LEMMA ReadGivesFresh ==
  ASSUME RefinementInv, Busy
  PROVE  LET r == MemRead(ReadAddr)
         IN  /\ operation # ATAN =>
                  \A y : Fresh(0, r.lo, y) /\ Fresh(1, r.hi, y)
             /\ operation = ATAN => Fresh(which_input, r.lo, r.hi)
  <1> USE DEF RefinementInv, ResultsInv, IInv
  <1>1. /\ MemRead(ReadAddr).lo = mem[Lane(ReadAddr, 0)]
        /\ MemRead(ReadAddr).hi = mem[Lane(ReadAddr, 1)]
    BY DEF MemRead, Pair
  <1>2. Results \in Nat
    BY ChunkAddresses
  <1>3. CASE operation # ATAN
    <2>1. \A l \in {0, 1} : Lane(ReadAddr, l) = At(source_array_address, Results + l)
      BY <1>3, ChunkAddresses
    <2>2. \A k : ResultOf(ThisJob, k) =
                   Result(operation, mem[At(source_array_address, k)], Zero)
      BY <1>3 DEF ResultOf, ThisJob
    <2>3. Results + 0 = Results
      BY <1>2
    <2> QED
      BY <1>1, <1>3, <2>1, <2>2, <2>3, UnaryResult DEF Fresh
  <1>4. CASE operation = ATAN
    <2> DEFINE k == Results + which_input
    <2>1. \A l \in {0, 1} : Lane(ReadAddr, l) = At(source_array_address, 2 * k + l)
      BY <1>4, ChunkAddresses
    <2>2. ResultOf(ThisJob, k) =
            Result(operation, mem[At(source_array_address, 2 * k)],
                              mem[At(source_array_address, 2 * k + 1)])
      BY <1>4 DEF ResultOf, ThisJob
    <2>3. 2 * k + 0 = 2 * k
      BY <1>2 DEF TypeOK
    <2> QED
      BY <1>1, <1>4, <2>1, <2>2, <2>3 DEF Fresh
  <1> QED
    BY <1>3, <1>4

\* Nothing writes to memory between a chunk's reads and its write.
LEMMA FreshStep ==
  ASSUME RefinementInv, NEW req \in Requests \cup {NoRequest}, NEW gnt \in BOOLEAN,
         Tick(req, gnt)
  PROVE  FreshInv'
  <1> USE DEF RefinementInv, ResultsInv, IInv
  <1>1. CASE state \in {"IDLE", "DONE", "WAIT_WRITE_RESPONSE"}
    <2>1. state' \in {"IDLE", "DONE", "READ_ELEMENTS"} /\ which_input' # 1
      BY <1>1
         DEF Tick, IdleStart, IdleWriteRegister, IdleOther, ReadElements,
             WaitReadResponse, StartCordic, WaitCordic, WriteElements,
             WaitWriteResponse, Done, datapath, SecondWordInv, HandshakeInv
    <2> QED
      BY <2>1 DEF FreshInv
  <1>2. CASE state \notin {"IDLE", "DONE", "WAIT_WRITE_RESPONSE"}
    <2>1. Busy /\ UNCHANGED regs /\ element_counter' = element_counter
      BY <1>2
         DEF Busy, Tick, IdleStart, IdleWriteRegister, IdleOther, ReadElements,
             WaitReadResponse, StartCordic, WaitCordic, WriteElements,
             WaitWriteResponse, Done, datapath
    <2>2. mem' = mem => ThisJob' = ThisJob
      BY <2>1 DEF ThisJob, regs
    <2>3. Results' = Results /\ operation' = operation
      BY <2>1 DEF Results, regs
    <2>4. CASE ReadElements(req, gnt)
      <3>1. mem' = mem
        BY <2>4, MemoryStep DEF ReadElements
      <3>2. elements' = elements /\ which_input' = which_input
            /\ state' \in {"READ_ELEMENTS", "WAIT_READ_RESPONSE"}
        BY <2>4 DEF ReadElements, datapath
      <3> QED
        BY <2>2, <2>3, <3>1, <3>2 DEF FreshInv, Fresh
    <2>5. CASE WaitReadResponse(req, gnt)
      <3>1. mem' = mem
        BY <2>5, MemoryStep DEF WaitReadResponse
      <3>2. mgr.rvalid /\ mgr.rdata = MemRead(ReadAddr)
        BY <2>5 DEF WaitReadResponse, HandshakeInv
      <3>3. CASE operation = ATAN
        <4>1. Fresh(which_input, mgr.rdata.lo, mgr.rdata.hi)
          BY <2>1, <3>2, <3>3, ReadGivesFresh
        <4>2. elements' = [elements EXCEPT ![which_input] = mgr.rdata]
          BY <2>5, <3>2, <3>3 DEF WaitReadResponse
        <4>3. CASE which_input = 0
          <5>1. elements'[0] = mgr.rdata
            BY <4>2, <4>3 DEF TypeOK, Engines
          <5>2. CASE state' = "READ_ELEMENTS"
            BY <2>2, <2>3, <3>1, <4>1, <4>3, <5>1, <5>2 DEF FreshInv, Fresh
          <5>3. CASE state' = "START_CORDIC" /\ Wrap(element_counter + 2) = number_of_elements
            <6>1. Results + 1 = NumResults(ThisJob)
              <7>1. WriteOne
                BY <3>3, <5>3 DEF WriteOne
              <7> QED
                BY <2>1, <7>1, ChunkAddresses
            <6>2. Results \in Nat
              BY <2>1, ChunkAddresses
            <6>3. Fresh(0, elements[0].lo, elements[0].hi)'
                  /\ Fresh(1, elements[1].lo, elements[1].hi)'
              BY <2>2, <2>3, <3>1, <4>1, <4>3, <5>1, <6>1, <6>2 DEF Fresh
            <6>4. which_input' = 0
              BY <2>5, <3>2, <3>3, <5>3 DEF WaitReadResponse
            <6> QED
              BY <5>3, <6>3, <6>4 DEF FreshInv, Engines
          <5> QED
            BY <2>5, <3>2, <3>3, <4>3, <5>2, <5>3 DEF WaitReadResponse
        <4>4. CASE which_input = 1
          <5>1. elements'[1] = mgr.rdata /\ elements'[0] = elements[0]
            BY <4>2, <4>4 DEF TypeOK, Engines
          <5>2. state' = "START_CORDIC" /\ which_input' = 0
            BY <2>5, <3>2, <3>3, <4>4 DEF WaitReadResponse
          <5>3. Fresh(0, elements[0].lo, elements[0].hi)
            BY <4>4 DEF FreshInv
          <5> QED
            BY <2>2, <2>3, <3>1, <4>1, <4>4, <5>1, <5>2, <5>3
               DEF FreshInv, Fresh, Engines
        <4> QED
          BY <4>3, <4>4 DEF TypeOK
      <3>4. CASE operation # ATAN
        <4>1. \A y : Fresh(0, mgr.rdata.lo, y) /\ Fresh(1, mgr.rdata.hi, y)
          BY <2>1, <3>2, <3>4, ReadGivesFresh
        <4>2. elements' = [elements EXCEPT ![0].lo = mgr.rdata.lo,
                                           ![1].lo = mgr.rdata.hi]
          BY <2>5, <3>2, <3>4 DEF WaitReadResponse
        <4>3. elements'[0].lo = mgr.rdata.lo /\ elements'[1].lo = mgr.rdata.hi
          BY <4>2 DEF TypeOK, Engines
        <4>4. state' = "START_CORDIC" /\ which_input' # 1
          BY <2>5, <3>2, <3>4 DEF WaitReadResponse, SecondWordInv
        <4> QED
          BY <2>2, <2>3, <3>1, <4>1, <4>3, <4>4 DEF FreshInv, Fresh, Engines
      <3> QED
        BY <3>3, <3>4
    <2>6. CASE StartCordic(req, gnt)
      <3>1. mem' = mem
        BY <2>6, MemoryStep DEF StartCordic
      <3>2. state' = "WAIT_CORDIC" /\ which_input' # 1
        BY <2>6 DEF StartCordic, datapath, SecondWordInv
      <3>3. \A k \in Engines : /\ cordic'[k].in0 = elements[k].lo
                               /\ cordic'[k].in1 = elements[k].hi
        BY <2>6, EnginesTakeOperands
      <3>4. \A k \in Engines : Fresh(k, elements[k].lo, elements[k].hi)
        BY <2>6 DEF StartCordic, FreshInv
      <3> QED
        BY <2>2, <2>3, <3>1, <3>2, <3>3, <3>4 DEF FreshInv, Fresh
    <2>7. CASE WaitCordic(req, gnt)
      <3>1. mem' = mem
        BY <2>7, MemoryStep DEF WaitCordic
      <3>2. which_input' # 1
        BY <2>7 DEF WaitCordic, SecondWordInv
      <3>3. \A k \in Engines : Fresh(k, cordic[k].in0, cordic[k].in1)
        BY <2>7 DEF WaitCordic, FreshInv
      <3>4. \/ /\ state' = "WRITE_ELEMENTS"
               /\ \A k \in Engines :
                    elements'[k].lo = Result(operation, cordic[k].in0, cordic[k].in1)
            \/ /\ state' = "WAIT_CORDIC"
               /\ \A k \in Engines : /\ cordic'[k].in0 = cordic[k].in0
                                     /\ cordic'[k].in1 = cordic[k].in1
        BY <2>7, EnginesGiveResults
      <3> QED
        BY <2>2, <2>3, <3>1, <3>2, <3>3, <3>4 DEF FreshInv, Fresh
    <2>8. CASE WriteElements(req, gnt)
      <3>1. which_input' # 1 /\ elements' = elements
            /\ state' \in {"WRITE_ELEMENTS", "WAIT_WRITE_RESPONSE"}
        BY <2>8 DEF WriteElements, datapath, SecondWordInv
      <3>2. CASE gnt
        BY <2>8, <3>1, <3>2 DEF FreshInv, WriteElements, ClockEdge, ManagerPort
      <3>3. CASE ~gnt
        <4>1. mem' = mem /\ ~mgr'.gnt
          BY <2>8, <3>3 DEF WriteElements, ClockEdge, ManagerPort, Sram
        <4>2. state' = "WRITE_ELEMENTS" => ~mgr.gnt
          BY <2>8 DEF WriteElements
        <4> QED
          BY <2>2, <2>3, <2>8, <3>1, <4>1, <4>2 DEF FreshInv, WriteElements
      <3> QED
        BY <3>2, <3>3
    <2> QED
      BY <1>2, <2>4, <2>5, <2>6, <2>7, <2>8
         DEF Tick, IdleStart, IdleWriteRegister, IdleOther, WaitWriteResponse, Done
  <1> QED
    BY <1>1, <1>2

-----------------------------------------------------------------------------
(* The abstract specification's operators are those of the accelerator.    *)

\* The two specifications share their vocabulary.
LEMMA SameArrays ==
  /\ Job!Halfwords = Halfwords /\ Job!WordRange = WordRange
  /\ Job!Operations = Operations
  /\ Job!SIN = SIN /\ Job!ATAN = ATAN
  /\ \A b, k : Job!At(b, k) = At(b, k)
  /\ \A op, x, y : Job!Result(op, x, y) = Result(op, x, y)
  /\ \A j, k : Job!ResultOf(j, k) = ResultOf(j, k)
  <1>1. \A op, x, y : Job!Result(op, x, y) = Result(op, x, y)
    BY DEF Job!Result, Result, Job!ATAN, ATAN, Job!SIN, SIN, Job!COS, COS,
           Job!SQRT, SQRT, Job!RECIPROCAL, RECIPROCAL
  <1>2. \A b, k : Job!At(b, k) = At(b, k)
    BY DEF Job!At, At, Job!Wrap, Wrap, Job!AddrSpace, AddrSpace
  <1>3. \A j, k : Job!ResultOf(j, k) = ResultOf(j, k)
    BY <1>1, <1>2 DEF Job!ResultOf, ResultOf, Job!ATAN, ATAN
  <1> QED
    BY <1>1, <1>2, <1>3
       DEF Job!Halfwords, Halfwords, Job!WordRange, WordRange, Job!AddrSpace,
           AddrSpace, Job!Operations, Operations, Job!SIN, SIN, Job!ATAN, ATAN


-----------------------------------------------------------------------------
(* Every step is a step of the job or none.                                *)

\* What the job sees of a step that leaves registers and memory alone.
JobStutters ==
  /\ UNCHANGED <<PhaseBar, ProgressBar, mem>>
  /\ UNCHANGED regs

\* The results of a chunk appear with its first granted write.
LEMMA WriteRefines ==
  ASSUME RefinementInv, NEW req \in Requests \cup {NoRequest}, NEW gnt \in BOOLEAN,
         WriteElements(req, gnt)
  PROVE  Job!Chunk \/ JobStutters
  <1> USE DEF RefinementInv, ResultsInv, IInv
  <1>1. /\ Busy /\ UNCHANGED regs /\ elements' = elements
        /\ element_counter' = element_counter /\ PhaseBar = "busy"
        /\ state' \in {"WRITE_ELEMENTS", "WAIT_WRITE_RESPONSE"}
      BY DEF WriteElements, datapath, Busy, PhaseBar
  <1>2. PhaseBar' = "busy" /\ Busy' /\ Step' = Step
    BY <1>1 DEF PhaseBar, Busy, Step, regs
  <1>3. mgr'.gnt = gnt
    BY DEF WriteElements, ClockEdge, ManagerPort
  <1>4. CASE mgr.gnt
    <2>1. mem' = mem
      BY <1>4 DEF HandshakeInv, WriteElements, ClockEdge, Sram, MgrWe
    <2>2. ProgressBar = element_counter + Step /\ ProgressBar' = element_counter + Step
      BY <1>1, <1>2, <1>4 DEF ProgressBar, ChunkWritten, WriteElements
    <2> QED
      BY <1>1, <1>2, <2>1, <2>2 DEF JobStutters
  <1>5. CASE ~mgr.gnt /\ ~gnt
    <2>1. mem' = mem
      BY <1>5 DEF WriteElements, ClockEdge, Sram
    <2>2. ProgressBar = element_counter /\ ProgressBar' = element_counter
      BY <1>1, <1>2, <1>3, <1>5 DEF ProgressBar, ChunkWritten, WriteElements
    <2> QED
      BY <1>1, <1>2, <2>1, <2>2 DEF JobStutters
  <1>6. CASE ~mgr.gnt /\ gnt
    <2>1. mem' = MemAfterWrite
      BY <1>6 DEF WriteElements, ClockEdge, Sram, MgrWe
    <2>2. ProgressBar = element_counter /\ ProgressBar' = element_counter + Step
      BY <1>1, <1>2, <1>3, <1>6 DEF ProgressBar, ChunkWritten, WriteElements
    <2> DEFINE now == [op |-> operation, src |-> source_array_address, mem |-> mem]
               E == Job!Elements
               first == element_counter \div E
               both == element_counter + E < number_of_elements
               d == destination_array_address
    <2>3. /\ first = Results /\ Step = 2 * E
          /\ both <=> ~WriteOne
          /\ element_counter < number_of_elements
      <3>1. /\ element_counter \in Nat /\ number_of_elements \in Nat
            /\ element_counter < number_of_elements
            /\ element_counter % Step = 0 /\ Results \in Nat
            /\ WriteOne <=> Results + 1 = NumResults(ThisJob)
            /\ Results < NumResults(ThisJob)
        BY <1>1, ChunkAddresses
           DEF TypeOK, WordRange, AddrSpace, CounterInBounds, CounterAligned
      <3>2. CASE operation = ATAN
        <4>1. E = 2 /\ Step = 4 /\ Results = element_counter \div 2
              /\ NumResults(ThisJob) = (number_of_elements + 1) \div 2
          BY <3>2, SameArrays DEF Job!Elements, Step, Results, NumResults, ThisJob
        <4> QED
          BY <3>1, <4>1
      <3>3. CASE operation # ATAN
        <4>1. E = 1 /\ Step = 2 /\ Results = element_counter
              /\ NumResults(ThisJob) = number_of_elements
          BY <3>3, SameArrays DEF Job!Elements, Step, Results, NumResults, ThisJob
        <4> QED
          BY <3>1, <4>1
      <3> QED
        BY <3>2, <3>3
    <2>4. /\ elements[0].lo = ResultOf(now, Results)
          /\ ~WriteOne => elements[1].lo = ResultOf(now, Results + 1)
      <3>1. \A k : ResultOf(ThisJob, k) = ResultOf(now, k)
        BY DEF ResultOf, ThisJob
      <3>2. /\ Results \in Nat /\ Results < NumResults(ThisJob)
            /\ WriteOne <=> Results + 1 = NumResults(ThisJob)
            /\ NumResults(ThisJob) \in Nat
        BY <1>1, ChunkAddresses
      <3>3. \A k \in Engines : Results + k < NumResults(ThisJob) =>
                                 elements[k].lo = ResultOf(ThisJob, Results + k)
        BY <1>6 DEF WriteElements, FreshInv
      <3> QED
        BY <3>1, <3>2, <3>3 DEF Engines
    <2>5. MemAfterWrite =
            [h \in Halfwords |->
               IF h = At(d, first) THEN ResultOf(now, first)
               ELSE IF both /\ h = At(d, first + 1)
               THEN ResultOf(now, first + 1)
               ELSE mem[h]]
      <3>1. /\ Lane(WriteAddr, 0) = At(d, Results)
            /\ Lane(WriteAddr, 1) = At(d, Results + 1)
        BY <1>1, ChunkAddresses
      <3> HIDE DEF E, first, both, now
      <3> QED
        BY <2>3, <2>4, <3>1 DEF MemAfterWrite, WriteData, Pair
    <2>6. mem' =
            [h \in Job!Halfwords |->
               IF h = Job!At(d, first) THEN Job!ResultOf(now, first)
               ELSE IF both /\ h = Job!At(d, first + 1)
               THEN Job!ResultOf(now, first + 1)
               ELSE mem[h]]
      <3> HIDE DEF E, first, both, now
      <3> QED
        BY <2>1, <2>5, SameArrays
    <2>7. ProgressBar < number_of_elements /\ ProgressBar' = ProgressBar + 2 * E
      BY <2>2, <2>3
    <2>8. UNCHANGED <<PhaseBar, operation, source_array_address,
                      number_of_elements, destination_array_address>>
      BY <1>1, <1>2 DEF regs
    <2> QED
      BY <1>1, <2>2, <2>6, <2>7, <2>8 DEF Job!Chunk, Job!params
  <1> QED
    BY <1>4, <1>5, <1>6

\* The last chunk finishes the job; after any other one the progress is that
\* of the counter, which has not wrapped.
LEMMA ResponseRefines ==
  ASSUME RefinementInv, NEW req \in Requests \cup {NoRequest}, NEW gnt \in BOOLEAN,
         WaitWriteResponse(req, gnt)
  PROVE  Job!Finish \/ JobStutters
  <1> USE DEF RefinementInv, ResultsInv, IInv
  <1> DEFINE A == AddrSpace
             n == number_of_elements
             c == element_counter
  <1>1. /\ Busy /\ UNCHANGED regs /\ PhaseBar = "busy" /\ ProgressBar = c + Step
        /\ element_counter' = Wrap(c + Step)
        /\ state' = IF LastChunk THEN "DONE" ELSE "READ_ELEMENTS"
    BY DEF WaitWriteResponse, HandshakeInv, Busy, PhaseBar, ProgressBar, ChunkWritten
  <1>2. mem' = mem
    BY DEF WaitWriteResponse, ClockEdge, Sram, MgrWe
  <1>3. /\ A \in Nat /\ A > 0 /\ A % 4 = 0 /\ n \in Nat /\ n < A - 1
        /\ c \in Nat /\ c < n /\ c % Step = 0
    BY <1>1, ArraysAssumption
       DEF TypeOK, WordRange, AddrSpace, DriverInv, CounterInBounds, CounterAligned
  <1>4. /\ c + 2 < A => Wrap(c + 2) = c + 2
        /\ c + 4 < A => Wrap(c + 4) = c + 4
        /\ A <= c + 2 => Wrap(c + 2) = c + 2 - A
        /\ A <= c + 4 /\ c + 4 < 2 * A => Wrap(c + 4) = c + 4 - A
    BY <1>3, WrapValue
  <1>5. CASE LastChunk
    <2>1. ProgressBar >= n
      <3>1. CASE operation = ATAN
        BY <1>1, <1>3, <1>4, <1>5, <3>1 DEF LastChunk, Step
      <3>2. CASE operation # ATAN
        BY <1>1, <1>3, <1>4, <1>5, <3>2 DEF LastChunk, Step
      <3> QED
        BY <3>1, <3>2
    <2>2. PhaseBar' = "done" /\ ProgressBar' = 0
      BY <1>1, <1>5 DEF PhaseBar, ProgressBar, Busy
    <2> QED
      BY <1>1, <1>2, <2>1, <2>2 DEF Job!Finish, Job!params, regs
  <1>6. CASE ~LastChunk
    <2>1. Wrap(c + Step) = c + Step
      <3>1. CASE operation = ATAN
        <4>1. Wrap(c + 2) < n /\ c % 4 = 0
          BY <1>3, <1>4, <1>6, <3>1, WrapInRange
             DEF LastChunk, Step, WordRange
        <4>2. c + 4 < A
          BY <1>3, <1>4, <4>1
        <4> QED
          BY <1>4, <3>1, <4>2 DEF Step
      <3>2. CASE operation # ATAN
        <4>1. Wrap(c + 2) < n
          BY <1>3, <1>4, <1>6 DEF LastChunk
        <4>2. c + 2 < A
          BY <1>3, <1>4, <4>1
        <4> QED
          BY <1>4, <3>2, <4>2 DEF Step
      <3> QED
        BY <3>1, <3>2
    <2>2. PhaseBar' = "busy" /\ ProgressBar' = c + Step
      BY <1>1, <1>6, <2>1 DEF PhaseBar, ProgressBar, ChunkWritten, Busy
    <2> QED
      BY <1>1, <1>2, <2>2 DEF JobStutters
  <1> QED
    BY <1>5, <1>6

\* A register write sets one parameter of the job.
LEMMA RegisterRefines ==
  ASSUME RefinementInv, NEW req \in Requests \cup {NoRequest}, NEW gnt \in BOOLEAN,
         IdleWriteRegister(req, gnt)
  PROVE  Job!SetParameter
  <1> USE DEF RefinementInv, ResultsInv, IInv
  <1>1. PhaseBar = "idle" /\ UNCHANGED <<PhaseBar, ProgressBar>>
    BY DEF IdleWriteRegister, PhaseBar, ProgressBar, Busy
  <1>2. mem' = mem
    BY DEF IdleWriteRegister, ClockEdge, Sram, MgrWe
  <1>3. TypeOK'
    BY TypeStep DEF Tick
  <1>4. PICK reg \in Parameters : Writes(reg)
    BY DEF IdleWriteRegister
  <1>5. \A r : Writes(r) => r = reg
    BY <1>4 DEF Writes
  <1>6. /\ operation' \in Job!Operations
        /\ source_array_address' \in Job!WordRange
        /\ number_of_elements' \in Job!WordRange
        /\ destination_array_address' \in Job!WordRange
    BY <1>3, SameArrays DEF TypeOK
  <1>7. /\ reg # "OPERATION" => operation' = operation
        /\ reg # "SOURCE" => source_array_address' = source_array_address
        /\ reg # "NR_OF_ELEMENTS" => number_of_elements' = number_of_elements
        /\ reg # "DESTINATION" =>
             destination_array_address' = destination_array_address
    BY <1>5 DEF IdleWriteRegister
  <1> QED
    BY <1>1, <1>2, <1>4, <1>6, <1>7 DEF Job!SetParameter, Parameters

\* The steps that neither write memory nor set a parameter.
LEMMA OtherStepsRefine ==
  ASSUME RefinementInv, NEW req \in Requests \cup {NoRequest}, NEW gnt \in BOOLEAN
  PROVE  /\ IdleStart(req, gnt) => Job!Start
         /\ IdleOther(req, gnt) => JobStutters
         /\ ReadElements(req, gnt) => JobStutters
         /\ WaitReadResponse(req, gnt) => JobStutters
         /\ StartCordic(req, gnt) => JobStutters
         /\ WaitCordic(req, gnt) => JobStutters
         /\ Done(req, gnt) => Job!Acknowledge \/ JobStutters
  <1> USE DEF RefinementInv, ResultsInv, IInv
  <1>1. ASSUME Tick(req, gnt), state # "WRITE_ELEMENTS" PROVE mem' = mem
    BY <1>1, MemoryStep
  <1>2. ASSUME IdleStart(req, gnt) PROVE Job!Start
    <2>1. /\ PhaseBar = "idle" /\ ProgressBar = 0 /\ ProgressBar' = 0
          /\ PhaseBar' = IF number_of_elements > 0 THEN "busy" ELSE "done"
      BY <1>2 DEF IdleStart, PhaseBar, ProgressBar, ChunkWritten, Busy
    <2>2. mem' = mem
      BY <1>1, <1>2 DEF IdleStart, Tick
    <2> QED
      BY <1>2, <2>1, <2>2 DEF IdleStart, regs, Job!Start, Job!params
  <1>3. ASSUME IdleOther(req, gnt) PROVE JobStutters
    BY <1>1, <1>3 DEF IdleOther, Tick, JobStutters, PhaseBar, ProgressBar, Busy
  <1>4. ASSUME \/ ReadElements(req, gnt) \/ WaitReadResponse(req, gnt)
               \/ StartCordic(req, gnt) \/ WaitCordic(req, gnt)
        PROVE  JobStutters
    <2>1. /\ Busy /\ Busy' /\ ~ChunkWritten /\ state # "WRITE_ELEMENTS"
          /\ element_counter' = element_counter /\ UNCHANGED regs
      BY <1>4
         DEF ReadElements, WaitReadResponse, StartCordic, WaitCordic, Busy,
             ChunkWritten, datapath
    <2>2. ~ChunkWritten'
      <3>1. CASE WaitCordic(req, gnt)
        <4>1. ~mgr'.gnt
          BY <3>1 DEF WaitCordic, ClockEdge, ManagerPort, Crossbar, MgrReq
        <4> QED
          BY <3>1, <4>1 DEF WaitCordic, ChunkWritten
      <3>2. CASE ~WaitCordic(req, gnt)
        BY <1>4, <3>2 DEF ReadElements, WaitReadResponse, StartCordic, ChunkWritten
      <3> QED
        BY <3>1, <3>2
    <2>3. mem' = mem
      BY <1>1, <1>4, <2>1 DEF Tick
    <2>4. PhaseBar = "busy" /\ PhaseBar' = "busy"
      BY <2>1 DEF PhaseBar, Busy
    <2> QED
      BY <2>1, <2>2, <2>3, <2>4 DEF JobStutters, ProgressBar
  <1>5. ASSUME Done(req, gnt) PROVE Job!Acknowledge \/ JobStutters
    <2>1. /\ PhaseBar = "done" /\ PhaseBar' \in {"done", "idle"}
          /\ ProgressBar = 0 /\ ProgressBar' = 0 /\ UNCHANGED regs
      BY <1>5 DEF Done, PhaseBar, ProgressBar, Busy
    <2>2. mem' = mem
      BY <1>1, <1>5 DEF Done, Tick
    <2> QED
      BY <2>1, <2>2 DEF Job!Acknowledge, Job!params, JobStutters, regs
  <1> QED
    BY <1>2, <1>3, <1>4, <1>5

-----------------------------------------------------------------------------

\* RefinementInv is inductive.
THEOREM RefinementInvariant == Spec => []RefinementInv
  <1>1. Init => DriverInv /\ FreshInv
    <2>1. Init => 0 < AddrSpace - 1
      BY ArraysAssumption DEF AddrSpace
    <2> QED
      BY <2>1 DEF Init, DriverInv, FreshInv
  <1>2. ResultsInv /\ RefinementInv /\ [Next]_vars /\ ResultsInv' => RefinementInv'
    <2> SUFFICES ASSUME RefinementInv, [Next]_vars, ResultsInv'
                 PROVE  DriverInv' /\ FreshInv'
      BY DEF RefinementInv
    <2>1. ASSUME NEW req \in Requests \cup {NoRequest}, NEW gnt \in BOOLEAN,
                 Tick(req, gnt)
          PROVE  DriverInv' /\ FreshInv'
      BY <2>1, DriverStep, FreshStep
    <2>2. CASE Reset
      <3>1. 0 < AddrSpace - 1
        BY ArraysAssumption DEF AddrSpace
      <3> QED
        BY <2>2, <3>1 DEF Reset, DriverInv, FreshInv
    <2>3. CASE UNCHANGED vars
      <3>1. /\ UNCHANGED <<state, elements, which_input, mgr, cordic, operation,
                           source_array_address, number_of_elements,
                           destination_array_address>>
            /\ ThisJob' = ThisJob /\ Results' = Results
        BY <2>3 DEF vars, regs, datapath, ThisJob, Results
      <3> QED
        BY <3>1 DEF RefinementInv, DriverInv, FreshInv, Fresh
    <2> QED
      BY <2>1, <2>2, <2>3 DEF Next, Clock
  <1> QED
    BY ResultsInvariant, <1>1, <1>2, PTL DEF Spec, RefinementInv

\* The accelerator implements the abstract job: whatever the bus and the
\* managers do, memory, registers and phase change by its steps alone.
THEOREM Refinement == Spec => Job!Spec
  <1>1. Init => Job!Init
    BY SameArrays
       DEF Init, Job!Init, PhaseBar, ProgressBar, Busy
  <1>2. RefinementInv /\ [Next]_vars => [Job!Next]_(Job!vars)
    <2> SUFFICES ASSUME RefinementInv, [Next]_vars
                 PROVE  Job!Next \/ UNCHANGED Job!vars
      OBVIOUS
    <2>1. JobStutters => UNCHANGED Job!vars
      BY DEF JobStutters, regs, Job!vars, Job!params
    <2>2. ASSUME NEW req \in Requests \cup {NoRequest}, NEW gnt \in BOOLEAN,
                 Tick(req, gnt)
          PROVE  Job!Next \/ JobStutters
      BY <2>2, WriteRefines, ResponseRefines, RegisterRefines, OtherStepsRefine
         DEF Tick, Job!Next
    <2>3. CASE Reset
      <3>1. PhaseBar' = "idle" /\ ProgressBar' = 0
        BY <2>3 DEF Reset, PhaseBar, ProgressBar, Busy
      <3> QED
        BY <2>3, <3>1, SameArrays DEF Reset, Job!Reset, Job!Next
    <2>4. CASE UNCHANGED vars
      BY <2>4 DEF vars, regs, datapath, Job!vars, Job!params, PhaseBar, ProgressBar,
                  ChunkWritten, Busy, Step
    <2> QED
      BY <2>1, <2>2, <2>3, <2>4 DEF Next, Clock
  <1> QED
    BY RefinementInvariant, <1>1, <1>2, PTL DEF Spec, Job!Spec

=============================================================================

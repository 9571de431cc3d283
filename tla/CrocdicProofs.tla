---------------------------- MODULE CrocdicProofs ----------------------------
(***************************************************************************)
(* The safety of CrocdicTop for every size of the memory, every set of     *)
(* requests, every length and position of the arrays, every arithmetic and *)
(* every bound of the environment.  First control and handshake, then the  *)
(* memory that it leaves: while a job runs nothing outside its destination *)
(* array changes, and when completion is reported every result is there.   *)
(***************************************************************************)
EXTENDS CrocdicTop, TLAPS

\* The bus handshake, cycle by cycle.  A latched grant in a request state
\* means that the response to this very request is on the bus now, so that
\* it is latched when the FSM looks for it; outside the four bus states no
\* grant is latched, so that none is taken for the grant of the next request.
HandshakeInv ==
  /\ state = "READ_ELEMENTS" /\ mgr.gnt =>
       sram.rvalid /\ sram.rdata = MemRead(ReadAddr)
  /\ state = "WAIT_READ_RESPONSE" => mgr.rvalid /\ mgr.rdata = MemRead(ReadAddr)
  /\ state = "WRITE_ELEMENTS" /\ mgr.gnt => sram.rvalid /\ mem = MemAfterWrite
  /\ state = "WAIT_WRITE_RESPONSE" => mgr.rvalid /\ mem = MemAfterWrite
  /\ state \in {"IDLE", "START_CORDIC", "WAIT_CORDIC", "DONE"} => ~mgr.gnt

\* The engines work only while the FSM waits for them, both in the same
\* iteration, on the operation of the register file.
EnginesInv ==
  /\ cordic[0].state = cordic[1].state
  /\ cordic[0].count = cordic[1].count
  /\ state # "WAIT_CORDIC" => cordic[0].state = "IDLE"
  /\ state = "WAIT_CORDIC" =>
       /\ cordic[0].state # "IDLE"
       /\ \A k \in Engines : cordic[k].op = operation
  /\ cordic[0].state = "CALCULATE" => cordic[0].count < Kfinal(operation)

IInv ==
  TypeOK /\ HandshakeInv /\ EnginesInv /\ ParametersFrozen /\ CounterInBounds

-----------------------------------------------------------------------------
(* Facts about the data the model moves.                                   *)

\* A register wraps to a register value, so every address is one.
LEMMA WrapInRange == \A x \in Nat : Wrap(x) \in WordRange
  BY ArraysAssumption DEF Wrap, WordRange, AddrSpace

\* Read and write addresses are register values.
LEMMA AddressesInRange ==
  ASSUME TypeOK
  PROVE  ReadAddr \in WordRange /\ WriteAddr \in WordRange
  <1>1. /\ source_array_address + 2 * (element_counter + 2) \in Nat
        /\ source_array_address + 2 * element_counter \in Nat
        /\ destination_array_address + element_counter \in Nat
        /\ destination_array_address + 2 * element_counter \in Nat
    BY ArraysAssumption DEF TypeOK, WordRange, AddrSpace
  <1> QED
    BY <1>1, WrapInRange DEF ReadAddr, WriteAddr

\* Both lanes of an address are halfwords of the memory.
LEMMA LaneInRange ==
  \A a \in WordRange, l \in {0, 1} : Lane(a, l) \in Halfwords
  BY ArraysAssumption DEF WordRange, AddrSpace, Halfwords, Lane

\* The SRAM answers a read with two values of the memory.
LEMMA MemReadType ==
  ASSUME TypeOK, NEW a \in WordRange
  PROVE  MemRead(a) \in [lo : Data, hi : Data]
  BY LaneInRange DEF MemRead, Pair, TypeOK

\* The memory stays an array of values when a chunk is written.
LEMMA MemAfterWriteType ==
  ASSUME TypeOK
  PROVE  MemAfterWrite \in [Halfwords -> Data]
  BY DEF MemAfterWrite, WriteData, Pair, TypeOK, Engines

\* A finished engine whose operation has not changed delivers a value.
LEMMA ResultType ==
  \A op \in Operations, x, y \in Data : Result(op, x, y) \in Data
  BY ArraysAssumption, Zenon DEF Result

\* Carrying out the write of a chunk twice is carrying it out once.
LEMMA WriteIsIdempotent ==
  ASSUME mem' = MemAfterWrite,
         UNCHANGED <<operation, number_of_elements, destination_array_address,
                     elements, element_counter>>
  PROVE  mem' = MemAfterWrite'
  BY DEF MemAfterWrite, WriteData, WriteAddr, WriteOne, Pair

-----------------------------------------------------------------------------
(* The clock edge: what every step of the FSM does to the ports, the       *)
(* memory and the engines.                                                 *)

\* The bus side of a clock edge keeps its types.
LEMMA BusType ==
  ASSUME TypeOK, NEW req \in Requests \cup {NoRequest}, NEW gnt \in BOOLEAN,
         NEW en \in BOOLEAN, ClockEdge(req, gnt, en)
  PROVE  /\ sbr' \in Requests \cup {NoRequest}
         /\ mgr' \in [gnt : BOOLEAN, rvalid : BOOLEAN, rdata : BusWord]
         /\ sram' \in [rvalid : BOOLEAN, rdata : BusWord]
         /\ denied' \in 0 .. MaxDenied
         /\ mem' \in [Halfwords -> Data]
  <1>1. sbr' \in Requests \cup {NoRequest}
    BY DEF ClockEdge, SubordinatePort
  <1>2. mgr' \in [gnt : BOOLEAN, rvalid : BOOLEAN, rdata : BusWord]
    BY DEF ClockEdge, ManagerPort, TypeOK
  <1>3. sram' \in [rvalid : BOOLEAN, rdata : BusWord]
    BY MemReadType, AddressesInRange DEF ClockEdge, Sram, BusWord
  <1>4. denied' \in 0 .. MaxDenied
    BY TopAssumption DEF ClockEdge, Crossbar, TypeOK
  <1>5. mem' \in [Halfwords -> Data]
    BY MemAfterWriteType DEF ClockEdge, Sram, TypeOK
  <1> QED
    BY <1>1, <1>2, <1>3, <1>4, <1>5

\* The engines keep their types: operands, counters and operation.
LEMMA EngineType ==
  ASSUME TypeOK, EnginesInv, NEW req, NEW gnt, NEW en \in BOOLEAN,
         ClockEdge(req, gnt, en)
  PROVE  cordic' \in [Engines -> CordicType]
  <1> SUFFICES ASSUME NEW k \in Engines
               PROVE  CordicNext(cordic[k], en, operation, elements[k].lo,
                                 elements[k].hi) \in CordicType
    BY DEF ClockEdge, CordicEngines
  <1>1. cordic[k] \in CordicType /\ operation \in Operations
        /\ elements[k].lo \in Data /\ elements[k].hi \in Data
    BY DEF TypeOK
  <1>2. CASE cordic[k].state = "IDLE"
    BY <1>1, <1>2, IterAssumption
       DEF CordicNext, CordicLoad, CordicType, CordicStates
  <1>3. CASE cordic[k].state = "CALCULATE"
    <2>1. cordic[k].count < Kfinal(operation)
      BY <1>3 DEF EnginesInv, Engines
    <2>2. cordic[k].count # Kfinal(operation) - 1 => cordic[k].count + 1 \in 0 .. ITER
      BY <1>1, <2>1, IterAssumption DEF CordicType, Kfinal
    <2> QED
      BY <1>1, <1>3, <2>2 DEF CordicNext, CordicIterate, CordicType, CordicStates
  <1>4. CASE cordic[k].state = "DONE"
    BY <1>1, <1>4 DEF CordicNext, CordicType, CordicStates
  <1> QED
    BY <1>1, <1>2, <1>3, <1>4 DEF CordicType, CordicStates

-----------------------------------------------------------------------------
(* The five parts of IInv, step by step.                                   *)

\* The power-up state satisfies IInv.
LEMMA InitIInv == Init => IInv
  <1> SUFFICES ASSUME Init PROVE IInv
    OBVIOUS
  <1>1. TypeOK
    BY ArraysAssumption, IterAssumption, TopAssumption
       DEF Init, TypeOK, States, Operations, SIN, WordRange, AddrSpace, Engines,
           Pair, NoResponse, NoSramResponse, BusWord, NoPair, CordicReset,
           CordicType, CordicStates
  <1>2. HandshakeInv
    BY DEF Init, HandshakeInv, NoResponse
  <1>3. EnginesInv
    BY DEF Init, EnginesInv, Engines, CordicReset
  <1>4. ParametersFrozen /\ CounterInBounds
    BY DEF Init, ParametersFrozen, CounterInBounds, Busy
  <1> QED
    BY <1>1, <1>2, <1>3, <1>4 DEF IInv

\* Every step of the FSM keeps the types: in a wait state a response is
\* never taken before it is valid, and in WAIT_CORDIC no engine has lost its
\* operation.
LEMMA TypeStep ==
  ASSUME IInv, NEW req \in Requests \cup {NoRequest}, NEW gnt \in BOOLEAN,
         Tick(req, gnt)
  PROVE  TypeOK'
  <1> USE DEF IInv
  <1>1. ASSUME NEW en \in BOOLEAN, ClockEdge(req, gnt, en)
        PROVE  /\ sbr' \in Requests \cup {NoRequest}
               /\ mgr' \in [gnt : BOOLEAN, rvalid : BOOLEAN, rdata : BusWord]
               /\ sram' \in [rvalid : BOOLEAN, rdata : BusWord]
               /\ denied' \in 0 .. MaxDenied
               /\ mem' \in [Halfwords -> Data]
               /\ cordic' \in [Engines -> CordicType]
    BY <1>1, BusType, EngineType
  <1>2. CASE IdleStart(req, gnt)
    <2>1. 0 \in WordRange
      BY ArraysAssumption DEF WordRange, AddrSpace
    <2>2. element_counter' \in WordRange
      BY <1>2, <2>1 DEF IdleStart, TypeOK
    <2>3. started' \in Nat /\ state' \in States
      BY <1>2 DEF IdleStart, TypeOK, States
    <2> QED
      BY <1>1, <1>2, <2>2, <2>3 DEF IdleStart, TypeOK, regs
  <1>3. CASE IdleWriteRegister(req, gnt)
    <2>1. \E reg \in Parameters : Writes(reg)
      BY <1>3 DEF IdleWriteRegister
    <2>2. sbr.wdata \in WordRange
      <3>1. sbr.valid
        BY <2>1 DEF Writes
      <3>2. sbr \in RequestType
        BY <3>1, TopAssumption DEF TypeOK, NoRequest
      <3> QED
        BY <3>2 DEF RequestType
    <2>3. sbr.wdata % 8 \in Operations
      BY <2>2 DEF WordRange, Operations
    <2> QED
      BY <1>1, <1>3, <2>2, <2>3 DEF IdleWriteRegister, TypeOK, datapath, history
  <1>4. CASE IdleOther(req, gnt)
    BY <1>1, <1>4 DEF IdleOther, TypeOK, regs, datapath, history
  <1>5. CASE ReadElements(req, gnt)
    BY <1>1, <1>5 DEF ReadElements, TypeOK, States, regs, datapath, history
  <1>6. CASE WaitReadResponse(req, gnt)
    <2>1. mgr.rdata \in [lo : Data, hi : Data]
      BY <1>6, MemReadType, AddressesInRange DEF WaitReadResponse, HandshakeInv
    <2>2. elements' \in [Engines -> [lo : Data, hi : Data]] /\ which_input' \in {0, 1}
          /\ state' \in States
      BY <1>6, <2>1 DEF WaitReadResponse, TypeOK, Engines, States
    <2> QED
      BY <1>1, <1>6, <2>2 DEF WaitReadResponse, TypeOK, regs, history
  <1>7. CASE StartCordic(req, gnt)
    BY <1>1, <1>7 DEF StartCordic, TypeOK, States, regs, datapath, history
  <1>8. CASE WaitCordic(req, gnt)
    <2>1. \A k \in Engines : Output(cordic[k], operation) \in Data
      BY <1>8, ResultType DEF WaitCordic, EnginesInv, Output, TypeOK, CordicType
    <2>2. elements' \in [Engines -> [lo : Data, hi : Data]]
      BY <1>8, <2>1 DEF WaitCordic, TypeOK
    <2> QED
      BY <1>1, <1>8, <2>2 DEF WaitCordic, TypeOK, States, regs, history
  <1>9. CASE WriteElements(req, gnt)
    BY <1>1, <1>9 DEF WriteElements, TypeOK, States, regs, datapath, history
  <1>10. CASE WaitWriteResponse(req, gnt)
    <2>1. element_counter' \in WordRange
      BY <1>10, WrapInRange DEF WaitWriteResponse, TypeOK, WordRange, AddrSpace, Step
    <2> QED
      BY <1>1, <1>10, <2>1 DEF WaitWriteResponse, TypeOK, States, regs, history
  <1>11. CASE Done(req, gnt)
    BY <1>1, <1>11 DEF Done, TypeOK, States, regs, datapath
  <1> QED
    BY <1>2, <1>3, <1>4, <1>5, <1>6, <1>7, <1>8, <1>9, <1>10, <1>11 DEF Tick

\* A request state that has not latched a grant yet is granted, refused, or
\* has its first grant now; a wait state finds its response at once.
LEMMA HandshakeStep ==
  ASSUME IInv, NEW req \in Requests \cup {NoRequest}, NEW gnt \in BOOLEAN,
         Tick(req, gnt)
  PROVE  HandshakeInv'
  <1> USE DEF IInv
  <1>1. ASSUME NEW en, ClockEdge(req, gnt, en), ~MgrReq
        PROVE  ~mgr'.gnt
    BY <1>1 DEF ClockEdge, ManagerPort, Crossbar
  <1>2. ASSUME NEW en, ClockEdge(req, gnt, en)
        PROVE  mgr'.gnt = gnt /\ mgr'.rvalid = sram.rvalid /\ mgr'.rdata = sram.rdata
    BY <1>2 DEF ClockEdge, ManagerPort
  <1>3. CASE state \notin {"READ_ELEMENTS", "WRITE_ELEMENTS"}
    <2>1. ~mgr'.gnt
      BY <1>1, <1>3
         DEF MgrReq, Tick, IdleStart, IdleWriteRegister, IdleOther, ReadElements,
             WaitReadResponse, StartCordic, WaitCordic, WriteElements,
             WaitWriteResponse, Done
    <2>2. state' \notin {"WAIT_READ_RESPONSE", "WAIT_WRITE_RESPONSE"}
      BY <1>3
         DEF HandshakeInv, Tick, IdleStart, IdleWriteRegister, IdleOther,
             ReadElements, WaitReadResponse, StartCordic, WaitCordic,
             WriteElements, WaitWriteResponse, Done
    <2> QED
      BY <2>1, <2>2 DEF HandshakeInv
  <1>4. CASE state = "READ_ELEMENTS"
    <2>1. ReadElements(req, gnt)
      BY <1>4 DEF Tick, IdleStart, IdleWriteRegister, IdleOther, WaitReadResponse,
                  StartCordic, WaitCordic, WriteElements, WaitWriteResponse, Done
    <2>2. ClockEdge(req, gnt, FALSE)
      BY <2>1 DEF ReadElements
    <2>3. mem' = mem /\ ReadAddr' = ReadAddr
      BY <1>4, <2>1, <2>2
         DEF ReadElements, ClockEdge, Sram, MgrWe, regs, datapath, ReadAddr
    <2>4. MemRead(ReadAddr)' = MemRead(ReadAddr)
      BY <2>3 DEF MemRead, Pair
    <2>5. gnt => sram'.rvalid /\ sram'.rdata = MemRead(ReadAddr)
      BY <1>4, <2>2 DEF ClockEdge, Sram, MgrWe
    <2>6. CASE mgr.gnt
      BY <1>2, <1>4, <2>1, <2>2, <2>4, <2>6 DEF ReadElements, HandshakeInv
    <2>7. CASE ~mgr.gnt
      BY <1>2, <2>1, <2>2, <2>4, <2>5, <2>7 DEF ReadElements, HandshakeInv
    <2> QED
      BY <2>6, <2>7
  <1>5. CASE state = "WRITE_ELEMENTS"
    <2>1. WriteElements(req, gnt)
      BY <1>5 DEF Tick, IdleStart, IdleWriteRegister, IdleOther, WaitReadResponse,
                  StartCordic, WaitCordic, ReadElements, WaitWriteResponse, Done
    <2>2. ClockEdge(req, gnt, FALSE)
      BY <2>1 DEF WriteElements
    <2>3. gnt => mem' = MemAfterWrite /\ sram'.rvalid
      BY <1>5, <2>2 DEF ClockEdge, Sram, MgrWe
    <2>4. ~gnt => mem' = mem
      BY <2>2 DEF ClockEdge, Sram
    <2>5. ASSUME mem' = MemAfterWrite
          PROVE  (mem = MemAfterWrite)'
      BY <2>1, <2>5, WriteIsIdempotent DEF WriteElements, regs, datapath
    <2>6. CASE mgr.gnt
      <3>1. mem' = MemAfterWrite /\ sram.rvalid
        BY <1>5, <2>3, <2>4, <2>6 DEF HandshakeInv
      <3> QED
        BY <1>2, <2>1, <2>2, <2>5, <2>6, <3>1 DEF WriteElements, HandshakeInv
    <2>7. CASE ~mgr.gnt
      BY <1>2, <2>1, <2>2, <2>3, <2>5, <2>7 DEF WriteElements, HandshakeInv
    <2> QED
      BY <2>6, <2>7
  <1> QED
    BY <1>3, <1>4, <1>5

\* Both engines take the same step, so they stay equal; they are enabled
\* together, and the FSM leaves WAIT_CORDIC in the cycle of their pulses.
LEMMA EnginesStep ==
  ASSUME IInv, NEW req \in Requests \cup {NoRequest}, NEW gnt \in BOOLEAN,
         Tick(req, gnt)
  PROVE  EnginesInv'
  <1> USE DEF IInv
  <1>1. PICK en \in BOOLEAN : ClockEdge(req, gnt, en) /\ (en <=> state = "START_CORDIC")
    BY DEF Tick, IdleStart, IdleWriteRegister, IdleOther, ReadElements,
           WaitReadResponse, StartCordic, WaitCordic, WriteElements,
           WaitWriteResponse, Done
  <1> DEFINE c(k) == CordicNext(cordic[k], en, operation, elements[k].lo, elements[k].hi)
  <1>2. \A k \in Engines : cordic'[k] = c(k)
    BY <1>1 DEF ClockEdge, CordicEngines
  <1>3. \A k \in Engines : /\ cordic[k] \in CordicType
                           /\ cordic[k].state = cordic[0].state
                           /\ cordic[k].count = cordic[0].count
    BY DEF TypeOK, EnginesInv, Engines
  <1>4. CASE cordic[0].state = "IDLE"
    <2>1. \A k \in Engines : c(k) = CordicLoad(en, operation, elements[k].lo, elements[k].hi)
      BY <1>3, <1>4 DEF CordicNext
    <2>2. \A k \in Engines : /\ cordic'[k].state = IF en THEN "CALCULATE" ELSE "IDLE"
                             /\ cordic'[k].count = 0
                             /\ cordic'[k].op = operation
      <3> SUFFICES ASSUME NEW k \in Engines
                   PROVE  /\ cordic'[k].state = IF en THEN "CALCULATE" ELSE "IDLE"
                          /\ cordic'[k].count = 0
                          /\ cordic'[k].op = operation
        OBVIOUS
      <3>1. cordic'[k] = CordicLoad(en, operation, elements[k].lo, elements[k].hi)
        BY <1>2, <2>1
      <3>2. CASE en
        BY <3>1, <3>2 DEF CordicLoad
      <3>3. CASE ~en
        BY <3>1, <3>3 DEF CordicLoad
      <3> QED
        BY <3>2, <3>3
    <2>3. /\ state # "WAIT_CORDIC"
          /\ operation' = operation \/ state' # "WAIT_CORDIC"
          /\ state' = "WAIT_CORDIC" <=> en
      BY <1>1, <1>4
         DEF EnginesInv, Tick, IdleStart, IdleWriteRegister, IdleOther, ReadElements,
             WaitReadResponse, StartCordic, WaitCordic, WriteElements,
             WaitWriteResponse, Done, regs
    <2>4. 0 < Kfinal(operation)'
      BY IterAssumption DEF Kfinal
    <2> QED
      BY <2>2, <2>3, <2>4 DEF EnginesInv, Engines
  <1>5. CASE cordic[0].state \in {"CALCULATE", "DONE"}
    <2>1. WaitCordic(req, gnt)
      BY <1>5 DEF EnginesInv, Tick, IdleStart, IdleWriteRegister, IdleOther, ReadElements,
             WaitReadResponse, StartCordic, WriteElements, WaitWriteResponse, Done
    <2>2. operation' = operation
      BY <2>1 DEF WaitCordic, regs
    <2>3. CASE cordic[0].state = "CALCULATE"
      <3>1. state' = "WAIT_CORDIC"
        BY <2>1, <2>3 DEF WaitCordic, CordicDone, Engines
      <3>2. \A k \in Engines : c(k) = CordicIterate(cordic[k], operation)
        BY <1>3, <2>3 DEF CordicNext
      <3>3. cordic[0].count \in Nat /\ cordic[0].count < Kfinal(operation)
            /\ Kfinal(operation) \in Nat
        BY <2>3, IterAssumption DEF EnginesInv, TypeOK, CordicType, Engines, Kfinal
      <3>4. CASE cordic[0].count = Kfinal(operation) - 1
        <4>1. \A k \in Engines : cordic'[k] = [cordic[k] EXCEPT !.state = "DONE"]
          BY <1>2, <1>3, <3>2, <3>4 DEF CordicIterate
        <4>2. \A k \in Engines : /\ cordic'[k].state = "DONE"
                                 /\ cordic'[k].count = cordic[k].count
                                 /\ cordic'[k].op = cordic[k].op
          BY <1>3, <4>1 DEF CordicType
        <4> QED
          BY <1>3, <2>1, <2>2, <3>1, <4>2 DEF EnginesInv, Engines, WaitCordic
      <3>5. CASE cordic[0].count # Kfinal(operation) - 1
        <4>1. \A k \in Engines : cordic'[k] = [cordic[k] EXCEPT !.count = @ + 1]
          BY <1>2, <1>3, <3>2, <3>5 DEF CordicIterate
        <4>2. \A k \in Engines : /\ cordic'[k].state = "CALCULATE"
                                 /\ cordic'[k].count = cordic[0].count + 1
                                 /\ cordic'[k].op = cordic[k].op
          BY <1>3, <2>3, <4>1 DEF CordicType
        <4>3. cordic[0].count + 1 < Kfinal(operation)
          BY <3>3, <3>5
        <4>4. Kfinal(operation)' = Kfinal(operation)
          BY <2>2 DEF Kfinal
        <4> QED
          BY <2>1, <2>2, <3>1, <4>2, <4>3, <4>4 DEF EnginesInv, Engines, WaitCordic
      <3> QED
        BY <3>4, <3>5
    <2>4. CASE cordic[0].state = "DONE"
      <3>1. state' = "WRITE_ELEMENTS"
        BY <1>3, <2>1, <2>4 DEF WaitCordic, CordicDone
      <3>2. \A k \in Engines : cordic'[k] = [cordic[k] EXCEPT !.state = "IDLE"]
        BY <1>2, <1>3, <2>4 DEF CordicNext
      <3>3. \A k \in Engines : cordic'[k].state = "IDLE" /\ cordic'[k].count = cordic[0].count
        BY <1>3, <3>2 DEF CordicType
      <3> QED
        BY <3>1, <3>3 DEF EnginesInv, Engines
    <2> QED
      BY <1>5, <2>3, <2>4
  <1> QED
    BY <1>3, <1>4, <1>5 DEF CordicType, CordicStates, Engines

\* The register file is written in IDLE only, and a job starts there.
LEMMA FrozenStep ==
  ASSUME IInv, NEW req \in Requests \cup {NoRequest}, NEW gnt \in BOOLEAN,
         Tick(req, gnt)
  PROVE  ParametersFrozen'
  <1> USE DEF IInv
  <1>1. CASE IdleStart(req, gnt)
    BY <1>1 DEF IdleStart, ThisJob, ParametersFrozen, regs
  <1>2. CASE state = "IDLE" /\ ~IdleStart(req, gnt)
    BY <1>2
       DEF Tick, IdleWriteRegister, IdleOther, ReadElements, WaitReadResponse,
           StartCordic, WaitCordic, WriteElements, WaitWriteResponse, Done,
           ParametersFrozen, Busy
  <1>3. CASE state = "DONE"
    BY <1>3
       DEF Tick, IdleStart, IdleWriteRegister, IdleOther, ReadElements,
           WaitReadResponse, StartCordic, WaitCordic, WriteElements,
           WaitWriteResponse, Done, ParametersFrozen, Busy
  <1>4. CASE Busy
    <2>1. UNCHANGED <<regs, job>>
      BY <1>4
         DEF Busy, Tick, IdleStart, IdleWriteRegister, IdleOther, ReadElements,
             WaitReadResponse, StartCordic, WaitCordic, WriteElements,
             WaitWriteResponse, Done, history
    <2> QED
      BY <1>4, <2>1 DEF ParametersFrozen, regs
  <1> QED
    BY <1>1, <1>2, <1>3, <1>4 DEF Busy

\* Only a start and a finished chunk move the counter, and the FSM goes on
\* to another chunk only if the wrapped sum is still below the length.
LEMMA CounterStep ==
  ASSUME IInv, NEW req \in Requests \cup {NoRequest}, NEW gnt \in BOOLEAN,
         Tick(req, gnt)
  PROVE  CounterInBounds'
  <1> USE DEF IInv
  <1>1. CASE IdleStart(req, gnt)
    BY <1>1 DEF IdleStart, CounterInBounds, Busy, regs
  <1>2. CASE WaitWriteResponse(req, gnt)
    <2>1. Busy /\ number_of_elements' = number_of_elements
      BY <1>2 DEF WaitWriteResponse, Busy, regs
    <2>2. /\ number_of_elements \in Int
          /\ Wrap(element_counter + 2) \in Int /\ Wrap(element_counter + 4) \in Int
      BY WrapInRange, ArraysAssumption DEF TypeOK, WordRange, AddrSpace
    <2> QED
      BY <1>2, <2>1, <2>2
         DEF WaitWriteResponse, CounterInBounds, Busy, LastChunk, Step
  <1>3. CASE state \in {"IDLE", "DONE"} /\ ~IdleStart(req, gnt)
    BY <1>3
       DEF Tick, IdleWriteRegister, IdleOther, ReadElements, WaitReadResponse,
           StartCordic, WaitCordic, WriteElements, WaitWriteResponse, Done,
           CounterInBounds, Busy
  <1>4. CASE Busy /\ ~WaitWriteResponse(req, gnt)
    BY <1>4
       DEF Busy, Tick, IdleStart, IdleWriteRegister, IdleOther, ReadElements,
           WaitReadResponse, StartCordic, WaitCordic, WriteElements, Done,
           CounterInBounds, regs, datapath
  <1> QED
    BY <1>1, <1>2, <1>3, <1>4 DEF Busy

\* A reset establishes IInv from the types alone.
LEMMA ResetIInv == TypeOK /\ Reset => IInv'
  <1> SUFFICES ASSUME TypeOK, Reset PROVE IInv'
    OBVIOUS
  <1>1. TypeOK'
    BY ArraysAssumption, IterAssumption, TopAssumption
       DEF Reset, TypeOK, States, Operations, SIN, WordRange, AddrSpace, Engines,
           Pair, NoResponse, NoSramResponse, BusWord, NoPair, CordicReset,
           CordicType, CordicStates
  <1>2. HandshakeInv'
    BY DEF Reset, HandshakeInv, NoResponse
  <1>3. EnginesInv'
    BY DEF Reset, EnginesInv, Engines, CordicReset
  <1>4. ParametersFrozen' /\ CounterInBounds'
    BY DEF Reset, ParametersFrozen, CounterInBounds, Busy
  <1> QED
    BY <1>1, <1>2, <1>3, <1>4 DEF IInv

\* IInv depends on the variables only.
LEMMA StutterIInv == IInv /\ UNCHANGED vars => IInv'
  BY DEF vars, regs, datapath, history, IInv, TypeOK, HandshakeInv, EnginesInv,
         ParametersFrozen, CounterInBounds, Busy, MemRead, MemAfterWrite, ReadAddr,
         WriteAddr, WriteOne, WriteData, Pair, Kfinal

\* IInv is inductive.
THEOREM InductiveInvariant == Spec => []IInv
  <1>1. IInv /\ [Next]_vars => IInv'
    <2> SUFFICES ASSUME IInv, [Next]_vars PROVE IInv'
      OBVIOUS
    <2>1. ASSUME NEW req \in Requests \cup {NoRequest}, NEW gnt \in BOOLEAN,
                 Tick(req, gnt)
          PROVE  IInv'
      BY <2>1, TypeStep, HandshakeStep, EnginesStep, FrozenStep, CounterStep DEF IInv
    <2>2. CASE Reset
      BY <2>2, ResetIInv DEF IInv
    <2>3. CASE UNCHANGED vars
      BY <2>3, StutterIInv
    <2> QED
      BY <2>1, <2>2, <2>3 DEF Next, Clock
  <1> QED
    BY InitIInv, <1>1, PTL DEF Spec

-----------------------------------------------------------------------------
(* What the runs check, for every value of the constants.                  *)

\* No undefined value reaches a register, an engine or the memory.
THEOREM TypeCorrect == Spec => []TypeOK
  <1>1. IInv => TypeOK
    BY DEF IInv
  <1> QED
    BY InductiveInvariant, <1>1, PTL

\* The response the FSM accepts is that of the request it waits for, though
\* every transfer may be carried out twice.
THEOREM NoStaleResponse == Spec => []ResponseMatchesRequest
  <1>1. IInv => ResponseMatchesRequest
    BY DEF IInv, HandshakeInv, ResponseMatchesRequest
  <1> QED
    BY InductiveInvariant, <1>1, PTL

\* The engines are in lockstep, so their done pulses coincide.
THEOREM Lockstep == Spec => []EnginesInLockstep
  <1>1. IInv => EnginesInLockstep
    BY DEF IInv, EnginesInv, EnginesInLockstep
  <1> QED
    BY InductiveInvariant, <1>1, PTL

\* A job runs with the parameters it was started with.
THEOREM JobsAreIsolated == Spec => []ParametersFrozen
  <1>1. IInv => ParametersFrozen
    BY DEF IInv
  <1> QED
    BY InductiveInvariant, <1>1, PTL

\* A chunk is only ever begun inside the array.
THEOREM CounterStaysInBounds == Spec => []CounterInBounds
  <1>1. IInv => CounterInBounds
    BY DEF IInv
  <1> QED
    BY InductiveInvariant, <1>1, PTL

-----------------------------------------------------------------------------
(* The memory.                                                              *)

\* Results written by the chunks before the present one.
Results == IF operation = ATAN THEN element_counter \div 2 ELSE element_counter

\* Memory m is what job j has made of its own when its first r results are
\* written.
Holds(m, j, r) ==
  \A h \in Halfwords :
    LET k == h - (j.dst \div 2)
    IN  m[h] = IF 0 <= k /\ k < r /\ k < NumResults(j)
               THEN ResultOf(j, k)
               ELSE j.mem[h]

\* The operands x, y give the result engine k has to deliver, if any.
Operand(k, x, y) ==
  Results + k < NumResults(job) =>
    Result(operation, x, y) = ResultOf(job, Results + k)

\* Engine k has delivered the result that is its turn, if any.
Computed(k) ==
  Results + k < NumResults(job) => elements[k].lo = ResultOf(job, Results + k)

\* The counter is at the beginning of a chunk, so that its address is that
\* of a word.
CounterAligned == Busy => element_counter % Step = 0

\* The second word of a chunk is read for ATAN only.
SecondWordInv ==
  which_input = 1 =>
    state \in {"READ_ELEMENTS", "WAIT_READ_RESPONSE"} /\ operation = ATAN

\* Where the results of the present chunk are, stage by stage.  While the
\* write is requested it has been carried out or not.
ChunkInv ==
  Busy /\ WellFormed(job) =>
    /\ state \in {"READ_ELEMENTS", "WAIT_READ_RESPONSE",
                  "START_CORDIC", "WAIT_CORDIC"} => Holds(mem, job, Results)
    /\ state = "WRITE_ELEMENTS" =>
         Holds(mem, job, Results) \/ Holds(mem, job, Results + 2)
    /\ state = "WAIT_WRITE_RESPONSE" => Holds(mem, job, Results + 2)
    /\ which_input = 1 => Operand(0, elements[0].lo, elements[0].hi)
    /\ state = "START_CORDIC" =>
         \A k \in Engines : Operand(k, elements[k].lo, elements[k].hi)
    /\ state = "WAIT_CORDIC" =>
         \A k \in Engines : Operand(k, cordic[k].in0, cordic[k].in1)
    /\ state \in {"WRITE_ELEMENTS", "WAIT_WRITE_RESPONSE"} =>
         \A k \in Engines : Computed(k)

\* At the end every result is in the destination array, and the rest of the
\* memory is as the job has found it.
DoneInv ==
  state = "DONE" /\ WellFormed(job) =>
    /\ \A k \in 0 .. NumResults(job) - 1 : mem[At(job.dst, k)] = ResultOf(job, k)
    /\ Holds(mem, job, NumResults(job))

ResultsInv ==
  IInv /\ CounterAligned /\ SecondWordInv /\ OutsideUntouched /\ ChunkInv /\ DoneInv

-----------------------------------------------------------------------------
(* Addresses.                                                              *)

\* Sums of a register and an offset wrap at most once.
LEMMA WrapValue ==
  \A x \in Nat : /\ x < AddrSpace => Wrap(x) = x
                 /\ AddrSpace <= x /\ x < 2 * AddrSpace => Wrap(x) = x - AddrSpace
  <1>1. AddrSpace \in Nat /\ AddrSpace > 0
    BY ArraysAssumption DEF AddrSpace
  <1> QED
    BY <1>1 DEF Wrap

\* The chunk the counter stands at lies in the destination array: its words
\* are that of two results, and the byte enables cover one of them exactly
\* if it is the last.
LEMMA ChunkInArray ==
  ASSUME TypeOK, ParametersFrozen, CounterInBounds, CounterAligned,
         Busy, Aligned(job), Fits(job)
  PROVE  /\ Results \in Nat /\ Results % 2 = 0 /\ Results < NumResults(job)
         /\ NumResults(job) \in Nat
         /\ job.dst \div 2 \in Nat
         /\ Lane(WriteAddr, 0) = (job.dst \div 2) + Results
         /\ Lane(WriteAddr, 1) = (job.dst \div 2) + Results + 1
         /\ WriteOne <=> Results + 1 = NumResults(job)
         /\ \A k \in 0 .. NumResults(job) - 1 : At(job.dst, k) = (job.dst \div 2) + k
  <1> DEFINE A == AddrSpace
             n == number_of_elements
             c == element_counter
             d == destination_array_address
  <1>1. /\ A \in Nat /\ A > 0 /\ A % 4 = 0
        /\ n \in Nat /\ n < A /\ c \in Nat /\ d \in Nat /\ d < A
        /\ c < n /\ d % 4 = 0 /\ c % Step = 0
        /\ job.dst = d /\ job.n = n /\ job.op = operation
    BY ArraysAssumption
       DEF TypeOK, WordRange, AddrSpace, ParametersFrozen, CounterInBounds,
           CounterAligned, Aligned
  <1>2. CASE operation = ATAN
    <2>1. /\ NumResults(job) = (n + 1) \div 2 /\ Results = c \div 2 /\ c % 4 = 0
          /\ d + 2 * ((n + 1) \div 2) <= A
      BY <1>1, <1>2 DEF NumResults, Results, Step, Fits
    <2>2. WriteAddr = d + c
      BY <1>1, <1>2, <2>1, WrapValue DEF WriteAddr
    <2>3. WriteOne <=> c + 1 = n \/ c + 2 = n
      <3>1. Wrap(c + 1) = n <=> c + 1 = n
        BY <1>1, WrapValue
      <3>2. Wrap(c + 2) = n <=> c + 2 = n
        BY <1>1, <2>1, WrapValue
      <3> QED
        BY <1>2, <3>1, <3>2 DEF WriteOne
    <2>4. \A k \in 0 .. NumResults(job) - 1 : At(job.dst, k) = (job.dst \div 2) + k
      BY <1>1, <2>1, WrapValue DEF At
    <2> QED
      BY <1>1, <2>1, <2>2, <2>3, <2>4 DEF Lane
  <1>3. CASE operation # ATAN
    <2>1. /\ NumResults(job) = n /\ Results = c /\ c % 2 = 0
          /\ d + 2 * n <= A
      BY <1>1, <1>3 DEF NumResults, Results, Step, Fits
    <2>2. WriteAddr = d + 2 * c
      BY <1>1, <1>3, <2>1, WrapValue DEF WriteAddr
    <2>3. WriteOne <=> c + 1 = n
      BY <1>1, <1>3, WrapValue DEF WriteOne
    <2>4. \A k \in 0 .. NumResults(job) - 1 : At(job.dst, k) = (job.dst \div 2) + k
      BY <1>1, <2>1, WrapValue DEF At
    <2> QED
      BY <1>1, <2>1, <2>2, <2>3, <2>4 DEF Lane
  <1> QED
    BY <1>2, <1>3

\* The results lie in the memory.
LEMMA ResultsInMemory ==
  ASSUME TypeOK, ParametersFrozen, Busy, Fits(job),
         NEW k \in 0 .. NumResults(job) - 1
  PROVE  At(job.dst, k) \in Halfwords
  <1>1. job.dst \in Nat /\ job.n \in Nat
    BY DEF TypeOK, ParametersFrozen, WordRange, AddrSpace
  <1>2. k \in Nat
    BY <1>1 DEF NumResults
  <1>3. Wrap(job.dst + 2 * k) \in WordRange
    BY <1>1, <1>2, WrapInRange
  <1> QED
    BY <1>3, ArraysAssumption DEF At, WordRange, AddrSpace, Halfwords

\* The words a chunk reads are the operands of its results.
LEMMA ReadsOperands ==
  ASSUME TypeOK, ParametersFrozen, CounterInBounds, CounterAligned,
         Busy, Aligned(job), Fits(job)
  PROVE  /\ operation # ATAN =>
              /\ Lane(ReadAddr, 0) = At(job.src, Results)
              /\ Results + 1 < NumResults(job) =>
                   Lane(ReadAddr, 1) = At(job.src, Results + 1)
         /\ operation = ATAN /\ which_input = 0 =>
              \A l \in {0, 1} : Lane(ReadAddr, l) = At(job.src, 2 * Results + l)
         /\ operation = ATAN /\ which_input = 1 /\ Results + 1 < NumResults(job) =>
              \A l \in {0, 1} : Lane(ReadAddr, l) = At(job.src, 2 * (Results + 1) + l)
  <1> DEFINE A == AddrSpace
             n == number_of_elements
             c == element_counter
             s == source_array_address
  <1>1. /\ A \in Nat /\ A > 0 /\ A % 4 = 0
        /\ n \in Nat /\ n < A /\ c \in Nat /\ s \in Nat /\ s < A
        /\ c < n /\ s % 4 = 0 /\ c % Step = 0 /\ s + 2 * n <= A
        /\ job.src = s /\ job.n = n /\ job.op = operation
    <2>1. A \in Nat /\ A > 0 /\ A % 4 = 0
      BY ArraysAssumption DEF AddrSpace
    <2>2. job.src = s /\ job.n = n /\ job.op = operation
      BY DEF ParametersFrozen
    <2>3. n \in Nat /\ n < A /\ c \in Nat /\ s \in Nat /\ s < A
      BY <2>1 DEF TypeOK, WordRange
    <2> QED
      BY <2>1, <2>2, <2>3 DEF CounterInBounds, CounterAligned, Aligned, Fits
  <1>2. CASE operation = ATAN
    <2>1. /\ NumResults(job) = (n + 1) \div 2 /\ Results = c \div 2 /\ c % 4 = 0
      BY <1>1, <1>2 DEF NumResults, Results, Step
    <2>2. CASE which_input = 0
      <3>1. ReadAddr = s + 2 * c
        BY <1>1, <1>2, <2>2, WrapValue DEF ReadAddr
      <3>2. \A l \in {0, 1} : At(s, c + l) = (s \div 2) + c + l
        BY <1>1, <2>1, WrapValue DEF At
      <3> QED
        BY <1>1, <1>2, <2>1, <2>2, <3>1, <3>2 DEF Lane
    <2>3. CASE which_input = 1 /\ Results + 1 < NumResults(job)
      <3>1. c + 2 < n /\ s + 2 * c + 8 <= A
        BY <1>1, <2>1, <2>3
      <3>2. ReadAddr = s + 2 * (c + 2)
        BY <1>1, <1>2, <2>3, <3>1, WrapValue DEF ReadAddr
      <3>3. \A l \in {0, 1} : At(s, c + 2 + l) = (s \div 2) + c + 2 + l
        BY <1>1, <3>1, WrapValue DEF At
      <3> QED
        BY <1>1, <1>2, <2>1, <2>3, <3>2, <3>3 DEF Lane
    <2> QED
      BY <1>2, <2>2, <2>3
  <1>3. CASE operation # ATAN
    <2>1. NumResults(job) = n /\ Results = c /\ c % 2 = 0
      BY <1>1, <1>3 DEF NumResults, Results, Step
    <2>2. ReadAddr = s + 2 * c
      BY <1>1, <1>3, <2>1, WrapValue DEF ReadAddr
    <2>3. At(s, c) = (s \div 2) + c /\ (c + 1 < n => At(s, c + 1) = (s \div 2) + c + 1)
      BY <1>1, <2>1, WrapValue DEF At
    <2> QED
      BY <1>1, <1>3, <2>1, <2>2, <2>3 DEF Lane
  <1> QED
    BY <1>2, <1>3

\* No result written so far lies on an operand still to be read.
LEMMA OperandsIntact ==
  ASSUME TypeOK, ParametersFrozen, CounterInBounds, CounterAligned, Busy,
         WellFormed(job), Holds(mem, job, Results),
         NEW k \in 0 .. NumResults(job) - 1, Results <= k,
         NEW h \in Operands(job, k)
  PROVE  mem[h] = job.mem[h]
  <1>1. h \in Halfwords
    <2>1. job.src \in Nat
      BY DEF TypeOK, ParametersFrozen, WordRange, AddrSpace
    <2>2. k \in Nat /\ 2 * k \in Nat
      BY ChunkInArray DEF WellFormed
    <2>3. \A i \in Nat : At(job.src, i) \in Halfwords
      <3> SUFFICES ASSUME NEW i \in Nat PROVE At(job.src, i) \in Halfwords
        OBVIOUS
      <3>1. job.src + 2 * i \in Nat
        BY <2>1
      <3>2. Wrap(job.src + 2 * i) \in WordRange
        BY <3>1, WrapInRange
      <3> QED
        BY <3>2, ArraysAssumption DEF At, WordRange, AddrSpace, Halfwords
    <2> QED
      BY <2>2, <2>3 DEF Operands
  <1> DEFINE i == h - (job.dst \div 2)
  <1>2. CASE 0 <= i /\ i < Results /\ i < NumResults(job)
    <2>1. /\ i \in 0 .. NumResults(job) - 1 /\ h = At(job.dst, i)
          /\ i \div 2 < k \div 2
      BY <1>1, <1>2, ChunkInArray DEF WellFormed, Halfwords
    <2> QED
      BY <2>1 DEF WellFormed, OverlapSafe
  <1>3. CASE ~(0 <= i /\ i < Results /\ i < NumResults(job))
    BY <1>1, <1>3 DEF Holds
  <1> QED
    BY <1>2, <1>3

\* One operand decides the result of every operation but ATAN.
LEMMA UnaryResult ==
  ASSUME NEW op, op # ATAN, NEW x, NEW y, NEW z
  PROVE  Result(op, x, y) = Result(op, x, z)
  BY Zenon DEF Result

-----------------------------------------------------------------------------
(* Steps.                                                                  *)

\* Memory changes in one state only, and there by the write of the chunk.
LEMMA MemoryStep ==
  ASSUME NEW req, NEW gnt, Tick(req, gnt)
  PROVE  \/ mem' = mem
         \/ state = "WRITE_ELEMENTS" /\ mem' = MemAfterWrite
  <1>1. PICK en : ClockEdge(req, gnt, en)
    BY DEF Tick, IdleStart, IdleWriteRegister, IdleOther, ReadElements,
           WaitReadResponse, StartCordic, WaitCordic, WriteElements,
           WaitWriteResponse, Done
  <1> QED
    BY <1>1 DEF ClockEdge, Sram, MgrWe

\* A running job keeps its parameters and its initial memory.
LEMMA JobStep ==
  ASSUME IInv, NEW req \in Requests \cup {NoRequest}, NEW gnt \in BOOLEAN,
         Tick(req, gnt), Busy
  PROVE  job' = job /\ UNCHANGED regs
  BY DEF Busy, Tick, IdleStart, IdleWriteRegister, IdleOther, ReadElements,
         WaitReadResponse, StartCordic, WaitCordic, WriteElements,
         WaitWriteResponse, Done, history

\* The enabled engines take the operands that are waiting for them.
LEMMA EnginesTakeOperands ==
  ASSUME IInv, NEW req \in Requests \cup {NoRequest}, NEW gnt \in BOOLEAN,
         StartCordic(req, gnt), NEW k \in Engines
  PROVE  cordic'[k].in0 = elements[k].lo /\ cordic'[k].in1 = elements[k].hi
  <1>1. cordic[k].state = "IDLE"
    BY DEF IInv, StartCordic, EnginesInv, Engines
  <1>2. cordic'[k] = CordicLoad(TRUE, operation, elements[k].lo, elements[k].hi)
    BY <1>1 DEF StartCordic, ClockEdge, CordicEngines, CordicNext
  <1> QED
    BY <1>2 DEF CordicLoad

\* Working engines keep their operands; both deliver in the same cycle.
LEMMA EnginesGiveResults ==
  ASSUME IInv, NEW req \in Requests \cup {NoRequest}, NEW gnt \in BOOLEAN,
         WaitCordic(req, gnt)
  PROVE  \/ /\ state' = "WRITE_ELEMENTS"
            /\ \A k \in Engines :
                 elements'[k].lo = Result(operation, cordic[k].in0, cordic[k].in1)
         \/ /\ state' = "WAIT_CORDIC"
            /\ \A k \in Engines : /\ cordic'[k].in0 = cordic[k].in0
                                  /\ cordic'[k].in1 = cordic[k].in1
  <1> USE DEF IInv
  <1>1. \A k \in Engines : /\ cordic[k].state = cordic[0].state
                           /\ cordic[k].state # "IDLE"
                           /\ cordic[k].op = operation
    BY DEF WaitCordic, EnginesInv, Engines
  <1>2. CASE cordic[0].state = "DONE"
    <2>1. state' = "WRITE_ELEMENTS"
      BY <1>1, <1>2 DEF WaitCordic, CordicDone
    <2>2. ASSUME NEW k \in Engines
          PROVE  elements'[k].lo = Result(operation, cordic[k].in0, cordic[k].in1)
      <3>1. elements'[k] = [elements[k] EXCEPT !.lo = Output(cordic[k], operation)]
        BY <1>1, <1>2 DEF WaitCordic, CordicDone
      <3>2. Output(cordic[k], operation) =
              Result(operation, cordic[k].in0, cordic[k].in1)
        BY <1>1 DEF Output
      <3> QED
        BY <3>1, <3>2 DEF TypeOK
    <2> QED
      BY <2>1, <2>2
  <1>3. CASE cordic[0].state # "DONE"
    <2>1. state' = "WAIT_CORDIC"
      BY <1>1, <1>3 DEF WaitCordic, CordicDone, Engines
    <2>2. ASSUME NEW k \in Engines
          PROVE  cordic'[k].in0 = cordic[k].in0 /\ cordic'[k].in1 = cordic[k].in1
      <3>1. cordic[k].state = "CALCULATE" /\ cordic[k] \in CordicType
        BY <1>1, <1>3 DEF TypeOK, CordicType, CordicStates
      <3>2. cordic'[k] = CordicIterate(cordic[k], operation)
        BY <3>1 DEF WaitCordic, ClockEdge, CordicEngines, CordicNext
      <3>3. CASE cordic[k].count = Kfinal(operation) - 1
        BY <3>1, <3>2, <3>3 DEF CordicIterate, CordicType
      <3>4. CASE cordic[k].count # Kfinal(operation) - 1
        BY <3>1, <3>2, <3>4 DEF CordicIterate, CordicType
      <3> QED
        BY <3>3, <3>4
    <2> QED
      BY <2>1, <2>2
  <1> QED
    BY <1>2, <1>3

\* The counter moves by whole chunks, also where it wraps.
LEMMA ControlStep ==
  ASSUME ResultsInv, NEW req \in Requests \cup {NoRequest}, NEW gnt \in BOOLEAN,
         Tick(req, gnt)
  PROVE  CounterAligned' /\ SecondWordInv'
  <1> USE DEF ResultsInv, IInv
  <1>1. CASE IdleStart(req, gnt)
    BY <1>1 DEF IdleStart, CounterAligned, SecondWordInv, Busy, Step
  <1>2. CASE IdleWriteRegister(req, gnt) \/ IdleOther(req, gnt) \/ Done(req, gnt)
    BY <1>2 DEF IdleWriteRegister, IdleOther, Done, CounterAligned, SecondWordInv,
                Busy, datapath
  <1>3. CASE ReadElements(req, gnt)
    BY <1>3 DEF ReadElements, CounterAligned, SecondWordInv, Busy, regs, datapath, Step
  <1>4. CASE WaitReadResponse(req, gnt)
    BY <1>4 DEF WaitReadResponse, CounterAligned, SecondWordInv, Busy, regs, Step,
                HandshakeInv
  <1>5. CASE StartCordic(req, gnt)
    BY <1>5 DEF StartCordic, CounterAligned, SecondWordInv, Busy, regs, datapath, Step
  <1>6. CASE WaitCordic(req, gnt)
    BY <1>6 DEF WaitCordic, CounterAligned, SecondWordInv, Busy, regs, Step
  <1>7. CASE WriteElements(req, gnt)
    BY <1>7 DEF WriteElements, CounterAligned, SecondWordInv, Busy, regs, datapath, Step
  <1>8. CASE WaitWriteResponse(req, gnt)
    <2>1. /\ AddrSpace \in Nat /\ AddrSpace % 4 = 0 /\ AddrSpace > 0
          /\ element_counter \in Nat /\ element_counter < AddrSpace
          /\ element_counter % Step = 0 /\ Step \in {2, 4}
      BY <1>8, ArraysAssumption
         DEF WaitWriteResponse, TypeOK, WordRange, AddrSpace, CounterAligned, Busy, Step
    <2>2. Wrap(element_counter + Step) % Step = 0
      <3>1. element_counter + Step <= AddrSpace
        BY <2>1
      <3>2. element_counter + Step < AddrSpace =>
              Wrap(element_counter + Step) = element_counter + Step
        BY <2>1, WrapValue
      <3>3. element_counter + Step = AddrSpace => Wrap(element_counter + Step) = 0
        BY <2>1, WrapValue
      <3> QED
        BY <2>1, <3>1, <3>2, <3>3
    <2>3. Step' = Step
      BY <1>8 DEF WaitWriteResponse, regs, Step
    <2> QED
      BY <1>8, <2>1, <2>2, <2>3
         DEF WaitWriteResponse, CounterAligned, SecondWordInv, Busy
  <1> QED
    BY <1>1, <1>2, <1>3, <1>4, <1>5, <1>6, <1>7, <1>8 DEF Tick

\* The write of a chunk stays inside the destination array.
LEMMA OutsideStep ==
  ASSUME ResultsInv, NEW req \in Requests \cup {NoRequest}, NEW gnt \in BOOLEAN,
         Tick(req, gnt)
  PROVE  OutsideUntouched'
  <1> USE DEF ResultsInv, IInv
  <1>1. CASE Busy
    <2>1. job' = job
      BY <1>1, JobStep
    <2> SUFFICES ASSUME Aligned(job), Fits(job), NEW h \in Halfwords \ Destination(job)
                 PROVE  mem'[h] = job.mem[h]
      BY <2>1 DEF OutsideUntouched
    <2>2. mem[h] = job.mem[h]
      BY <1>1 DEF OutsideUntouched
    <2>3. MemAfterWrite[h] = mem[h]
      <3>1. /\ Results \in Nat /\ Results < NumResults(job) /\ NumResults(job) \in Nat
            /\ Lane(WriteAddr, 0) = At(job.dst, Results)
            /\ ~WriteOne => /\ Results + 1 < NumResults(job)
                            /\ Lane(WriteAddr, 1) = At(job.dst, Results + 1)
        BY <1>1, ChunkInArray
      <3>2. h # Lane(WriteAddr, 0)
        BY <3>1 DEF Destination
      <3>3. ~WriteOne => h # Lane(WriteAddr, 1)
        BY <3>1 DEF Destination
      <3> QED
        BY <3>2, <3>3 DEF MemAfterWrite
    <2> QED
      BY <2>2, <2>3, MemoryStep
  <1>2. CASE IdleStart(req, gnt)
    BY <1>2, MemoryStep DEF IdleStart, ThisJob, OutsideUntouched
  <1>3. CASE ~Busy /\ ~IdleStart(req, gnt)
    BY <1>3
       DEF Tick, IdleWriteRegister, IdleOther, ReadElements, WaitReadResponse,
           StartCordic, WaitCordic, WriteElements, WaitWriteResponse, Done,
           OutsideUntouched, Busy
  <1> QED
    BY <1>1, <1>2, <1>3

\* The write of a chunk adds its results, also when it is repeated.
LEMMA WriteAddsResults ==
  ASSUME TypeOK, ParametersFrozen, CounterInBounds, CounterAligned, Busy,
         WellFormed(job), \A k \in Engines : Computed(k),
         Holds(mem, job, Results) \/ Holds(mem, job, Results + 2)
  PROVE  Holds(MemAfterWrite, job, Results + 2)
  <1>1. /\ Results \in Nat /\ Results < NumResults(job) /\ NumResults(job) \in Nat
        /\ job.dst \div 2 \in Nat
        /\ Lane(WriteAddr, 0) = (job.dst \div 2) + Results
        /\ Lane(WriteAddr, 1) = (job.dst \div 2) + Results + 1
        /\ WriteOne <=> Results + 1 = NumResults(job)
    BY ChunkInArray DEF WellFormed
  <1> SUFFICES ASSUME NEW h \in Halfwords
               PROVE  LET k == h - (job.dst \div 2)
                      IN  MemAfterWrite[h] =
                            IF 0 <= k /\ k < Results + 2 /\ k < NumResults(job)
                            THEN ResultOf(job, k) ELSE job.mem[h]
    BY DEF Holds
  <1>2. h \in Int
    BY ArraysAssumption DEF Halfwords
  <1>3. CASE h = Lane(WriteAddr, 0)
    <2>1. MemAfterWrite[h] = elements[0].lo
      BY <1>3 DEF MemAfterWrite, WriteData, Pair
    <2>2. elements[0].lo = ResultOf(job, Results)
      BY <1>1 DEF Computed, Engines
    <2>3. h - (job.dst \div 2) = Results
      BY <1>1, <1>3
    <2> QED
      BY <1>1, <2>1, <2>2, <2>3
  <1>4. CASE h = Lane(WriteAddr, 1) /\ ~WriteOne
    <2>1. MemAfterWrite[h] = elements[1].lo
      BY <1>1, <1>4 DEF MemAfterWrite, WriteData, Pair
    <2>2. elements[1].lo = ResultOf(job, Results + 1)
      BY <1>1, <1>4 DEF Computed, Engines
    <2>3. h - (job.dst \div 2) = Results + 1
      BY <1>1, <1>4
    <2> QED
      BY <1>1, <1>4, <2>1, <2>2, <2>3
  <1>5. CASE h # Lane(WriteAddr, 0) /\ ~(h = Lane(WriteAddr, 1) /\ ~WriteOne)
    <2>1. MemAfterWrite[h] = mem[h]
      BY <1>5 DEF MemAfterWrite
    <2> DEFINE k == h - (job.dst \div 2)
    <2>2. k < Results + 2 /\ k < NumResults(job) => k < Results
      BY <1>1, <1>2, <1>5
    <2>3. k < Results => k < Results + 2
      BY <1>1, <1>2
    <2> QED
      BY <2>1, <2>2, <2>3 DEF Holds
  <1> QED
    BY <1>3, <1>4, <1>5

\* A job that ends has written all its results; one that goes on stands at
\* the next chunk.
LEMMA LastChunkIsLast ==
  ASSUME TypeOK, ParametersFrozen, CounterInBounds, CounterAligned, Busy,
         Aligned(job), Fits(job)
  PROVE  /\ LastChunk => NumResults(job) <= Results + 2
         /\ ~LastChunk => Wrap(element_counter + Step) = element_counter + Step
  <1> DEFINE A == AddrSpace
             n == number_of_elements
             c == element_counter
  <1>1. /\ A \in Nat /\ A > 0 /\ A % 4 = 0
        /\ n \in Nat /\ n < A /\ c \in Nat /\ c < n /\ c % Step = 0 /\ 2 * n <= A
        /\ job.n = n /\ job.op = operation
    BY ArraysAssumption
       DEF TypeOK, WordRange, AddrSpace, ParametersFrozen, CounterInBounds,
           CounterAligned, Fits
  <1>2. Wrap(c + 2) >= n => c + 2 >= n
    BY <1>1, WrapValue
  <1>3. CASE operation = ATAN
    <2>1. NumResults(job) = (n + 1) \div 2 /\ Results = c \div 2 /\ c % 4 = 0 /\ Step = 4
      BY <1>1, <1>3 DEF NumResults, Results, Step
    <2>2. /\ c + 2 < A => Wrap(c + 2) = c + 2
          /\ c + 4 < A => Wrap(c + 4) = c + 4
      BY <1>1, WrapValue
    <2>3. c + 4 = A => Wrap(c + 4) = 0
      BY <1>1, WrapValue
    <2>4. LastChunk => NumResults(job) <= Results + 2
      BY <1>1, <1>2, <1>3, <2>1, <2>2, <2>3 DEF LastChunk
    <2>5. ~LastChunk => c + 4 < A
      BY <1>1, <1>3, <2>1, <2>2 DEF LastChunk
    <2> QED
      BY <2>1, <2>2, <2>4, <2>5
  <1>4. CASE operation # ATAN
    <2>1. NumResults(job) = n /\ Results = c /\ c % 2 = 0 /\ Step = 2
      BY <1>1, <1>4 DEF NumResults, Results, Step
    <2>2. c + 2 < A => Wrap(c + 2) = c + 2
      BY <1>1, WrapValue
    <2>3. ~LastChunk => c + 2 < A
      BY <1>1, <1>4, <2>1, <2>2 DEF LastChunk
    <2> QED
      BY <1>2, <1>4, <2>1, <2>2, <2>3 DEF LastChunk
  <1> QED
    BY <1>3, <1>4

\* A response word holds the operands of the engine or engines it is for.
LEMMA ReadGivesOperands ==
  ASSUME ResultsInv, Busy, WellFormed(job), Holds(mem, job, Results)
  PROVE  LET r == MemRead(ReadAddr)
         IN  /\ operation # ATAN =>
                  \A y : Operand(0, r.lo, y) /\ Operand(1, r.hi, y)
             /\ operation = ATAN => Operand(which_input, r.lo, r.hi)
  <1> USE DEF ResultsInv, IInv
  <1> DEFINE lo == mem[Lane(ReadAddr, 0)]
             hi == mem[Lane(ReadAddr, 1)]
  <1>1. MemRead(ReadAddr).lo = lo /\ MemRead(ReadAddr).hi = hi
    BY DEF MemRead, Pair
  <1>2. /\ Results \in Nat /\ Results < NumResults(job) /\ NumResults(job) \in Nat
        /\ job.op = operation
    BY ChunkInArray DEF WellFormed, ParametersFrozen
  <1>3. ASSUME NEW k \in {0, 1}, Results + k < NumResults(job)
        PROVE  /\ Results + k \in 0 .. NumResults(job) - 1 /\ Results <= Results + k
               /\ \A h \in Operands(job, Results + k) : mem[h] = job.mem[h]
    BY <1>2, <1>3, OperandsIntact
  <1>4. CASE operation # ATAN
    <2>1. ASSUME NEW k \in {0, 1}, Results + k < NumResults(job)
          PROVE  /\ mem[At(job.src, Results + k)] = job.mem[At(job.src, Results + k)]
                 /\ \A y : Result(operation, mem[At(job.src, Results + k)], y) =
                             ResultOf(job, Results + k)
      <3>1. At(job.src, Results + k) \in Operands(job, Results + k)
        BY <1>2, <1>4 DEF Operands
      <3>2. mem[At(job.src, Results + k)] = job.mem[At(job.src, Results + k)]
        BY <1>3, <2>1, <3>1
      <3>3. ResultOf(job, Results + k) =
              Result(operation, job.mem[At(job.src, Results + k)], Zero)
        BY <1>2, <1>4 DEF ResultOf
      <3> QED
        BY <1>4, <3>2, <3>3, UnaryResult
    <2>2. Lane(ReadAddr, 0) = At(job.src, Results)
          /\ (Results + 1 < NumResults(job) => Lane(ReadAddr, 1) = At(job.src, Results + 1))
      BY <1>4, ReadsOperands DEF WellFormed
    <2>3. \A y : Operand(0, lo, y)
      BY <1>2, <2>1, <2>2 DEF Operand
    <2>4. \A y : Operand(1, hi, y)
      BY <1>2, <2>1, <2>2 DEF Operand
    <2> QED
      BY <1>1, <1>4, <2>3, <2>4
  <1>5. CASE operation = ATAN
    <2> DEFINE k == which_input
    <2>1. k \in {0, 1}
      BY DEF TypeOK
    <2>2. Results + k < NumResults(job) =>
            \A l \in {0, 1} : Lane(ReadAddr, l) = At(job.src, 2 * (Results + k) + l)
      BY <1>2, <1>5, <2>1, ReadsOperands DEF WellFormed
    <2>3. ASSUME Results + k < NumResults(job)
          PROVE  Result(operation, lo, hi) = ResultOf(job, Results + k)
      <3>1. lo = mem[At(job.src, 2 * (Results + k))]
            /\ hi = mem[At(job.src, 2 * (Results + k) + 1)]
        BY <1>2, <2>1, <2>2, <2>3
      <3>2. /\ At(job.src, 2 * (Results + k)) \in Operands(job, Results + k)
            /\ At(job.src, 2 * (Results + k) + 1) \in Operands(job, Results + k)
        BY <1>2, <1>5 DEF Operands
      <3>3. /\ mem[At(job.src, 2 * (Results + k))] =
                 job.mem[At(job.src, 2 * (Results + k))]
            /\ mem[At(job.src, 2 * (Results + k) + 1)] =
                 job.mem[At(job.src, 2 * (Results + k) + 1)]
        BY <1>3, <2>1, <2>3, <3>2
      <3> QED
        BY <1>2, <1>5, <3>1, <3>3 DEF ResultOf
    <2> QED
      BY <1>1, <1>5, <2>3 DEF Operand
  <1> QED
    BY <1>4, <1>5

\* Each state of the FSM hands the chunk on to the next one.
LEMMA ChunkStep ==
  ASSUME ResultsInv, NEW req \in Requests \cup {NoRequest}, NEW gnt \in BOOLEAN,
         Tick(req, gnt)
  PROVE  ChunkInv'
  <1> USE DEF ResultsInv, IInv
  <1>1. CASE IdleStart(req, gnt)
    <2> SUFFICES ASSUME Busy', WellFormed(job)'
                 PROVE  /\ state' = "READ_ELEMENTS" /\ which_input' # 1
                        /\ Holds(mem, job, Results)'
      BY DEF ChunkInv
    <2>1. state' = "READ_ELEMENTS" /\ which_input' # 1 /\ element_counter' = 0
      BY <1>1 DEF IdleStart, Busy, SecondWordInv
    <2>2. mem' = job'.mem
      BY <1>1, MemoryStep DEF IdleStart, ThisJob
    <2>3. Results' = 0
      BY <2>1 DEF Results
    <2>4. job'.dst \in Nat
      BY <1>1 DEF IdleStart, ThisJob, TypeOK, WordRange, AddrSpace
    <2>5. \A h \in Halfwords : h - (job'.dst \div 2) \in Int
      BY <2>4, ArraysAssumption DEF Halfwords
    <2> QED
      BY <2>1, <2>2, <2>3, <2>5 DEF Holds
  <1>2. CASE ~Busy /\ ~IdleStart(req, gnt)
    BY <1>2
       DEF Tick, IdleWriteRegister, IdleOther, ReadElements, WaitReadResponse,
           StartCordic, WaitCordic, WriteElements, WaitWriteResponse, Done,
           ChunkInv, Busy
  <1>3. CASE Busy /\ ~WellFormed(job)
    BY <1>3, JobStep DEF ChunkInv
  <1>4. CASE Busy /\ WellFormed(job)
    <2>1. job' = job /\ operation' = operation
      BY <1>4, JobStep DEF regs
    <2>2. element_counter' = element_counter => Results' = Results
      BY <2>1 DEF Results
    <2>3. CASE ReadElements(req, gnt)
      <3>1. mem' = mem /\ Results' = Results
        BY <2>2, <2>3, MemoryStep DEF ReadElements, datapath
      <3> QED
        BY <1>4, <2>1, <2>3, <3>1
           DEF ReadElements, datapath, ChunkInv, Operand
    <2>4. CASE WaitReadResponse(req, gnt)
      <3>1. mem' = mem /\ Results' = Results /\ Holds(mem, job, Results)
        BY <1>4, <2>2, <2>4, MemoryStep DEF WaitReadResponse, ChunkInv
      <3>2. mgr.rvalid /\ mgr.rdata = MemRead(ReadAddr)
        BY <2>4 DEF WaitReadResponse, HandshakeInv
      <3>3. CASE operation = ATAN
        <4>1. Operand(which_input, mgr.rdata.lo, mgr.rdata.hi)
          BY <1>4, <3>1, <3>2, <3>3, ReadGivesOperands
        <4>2. elements' = [elements EXCEPT ![which_input] = mgr.rdata]
          BY <2>4, <3>2, <3>3 DEF WaitReadResponse
        <4>3. CASE which_input = 0
          <5>1. elements'[0] = mgr.rdata
            BY <4>2, <4>3 DEF TypeOK, Engines
          <5>2. CASE state' = "READ_ELEMENTS"
            BY <2>1, <3>1, <4>1, <4>3, <5>1, <5>2 DEF ChunkInv, Operand
          <5>3. CASE state' = "START_CORDIC" /\ Wrap(element_counter + 2) = number_of_elements
            <6>1. NumResults(job) = Results + 1 /\ Results \in Nat
              <7>1. /\ AddrSpace \in Nat /\ AddrSpace % 4 = 0
                    /\ element_counter \in Nat /\ number_of_elements \in Nat
                    /\ element_counter < number_of_elements
                    /\ number_of_elements < AddrSpace /\ element_counter % 4 = 0
                BY <1>4, <3>3, ArraysAssumption
                   DEF TypeOK, WordRange, AddrSpace, CounterInBounds, CounterAligned, Step
              <7>2. element_counter + 2 = number_of_elements
                BY <5>3, <7>1, WrapValue
              <7> QED
                BY <1>4, <3>3, <7>1, <7>2
                   DEF NumResults, Results, ParametersFrozen
            <6>2. Operand(0, elements[0].lo, elements[0].hi)'
                  /\ Operand(1, elements[1].lo, elements[1].hi)'
              BY <2>1, <3>1, <4>1, <4>3, <5>1, <6>1 DEF Operand
            <6>3. which_input' = 0
              BY <2>4, <3>2, <3>3, <5>3 DEF WaitReadResponse
            <6> QED
              BY <2>1, <3>1, <5>3, <6>2, <6>3 DEF ChunkInv, Engines
          <5> QED
            BY <2>4, <3>2, <3>3, <4>3, <5>2, <5>3 DEF WaitReadResponse
        <4>4. CASE which_input = 1
          <5>1. elements'[1] = mgr.rdata /\ elements'[0] = elements[0]
            BY <4>2, <4>4 DEF TypeOK, Engines
          <5>2. state' = "START_CORDIC" /\ which_input' = 0
            BY <2>4, <3>2, <3>3, <4>4 DEF WaitReadResponse
          <5>3. Operand(0, elements[0].lo, elements[0].hi)
            BY <1>4, <4>4 DEF ChunkInv
          <5> QED
            BY <2>1, <3>1, <4>1, <4>4, <5>1, <5>2, <5>3 DEF ChunkInv, Operand, Engines
        <4> QED
          BY <4>3, <4>4 DEF TypeOK
      <3>4. CASE operation # ATAN
        <4>1. \A y : Operand(0, mgr.rdata.lo, y) /\ Operand(1, mgr.rdata.hi, y)
          BY <1>4, <3>1, <3>2, <3>4, ReadGivesOperands
        <4>2. elements' = [elements EXCEPT ![0].lo = mgr.rdata.lo,
                                           ![1].lo = mgr.rdata.hi]
          BY <2>4, <3>2, <3>4 DEF WaitReadResponse
        <4>3. elements'[0].lo = mgr.rdata.lo /\ elements'[1].lo = mgr.rdata.hi
          BY <4>2 DEF TypeOK, Engines
        <4>4. state' = "START_CORDIC" /\ which_input' # 1
          BY <2>4, <3>2, <3>4 DEF WaitReadResponse, SecondWordInv
        <4> QED
          BY <2>1, <3>1, <4>1, <4>3, <4>4 DEF ChunkInv, Operand, Engines
      <3> QED
        BY <3>3, <3>4
    <2>5. CASE StartCordic(req, gnt)
      <3>1. mem' = mem /\ Results' = Results /\ Holds(mem, job, Results)
        BY <1>4, <2>2, <2>5, MemoryStep DEF StartCordic, datapath, ChunkInv
      <3>2. state' = "WAIT_CORDIC" /\ which_input' # 1
        BY <2>5 DEF StartCordic, datapath, SecondWordInv
      <3>3. \A k \in Engines : /\ cordic'[k].in0 = elements[k].lo
                               /\ cordic'[k].in1 = elements[k].hi
        BY <2>5, EnginesTakeOperands
      <3>4. \A k \in Engines : Operand(k, elements[k].lo, elements[k].hi)
        BY <1>4, <2>5 DEF StartCordic, ChunkInv
      <3> QED
        BY <2>1, <3>1, <3>2, <3>3, <3>4 DEF ChunkInv, Operand
    <2>6. CASE WaitCordic(req, gnt)
      <3>1. mem' = mem /\ Results' = Results /\ Holds(mem, job, Results)
        BY <1>4, <2>2, <2>6, MemoryStep DEF WaitCordic, ChunkInv
      <3>2. which_input' # 1
        BY <2>6 DEF WaitCordic, SecondWordInv
      <3>3. \A k \in Engines : Operand(k, cordic[k].in0, cordic[k].in1)
        BY <1>4, <2>6 DEF WaitCordic, ChunkInv
      <3>4. \/ /\ state' = "WRITE_ELEMENTS"
               /\ \A k \in Engines :
                    elements'[k].lo = Result(operation, cordic[k].in0, cordic[k].in1)
            \/ /\ state' = "WAIT_CORDIC"
               /\ \A k \in Engines : /\ cordic'[k].in0 = cordic[k].in0
                                     /\ cordic'[k].in1 = cordic[k].in1
        BY <2>6, EnginesGiveResults
      <3> QED
        BY <2>1, <3>1, <3>2, <3>3, <3>4 DEF ChunkInv, Operand, Computed
    <2>7. CASE WriteElements(req, gnt)
      <3>1. Results' = Results /\ elements' = elements /\ which_input' # 1
        BY <2>2, <2>7 DEF WriteElements, datapath, SecondWordInv
      <3>2. /\ Holds(mem, job, Results) \/ Holds(mem, job, Results + 2)
            /\ \A k \in Engines : Computed(k)
        BY <1>4, <2>7 DEF WriteElements, ChunkInv
      <3>3. Holds(MemAfterWrite, job, Results + 2)
        BY <1>4, <3>2, WriteAddsResults
      <3>4. CASE state' = "WRITE_ELEMENTS"
        BY <2>1, <3>1, <3>2, <3>3, <3>4, MemoryStep DEF ChunkInv, Computed
      <3>5. CASE state' = "WAIT_WRITE_RESPONSE"
        <4>1. mem = MemAfterWrite
          BY <2>7, <3>5 DEF WriteElements, HandshakeInv
        <4> QED
          BY <2>1, <3>1, <3>2, <3>3, <3>5, <4>1, MemoryStep DEF ChunkInv, Computed
      <3> QED
        BY <2>7, <3>4, <3>5 DEF WriteElements
    <2>8. CASE WaitWriteResponse(req, gnt)
      <3>1. mgr.rvalid /\ which_input' # 1 /\ mem' = mem
        BY <2>8, MemoryStep DEF WaitWriteResponse, HandshakeInv, SecondWordInv
      <3>2. CASE LastChunk
        BY <2>8, <3>1, <3>2 DEF WaitWriteResponse, ChunkInv, Busy
      <3>3. CASE ~LastChunk
        <4>1. state' = "READ_ELEMENTS" /\ element_counter' = element_counter + Step
          BY <1>4, <2>8, <3>1, <3>3, LastChunkIsLast DEF WaitWriteResponse, WellFormed
        <4>2. Results' = Results + 2
          BY <2>1, <4>1 DEF Results, Step, TypeOK, WordRange, AddrSpace
        <4>3. Holds(mem, job, Results + 2)
          BY <1>4, <2>8 DEF WaitWriteResponse, ChunkInv
        <4> QED
          BY <2>1, <3>1, <4>1, <4>2, <4>3 DEF ChunkInv
      <3> QED
        BY <3>2, <3>3
    <2> QED
      BY <1>4, <2>3, <2>4, <2>5, <2>6, <2>7, <2>8
         DEF Tick, Busy, IdleStart, IdleWriteRegister, IdleOther, Done
  <1> QED
    BY <1>1, <1>2, <1>3, <1>4

\* The last chunk completes the results; nobody writes while they wait to be
\* reported.
LEMMA DoneStep ==
  ASSUME ResultsInv, NEW req \in Requests \cup {NoRequest}, NEW gnt \in BOOLEAN,
         Tick(req, gnt)
  PROVE  DoneInv'
  <1> USE DEF ResultsInv, IInv
  <1>1. CASE IdleStart(req, gnt)
    <2>1. number_of_elements \in Nat /\ destination_array_address \in Nat
      BY DEF TypeOK, WordRange, AddrSpace
    <2> SUFFICES ASSUME state' = "DONE"
                 PROVE  NumResults(job)' = 0 /\ Holds(mem, job, 0)'
      BY DEF DoneInv
    <2>2. NumResults(job)' = 0
      <3>1. number_of_elements = 0
        BY <1>1, <2>1 DEF IdleStart
      <3> QED
        BY <1>1, <3>1 DEF IdleStart, ThisJob, NumResults
    <2>3. mem' = job'.mem /\ job'.dst \in Nat
      BY <1>1, <2>1, MemoryStep DEF IdleStart, ThisJob
    <2>4. \A h \in Halfwords : h - (job'.dst \div 2) \in Int
      BY <2>3, ArraysAssumption DEF Halfwords
    <2> QED
      BY <2>2, <2>3, <2>4 DEF Holds
  <1>2. CASE Done(req, gnt)
    BY <1>2, MemoryStep DEF Done, DoneInv
  <1>3. CASE WaitWriteResponse(req, gnt)
    <2>1. job' = job /\ mem' = mem
      BY <1>3, JobStep, MemoryStep DEF WaitWriteResponse, Busy
    <2> SUFFICES ASSUME state' = "DONE", WellFormed(job)
                 PROVE  /\ \A k \in 0 .. NumResults(job) - 1 :
                             mem[At(job.dst, k)] = ResultOf(job, k)
                        /\ Holds(mem, job, NumResults(job))
      BY <2>1 DEF DoneInv
    <2>2. Busy /\ LastChunk /\ Holds(mem, job, Results + 2)
      BY <1>3 DEF WaitWriteResponse, Busy, ChunkInv
    <2>3. /\ NumResults(job) <= Results + 2 /\ Results \in Nat
          /\ NumResults(job) \in Nat /\ job.dst \div 2 \in Nat
          /\ \A k \in 0 .. NumResults(job) - 1 : At(job.dst, k) = (job.dst \div 2) + k
      BY <2>2, ChunkInArray, LastChunkIsLast DEF WellFormed
    <2>4. ASSUME NEW k \in 0 .. NumResults(job) - 1
          PROVE  mem[At(job.dst, k)] = ResultOf(job, k)
      <3>1. At(job.dst, k) \in Halfwords
        BY <2>2, <2>4, ResultsInMemory DEF WellFormed
      <3> QED
        BY <2>2, <2>3, <3>1 DEF Holds
    <2>5. Holds(mem, job, NumResults(job))
      <3>1. \A h \in Halfwords : h - (job.dst \div 2) \in Int
        BY <2>3, ArraysAssumption DEF Halfwords
      <3> QED
        BY <2>2, <2>3, <3>1 DEF Holds
    <2> QED
      BY <2>4, <2>5
  <1>4. CASE ~IdleStart(req, gnt) /\ ~Done(req, gnt) /\ ~WaitWriteResponse(req, gnt)
    BY <1>4
       DEF Tick, IdleWriteRegister, IdleOther, ReadElements, WaitReadResponse,
           StartCordic, WaitCordic, WriteElements, DoneInv
  <1> QED
    BY <1>1, <1>2, <1>3, <1>4

\* A cycle of the clock keeps all of it.
LEMMA ResultsTick ==
  ASSUME ResultsInv, NEW req \in Requests \cup {NoRequest}, NEW gnt \in BOOLEAN,
         Tick(req, gnt)
  PROVE  ResultsInv'
  BY TypeStep, HandshakeStep, EnginesStep, FrozenStep, CounterStep,
     ControlStep, OutsideStep, ChunkStep, DoneStep
     DEF ResultsInv, IInv

\* And so does a step that changes nothing.
LEMMA ResultsStutter ==
  ASSUME ResultsInv, UNCHANGED vars
  PROVE  ResultsInv'
  BY StutterIInv
     DEF vars, regs, datapath, history, ResultsInv, CounterAligned,
         SecondWordInv, OutsideUntouched, ChunkInv, DoneInv, Busy, Step,
         Results, Operand, Computed

\* Power-up establishes it.
LEMMA ResultsInit == Init => ResultsInv
  BY InitIInv
     DEF Init, ResultsInv, CounterAligned, SecondWordInv, OutsideUntouched,
         ChunkInv, DoneInv, Busy

-----------------------------------------------------------------------------
(* What the runs check, for every value of the constants.                  *)

\* ResultsInv is inductive.
THEOREM ResultsInvariant == Spec => []ResultsInv
  <1>1. Init => ResultsInv
    BY ResultsInit
  <1>2. ResultsInv /\ [Next]_vars => ResultsInv'
    <2> SUFFICES ASSUME ResultsInv, [Next]_vars PROVE ResultsInv'
      OBVIOUS
    <2>1. ASSUME NEW req \in Requests \cup {NoRequest}, NEW gnt \in BOOLEAN,
                 Tick(req, gnt)
          PROVE  ResultsInv'
      BY <2>1, ResultsTick
    <2>2. CASE Reset
      BY <2>2, ResetIInv
         DEF Reset, ResultsInv, IInv, CounterAligned, SecondWordInv,
             OutsideUntouched, ChunkInv, DoneInv, Busy
    <2>3. CASE UNCHANGED vars
      BY <2>3, ResultsStutter
    <2> QED
      BY <2>1, <2>2, <2>3 DEF Next, Clock
  <1> QED
    BY <1>1, <1>2, PTL DEF Spec

\* No job changes memory outside its destination array, at any moment.
THEOREM NothingElseChanges == Spec => []OutsideUntouched
  <1>1. ResultsInv => OutsideUntouched
    BY DEF ResultsInv
  <1> QED
    BY ResultsInvariant, <1>1, PTL

\* A manager that is told of completion finds every result in memory.
THEOREM CompletionIsTrue == Spec => []CompletionMeansResults
  <1>1. ResultsInv => CompletionMeansResults
    <2>1. SbrReply.rdata = "ones" => state = "DONE"
      BY DEF SbrReply
    <2> QED
      BY <2>1 DEF ResultsInv, DoneInv, CompletionMeansResults
  <1> QED
    BY ResultsInvariant, <1>1, PTL

=============================================================================

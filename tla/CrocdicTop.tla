----------------------------- MODULE CrocdicTop ------------------------------
(***************************************************************************)
(* The CROCDIC accelerator (crocdic_top.sv) with its two CORDIC engines,   *)
(* one clock cycle per step.                                               *)
(*                                                                         *)
(* The environment is what the Croc SoC attaches to the two OBI ports.  On *)
(* the subordinate port any manager may present any request in any cycle.  *)
(* On the manager port sits a fair crossbar arbiter that may refuse a      *)
(* request for at most MaxDenied cycles in a row, and an SRAM bank that    *)
(* answers exactly one cycle after a grant.                                *)
(*                                                                         *)
(* The RTL registers gnt, rvalid and rdata before its FSM looks at them,   *)
(* so a request is still driven in the cycle after its grant and the bus   *)
(* may carry it out twice.                                                 *)
(***************************************************************************)
EXTENDS CordicUnit

CONSTANTS
  Requests,   \* requests the bus managers may send to the register file
  MaxDenied,  \* longest run of cycles without a grant
  MaxJobs     \* bound on the number of jobs started

RequestType ==
  [valid : {TRUE}, we : BOOLEAN, reg : Registers, wdata : WordRange]

NoRequest == [valid |-> FALSE, we |-> FALSE, reg |-> "OTHER", wdata |-> 0]

ASSUME TopAssumption ==
  /\ Requests \subseteq RequestType
  /\ MaxDenied \in Nat
  /\ MaxJobs \in Nat

VARIABLES
  state,            \* state of the FSM
  operation, source_array_address, number_of_elements,
  destination_array_address,  \* the register file
  elements,         \* elements[k] holds operands and results of engine k
  element_counter,  \* elements processed so far
  which_input,      \* ATAN: engine whose operands are being read
  sbr,              \* request latched from the subordinate port
  mgr,              \* grant and response latched from the manager port
  cordic,           \* the two engines
  sram,             \* response the SRAM bank drives in this cycle
  denied,           \* cycles the arbiter has refused the present request
  mem,              \* the memory, by halfwords
  job,              \* history: parameters and memory when the job started
  started           \* history: number of jobs started

regs   == <<operation, source_array_address, number_of_elements,
            destination_array_address>>
datapath == <<elements, element_counter, which_input>>
history  == <<job, started>>
vars   == <<state, regs, datapath, sbr, mgr, cordic, sram, denied, mem, history>>

States ==
  { "IDLE", "READ_ELEMENTS", "WAIT_READ_RESPONSE", "START_CORDIC",
    "WAIT_CORDIC", "WRITE_ELEMENTS", "WAIT_WRITE_RESPONSE", "DONE" }

Engines == {0, 1}

-----------------------------------------------------------------------------
(* The memory behind the manager port.                                     *)

Pair(lo, hi) == [lo |-> lo, hi |-> hi]
NoPair       == Pair(NoData, NoData)

\* What the bus carries; NoPair where no response is valid.
BusWord == [lo : Data, hi : Data] \cup {NoPair}

NoSramResponse == [rvalid |-> FALSE, rdata |-> NoPair]
NoResponse     == [gnt |-> FALSE, rvalid |-> FALSE, rdata |-> NoPair]

\* The SRAM drops the two low address bits; a word has two halfword lanes.
Lane(addr, l) == 2 * (addr \div 4) + l

MemRead(addr) == Pair(mem[Lane(addr, 0)], mem[Lane(addr, 1)])

-----------------------------------------------------------------------------
(* The manager port's address phase, combinational from the registers.     *)

\* Seeded defect: the request stays up until the response.
MgrReqHeld ==
  state \in {"READ_ELEMENTS", "WAIT_READ_RESPONSE",
             "WRITE_ELEMENTS", "WAIT_WRITE_RESPONSE"}

MgrReq == state \in {"READ_ELEMENTS", "WRITE_ELEMENTS"}
MgrWe  == state = "WRITE_ELEMENTS"

\* Seeded defect: both words of an ATAN chunk are read at the same address.
ReadAddrOneWord == Wrap(source_array_address + 2 * element_counter)

ReadAddr ==
  IF operation = ATAN /\ which_input = 1
  THEN Wrap(source_array_address + 2 * (element_counter + 2))
  ELSE Wrap(source_array_address + 2 * element_counter)

WriteAddr ==
  IF operation = ATAN
  THEN Wrap(destination_array_address + element_counter)
  ELSE Wrap(destination_array_address + 2 * element_counter)

\* Seeded defect: the odd number of ATAN results is forgotten.
WriteOneUnaryOnly == Wrap(element_counter + 1) = number_of_elements

\* The byte enables of a write cover the low halfword only.
WriteOne ==
  \/ Wrap(element_counter + 1) = number_of_elements
  \/ operation = ATAN /\ Wrap(element_counter + 2) = number_of_elements

\* Seeded defect: the results change lanes.
WriteDataSwapped == Pair(elements[1].lo, elements[0].lo)

WriteData == Pair(elements[0].lo, elements[1].lo)

MemAfterWrite ==
  [h \in Halfwords |->
     IF h = Lane(WriteAddr, 0) THEN WriteData.lo
     ELSE IF h = Lane(WriteAddr, 1) /\ ~WriteOne THEN WriteData.hi
     ELSE mem[h]]

-----------------------------------------------------------------------------
(* What one clock edge does whatever the state: the subordinate port       *)
(* latches a request, the manager port latches what the bus drives, the    *)
(* crossbar and the SRAM serve the address phase, the engines advance.     *)

SubordinatePort(req) ==
  /\ req.valid /\ req.we /\ req.reg = "START" => started < MaxJobs
  /\ sbr' = req

\* Seeded defect: the response word is latched with a grant only.
ManagerPortLatchOnGrant(gnt) ==
  mgr' = [ gnt    |-> gnt, rvalid |-> sram.rvalid,
           rdata  |-> IF gnt THEN sram.rdata ELSE mgr.rdata ]

ManagerPort(gnt) ==
  mgr' = [gnt |-> gnt, rvalid |-> sram.rvalid, rdata |-> sram.rdata]

Crossbar(gnt) ==
  /\ gnt => MgrReq
  /\ MgrReq /\ ~gnt => denied < MaxDenied
  /\ denied' = IF MgrReq /\ ~gnt THEN denied + 1 ELSE 0

Sram(gnt) ==
  /\ sram' = [ rvalid |-> gnt,
               rdata  |-> IF gnt /\ ~MgrWe THEN MemRead(ReadAddr) ELSE NoPair ]
  /\ mem' = IF gnt /\ MgrWe THEN MemAfterWrite ELSE mem

\* Seeded defect: the enable reaches one engine only.
CordicEnginesOneEnable(en) ==
  cordic' = [k \in Engines |->
               CordicNext(cordic[k], en /\ k = 0, operation,
                          elements[k].lo, elements[k].hi)]

CordicEngines(en) ==
  cordic' = [k \in Engines |->
               CordicNext(cordic[k], en, operation, elements[k].lo, elements[k].hi)]

ClockEdge(req, gnt, en) ==
  /\ SubordinatePort(req)
  /\ ManagerPort(gnt)
  /\ Crossbar(gnt)
  /\ Sram(gnt)
  /\ CordicEngines(en)

-----------------------------------------------------------------------------
(* The FSM, one action for each state, and for IDLE one for each kind of   *)
(* access the register file decodes.                                       *)

NoJob == [op |-> SIN, src |-> 0, n |-> 0, dst |-> 0, mem |-> InitMem]

ThisJob ==
  [ op |-> operation, src |-> source_array_address, n |-> number_of_elements,
    dst |-> destination_array_address, mem |-> mem ]

Writes(reg) == sbr.valid /\ sbr.we /\ sbr.reg = reg

IdleStart(req, gnt) ==
  /\ state = "IDLE"
  /\ Writes("START")
  /\ state' = IF number_of_elements > 0 THEN "READ_ELEMENTS" ELSE "DONE"
  /\ element_counter' =
       IF number_of_elements > 0 THEN 0 ELSE element_counter
  /\ job' = ThisJob
  /\ started' = started + 1
  /\ UNCHANGED <<regs, elements, which_input>>
  /\ ClockEdge(req, gnt, FALSE)

\* Seeded defect: the register file can be written in every state.
WriteRegisterAnyTime(req, gnt) ==
  /\ \E reg \in Parameters : Writes(reg)
  /\ operation' = IF Writes("OPERATION") THEN sbr.wdata % 8 ELSE operation
  /\ source_array_address' =
       IF Writes("SOURCE") THEN sbr.wdata ELSE source_array_address
  /\ number_of_elements' =
       IF Writes("NR_OF_ELEMENTS") THEN sbr.wdata ELSE number_of_elements
  /\ destination_array_address' =
       IF Writes("DESTINATION") THEN sbr.wdata ELSE destination_array_address
  /\ UNCHANGED <<state, datapath, history>>
  /\ ClockEdge(req, gnt, FALSE)

\* operation_t'(wdata) keeps the low three bits.
IdleWriteRegister(req, gnt) ==
  /\ state = "IDLE"
  /\ \E reg \in Parameters : Writes(reg)
  /\ operation' = IF Writes("OPERATION") THEN sbr.wdata % 8 ELSE operation
  /\ source_array_address' =
       IF Writes("SOURCE") THEN sbr.wdata ELSE source_array_address
  /\ number_of_elements' =
       IF Writes("NR_OF_ELEMENTS") THEN sbr.wdata ELSE number_of_elements
  /\ destination_array_address' =
       IF Writes("DESTINATION") THEN sbr.wdata ELSE destination_array_address
  /\ UNCHANGED <<state, datapath, history>>
  /\ ClockEdge(req, gnt, FALSE)

\* No request, a read, or a write to the names, to DONE or to no register.
IdleOther(req, gnt) ==
  /\ state = "IDLE"
  /\ ~Writes("START")
  /\ \A reg \in Parameters : ~Writes(reg)
  /\ UNCHANGED <<state, regs, datapath, history>>
  /\ ClockEdge(req, gnt, FALSE)

ReadElements(req, gnt) ==
  /\ state = "READ_ELEMENTS"
  /\ state' = IF mgr.gnt THEN "WAIT_READ_RESPONSE" ELSE state
  /\ UNCHANGED <<regs, datapath, history>>
  /\ ClockEdge(req, gnt, FALSE)

\* A word of two operands for one engine (ATAN) or one for each engine.
WaitReadResponse(req, gnt) ==
  /\ state = "WAIT_READ_RESPONSE"
  /\ IF ~mgr.rvalid
     THEN UNCHANGED <<state, elements, which_input>>
     ELSE IF operation = ATAN
     THEN /\ elements' = [elements EXCEPT ![which_input] = mgr.rdata]
          /\ IF \/ which_input = 1
                \/ Wrap(element_counter + 2) = number_of_elements
             THEN state' = "START_CORDIC" /\ which_input' = 0
             ELSE state' = "READ_ELEMENTS" /\ which_input' = 1
     ELSE /\ elements' = [elements EXCEPT ![0].lo = mgr.rdata.lo,
                                          ![1].lo = mgr.rdata.hi]
          /\ state' = "START_CORDIC"
          /\ UNCHANGED which_input
  /\ UNCHANGED <<regs, element_counter, history>>
  /\ ClockEdge(req, gnt, FALSE)

StartCordic(req, gnt) ==
  /\ state = "START_CORDIC"
  /\ state' = "WAIT_CORDIC"
  /\ UNCHANGED <<regs, datapath, history>>
  /\ ClockEdge(req, gnt, TRUE)

\* An engine's done is a pulse; the FSM moves on if both pulse together.
WaitCordic(req, gnt) ==
  /\ state = "WAIT_CORDIC"
  /\ elements' =
       [k \in Engines |->
          IF CordicDone(cordic[k])
          THEN [elements[k] EXCEPT !.lo = Output(cordic[k], operation)]
          ELSE elements[k]]
  /\ state' = IF \A k \in Engines : CordicDone(cordic[k])
              THEN "WRITE_ELEMENTS" ELSE state
  /\ UNCHANGED <<regs, element_counter, which_input, history>>
  /\ ClockEdge(req, gnt, FALSE)

WriteElements(req, gnt) ==
  /\ state = "WRITE_ELEMENTS"
  /\ state' = IF mgr.gnt THEN "WAIT_WRITE_RESPONSE" ELSE state
  /\ UNCHANGED <<regs, datapath, history>>
  /\ ClockEdge(req, gnt, FALSE)

\* Seeded defects: another chunk when the array ends with this one, and an
\* end that an odd length steps over.
LastChunkOneMore ==
  \/ Wrap(element_counter + 2) > number_of_elements
  \/ operation = ATAN /\ Wrap(element_counter + 4) > number_of_elements

LastChunkExactly ==
  \/ Wrap(element_counter + 2) = number_of_elements
  \/ operation = ATAN /\ Wrap(element_counter + 4) = number_of_elements

\* The comparison is made on 32-bit sums, before the counter moves on.
LastChunk ==
  \/ Wrap(element_counter + 2) >= number_of_elements
  \/ operation = ATAN /\ Wrap(element_counter + 4) >= number_of_elements

Step == IF operation = ATAN THEN 4 ELSE 2

WaitWriteResponse(req, gnt) ==
  /\ state = "WAIT_WRITE_RESPONSE"
  /\ IF mgr.rvalid
     THEN /\ element_counter' = Wrap(element_counter + Step)
          /\ state' = IF LastChunk THEN "DONE" ELSE "READ_ELEMENTS"
     ELSE UNCHANGED <<state, element_counter>>
  /\ UNCHANGED <<regs, elements, which_input, history>>
  /\ ClockEdge(req, gnt, FALSE)

\* Completion is reported once: reading DONE takes the FSM back to IDLE.
Done(req, gnt) ==
  /\ state = "DONE"
  /\ IF sbr.valid /\ ~sbr.we /\ sbr.reg = "DONE"
     THEN state' = "IDLE" /\ job' = NoJob
     ELSE UNCHANGED <<state, job>>
  /\ UNCHANGED <<regs, datapath, started>>
  /\ ClockEdge(req, gnt, FALSE)

\* The answer to the latched request: 0, a word of the names or all ones.
\* Only IDLE and DONE decode it; the other states answer 0 without error.
SbrReply ==
  [ rvalid |-> sbr.valid,
    rdata  |-> IF /\ sbr.valid /\ ~sbr.we
                  /\ state = "IDLE" /\ sbr.reg = "STUDENT_NAMES"
               THEN "name"
               ELSE IF /\ sbr.valid /\ ~sbr.we
                       /\ state = "DONE" /\ sbr.reg = "DONE"
               THEN "ones"
               ELSE "zero",
    err    |-> /\ sbr.valid
               /\ \/ state = "IDLE" /\ sbr.we /\ sbr.reg = "STUDENT_NAMES"
                  \/ state = "IDLE" /\ ~sbr.we
                       /\ sbr.reg \in Parameters \cup {"START"}
                  \/ state = "DONE" /\ sbr.we /\ sbr.reg = "DONE" ]

-----------------------------------------------------------------------------

Init ==
  /\ state = "IDLE"
  /\ operation = SIN
  /\ source_array_address = 0
  /\ number_of_elements = 0
  /\ destination_array_address = 0
  /\ elements = [k \in Engines |-> Pair(Zero, Zero)]
  /\ element_counter = 0
  /\ which_input = 0
  /\ sbr = NoRequest
  /\ mgr = NoResponse
  /\ cordic = [k \in Engines |-> CordicReset]
  /\ sram = NoSramResponse
  /\ denied = 0
  /\ mem = InitMem
  /\ job = NoJob
  /\ started = 0

\* rst_ni: every flip-flop returns to its reset value; the SRAM keeps its
\* contents, half-written results included.
Reset ==
  /\ state' = "IDLE"
  /\ operation' = SIN
  /\ source_array_address' = 0
  /\ number_of_elements' = 0
  /\ destination_array_address' = 0
  /\ elements' = [k \in Engines |-> Pair(Zero, Zero)]
  /\ element_counter' = 0
  /\ which_input' = 0
  /\ sbr' = NoRequest
  /\ mgr' = NoResponse
  /\ cordic' = [k \in Engines |-> CordicReset]
  /\ sram' = NoSramResponse
  /\ denied' = 0
  /\ job' = NoJob
  /\ UNCHANGED <<mem, started>>

Tick(req, gnt) ==
  \/ IdleStart(req, gnt)
  \/ IdleWriteRegister(req, gnt)
  \/ IdleOther(req, gnt)
  \/ ReadElements(req, gnt)
  \/ WaitReadResponse(req, gnt)
  \/ StartCordic(req, gnt)
  \/ WaitCordic(req, gnt)
  \/ WriteElements(req, gnt)
  \/ WaitWriteResponse(req, gnt)
  \/ Done(req, gnt)

Clock == \E req \in Requests \cup {NoRequest}, gnt \in BOOLEAN : Tick(req, gnt)

Next == Clock \/ Reset

Spec == Init /\ [][Next]_vars

\* The clock keeps running.
FairSpec == Spec /\ WF_vars(Clock)

-----------------------------------------------------------------------------
(* Properties.                                                             *)

\* No undefined value reaches a register, an engine or the memory: operands
\* are taken from the bus only while a response is valid, and results from an
\* engine only while its operation is still the one it was loaded for.
TypeOK ==
  /\ state \in States
  /\ operation \in Operations
  /\ source_array_address \in WordRange
  /\ number_of_elements \in WordRange
  /\ destination_array_address \in WordRange
  /\ elements \in [Engines -> [lo : Data, hi : Data]]
  /\ element_counter \in WordRange
  /\ which_input \in {0, 1}
  /\ sbr \in Requests \cup {NoRequest}
  /\ mgr \in [gnt : BOOLEAN, rvalid : BOOLEAN, rdata : BusWord]
  /\ cordic \in [Engines -> CordicType]
  /\ sram \in [rvalid : BOOLEAN, rdata : BusWord]
  /\ denied \in 0 .. MaxDenied
  /\ mem \in [Halfwords -> Data]
  /\ started \in Nat

Busy == state \notin {"IDLE", "DONE"}

\* When a manager polling DONE is answered with a non-zero word, every
\* result of the well-formed job it started is in memory: nothing granted
\* twice, answered late or computed from a stale operand can show.
CompletionMeansResults ==
  SbrReply.rdata = "ones" /\ WellFormed(job) =>
    \A k \in 0 .. NumResults(job) - 1 : mem[At(job.dst, k)] = ResultOf(job, k)

\* At no moment of an aligned job that fits does memory outside the
\* destination array differ from what it was at the start, odd lengths
\* (byte enables of the last write) and duplicated writes included.
OutsideUntouched ==
  Busy /\ Aligned(job) /\ Fits(job) =>
    \A h \in Halfwords \ Destination(job) : mem[h] = job.mem[h]

\* A response the FSM accepts belongs to the request it waits for, never to
\* the duplicate of an earlier one: a read response carries the word at the
\* present read address, a write response means the results are in memory.
ResponseMatchesRequest ==
  /\ state = "WAIT_READ_RESPONSE" /\ mgr.rvalid => mgr.rdata = MemRead(ReadAddr)
  /\ state = "WAIT_WRITE_RESPONSE" /\ mgr.rvalid => mem = MemAfterWrite

\* The two engines are never out of step, and while the FSM waits for their
\* done pulses they have not pulsed yet: it can not wait for ever.
EnginesInLockstep ==
  /\ cordic[0].state = cordic[1].state /\ cordic[0].count = cordic[1].count
  /\ state = "WAIT_CORDIC" => cordic[0].state # "IDLE"
  /\ state = "START_CORDIC" => cordic[0].state = "IDLE"

\* Register writes and START requests that arrive during a job (from the
\* CPU or the debug module) do not reach it: it runs with the parameters it
\* was started with.
ParametersFrozen ==
  Busy => /\ job.op = operation
          /\ job.src = source_array_address
          /\ job.n = number_of_elements
          /\ job.dst = destination_array_address

\* A chunk is only ever begun inside the array: the counter, its steps of
\* two or four and its 32-bit wrap never take the FSM past the last element.
CounterInBounds == Busy => element_counter < number_of_elements

\* Whatever the managers send and however the bus grants, a job ends.  The
\* one length for which it does not is the largest register value (-1): the
\* 32-bit comparison of LastChunk wraps and the counter starts over.
JobTerminates ==
  (Busy /\ number_of_elements # AddrSpace - 1) ~> ~Busy

=============================================================================

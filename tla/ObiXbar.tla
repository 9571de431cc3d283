------------------------------- MODULE ObiXbar --------------------------------
(***************************************************************************)
(* The main crossbar (i_main_xbar of croc_domain.sv) to the signal, one    *)
(* clock cycle per step: an obi_demux for each manager, and for each       *)
(* subordinate an obi_mux with its rr_arb_tree and its fifo of the         *)
(* managers whose responses are due.                                       *)
(*                                                                         *)
(* Core and debug module keep a request until it is granted.  crocdic_top, *)
(* the manager of the user domain, sees grant and response a cycle late,   *)
(* so its request is still up in the cycle after the grant and withdrawn   *)
(* in the next, granted again or not.                                      *)
(*                                                                         *)
(* Every subordinate answers in the cycle after it has taken a request.    *)
(* All grant at once, but the error subordinate none while it answers.     *)
(***************************************************************************)
EXTENDS Naturals, Sequences, FiniteSets, FiniteSetsExt

CONSTANTS
  Subordinates,   \* those of the crossbar
  Reach           \* Reach[m]: the subordinates manager m sends requests to

USER  == 0
DEBUG == 1
DATA  == 2
INSTR == 3

Managers == 0 .. 3
Holding  == {DEBUG, DATA, INSTR}   \* managers that keep a request up

ASSUME XbarAssumption ==
  /\ {"PERIPH", "ERROR"} \subseteq Subordinates
  /\ Reach \in [Managers -> SUBSET Subordinates]

NumMaxTrans == 2   \* of the fifos

\* An address is the subordinate that decodes it; address 0 is a peripheral's.
Address0 == "PERIPH"

VARIABLES
  user,      \* crocdic_top's port: phase, address, latched grant and response
  want,      \* want[m]: the request a holding manager drives, if any
  demux,     \* demux[m]: select_q and the counter with its overflow bit
  arb,       \* arb[s]: rr_q, lock_q and req_q of the arbiter
  ids,       \* ids[s]: fifo of the managers whose responses are due
  serving,   \* serving[s]: the request a subordinate answers in this cycle
  owed,      \* history, owed[m]: granted requests not answered yet
  denied     \* history: cycles in which the present request of USER was refused

vars == <<user, want, demux, arb, ids, serving, owed, denied>>

Access  == [mgr : Managers, asked : BOOLEAN, valid : BOOLEAN]
Nothing == [mgr |-> USER, asked |-> FALSE, valid |-> FALSE]

Init ==
  /\ user = [phase |-> "REST", addr |-> Address0, gnt |-> FALSE, rvalid |-> FALSE]
  /\ want = [m \in Holding |-> [req |-> FALSE, addr |-> Address0]]
  /\ demux = [m \in Managers |-> [select |-> "ERROR", count |-> 0]]
  /\ arb = [s \in Subordinates |-> [rr |-> 0, lock |-> FALSE, req |-> {}]]
  /\ ids = [s \in Subordinates |-> <<>>]
  /\ serving = [s \in Subordinates |-> Nothing]
  /\ owed = [m \in Managers |-> <<>>]
  /\ denied = 0

-----------------------------------------------------------------------------
(* The signals of a cycle, combinational from the registers.                *)

\* The managers' requests.  At rest crocdic_top drives address 0.
Req(m)  == IF m = USER THEN user.phase = "REQUEST" ELSE want[m].req
Addr(m) == IF m # USER THEN want[m].addr ELSE IF Req(USER) THEN user.addr ELSE Address0

\* A subordinate's response goes to the manager at the head of the fifo, and
\* from there to the manager if its demultiplexer is set to the subordinate.
RspTo(s, m) == serving[s].valid /\ Head(ids[s]) = m
Rvalid(m)   == RspTo(demux[m].select, m)

overflow(m)  == demux[m].count >= 2
in_flight(m) == demux[m].count % 2

\* A request goes through if it keeps the selection, or nothing else is due.
Allowed(m) ==
  /\ ~overflow(m)
  /\ \/ Addr(m) = demux[m].select
     \/ in_flight(m) = 0
     \/ in_flight(m) = 1 /\ Rvalid(m)

\* The requests that reach the multiplexer of s.
ReqIn(s) == {m \in Managers : Req(m) /\ Addr(m) = s /\ Allowed(m)}

\* A refused request is locked: the arbiter goes on deciding among the same.
ReqD(s) == IF arb[s].lock THEN arb[s].req ELSE ReqIn(s)

\* Seeded defect: the lower index is chosen whatever rr_q says.
IdxFixed(s) == IF ReqD(s) = {} THEN 3 ELSE Min(ReqD(s))

\* The tree: the root chooses a pair of inputs, the leaf one of the pair, in
\* either case the upper one if the lower does not ask or rr_q prefers it.
Idx(s) ==
  LET reqs    == ReqD(s)
      leaf(l) == IF 2 * l \notin reqs \/ (2 * l + 1 \in reqs /\ arb[s].rr % 2 = 1)
                 THEN 1 ELSE 0
      root    == IF reqs \cap {0, 1} = {} \/ (reqs \cap {2, 3} # {} /\ arb[s].rr \div 2 = 1)
                 THEN 1 ELSE 0
  IN  2 * root + leaf(root)

Asks(s) == ReqD(s) # {}

SbrGnt(s) == s = "ERROR" => ~serving[s].valid
MuxGnt(s) == SbrGnt(s) /\ Len(ids[s]) < NumMaxTrans

\* Seeded defect: the grant reaches whoever the subordinate's address names.
GntAlways(m) == Allowed(m) /\ MuxGnt(Addr(m))

\* The grant follows the tree, whether or not its manager asks.
Gnt(m) == Allowed(m) /\ MuxGnt(Addr(m)) /\ Idx(Addr(m)) = m

\* What the multiplexer hands on: a request, or nothing but zeroes where a
\* locked one has been withdrawn.
Carried(s) == [mgr |-> Idx(s), asked |-> Idx(s) \in ReqIn(s), valid |-> TRUE]

-----------------------------------------------------------------------------
(* The registers.                                                           *)

Taken(s) == Asks(s) /\ MuxGnt(s)

\* Seeded defect: the next input, without the return to the first.
NextRrUnwrapped(s) == arb[s].rr + 1

\* The next input above the present one, or else the first.
NextRr(s) ==
  LET upper == {m \in ReqD(s) : m > arb[s].rr}
  IN  IF upper # {} THEN Min(upper) ELSE Min(ReqD(s))

\* Seeded defect: locked until nothing asks, instead of until the grant.
ArbiterLocked(s) ==
  [ rr   |-> IF Taken(s) THEN NextRr(s) ELSE arb[s].rr,
    lock |-> Asks(s),
    req  |-> IF Asks(s) THEN ReqD(s) ELSE {} ]

\* req_q is read with lock_q only, and kept for that case.
Arbiter(s) ==
  LET lock == Asks(s) /\ ~MuxGnt(s)
  IN  [ rr   |-> IF Taken(s) THEN NextRr(s) ELSE arb[s].rr,
        lock |-> lock,
        req  |-> IF lock THEN ReqD(s) ELSE {} ]

\* Seeded defect: a manager is queued for its request, granted or not.
FifoOfRequests(s) ==
  (IF serving[s].valid THEN Tail(ids[s]) ELSE ids[s])
    \o (IF Asks(s) THEN <<Idx(s)>> ELSE <<>>)

Fifo(s) ==
  (IF serving[s].valid THEN Tail(ids[s]) ELSE ids[s])
    \o (IF Taken(s) THEN <<Idx(s)>> ELSE <<>>)

Subordinate(s) == IF Taken(s) THEN Carried(s) ELSE Nothing

Granted(m) == Req(m) /\ Gnt(m)

\* Seeded defect: a grant and a response in one cycle count as the grant.
DemuxCountsGrant(m) ==
  [ select |-> IF Granted(m) THEN Addr(m) ELSE demux[m].select,
    count  |-> IF Granted(m) THEN (demux[m].count + 1) % 4
               ELSE IF Rvalid(m) THEN (demux[m].count + 3) % 4
               ELSE demux[m].count ]

\* The counter is two bits wide, of which the upper one is the overflow.
Demux(m) ==
  [ select |-> IF Granted(m) THEN Addr(m) ELSE demux[m].select,
    count  |-> IF Granted(m) = Rvalid(m) THEN demux[m].count
               ELSE IF Rvalid(m) THEN (demux[m].count + 3) % 4
               ELSE (demux[m].count + 1) % 4 ]

Owed(m) ==
  (IF Rvalid(m) /\ owed[m] # <<>> THEN Tail(owed[m]) ELSE owed[m])
    \o (IF Granted(m) THEN <<Addr(m)>> ELSE <<>>)

Xbar ==
  /\ demux' = [m \in Managers |-> Demux(m)]
  /\ arb' = [s \in Subordinates |-> Arbiter(s)]
  /\ ids' = [s \in Subordinates |-> Fifo(s)]
  /\ serving' = [s \in Subordinates |-> Subordinate(s)]
  /\ owed' = [m \in Managers |-> Owed(m)]
  /\ denied' = IF Req(USER) /\ ~Gnt(USER) THEN denied + 1 ELSE 0

-----------------------------------------------------------------------------
(* The managers.                                                            *)

\* A holding manager drives no request or a new one, or the one not granted.
NextWants(m) ==
  IF Req(m) /\ ~Gnt(m)
  THEN {want[m]}
  ELSE {[req |-> FALSE, addr |-> Address0]} \cup {[req |-> TRUE, addr |-> s] : s \in Reach[m]}

HoldingManagers ==
  \E debug \in NextWants(DEBUG), data \in NextWants(DATA), instr \in NextWants(INSTR) :
    want' = [m \in Holding |-> CASE m = DEBUG -> debug [] m = DATA -> data [] m = INSTR -> instr]

\* crocdic_top latches grant and response whatever its state.
UserPort(phase, addr) ==
  user' = [phase |-> phase, addr |-> addr, gnt |-> Gnt(USER), rvalid |-> Rvalid(USER)]

\* IDLE, START_CORDIC, WAIT_CORDIC, DONE
UserRests ==
  /\ user.phase = "REST"
  /\ Xbar
  /\ UserPort("REST", user.addr)
  /\ HoldingManagers

\* From a state at rest, or from a response, to READ_ELEMENTS or WRITE_ELEMENTS.
UserBegins ==
  /\ user.phase = "REST" \/ (user.phase = "WAIT" /\ user.rvalid)
  /\ Xbar
  /\ \E s \in Reach[USER] : UserPort("REQUEST", s)
  /\ HoldingManagers

\* READ_ELEMENTS, WRITE_ELEMENTS
UserRequests ==
  /\ user.phase = "REQUEST"
  /\ Xbar
  /\ UserPort(IF user.gnt THEN "WAIT" ELSE "REQUEST", user.addr)
  /\ HoldingManagers

\* WAIT_READ_RESPONSE, WAIT_WRITE_RESPONSE
UserWaits ==
  /\ user.phase = "WAIT"
  /\ Xbar
  /\ UserPort(IF user.rvalid THEN "REST" ELSE "WAIT", user.addr)
  /\ HoldingManagers

Next == UserRests \/ UserBegins \/ UserRequests \/ UserWaits

\* The clock runs: with Next always possible, this is its weak fairness.
Spec == Init /\ [][Next]_vars /\ []<><<TRUE>>_vars

-----------------------------------------------------------------------------
(* Properties.                                                              *)

MaxDenied == 3

\* Every register of the crossbar and its managers has one of its values.
TypeOK ==
  /\ user \in [ phase : {"REST", "REQUEST", "WAIT"},
                addr : Subordinates, gnt : BOOLEAN, rvalid : BOOLEAN ]
  /\ want \in [Holding -> [req : BOOLEAN, addr : Subordinates]]
  /\ demux \in [Managers -> [select : Subordinates, count : 0 .. 3]]
  /\ arb \in [Subordinates -> [rr : Managers, lock : BOOLEAN, req : SUBSET Managers]]
  /\ \A s \in Subordinates :
       ids[s] \in Seq(Managers) /\ Len(ids[s]) <= NumMaxTrans /\ serving[s] \in Access
  /\ \A m \in Managers : owed[m] \in Seq(Subordinates)
  /\ denied \in Nat

\* The counter of a demultiplexer is the number of requests of its manager that
\* have been granted and not answered, and never reaches the overflow bit, with
\* which the port would refuse every request from then on (obi_demux.sv:51-57).
CountsOutstanding == \A m \in Managers : demux[m].count = Len(owed[m]) /\ ~overflow(m)

\* A response reaches the manager whose request is answered, which was really
\* asking when it was taken: fifo, selection and requests agree, however many
\* managers change subordinates at once (obi_mux.sv:132-139, obi_demux.sv:67-69).
AnswersReachTheirManagers ==
  \A s \in Subordinates : serving[s].valid =>
    /\ serving[s].asked
    /\ RspTo(s, serving[s].mgr)
    /\ demux[serving[s].mgr].select = s
    /\ owed[serving[s].mgr] # <<>> /\ Head(owed[serving[s].mgr]) = s

\* A request that was refused is still there in the next cycle: what
\* rr_arb_tree assumes (rr_arb_tree.sv:173) of managers and demultiplexers.
UnservedRequestsStay ==
  \A s \in Subordinates : arb[s].lock => arb[s].req \subseteq ReqIn(s)

\* What crocdic_top, which latches grants whatever its state and counts on the
\* response of its last request, needs of the crossbar: no grant without a
\* request, a bounded number of refusals, and a response in the cycle after
\* each grant and in no other.
ServesUser ==
  [][ /\ Gnt(USER) => Req(USER)
      /\ denied' <= MaxDenied
      /\ Rvalid(USER)' = Gnt(USER) ]_vars

\* The round robin starves nobody: a manager that keeps its request up gets its
\* grant, and crocdic_top gets on to waiting for the response.
NoStarvation ==
  /\ \A m \in Holding : Req(m) ~> Gnt(m)
  /\ user.phase = "REQUEST" ~> user.phase = "WAIT"

=============================================================================

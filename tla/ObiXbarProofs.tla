---------------------------- MODULE ObiXbarProofs -----------------------------
(***************************************************************************)
(* What holds of the main crossbar for every set of subordinates and       *)
(* whatever the managers ask for, as long as crocdic_top keeps to          *)
(* addresses that a subordinate decodes.  Fifos have the two entries of    *)
(* croc_domain.sv, and a subordinate answers in the cycle after it takes a *)
(* request.                                                                *)
(***************************************************************************)
EXTENDS ObiXbar, TLAPS

\* Every job's addresses are decoded: crocdic_top never reaches the error
\* subordinate.  Core and debug module may.
UserDecodes == "ERROR" \notin Reach[USER]

-----------------------------------------------------------------------------
(* The inductive invariant.                                                 *)

\* A fifo holds the manager a subordinate is answering, and no other.
FifoInv ==
  \A s \in Subordinates :
    ids[s] = IF serving[s].valid THEN <<serving[s].mgr>> ELSE <<>>

\* What a subordinate answers is the one request its manager is owed.
ServingInv ==
  \A s \in Subordinates : serving[s].valid =>
    /\ serving[s].asked
    /\ demux[serving[s].mgr].select = s
    /\ owed[serving[s].mgr] = <<s>>

\* A manager is owed nothing, or the answer it gets in this very cycle.
OwedInv ==
  \A m \in Managers :
    \/ owed[m] = <<>> /\ demux[m].count = 0
    \/ /\ owed[m] = <<demux[m].select>> /\ demux[m].count = 1
       /\ serving[demux[m].select].valid /\ serving[demux[m].select].mgr = m

\* Only the error subordinate refuses, and only managers that hold their
\* request are refused by it.
LockInv ==
  \A s \in Subordinates : arb[s].lock =>
    /\ s = "ERROR" /\ arb[s].req # {}
    /\ \A m \in arb[s].req : m # USER /\ Req(m) /\ Addr(m) = s

\* Each refusal of crocdic_top moves the priority on towards it, from input
\* 1 to 3 and from there to input 0, which is crocdic_top.
PatienceInv ==
  /\ denied \in 0 .. MaxDenied
  /\ user.phase = "REQUEST" =>
       /\ user.addr \in Reach[USER]
       /\ denied > 0 => arb[user.addr].rr = 0 \/ arb[user.addr].rr > denied

XbarInv == TypeOK /\ FifoInv /\ ServingInv /\ OwedInv /\ LockInv /\ PatienceInv

-----------------------------------------------------------------------------
(* The arbiter's choices.                                                   *)

\* The least of some managers is one of them.
LEMMA MinIsLeast ==
  ASSUME NEW S \in SUBSET Managers, S # {}
  PROVE  Min(S) \in S /\ \A x \in S : Min(S) <= x
<1>1. S \subseteq {0, 1, 2, 3}
  BY DEF Managers
<1>2. \E x \in S : \A y \in S : x <= y
  <2>1. CASE 0 \in S
    BY <1>1, <2>1
  <2>2. CASE 0 \notin S /\ 1 \in S
    BY <1>1, <2>2
  <2>3. CASE 0 \notin S /\ 1 \notin S /\ 2 \in S
    BY <1>1, <2>3
  <2>4. CASE S = {3}
    BY <2>4
  <2> QED
    BY <1>1, <2>1, <2>2, <2>3, <2>4
<1> QED
  BY <1>2 DEF Min

\* The tree hands the grant to an input that asks, and where none asks to no
\* other than the last.
LEMMA TreeSelects ==
  ASSUME NEW s, ReqD(s) \subseteq Managers, arb[s].rr \in Managers
  PROVE  /\ Idx(s) \in Managers
         /\ Asks(s) => Idx(s) \in ReqD(s)
         /\ USER \notin ReqD(s) => Idx(s) # USER
         /\ USER \in ReqD(s) /\ Idx(s) # USER => arb[s].rr # 0
<1> DEFINE reqs == ReqD(s)
           rr   == arb[s].rr
<1>1. rr \in {0, 1, 2, 3} /\ reqs \subseteq {0, 1, 2, 3}
  BY DEF Managers
<1>2. /\ 0 % 2 = 0 /\ 1 % 2 = 1 /\ 2 % 2 = 0 /\ 3 % 2 = 1
      /\ 0 \div 2 = 0 /\ 1 \div 2 = 0 /\ 2 \div 2 = 1 /\ 3 \div 2 = 1
  OBVIOUS
<1>3. Idx(s) \in Managers
  BY <1>1 DEF Idx, Managers
<1>4. ASSUME reqs # {}
      PROVE  Idx(s) \in reqs
  BY <1>1, <1>2, <1>4 DEF Idx
<1>5. ASSUME USER \notin reqs
      PROVE  Idx(s) # USER
  BY <1>1, <1>2, <1>5 DEF Idx, USER
<1>6. ASSUME USER \in reqs, Idx(s) # USER
      PROVE  rr # 0
  BY <1>1, <1>2, <1>6 DEF Idx, USER
<1> QED
  BY <1>3, <1>4, <1>5, <1>6 DEF Asks

\* Round robin: the priority goes to an input further on, or back to input 0
\* if that one asks.
LEMMA PriorityMovesOn ==
  ASSUME NEW s, ReqD(s) \subseteq Managers, arb[s].rr \in Managers, Asks(s)
  PROVE  /\ NextRr(s) \in Managers
         /\ USER \in ReqD(s) => NextRr(s) = USER \/ NextRr(s) > arb[s].rr
<1> DEFINE upper == {m \in ReqD(s) : m > arb[s].rr}
<1>1. CASE upper # {}
  <2>1. Min(upper) \in upper
    BY <1>1, MinIsLeast
  <2> QED
    BY <1>1, <2>1 DEF NextRr
<1>2. CASE upper = {}
  <2>1. Min(ReqD(s)) \in ReqD(s) /\ \A x \in ReqD(s) : Min(ReqD(s)) <= x
    BY MinIsLeast DEF Asks
  <2>2. NextRr(s) = Min(ReqD(s))
    BY <1>2 DEF NextRr
  <2> QED
    BY <2>1, <2>2 DEF Managers, USER
<1> QED
  BY <1>1, <1>2

-----------------------------------------------------------------------------
(* What the signals of a cycle are while the invariant holds.               *)

\* A sequence of one element.
LEMMA OneElement ==
  ASSUME NEW x
  PROVE  <<x>> # <<>> /\ Head(<<x>>) = x /\ Tail(<<x>>) = <<>> /\ Len(<<x>>) = 1
OBVIOUS

\* A response reaches a manager in each cycle in which one is owed to it.
LEMMA ResponsesAreDue ==
  ASSUME XbarInv, NEW m \in Managers
  PROVE  Rvalid(m) <=> owed[m] # <<>>
<1> DEFINE s == demux[m].select
<1>1. s \in Subordinates
  BY DEF XbarInv, TypeOK
<1>2. serving[s].valid => ids[s] = <<serving[s].mgr>>
  BY <1>1 DEF XbarInv, FifoInv
<1>3. serving[s].valid => owed[serving[s].mgr] = <<s>>
  BY <1>1 DEF XbarInv, ServingInv
<1>4. \/ owed[m] = <<>>
      \/ owed[m] = <<s>> /\ serving[s].valid /\ serving[s].mgr = m
  BY DEF XbarInv, OwedInv
<1>5. serving[s].valid => Head(ids[s]) = serving[s].mgr
  BY <1>2, OneElement
<1>6. Rvalid(m) <=> serving[s].valid /\ Head(ids[s]) = m
  BY DEF Rvalid, RspTo
<1>7. <<s>> # <<>>
  BY OneElement
<1> HIDE DEF s
<1> QED
  BY <1>3, <1>4, <1>5, <1>6, <1>7

\* Since an answer is due in the cycle after a grant, no demultiplexer ever
\* holds a request back.
LEMMA AllAllowed ==
  ASSUME XbarInv, NEW m \in Managers
  PROVE  Allowed(m)
<1>1. \/ owed[m] = <<>> /\ demux[m].count = 0
      \/ owed[m] # <<>> /\ demux[m].count = 1
  <2>1. <<demux[m].select>> # <<>>
    BY OneElement
  <2> QED
    BY <2>1 DEF XbarInv, OwedInv
<1>2. 1 % 2 = 1 /\ 0 % 2 = 0
  OBVIOUS
<1> QED
  BY <1>1, <1>2, ResponsesAreDue DEF Allowed, overflow, in_flight

\* With nothing held back, the requests at a multiplexer are those whose address
\* names the subordinate, and what a locked arbiter goes on with are among them.
LEMMA Requests ==
  ASSUME XbarInv, NEW s \in Subordinates
  PROVE  /\ ReqIn(s) = {m \in Managers : Req(m) /\ Addr(m) = s}
         /\ arb[s].lock => arb[s].req \subseteq ReqIn(s)
         /\ ReqD(s) \subseteq ReqIn(s)
         /\ ReqD(s) \subseteq Managers
         /\ s # "ERROR" => ReqD(s) = ReqIn(s)
         /\ Asks(s) <=> ReqIn(s) # {}
         /\ MuxGnt(s) <=> SbrGnt(s)
         /\ arb[s].rr \in Managers
<1>1. ReqIn(s) = {m \in Managers : Req(m) /\ Addr(m) = s}
  BY AllAllowed DEF ReqIn
<1>2. arb[s].lock =>
        s = "ERROR" /\ arb[s].req # {} /\ \A m \in arb[s].req : Req(m) /\ Addr(m) = s
  BY DEF XbarInv, LockInv
<1>3. arb[s].rr \in Managers /\ arb[s].req \subseteq Managers
  BY DEF XbarInv, TypeOK
<1>4. arb[s].lock => arb[s].req \subseteq ReqIn(s)
  BY <1>1, <1>2, <1>3
<1>5. Len(ids[s]) < NumMaxTrans
  <2>1. CASE ids[s] = <<>>
    <3>1. Len(ids[s]) = 0
      BY <2>1
    <3> QED
      BY <3>1 DEF NumMaxTrans
  <2>2. CASE ids[s] = <<serving[s].mgr>>
    <3>1. Len(ids[s]) = 1
      BY <2>2
    <3> QED
      BY <3>1 DEF NumMaxTrans
  <2> QED
    BY <2>1, <2>2 DEF XbarInv, FifoInv
<1> QED
  BY <1>1, <1>2, <1>3, <1>4, <1>5 DEF ReqD, Asks, MuxGnt

\* Every address names a subordinate, at rest too.
LEMMA AddressesAre ==
  ASSUME XbarInv, NEW m \in Managers
  PROVE  Addr(m) \in Subordinates
<1>1. CASE m = USER
  BY <1>1, XbarAssumption DEF XbarInv, TypeOK, Addr, Address0
<1>2. CASE m # USER
  <2>1. m \in Holding
    BY <1>2 DEF Managers, Holding, USER, DEBUG, DATA, INSTR
  <2> QED
    BY <1>2, <2>1 DEF XbarInv, TypeOK, Addr
<1> QED
  BY <1>1, <1>2

\* What a subordinate takes is the request of one manager, which is granted.
LEMMA TakenIsGranted ==
  ASSUME XbarInv, NEW s \in Subordinates, Taken(s)
  PROVE  /\ Idx(s) \in Managers /\ Idx(s) \in ReqIn(s)
         /\ Granted(Idx(s)) /\ Addr(Idx(s)) = s
<1>1. Idx(s) \in ReqD(s) /\ Idx(s) \in Managers
  BY Requests, TreeSelects DEF Taken
<1>2. Idx(s) \in ReqIn(s)
  BY <1>1, Requests
<1>3. Req(Idx(s)) /\ Addr(Idx(s)) = s
  BY <1>2 DEF ReqIn
<1> QED
  BY <1>1, <1>2, <1>3, AllAllowed DEF Granted, Gnt, Taken

\* And what is granted is taken.
LEMMA GrantedIsTaken ==
  ASSUME XbarInv, NEW m \in Managers, Granted(m)
  PROVE  Addr(m) \in Subordinates /\ Taken(Addr(m)) /\ Idx(Addr(m)) = m
<1>1. Addr(m) \in Subordinates
  BY AddressesAre
<1>2. m \in ReqIn(Addr(m))
  BY <1>1, Requests DEF Granted
<1> QED
  BY <1>1, <1>2, Requests DEF Granted, Gnt, Taken

\* A subordinate answers the request it has just taken, a real one, if any.
LEMMA NextServing ==
  ASSUME XbarInv, Xbar, NEW s \in Subordinates
  PROVE  /\ serving'[s] \in Access
         /\ serving'[s].valid <=> Taken(s)
         /\ Taken(s) => serving'[s].mgr = Idx(s) /\ serving'[s].asked
<1>1. serving'[s] = Subordinate(s)
  BY DEF Xbar
<1>2. CASE Taken(s)
  <2>1. Idx(s) \in Managers /\ Idx(s) \in ReqIn(s)
    BY <1>2, TakenIsGranted
  <2>2. serving'[s] = [mgr |-> Idx(s), asked |-> TRUE, valid |-> TRUE]
    BY <1>1, <1>2, <2>1 DEF Subordinate, Carried
  <2> QED
    BY <1>2, <2>1, <2>2 DEF Access
<1>3. CASE ~Taken(s)
  <2>1. serving'[s] = [mgr |-> USER, asked |-> FALSE, valid |-> FALSE]
    BY <1>1, <1>3 DEF Subordinate, Nothing
  <2>2. USER \in Managers
    BY DEF USER, Managers
  <2> QED
    BY <1>3, <2>1, <2>2 DEF Access
<1> QED
  BY <1>2, <1>3

\* A fifo holds the manager whose request has just been taken, if any.
LEMMA NextIds ==
  ASSUME XbarInv, Xbar, NEW s \in Subordinates
  PROVE  ids'[s] = IF Taken(s) THEN <<Idx(s)>> ELSE <<>>
<1> DEFINE rest  == IF serving[s].valid THEN Tail(ids[s]) ELSE ids[s]
           taken == IF Taken(s) THEN <<Idx(s)>> ELSE <<>>
<1>1. ids'[s] = rest \o taken
  BY DEF Xbar, Fifo
<1>2. rest = <<>>
  <2>1. CASE serving[s].valid
    <3>1. ids[s] = <<serving[s].mgr>>
      BY <2>1 DEF XbarInv, FifoInv
    <3>2. Tail(ids[s]) = <<>>
      BY <3>1, OneElement
    <3> QED
      BY <2>1, <3>2
  <2>2. CASE ~serving[s].valid
    BY <2>2 DEF XbarInv, FifoInv
  <2> QED
    BY <2>1, <2>2
<1>3. taken \in Seq(Managers)
  <2>1. Taken(s) => Idx(s) \in Managers
    BY TakenIsGranted
  <2> QED
    BY <2>1
<1>4. <<>> \o taken = taken
  <2> HIDE DEF taken
  <2> QED
    BY <1>3
<1> QED
  BY <1>1, <1>2, <1>4

\* A manager is owed the answer to the request just granted, if any.
LEMMA NextOwed ==
  ASSUME XbarInv, Xbar, NEW m \in Managers
  PROVE  owed'[m] = IF Granted(m) THEN <<Addr(m)>> ELSE <<>>
<1> DEFINE rest    == IF Rvalid(m) /\ owed[m] # <<>> THEN Tail(owed[m]) ELSE owed[m]
           granted == IF Granted(m) THEN <<Addr(m)>> ELSE <<>>
<1>1. owed'[m] = rest \o granted
  BY DEF Xbar, Owed
<1>2. rest = <<>>
  <2>1. CASE owed[m] = <<>>
    BY <2>1
  <2>2. CASE owed[m] = <<demux[m].select>>
    <3>1. owed[m] # <<>> /\ Tail(owed[m]) = <<>>
      BY <2>2, OneElement
    <3> QED
      BY <3>1, ResponsesAreDue
  <2> QED
    BY <2>1, <2>2 DEF XbarInv, OwedInv
<1>3. granted \in Seq(Subordinates)
  <2>1. Addr(m) \in Subordinates
    BY AddressesAre
  <2> QED
    BY <2>1
<1>4. <<>> \o granted = granted
  <2> HIDE DEF granted
  <2> QED
    BY <1>3
<1> QED
  BY <1>1, <1>2, <1>4

\* A demultiplexer has counted the request just granted, and no other.
LEMMA NextDemux ==
  ASSUME XbarInv, Xbar, NEW m \in Managers
  PROVE  /\ demux'[m] \in [select : Subordinates, count : 0 .. 3]
         /\ demux'[m].select = IF Granted(m) THEN Addr(m) ELSE demux[m].select
         /\ demux'[m].count = IF Granted(m) THEN 1 ELSE 0
<1>1. demux'[m] = Demux(m)
  BY DEF Xbar
<1>2. demux[m].count = IF Rvalid(m) THEN 1 ELSE 0
  <2>1. <<demux[m].select>> # <<>>
    BY OneElement
  <2> QED
    BY <2>1, ResponsesAreDue DEF XbarInv, OwedInv
<1>3. (1 + 3) % 4 = 0 /\ (0 + 1) % 4 = 1
  OBVIOUS
<1> DEFINE select == IF Granted(m) THEN Addr(m) ELSE demux[m].select
           count  == IF Granted(m) THEN 1 ELSE 0
<1>4. demux'[m] = [select |-> select, count |-> count]
  <2>1. Granted(m) \in BOOLEAN /\ Rvalid(m) \in BOOLEAN
    BY DEF Granted, Rvalid, RspTo
  <2>2. count = IF Granted(m) = Rvalid(m) THEN demux[m].count
                ELSE IF Rvalid(m) THEN (demux[m].count + 3) % 4
                ELSE (demux[m].count + 1) % 4
    BY <1>2, <1>3, <2>1
  <2> HIDE DEF count
  <2> QED
    BY <1>1, <2>2 DEF Demux
<1>5. select \in Subordinates /\ count \in 0 .. 3
  <2>1. Addr(m) \in Subordinates
    BY AddressesAre
  <2>2. demux[m].select \in Subordinates
    BY DEF XbarInv, TypeOK
  <2> QED
    BY <2>1, <2>2
<1> HIDE DEF select, count
<1>6. demux'[m].select = select /\ demux'[m].count = count
  BY <1>4
<1>7. demux'[m] \in [select : Subordinates, count : 0 .. 3]
  BY <1>4, <1>5
<1> QED
  BY <1>6, <1>7 DEF select, count

\* The arbiter keeps the requests it refuses.
LEMMA NextArb ==
  ASSUME XbarInv, Xbar, NEW s \in Subordinates
  PROVE  /\ arb'[s] \in [rr : Managers, lock : BOOLEAN, req : SUBSET Managers]
         /\ Taken(s) => arb'[s].rr = NextRr(s)
         /\ arb'[s].lock => Asks(s) /\ ~MuxGnt(s) /\ arb'[s].req = ReqD(s)
<1>1. ReqD(s) \subseteq Managers /\ arb[s].rr \in Managers
  BY Requests
<1>2. Asks(s) => NextRr(s) \in Managers
  BY <1>1, PriorityMovesOn
<1> DEFINE rr   == IF Taken(s) THEN NextRr(s) ELSE arb[s].rr
           lock == Asks(s) /\ ~MuxGnt(s)
           req  == IF lock THEN ReqD(s) ELSE {}
<1>3. rr \in Managers /\ lock \in BOOLEAN /\ req \in SUBSET Managers
  BY <1>1, <1>2 DEF Taken
<1>4. arb'[s] = [rr |-> rr, lock |-> lock, req |-> req]
  BY DEF Xbar, Arbiter
<1> HIDE DEF rr, lock, req
<1>5. /\ arb'[s] \in [rr : Managers, lock : BOOLEAN, req : SUBSET Managers]
      /\ arb'[s].rr = rr /\ arb'[s].lock = lock /\ arb'[s].req = req
  BY <1>3, <1>4
<1> QED
  BY <1>5 DEF rr, lock, req

-----------------------------------------------------------------------------
(* The parts of the invariant after a step.                                 *)

\* The fifos still hold what is being answered.
LEMMA FifoStep ==
  ASSUME XbarInv, Xbar
  PROVE  FifoInv'
<1> SUFFICES ASSUME NEW s \in Subordinates
             PROVE  ids'[s] = IF serving'[s].valid THEN <<serving'[s].mgr>> ELSE <<>>
  BY DEF FifoInv
<1> QED
  BY NextIds, NextServing

\* What is now answered is what has just been granted.
LEMMA ServingStep ==
  ASSUME XbarInv, Xbar
  PROVE  ServingInv'
<1> SUFFICES ASSUME NEW s \in Subordinates, serving'[s].valid
             PROVE  /\ serving'[s].asked
                    /\ demux'[serving'[s].mgr].select = s
                    /\ owed'[serving'[s].mgr] = <<s>>
  BY DEF ServingInv
<1>1. Taken(s) /\ serving'[s].mgr = Idx(s) /\ serving'[s].asked
  BY NextServing
<1>2. Idx(s) \in Managers /\ Granted(Idx(s)) /\ Addr(Idx(s)) = s
  BY <1>1, TakenIsGranted
<1>3. owed'[Idx(s)] = <<s>>
  BY <1>2, NextOwed
<1>4. demux'[Idx(s)].select = s
  BY <1>2, NextDemux
<1> QED
  BY <1>1, <1>3, <1>4

\* A manager is now owed the answer that it gets in this cycle.
LEMMA OwedStep ==
  ASSUME XbarInv, Xbar
  PROVE  OwedInv'
<1> SUFFICES ASSUME NEW m \in Managers
             PROVE  \/ owed'[m] = <<>> /\ demux'[m].count = 0
                    \/ /\ owed'[m] = <<demux'[m].select>> /\ demux'[m].count = 1
                       /\ serving'[demux'[m].select].valid
                       /\ serving'[demux'[m].select].mgr = m
  BY DEF OwedInv
<1>1. CASE Granted(m)
  <2>1. owed'[m] = <<Addr(m)>> /\ demux'[m].select = Addr(m) /\ demux'[m].count = 1
    BY <1>1, NextOwed, NextDemux
  <2>2. Addr(m) \in Subordinates /\ Taken(Addr(m)) /\ Idx(Addr(m)) = m
    BY <1>1, GrantedIsTaken
  <2>3. serving'[Addr(m)].valid /\ serving'[Addr(m)].mgr = m
    BY <2>2, NextServing
  <2> QED
    BY <2>1, <2>3
<1>2. CASE ~Granted(m)
  BY <1>2, NextOwed, NextDemux
<1> QED
  BY <1>1, <1>2

\* What the managers do: a request that is not granted is kept by a holding
\* manager, and crocdic_top asks for addresses of its own.
LEMMA ManagersStep ==
  ASSUME XbarInv, Next
  PROVE  /\ Xbar
         /\ want' \in [Holding -> [req : BOOLEAN, addr : Subordinates]]
         /\ \A m \in Holding : Req(m) /\ ~Gnt(m) => want'[m] = want[m]
         /\ user' \in [ phase : {"REST", "REQUEST", "WAIT"},
                        addr : Subordinates, gnt : BOOLEAN, rvalid : BOOLEAN ]
         /\ user'.phase = "REQUEST" => user'.addr \in Reach[USER]
         /\ Req(USER) => user'.addr = user.addr
<1>1. Xbar /\ HoldingManagers
  BY DEF Next, UserRests, UserBegins, UserRequests, UserWaits
<1>2. \A m \in Holding : /\ NextWants(m) \subseteq [req : BOOLEAN, addr : Subordinates]
                         /\ Req(m) /\ ~Gnt(m) => NextWants(m) = {want[m]}
  <2> SUFFICES ASSUME NEW m \in Holding
               PROVE  /\ NextWants(m) \subseteq [req : BOOLEAN, addr : Subordinates]
                      /\ Req(m) /\ ~Gnt(m) => NextWants(m) = {want[m]}
    OBVIOUS
  <2>1. Reach[m] \subseteq Subordinates /\ Address0 \in Subordinates
    BY XbarAssumption DEF Holding, Managers, DEBUG, DATA, INSTR, Address0
  <2>2. want[m] \in [req : BOOLEAN, addr : Subordinates]
    BY DEF XbarInv, TypeOK
  <2>3. CASE Req(m) /\ ~Gnt(m)
    <3>1. NextWants(m) = {want[m]}
      BY <2>3 DEF NextWants
    <3> QED
      BY <2>2, <3>1
  <2>4. CASE ~(Req(m) /\ ~Gnt(m))
    <3>1. NextWants(m) = {[req |-> FALSE, addr |-> Address0]}
                           \cup {[req |-> TRUE, addr |-> s] : s \in Reach[m]}
      BY <2>4 DEF NextWants
    <3>2. ASSUME NEW w \in NextWants(m)
          PROVE  w \in [req : BOOLEAN, addr : Subordinates]
      <4>1. PICK req \in BOOLEAN, addr \in Subordinates : w = [req |-> req, addr |-> addr]
        BY <2>1, <3>1
      <4> QED
        BY <4>1
    <3> QED
      BY <2>4, <3>2
  <2> QED
    BY <2>3, <2>4
<1>3. PICK debug \in NextWants(DEBUG), data \in NextWants(DATA), instr \in NextWants(INSTR) :
        want' = [m \in Holding |->
                  CASE m = DEBUG -> debug [] m = DATA -> data [] m = INSTR -> instr]
  BY <1>1 DEF HoldingManagers
<1> DEFINE wanted(m) == CASE m = DEBUG -> debug [] m = DATA -> data [] m = INSTR -> instr
<1>4. want' = [m \in Holding |-> wanted(m)] /\ \A m \in Holding : wanted(m) \in NextWants(m)
  BY <1>3 DEF Holding, DEBUG, DATA, INSTR
<1> HIDE DEF wanted
<1>5. want' \in [Holding -> [req : BOOLEAN, addr : Subordinates]]
  BY <1>2, <1>4
<1>6. \A m \in Holding : Req(m) /\ ~Gnt(m) => want'[m] = want[m]
  BY <1>2, <1>4
<1>7. Gnt(USER) \in BOOLEAN /\ Rvalid(USER) \in BOOLEAN
  BY DEF Gnt, Rvalid, RspTo
<1>8. Reach[USER] \subseteq Subordinates
  BY XbarAssumption DEF Managers, USER
<1>9. /\ user.phase \in {"REST", "REQUEST", "WAIT"} /\ user.addr \in Subordinates
      /\ user.phase = "REQUEST" => user.addr \in Reach[USER]
  BY DEF XbarInv, TypeOK, PatienceInv
<1>10. PICK phase \in {"REST", "REQUEST", "WAIT"}, addr \in Subordinates :
         /\ UserPort(phase, addr)
         /\ phase = "REQUEST" => addr \in Reach[USER]
         /\ user.phase = "REQUEST" => addr = user.addr
  <2>1. CASE UserRests
    BY <1>9, <2>1 DEF UserRests
  <2>2. CASE UserBegins
    BY <1>8, <2>2 DEF UserBegins
  <2>3. CASE UserRequests
    BY <1>9, <2>3 DEF UserRequests
  <2>4. CASE UserWaits
    BY <1>9, <2>4 DEF UserWaits
  <2> QED
    BY <2>1, <2>2, <2>3, <2>4 DEF Next
<1>11. /\ user' \in [ phase : {"REST", "REQUEST", "WAIT"},
                      addr : Subordinates, gnt : BOOLEAN, rvalid : BOOLEAN ]
       /\ user'.phase = phase /\ user'.addr = addr
  BY <1>7, <1>10 DEF UserPort
<1>12. Req(USER) => user.phase = "REQUEST"
  BY DEF Req
<1> QED
  BY <1>1, <1>5, <1>6, <1>10, <1>11, <1>12

\* Only the error subordinate locks its arbiter, and only on the requests of
\* managers that keep them up.
LEMMA LockStep ==
  ASSUME XbarInv, UserDecodes, Next
  PROVE  LockInv'
<1> SUFFICES ASSUME NEW s \in Subordinates, arb'[s].lock
             PROVE  /\ s = "ERROR" /\ arb'[s].req # {}
                    /\ \A m \in arb'[s].req : m # USER /\ Req(m)' /\ Addr(m)' = s
  BY DEF LockInv
<1>1. Xbar
  BY ManagersStep
<1>2. Asks(s) /\ ~MuxGnt(s) /\ arb'[s].req = ReqD(s)
  BY <1>1, NextArb
<1>3. s = "ERROR"
  BY <1>2, Requests DEF SbrGnt
<1>4. ASSUME NEW m \in ReqD(s)
      PROVE  m # USER /\ Req(m)' /\ Addr(m)' = s
  <2>1. m \in Managers /\ Req(m) /\ Addr(m) = s
    BY <1>4, Requests
  <2>2. m # USER
    <3> SUFFICES ASSUME m = USER PROVE FALSE
      OBVIOUS
    <3>1. user.phase = "REQUEST" /\ user.addr = s
      BY <2>1 DEF Req, Addr
    <3> QED
      BY <1>3, <3>1 DEF XbarInv, PatienceInv, UserDecodes
  <2>3. m \in Holding
    BY <2>1, <2>2 DEF Managers, Holding, USER, DEBUG, DATA, INSTR
  <2>4. ~Gnt(m)
    BY <1>2, <2>1 DEF Gnt
  <2>5. want'[m] = want[m]
    BY <2>1, <2>3, <2>4, ManagersStep
  <2> QED
    BY <2>1, <2>2, <2>5 DEF Req, Addr
<1> QED
  BY <1>2, <1>3, <1>4 DEF Asks

\* Each refusal brings crocdic_top nearer to the grant.
LEMMA PatienceStep ==
  ASSUME XbarInv, UserDecodes, Next
  PROVE  PatienceInv'
<1>1. user'.phase = "REQUEST" => user'.addr \in Reach[USER]
  BY ManagersStep
<1>2. Xbar
  BY ManagersStep
<1>3. CASE Req(USER) /\ ~Gnt(USER)
  <2> DEFINE s == user.addr
  <2>1. user.phase = "REQUEST" /\ Addr(USER) = s /\ s \in Reach[USER]
    BY <1>3 DEF Req, Addr, XbarInv, PatienceInv
  <2>2. USER \in Managers /\ s \in Subordinates /\ s # "ERROR"
    BY <2>1, XbarAssumption DEF Managers, USER, UserDecodes
  <2> HIDE DEF s
  <2>3. USER \in ReqD(s) /\ Asks(s)
    <3>1. USER \in ReqIn(s)
      BY <1>3, <2>1, <2>2, Requests
    <3> QED
      BY <2>2, <3>1, Requests DEF Asks
  <2>4. MuxGnt(s) /\ Taken(s)
    BY <2>2, <2>3, Requests DEF SbrGnt, Taken
  <2>5. Idx(s) # USER
    BY <1>3, <2>1, <2>2, <2>4, AllAllowed DEF Gnt
  <2>6. /\ ReqD(s) \subseteq Managers /\ arb[s].rr \in Managers
        /\ arb[s].rr # 0
    BY <2>2, <2>3, <2>5, Requests, TreeSelects
  <2>7. denied \in 0 .. MaxDenied /\ (denied > 0 => arb[s].rr = 0 \/ arb[s].rr > denied)
    BY <2>1 DEF XbarInv, PatienceInv, s
  <2>8. arb[s].rr > denied /\ arb[s].rr \in 0 .. 3
    BY <2>6, <2>7 DEF Managers, MaxDenied
  <2>9. denied' = denied + 1
    BY <1>2, <1>3 DEF Xbar
  <2>10. arb'[s].rr = NextRr(s)
    BY <1>2, <2>2, <2>4, NextArb
  <2>11. NextRr(s) \in Managers /\ (NextRr(s) = USER \/ NextRr(s) > arb[s].rr)
    BY <2>3, <2>6, PriorityMovesOn
  <2>12. arb'[s].rr = 0 \/ arb'[s].rr > denied'
    BY <2>7, <2>8, <2>9, <2>10, <2>11 DEF MaxDenied, Managers, USER
  <2>13. denied' \in 0 .. MaxDenied
    BY <2>7, <2>8, <2>9 DEF MaxDenied
  <2>14. user'.addr = s
    BY <1>3, ManagersStep DEF s
  <2> QED
    BY <1>1, <2>12, <2>13, <2>14 DEF PatienceInv
<1>4. CASE ~(Req(USER) /\ ~Gnt(USER))
  <2>1. denied' = 0
    BY <1>2, <1>4 DEF Xbar
  <2> QED
    BY <1>1, <2>1 DEF PatienceInv, MaxDenied
<1> QED
  BY <1>3, <1>4

\* Each register gets one of its values.
LEMMA TypeStep ==
  ASSUME XbarInv, UserDecodes, Next
  PROVE  TypeOK'
<1>1. Xbar
  BY ManagersStep
<1>2. demux' \in [Managers -> [select : Subordinates, count : 0 .. 3]]
  <2>1. demux' = [m \in Managers |-> demux'[m]]
    BY <1>1 DEF Xbar
  <2> QED
    BY <1>1, <2>1, NextDemux
<1>3. arb' \in [Subordinates -> [rr : Managers, lock : BOOLEAN, req : SUBSET Managers]]
  <2>1. arb' = [s \in Subordinates |-> arb'[s]]
    BY <1>1 DEF Xbar
  <2> QED
    BY <1>1, <2>1, NextArb
<1>4. ASSUME NEW s \in Subordinates
      PROVE  ids'[s] \in Seq(Managers) /\ Len(ids'[s]) <= NumMaxTrans /\ serving'[s] \in Access
  <2>1. serving'[s] \in Access
    BY <1>1, NextServing
  <2>2. CASE Taken(s)
    <3>1. ids'[s] = <<Idx(s)>> /\ Idx(s) \in Managers
      BY <1>1, <2>2, NextIds, TakenIsGranted
    <3>2. ids'[s] \in Seq(Managers) /\ Len(ids'[s]) = 1
      BY <3>1
    <3> QED
      BY <2>1, <3>2 DEF NumMaxTrans
  <2>3. CASE ~Taken(s)
    <3>1. ids'[s] = <<>>
      BY <1>1, <2>3, NextIds
    <3>2. ids'[s] \in Seq(Managers) /\ Len(ids'[s]) = 0
      BY <3>1
    <3> QED
      BY <2>1, <3>2 DEF NumMaxTrans
  <2> QED
    BY <2>2, <2>3
<1>5. ASSUME NEW m \in Managers
      PROVE  owed'[m] \in Seq(Subordinates)
  <2>1. Addr(m) \in Subordinates
    BY AddressesAre
  <2>2. CASE owed'[m] = <<>>
    BY <2>2
  <2>3. CASE owed'[m] = <<Addr(m)>>
    BY <2>1, <2>3
  <2> QED
    BY <1>1, <2>2, <2>3, NextOwed
<1>6. denied' \in Nat
  BY PatienceStep DEF PatienceInv, MaxDenied
<1> QED
  BY <1>2, <1>3, <1>4, <1>5, <1>6, ManagersStep DEF TypeOK

-----------------------------------------------------------------------------
(* The theorems.                                                            *)

\* The invariant holds after reset, when nothing is asked or owed.
LEMMA XbarInit == Init => XbarInv
<1> SUFFICES ASSUME Init PROVE XbarInv
  OBVIOUS
<1>1. /\ USER \in Managers /\ Address0 \in Subordinates /\ "ERROR" \in Subordinates
      /\ 0 \in Managers /\ 0 \in 0 .. 3
  BY XbarAssumption DEF USER, Managers, Address0
<1>2. TypeOK
  <2>1. user \in [ phase : {"REST", "REQUEST", "WAIT"},
                   addr : Subordinates, gnt : BOOLEAN, rvalid : BOOLEAN ]
    BY <1>1 DEF Init
  <2>2. want \in [Holding -> [req : BOOLEAN, addr : Subordinates]]
    BY <1>1 DEF Init
  <2>3. demux \in [Managers -> [select : Subordinates, count : 0 .. 3]]
    BY <1>1 DEF Init
  <2>4. arb \in [Subordinates -> [rr : Managers, lock : BOOLEAN, req : SUBSET Managers]]
    BY <1>1 DEF Init
  <2>5. ASSUME NEW s \in Subordinates
        PROVE  ids[s] \in Seq(Managers) /\ Len(ids[s]) <= NumMaxTrans /\ serving[s] \in Access
    <3>1. ids[s] = <<>> /\ serving[s] = [mgr |-> USER, asked |-> FALSE, valid |-> FALSE]
      BY DEF Init, Nothing
    <3>2. serving[s] \in Access
      BY <1>1, <3>1 DEF Access
    <3>3. ids[s] \in Seq(Managers) /\ Len(ids[s]) = 0
      BY <3>1
    <3> QED
      BY <3>2, <3>3 DEF NumMaxTrans
  <2>6. \A m \in Managers : owed[m] \in Seq(Subordinates)
    BY DEF Init
  <2>7. denied \in Nat
    BY DEF Init
  <2> QED
    BY <2>1, <2>2, <2>3, <2>4, <2>5, <2>6, <2>7 DEF TypeOK
<1>3. FifoInv /\ ServingInv /\ OwedInv /\ LockInv
  BY DEF Init, FifoInv, ServingInv, OwedInv, LockInv, Nothing
<1>4. PatienceInv
  BY DEF Init, PatienceInv, MaxDenied
<1> QED
  BY <1>2, <1>3, <1>4 DEF XbarInv

\* And in every later cycle.
LEMMA XbarStep ==
  ASSUME XbarInv, UserDecodes, [Next]_vars
  PROVE  XbarInv'
<1>1. CASE Next
  BY <1>1, ManagersStep, TypeStep, FifoStep, ServingStep, OwedStep, LockStep, PatienceStep
  DEF XbarInv
<1>2. CASE UNCHANGED vars
  BY <1>2 DEF vars, XbarInv, TypeOK, FifoInv, ServingInv, OwedInv, LockInv, PatienceInv, Req, Addr
<1> QED
  BY <1>1, <1>2

\* The invariant of the crossbar (obi_xbar.sv), from which all the rest follows.
THEOREM XbarInvariant ==
  ASSUME UserDecodes
  PROVE  Spec => []XbarInv
<1>1. Init => XbarInv
  BY XbarInit
<1>2. XbarInv /\ [Next]_vars => XbarInv'
  BY XbarStep
<1> QED
  BY <1>1, <1>2, PTL DEF Spec

\* Every register of crossbar and managers keeps to its values.
THEOREM XbarTypes ==
  ASSUME UserDecodes
  PROVE  Spec => []TypeOK
<1>1. XbarInv => TypeOK
  BY DEF XbarInv
<1> QED
  BY <1>1, XbarInvariant, PTL

\* No demultiplexer loses count of its outstanding requests, or ever refuses a
\* request for good (obi_demux.sv:51-57).
THEOREM DemuxesCount ==
  ASSUME UserDecodes
  PROVE  Spec => []CountsOutstanding
<1>1. XbarInv => CountsOutstanding
  <2> SUFFICES ASSUME XbarInv, NEW m \in Managers
               PROVE  demux[m].count = Len(owed[m]) /\ ~overflow(m)
    BY DEF CountsOutstanding
  <2>1. CASE owed[m] = <<>> /\ demux[m].count = 0
    BY <2>1 DEF overflow
  <2>2. CASE owed[m] = <<demux[m].select>> /\ demux[m].count = 1
    <3>1. Len(owed[m]) = 1
      BY <2>2, OneElement
    <3> QED
      BY <2>2, <3>1 DEF overflow
  <2> QED
    BY <2>1, <2>2 DEF XbarInv, OwedInv
<1> QED
  BY <1>1, XbarInvariant, PTL

\* Every response goes to the manager that made the request, whoever else asks
\* for what (obi_mux.sv:132-139, obi_demux.sv:67-69).
THEOREM AnswersArrive ==
  ASSUME UserDecodes
  PROVE  Spec => []AnswersReachTheirManagers
<1>1. XbarInv => AnswersReachTheirManagers
  <2> SUFFICES ASSUME XbarInv, NEW s \in Subordinates, serving[s].valid
               PROVE  /\ serving[s].asked
                      /\ RspTo(s, serving[s].mgr)
                      /\ demux[serving[s].mgr].select = s
                      /\ owed[serving[s].mgr] # <<>> /\ Head(owed[serving[s].mgr]) = s
    BY DEF AnswersReachTheirManagers
  <2>1. serving[s].asked /\ demux[serving[s].mgr].select = s /\ owed[serving[s].mgr] = <<s>>
    BY DEF XbarInv, ServingInv
  <2>2. ids[s] = <<serving[s].mgr>>
    BY DEF XbarInv, FifoInv
  <2>3. Head(ids[s]) = serving[s].mgr
    BY <2>2, OneElement
  <2>4. owed[serving[s].mgr] # <<>> /\ Head(owed[serving[s].mgr]) = s
    BY <2>1, OneElement
  <2> QED
    BY <2>1, <2>3, <2>4 DEF RspTo
<1> QED
  BY <1>1, XbarInvariant, PTL

\* What an arbiter has refused while locked is still asked for: the assumption
\* that rr_arb_tree.sv:173 makes of whatever drives it.  Only the error
\* subordinate refuses, so only its arbiter locks.
THEOREM RefusedStay ==
  ASSUME UserDecodes
  PROVE  Spec => []UnservedRequestsStay
<1>1. XbarInv => UnservedRequestsStay
  BY Requests DEF UnservedRequestsStay
<1> QED
  BY <1>1, XbarInvariant, PTL

\* What crocdic_top counts on, of the whole crossbar: no grant it has not asked
\* for, three refusals at most, and the response in the cycle after the grant.
THEOREM UserIsServed ==
  ASSUME UserDecodes
  PROVE  Spec => ServesUser
<1>1. USER \in Managers
  BY DEF USER, Managers
<1>2. ASSUME XbarInv, Gnt(USER)
      PROVE  Req(USER)
  <2> SUFFICES ASSUME ~Req(USER) PROVE FALSE
    OBVIOUS
  <2>1. Addr(USER) = Address0 /\ Address0 \in Subordinates /\ Address0 # "ERROR"
    BY XbarAssumption DEF Addr, Address0
  <2>2. Idx(Address0) = USER
    BY <1>2, <2>1 DEF Gnt
  <2>3. USER \notin ReqD(Address0)
    BY <1>2, <2>1, Requests
  <2> QED
    BY <1>2, <2>1, <2>2, <2>3, Requests, TreeSelects
<1>3. ASSUME XbarInv, Xbar
      PROVE  Rvalid(USER)' = Gnt(USER)
  <2> DEFINE s == demux'[USER].select
  <2>1. Rvalid(USER)' <=> serving'[s].valid /\ Head(ids'[s]) = USER
    BY DEF Rvalid, RspTo
  <2>2. s \in Subordinates
    BY <1>1, <1>3, NextDemux
  <2>3. serving'[s].valid <=> Taken(s)
    BY <1>3, <2>2, NextServing
  <2>4. Taken(s) => Head(ids'[s]) = Idx(s)
    <3>1. Taken(s) => ids'[s] = <<Idx(s)>>
      BY <1>3, <2>2, NextIds
    <3> QED
      BY <3>1, OneElement
  <2>5. Granted(USER) <=> Gnt(USER)
    BY <1>2, <1>3 DEF Granted
  <2>6. Granted(USER) => Taken(s) /\ Idx(s) = USER
    BY <1>1, <1>3, NextDemux, GrantedIsTaken
  <2>7. Taken(s) /\ Idx(s) = USER => Granted(USER)
    BY <1>3, <2>2, TakenIsGranted
  <2>8. Rvalid(USER)' \in BOOLEAN /\ Gnt(USER) \in BOOLEAN
    BY DEF Rvalid, RspTo, Gnt
  <2> HIDE DEF s
  <2> QED
    BY <2>1, <2>3, <2>4, <2>5, <2>6, <2>7, <2>8
<1>4. XbarInv /\ [Next]_vars =>
        [ /\ Gnt(USER) => Req(USER)
          /\ denied' <= MaxDenied
          /\ Rvalid(USER)' = Gnt(USER) ]_vars
  <2> SUFFICES ASSUME XbarInv, Next
               PROVE  /\ Gnt(USER) => Req(USER)
                      /\ denied' <= MaxDenied
                      /\ Rvalid(USER)' = Gnt(USER)
    OBVIOUS
  <2>1. denied' <= MaxDenied
    BY PatienceStep DEF PatienceInv, MaxDenied
  <2> QED
    BY <1>2, <1>3, <2>1, ManagersStep
<1> QED
  BY <1>4, XbarInvariant, PTL DEF Spec, ServesUser

=============================================================================

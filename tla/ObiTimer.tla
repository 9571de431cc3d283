------------------------------ MODULE ObiTimer -------------------------------
(***************************************************************************)
(* The OBI timer: a counter with a compare value, an automatic reset and   *)
(* two sticky status flags, the first of which is its interrupt.  One      *)
(* TimerCycle is one clock cycle with at most one register access.         *)
(***************************************************************************)
EXTENDS CrocPkg

CONSTANT CountMax   \* 2^32 - 1 in the design

ASSUME CountMaxAssumption == CountMax \in Nat \ {0}

VARIABLES count, compare, enable, autoreset, expired, overflow

timer == <<count, compare, enable, autoreset, expired, overflow>>

TimerInit ==
  /\ count = 0 /\ compare = 0
  /\ enable = FALSE /\ autoreset = FALSE
  /\ expired = FALSE /\ overflow = FALSE

\* Seeded defect: the compare value is never matched, only exceeded.
ExpiresLate == enable /\ compare # 0 /\ compare < count

Expires   == enable /\ compare # 0 /\ compare <= count
Overflows == enable /\ count = CountMax

TimerWrites(req, offset) == Writes(req, "TIMER", offset)
ClearsFlag(req, bit)     == TimerWrites(req, OBI_TIMER.STATUS) /\ bit \in req.wdata.bits

\* A software access wins over what the counter does in the same cycle, and a
\* cleared flag over the event that sets it.
TimerCycle(req) ==
  /\ count' = IF TimerWrites(req, OBI_TIMER.COUNT) THEN req.wdata.num
              ELSE IF TimerWrites(req, OBI_TIMER.COMPARE) \/ (Expires /\ autoreset) THEN 0
              ELSE IF enable THEN (count + 1) % (CountMax + 1)
              ELSE count
  /\ compare' = IF TimerWrites(req, OBI_TIMER.COMPARE) THEN req.wdata.num ELSE compare
  /\ enable' = IF TimerWrites(req, OBI_TIMER.CTRL)
               THEN CTRL_ENABLE_BIT \in req.wdata.bits ELSE enable
  /\ autoreset' = IF TimerWrites(req, OBI_TIMER.CTRL)
                  THEN CTRL_AUTORESET_BIT \in req.wdata.bits ELSE autoreset
  /\ expired'  = ((expired  \/ Expires)   /\ ~ClearsFlag(req, STATUS_EXPIRED_BIT))
  /\ overflow' = ((overflow \/ Overflows) /\ ~ClearsFlag(req, STATUS_OVERFLOW_BIT))

\* Read data, registered in the address phase.
TimerReadData(req) ==
  CASE req.offset = OBI_TIMER.COUNT   -> Num(count)
    [] req.offset = OBI_TIMER.COMPARE -> Num(compare)
    [] req.offset = OBI_TIMER.CTRL    ->
         Bits({b \in {CTRL_ENABLE_BIT, CTRL_AUTORESET_BIT} :
                 IF b = CTRL_ENABLE_BIT THEN enable ELSE autoreset})
    [] req.offset = OBI_TIMER.STATUS  ->
         Bits({b \in {STATUS_EXPIRED_BIT, STATUS_OVERFLOW_BIT} :
                 IF b = STATUS_EXPIRED_BIT THEN expired ELSE overflow})

-----------------------------------------------------------------------------

TimerTypeOK ==
  /\ count \in 0 .. CountMax /\ compare \in 0 .. CountMax
  /\ enable \in BOOLEAN /\ autoreset \in BOOLEAN
  /\ expired \in BOOLEAN /\ overflow \in BOOLEAN

=============================================================================

-------------------------------- MODULE Clint --------------------------------
(***************************************************************************)
(* The core-local interruptor: the 64-bit time, counted by a slow clock,   *)
(* the compare value software writes in two halves, and the software       *)
(* interrupt bit with which the debugger wakes the core.                   *)
(***************************************************************************)
EXTENDS CrocPkg

CONSTANT HalfMax   \* the largest half of the time, 2^32 - 1 in the design

ASSUME HalfMaxAssumption == HalfMax \in Nat \ {0}

VARIABLES mtime, mtimecmp, msip

clint == <<mtime, mtimecmp, msip>>

Low(v)          == v % (HalfMax + 1)
High(v)         == v \div (HalfMax + 1)
Joined(high, low) == high * (HalfMax + 1) + low
TimeMax         == Joined(HalfMax, HalfMax)

ClintInit == mtime = 0 /\ mtimecmp = 0 /\ msip = FALSE

timer_irq == mtime >= mtimecmp

ClintWrites(req, offset) == Writes(req, "CLINT", offset)

\* tick: a rising edge of the slow clock has passed the synchronizer.
ClintCycle(req, tick) ==
  /\ mtime' = IF tick THEN (mtime + 1) % (TimeMax + 1) ELSE mtime
  /\ mtimecmp' = IF ClintWrites(req, CLINT.MTIMECMP_LOW0)
                 THEN Joined(High(mtimecmp), req.wdata.num)
                 ELSE IF ClintWrites(req, CLINT.MTIMECMP_HIGH0)
                 THEN Joined(req.wdata.num, Low(mtimecmp))
                 ELSE mtimecmp
  /\ msip' = IF ClintWrites(req, CLINT.MSIP) THEN 0 \in req.wdata.bits ELSE msip

\* Read data, registered in the address phase.
ClintReadData(req) ==
  CASE req.offset = CLINT.MSIP           -> Bits(IF msip THEN {0} ELSE {})
    [] req.offset = CLINT.MTIMECMP_LOW0  -> Num(Low(mtimecmp))
    [] req.offset = CLINT.MTIMECMP_HIGH0 -> Num(High(mtimecmp))
    [] req.offset = CLINT.MTIME_LOW      -> Num(Low(mtime))
    [] req.offset = CLINT.MTIME_HIGH     -> Num(High(mtime))

-----------------------------------------------------------------------------

ClintTypeOK ==
  mtime \in 0 .. TimeMax /\ mtimecmp \in 0 .. TimeMax /\ msip \in BOOLEAN

=============================================================================

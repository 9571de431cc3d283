-------------------------- MODULE CrocdicRefinement --------------------------
(***************************************************************************)
(* CrocdicTop implements CrocdicJob for a driver that writes word-aligned  *)
(* addresses and never the largest register value as a length.             *)
(***************************************************************************)
EXTENDS CrocdicTop

ASSUME DriverAssumption ==
  \A r \in Requests :
    r.we => /\ r.reg \in {"SOURCE", "DESTINATION"} => r.wdata % 4 = 0
            /\ r.reg = "NR_OF_ELEMENTS" => r.wdata < AddrSpace - 1

PhaseBar ==
  CASE state = "IDLE" -> "idle"
    [] state = "DONE" -> "done"
    [] OTHER          -> "busy"

\* A chunk takes effect when its write is granted for the first time: the
\* latched grant tells that this has happened.
ChunkWritten ==
  \/ state = "WRITE_ELEMENTS" /\ mgr.gnt
  \/ state = "WAIT_WRITE_RESPONSE"

ProgressBar ==
  IF ~Busy THEN 0
  ELSE IF ChunkWritten THEN element_counter + Step
  ELSE element_counter

Job == INSTANCE CrocdicJob WITH phase <- PhaseBar, progress <- ProgressBar

\* Every clock cycle of the accelerator is one step of the promise or none,
\* duplicated, refused and retracted bus transfers and resets included, and
\* a started job makes progress.
ImplementsJob == Job!FairSpec

=============================================================================

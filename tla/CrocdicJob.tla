----------------------------- MODULE CrocdicJob ------------------------------
(***************************************************************************)
(* What CROCDIC promises to its driver, without clock, bus or engines: in  *)
(* IDLE the four parameters can be written and a job started; the job      *)
(* replaces the destination array chunk by chunk, two results at a time,   *)
(* each computed from the memory of that moment; then it waits until its   *)
(* completion has been read.                                               *)
(***************************************************************************)
EXTENDS CrocdicArrays

VARIABLES
  phase,      \* "idle", "busy" or "done"
  operation, source_array_address, number_of_elements,
  destination_array_address,
  mem,
  progress    \* elements consumed by the chunks written so far

params == <<operation, source_array_address, number_of_elements,
            destination_array_address>>
vars   == <<phase, params, mem, progress>>

Init ==
  /\ phase = "idle"
  /\ operation = SIN
  /\ source_array_address = 0
  /\ number_of_elements = 0
  /\ destination_array_address = 0
  /\ mem = InitMem
  /\ progress = 0

\* A register write sets one parameter.
SetParameter ==
  /\ phase = "idle"
  /\ \/ /\ operation' \in Operations
        /\ UNCHANGED <<source_array_address, number_of_elements,
                       destination_array_address>>
     \/ /\ source_array_address' \in WordRange
        /\ UNCHANGED <<operation, number_of_elements, destination_array_address>>
     \/ /\ number_of_elements' \in WordRange
        /\ UNCHANGED <<operation, source_array_address, destination_array_address>>
     \/ /\ destination_array_address' \in WordRange
        /\ UNCHANGED <<operation, source_array_address, number_of_elements>>
  /\ UNCHANGED <<phase, mem, progress>>

\* A job of no elements is done at once.
Start ==
  /\ phase = "idle"
  /\ phase' = IF number_of_elements > 0 THEN "busy" ELSE "done"
  /\ UNCHANGED <<params, mem, progress>>

Elements == IF operation = ATAN THEN 2 ELSE 1   \* consumed by a result

\* The two results of a chunk, or one at the end of an odd number.
Chunk ==
  LET now   == [op |-> operation, src |-> source_array_address, mem |-> mem]
      first == progress \div Elements
      both  == progress + Elements < number_of_elements
  IN  /\ phase = "busy"
      /\ progress < number_of_elements
      /\ mem' = [h \in Halfwords |->
                   IF h = At(destination_array_address, first)
                   THEN ResultOf(now, first)
                   ELSE IF both /\ h = At(destination_array_address, first + 1)
                   THEN ResultOf(now, first + 1)
                   ELSE mem[h]]
      /\ progress' = progress + 2 * Elements
      /\ UNCHANGED <<phase, params>>

Finish ==
  /\ phase = "busy"
  /\ progress >= number_of_elements
  /\ phase' = "done"
  /\ progress' = 0
  /\ UNCHANGED <<params, mem>>

Acknowledge ==
  /\ phase = "done"
  /\ phase' = "idle"
  /\ UNCHANGED <<params, mem, progress>>

\* A reset abandons the job; the chunks it has written stay.
Reset ==
  /\ phase' = "idle"
  /\ operation' = SIN
  /\ source_array_address' = 0
  /\ number_of_elements' = 0
  /\ destination_array_address' = 0
  /\ progress' = 0
  /\ UNCHANGED mem

Next == SetParameter \/ Start \/ Chunk \/ Finish \/ Acknowledge \/ Reset

Spec == Init /\ [][Next]_vars

\* A job that was started makes progress.
FairSpec == Spec /\ WF_vars(Chunk) /\ WF_vars(Finish)

=============================================================================

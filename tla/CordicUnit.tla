----------------------------- MODULE CordicUnit ------------------------------
(***************************************************************************)
(* One CORDIC engine (crocdic_cordic.sv) as the top level sees it: the     *)
(* three-state control with its iteration counter, and the operands it     *)
(* latched.  The arithmetic is a parameter (Result of CrocdicArrays).       *)
(*                                                                         *)
(* The engine reads the operation again in every cycle, so a result is     *)
(* defined only if the operation has not changed since the operands were   *)
(* latched; Output returns NoData otherwise.                               *)
(***************************************************************************)
EXTENDS CrocdicArrays

CONSTANT ITER   \* iterations in the circular and linear modes (14 in the RTL)

ASSUME IterAssumption == ITER \in Nat \ {0}

CordicStates == { "IDLE", "CALCULATE", "DONE" }

CordicReset ==
  [state |-> "IDLE", count |-> 0, op |-> SIN, in0 |-> Zero, in1 |-> Zero]

\* SQRT runs in hyperbolic mode, which repeats steps and needs one more.
Kfinal(op) == IF op = SQRT THEN ITER + 1 ELSE ITER

\* The idle engine loads its operands in every cycle; the enable starts it.
CordicLoad(en, op, x, y) ==
  [ state |-> IF en THEN "CALCULATE" ELSE "IDLE",
    count |-> 0, op |-> op, in0 |-> x, in1 |-> y ]

CordicIterate(c, op) ==
  IF c.count = Kfinal(op) - 1
  THEN [c EXCEPT !.state = "DONE"]
  ELSE [c EXCEPT !.count = @ + 1]

\* The registers of engine c after a clock edge.
CordicNext(c, en, op, x, y) ==
  CASE c.state = "IDLE"      -> CordicLoad(en, op, x, y)
    [] c.state = "CALCULATE" -> CordicIterate(c, op)
    [] OTHER                 -> [c EXCEPT !.state = "IDLE"]

\* cordic_done_o and output_element_o
CordicDone(c) == c.state = "DONE"

Output(c, op) ==
  IF c.op = op THEN Result(op, c.in0, c.in1) ELSE NoData

CordicType ==
  [ state : CordicStates, count : 0 .. ITER, op : Operations,
    in0 : Data, in1 : Data ]

=============================================================================

--------------------------- MODULE MCCrocdicCordic ---------------------------
(***************************************************************************)
(* The arguments the engine is checked with: the arrays of the programs    *)
(* cordic_{sin,cos,atan,sqrt,reciprocal}.c, a grid over the whole range of *)
(* a halfword, and the values around every boundary.                       *)
(***************************************************************************)
EXTENDS CrocdicCordic

ASSUME RootsFit == RootsNotNegative
ASSUME CProgramsAccurate == SoftwareAccurate

CONSTANT Grid   \* distance of the grid's points

SineArray       == {(k * 514718) \div 1000 : k \in 0 .. 49}
RootArray       == {100 * k : k \in 1 .. 70}
ReciprocalArray == {32000 - 250 * k : k \in 0 .. 95}
AtanArray       == {1000 * k : k \in 0 .. 7}

Edges ==
  UNION {{Wrap16(v + i) : i \in -1 .. 1} :
           v \in {0, 2^15, 25735, -25735, 4096, -4096, 2^15 - 4096, 2^13, 500}}
Points == {v \in Words : v % Grid = 0} \cup Edges

Values(op) ==
  Points \cup CASE op \in {SIN, COS}  -> SineArray
                [] op = SQRT         -> RootArray
                [] op = RECIPROCAL   -> ReciprocalArray
                [] OTHER             -> {}

UnaryInputs ==
  UNION {{[op |-> op, in0 |-> v, in1 |-> 0] : v \in Values(op)} :
           op \in Operations \ {ATAN}}

AtanInputs ==
  {[op |-> ATAN, in0 |-> a, in1 |-> b] :
     a, b \in AtanArray \cup {Wrap16(-1000), 2^15 - 1, 2^15}}

MCInputs == UnaryInputs \cup AtanInputs

=============================================================================

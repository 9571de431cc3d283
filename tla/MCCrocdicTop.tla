---------------------------- MODULE MCCrocdicTop -----------------------------
(***************************************************************************)
(* Finite instances of CrocdicTop: an arithmetic modulo a small prime that *)
(* gives every operand and operation another result, and the requests.     *)
(***************************************************************************)
EXTENDS CrocdicTop

CONSTANTS
  Prime,          \* number of values of a halfword
  OperationWrites, AddressWrites, NumberWrites  \* words written to registers

MCData         == 0 .. Prime - 1
MCUnary(op, x) == (3 * x + 7 * op + 11) % Prime
MCAtan(x, y)   == (5 * x + 13 * y + 29) % Prime
MCInitMem      == [h \in Halfwords |-> (h + 1) % Prime]

ReadOf(reg)     == [valid |-> TRUE, we |-> FALSE, reg |-> reg, wdata |-> 0]
WriteOf(reg, v) == [valid |-> TRUE, we |-> TRUE, reg |-> reg, wdata |-> v]

MCRequests ==
  {ReadOf(reg) : reg \in {"STUDENT_NAMES", "OPERATION", "DONE"}}
    \cup {WriteOf(reg, 0) : reg \in {"START", "DONE"}}
    \cup {WriteOf("OPERATION", v) : v \in OperationWrites}
    \cup {WriteOf("SOURCE", v) : v \in AddressWrites}
    \cup {WriteOf("DESTINATION", v) : v \in AddressWrites}
    \cup {WriteOf("NR_OF_ELEMENTS", v) : v \in NumberWrites}

=============================================================================

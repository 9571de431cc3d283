------------------------------ MODULE MCObiXbar -------------------------------
(* An instance of the main crossbar: one bank, where all four managers meet,  *)
(* stands for both; a peripheral decodes address 0.                           *)
EXTENDS ObiXbar, TLC

\* The core goes astray and reaches the error subordinate; crocdic_top does not.
MCReach ==
  (USER :> {"BANK"}) @@ (DEBUG :> {"BANK"})
    @@ (DATA :> {"BANK", "ERROR"}) @@ (INSTR :> {"BANK", "ERROR"})

=============================================================================

------------------------------- MODULE UserPkg -------------------------------
(***************************************************************************)
(* Names shared by the CROCDIC modules: the operation codes of             *)
(* user_pkg.sv and the memory-mapped registers of crocdic_top.sv.          *)
(***************************************************************************)
EXTENDS Integers

\* operation_t, a three-bit enum; 6 and 7 have no name but can be written.
SIN          == 0
COS          == 1
ATAN         == 2
SQRT         == 3
RECIPROCAL   == 4
INVERSE_SQRT == 5

Operations == 0 .. 7

\* The addresses crocdic_top decodes, one name for each address or range.
\* "OTHER" is every address of the user domain that it does not decode.
Registers ==
  { "STUDENT_NAMES", "START", "OPERATION", "SOURCE", "NR_OF_ELEMENTS",
    "DESTINATION", "DONE", "OTHER" }

Parameters == { "OPERATION", "SOURCE", "NR_OF_ELEMENTS", "DESTINATION" }

=============================================================================

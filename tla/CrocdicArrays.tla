---------------------------- MODULE CrocdicArrays ----------------------------
(***************************************************************************)
(* The memory a CROCDIC job works on, seen as arrays of sixteen-bit        *)
(* values, and what a job computes: the vocabulary that the accelerator    *)
(* (CrocdicTop) and its abstract specification (CrocdicJob) share.         *)
(***************************************************************************)
EXTENDS UserPkg

CONSTANTS
  Data,         \* the sixteen-bit values
  Zero,         \* the value 0
  NoData,       \* an undefined value
  Unary(_, _),  \* Unary(op, x): SIN, COS, SQRT or RECIPROCAL of x
  Atan(_, _),   \* Atan(x, y): arctangent of y over x
  NumWords,     \* 32-bit words of the address space
  InitMem       \* contents of the memory at power-up, one value a halfword

AddrSpace == 4 * NumWords          \* 2^32 in the RTL
WordRange == 0 .. AddrSpace - 1    \* the values of a 32-bit register
Halfwords == 0 .. 2 * NumWords - 1

ASSUME ArraysAssumption ==
  /\ Zero \in Data
  /\ NoData \notin Data
  /\ \A op \in {SIN, COS, SQRT, RECIPROCAL}, x \in Data : Unary(op, x) \in Data
  /\ \A x, y \in Data : Atan(x, y) \in Data
  /\ NumWords \in Nat \ {0}
  /\ InitMem \in [Halfwords -> Data]

\* The value an engine delivers.  INVERSE_SQRT and the unnamed codes have
\* no output.
Result(op, x, y) ==
  CASE op = ATAN                           -> Atan(x, y)
    [] op \in {SIN, COS, SQRT, RECIPROCAL} -> Unary(op, x)
    [] OTHER                               -> Zero

Wrap(x) == x % AddrSpace

\* The halfword at index k of a C array of shorts at address base.
At(base, k) == Wrap(base + 2 * k) \div 2

-----------------------------------------------------------------------------
(* A job is a record of the four parameters and the memory it reads.       *)

\* Results the job leaves and the source halfwords result k comes from.  An
\* odd ATAN array is completed by the halfword that follows it.
NumResults(j) == IF j.op = ATAN THEN (j.n + 1) \div 2 ELSE j.n

Operands(j, k) ==
  IF j.op = ATAN THEN {At(j.src, 2 * k), At(j.src, 2 * k + 1)} ELSE {At(j.src, k)}

ResultOf(j, k) ==
  IF j.op = ATAN
  THEN Result(j.op, j.mem[At(j.src, 2 * k)], j.mem[At(j.src, 2 * k + 1)])
  ELSE Result(j.op, j.mem[At(j.src, k)], Zero)

Destination(j) == {At(j.dst, k) : k \in 0 .. NumResults(j) - 1}

\* What CROCDIC expects of its driver: word-aligned arrays that fit in the
\* address space, and no result of an earlier chunk (two results) over an
\* operand of a later one.  In place, or results below operands, is fine.
Aligned(j) == j.src % 4 = 0 /\ j.dst % 4 = 0

Fits(j) == j.src + 2 * j.n <= AddrSpace /\ j.dst + 2 * NumResults(j) <= AddrSpace

OverlapSafe(j) ==
  \A i, k \in 0 .. NumResults(j) - 1 :
    i \div 2 < k \div 2 => At(j.dst, i) \notin Operands(j, k)

WellFormed(j) == Aligned(j) /\ Fits(j) /\ OverlapSafe(j)

=============================================================================

------------------------ MODULE CordicReferenceProofs ------------------------
(***************************************************************************)
(* The software CORDIC is well defined: its loop, a recursive function,    *)
(* exists, runs turn by turn, and never leaves the shorts.  Existence is   *)
(* an induction, which is carried out on sets of numbers: the least number *)
(* outside a set closed under + 1 (WFMin) would have a predecessor in it.  *)
(***************************************************************************)
EXTENDS CordicReference, Integers, WellFoundedInduction, TLAPS

\* The order of the natural numbers, as a set of pairs.
LEMMA NatOrder ==
  IsWellFoundedOn({ss \in Nat \X Nat : ss[1] < ss[2]}, Nat)
BY NatLessThanWellFounded DEF OpToRel

\* Every nonempty set of natural numbers has a least member.
LEMMA LeastMember ==
  ASSUME NEW T \in SUBSET Nat, T # {}
  PROVE  \E n \in T : \A m \in T : n <= m
<1> DEFINE R == {ss \in Nat \X Nat : ss[1] < ss[2]}
<1>1. IsWellFoundedOn(R, Nat)
  BY NatOrder
<1> HIDE DEF R
<1>2. PICK n \in T : \A m \in T : <<m, n>> \notin R
  BY <1>1, WFMin
<1>3. \A m \in T : ~(m < n)
  BY <1>2 DEF R
<1> QED
  BY <1>3

\* Induction: a set that holds 0, and n + 1 with every n, holds every number.
LEMMA SetInduction ==
  ASSUME NEW S, 0 \in S, \A n \in Nat : n \in S => n + 1 \in S
  PROVE  Nat \subseteq S
<1> SUFFICES ASSUME Nat \ S # {}
             PROVE  FALSE
  OBVIOUS
<1>1. PICK n \in Nat \ S : \A m \in Nat \ S : n <= m
  BY LeastMember
<1>2. n # 0 /\ n - 1 \in Nat
  BY <1>1
<1>3. n - 1 \in S
  BY <1>1, <1>2
<1> QED
  BY <1>1, <1>2, <1>3

\* f holds the states of a loop of N turns that begins with start, and turn k
\* of which takes the state to F[k] of it.
Iterates(f, N, start, F) ==
  f = [k \in 0 .. N |-> IF k = 0 THEN start ELSE F[k][f[k - 1]]]

\* Every loop has a function of its states.
LEMMA LoopExists ==
  ASSUME NEW N \in Nat, NEW R, NEW start \in R, NEW F \in [1 .. N -> [R -> R]]
  PROVE  \E f : Iterates(f, N, start, F)
<1> DEFINE Upto(n, f) ==
             f = [k \in 0 .. n |-> IF k = 0 THEN start ELSE F[k][f[k - 1]]]
           S == {n \in Nat : n <= N => \E f \in [0 .. n -> R] : Upto(n, f)}
<1>1. 0 \in S
  <2> DEFINE f == [k \in 0 .. 0 |-> start]
  <2>1. f \in [0 .. 0 -> R] /\ Upto(0, f)
    OBVIOUS
  <2> QED
    BY <2>1
<1>2. ASSUME NEW n \in Nat, n \in S
      PROVE  n + 1 \in S
  <2>1. SUFFICES ASSUME n + 1 <= N
                 PROVE  \E g \in [0 .. n + 1 -> R] : Upto(n + 1, g)
    OBVIOUS
  <2>2. PICK f \in [0 .. n -> R] : Upto(n, f)
    BY <1>2, <2>1
  <2> DEFINE g == [k \in 0 .. n + 1 |->
                     IF k <= n THEN f[k] ELSE F[n + 1][f[n]]]
  <2>3. F[n + 1][f[n]] \in R
    BY <2>1, <2>2
  <2>4. g \in [0 .. n + 1 -> R]
    BY <2>2, <2>3
  <2>5. ASSUME NEW k \in 0 .. n + 1
        PROVE  g[k] = IF k = 0 THEN start ELSE F[k][g[k - 1]]
    <3>1. CASE k = 0
      BY <2>2, <3>1
    <3>2. CASE k \in 1 .. n
      <4>1. f[k] = F[k][f[k - 1]]
        BY <2>2, <3>2
      <4> QED
        BY <3>2, <4>1
    <3>3. CASE k = n + 1
      BY <3>3
    <3> QED
      BY <3>1, <3>2, <3>3
  <2> QED
    BY <2>4, <2>5
<1>3. N \in S
  <2> HIDE DEF S
  <2> QED
    BY <1>1, <1>2, SetInduction
<1> QED
  BY <1>3 DEF Iterates

-----------------------------------------------------------------------------
(* The loop of cordic().                                                    *)

Modes     == {"CIRCULAR", "LINEAR", "HYPERBOLIC"}
LoopState == [x : Shorts, y : Shorts, z : Shorts]

\* The shorts, in decimals.
LEMMA ShortsAre ==
  /\ 2^15 = 32768 /\ 2^16 = 65536
  /\ \A v : v \in Shorts <=> v \in Int /\ -32768 <= v /\ v <= 32767
<1>1. 2^15 = 32768 /\ 2^16 = 65536
  OBVIOUS
<1>2. \A v : v \in Shorts <=> v \in Int /\ -32768 <= v /\ v <= 32767
  BY <1>1 DEF Shorts
<1> QED
  BY <1>1, <1>2

\* Every int is cut to a short.
LEMMA ShortInRange == \A v \in Int : Short(v) \in Shorts
  BY ShortsAre DEF Short

\* A short stays as it is.
LEMMA ShortOfShort == \A v \in Shorts : Short(v) = v
  BY ShortsAre DEF Short

\* A loop has fourteen turns, or fifteen in the hyperbolic mode.
LEMMA TurnsAre ==
  ASSUME NEW mode \in Modes
  PROVE  turns(mode) = IF mode = "HYPERBOLIC" THEN 15 ELSE 14
BY DEF turns, CORDIC_NTAB

\* An arithmetic shift by up to thirteen places is a division.
LEMMA ShiftIsInt ==
  ASSUME NEW v \in Int, NEW k \in 0 .. 13
  PROVE  v \div 2^k \in Int
<1>1. 2^k \in Int /\ 2^k > 0
  <2>1. CASE k = 0
    BY <2>1
  <2>2. CASE k = 1
    BY <2>2
  <2>3. CASE k = 2
    BY <2>3
  <2>4. CASE k = 3
    BY <2>4
  <2>5. CASE k = 4
    BY <2>5
  <2>6. CASE k = 5
    BY <2>6
  <2>7. CASE k = 6
    BY <2>7
  <2>8. CASE k = 7
    BY <2>8
  <2>9. CASE k = 8
    BY <2>9
  <2>10. CASE k = 9
    BY <2>10
  <2>11. CASE k = 10
    BY <2>11
  <2>12. CASE k = 11
    BY <2>12
  <2>13. CASE k = 12
    BY <2>13
  <2>14. CASE k = 13
    BY <2>14
  <2> QED
    BY <2>1, <2>2, <2>3, <2>4, <2>5, <2>6, <2>7,
       <2>8, <2>9, <2>10, <2>11, <2>12, <2>13, <2>14
<1> QED
  BY <1>1

\* A turn keeps the registers shorts; its tables have an entry for it.
LEMMA RotationType ==
  ASSUME NEW direction, NEW mode \in Modes, NEW k \in 1 .. turns(mode),
         NEW r \in LoopState
  PROVE  rotation(direction, mode, k, r) \in LoopState
<1> DEFINE kk == IF mode = "HYPERBOLIC" THEN cordic_hyp_steps[k] ELSE k - 1
           sign == IF (direction = "ROTATION" /\ r.z >= 0)
                      \/ (direction = "VECTORING" /\ r.y < 0)
                   THEN 1 ELSE -1
           ybyk == CASE mode = "CIRCULAR"   -> r.y \div 2^kk
                     [] mode = "LINEAR"     -> 0
                     [] mode = "HYPERBOLIC" -> -(r.y \div 2^kk)
           xbyk == r.x \div 2^kk
           tabval == cordic_tab[mode][kk + 1]
<1>1. kk \in 0 .. 13
  <2>1. CASE mode = "HYPERBOLIC"
    <3>1. k \in 1 .. 15
      BY <2>1, TurnsAre
    <3> QED
      BY <2>1, <3>1 DEF cordic_hyp_steps
  <2>2. CASE mode # "HYPERBOLIC"
    BY <2>2, TurnsAre
  <2> QED
    BY <2>1, <2>2
<1>2. tabval \in Int
  <2>1. CASE mode = "CIRCULAR"
    BY <1>1, <2>1 DEF cordic_tab
  <2>2. CASE mode = "LINEAR"
    BY <1>1, <2>2 DEF cordic_tab
  <2>3. CASE mode = "HYPERBOLIC"
    BY <1>1, <2>3 DEF cordic_tab
  <2> QED
    BY <2>1, <2>2, <2>3 DEF Modes
<1>3. r.x \in Int /\ r.y \in Int /\ r.z \in Int
  BY ShortsAre DEF LoopState
<1> HIDE DEF kk
<1>4. xbyk \in Int /\ r.y \div 2^kk \in Int
  BY <1>1, <1>3, ShiftIsInt
<1>5. ybyk \in Int
  <2>1. -(r.y \div 2^kk) \in Int
    BY <1>4
  <2> QED
    BY <1>4, <2>1 DEF Modes
<1>6. sign \in {1, -1}
  OBVIOUS
<1>7. rotation(direction, mode, k, r) =
        [ x |-> Short(r.x - sign * ybyk),
          y |-> Short(r.y + sign * xbyk),
          z |-> Short(r.z - sign * tabval) ]
  BY DEF rotation, kk
<1> HIDE DEF sign, ybyk, xbyk, tabval
<1>8. /\ r.x - sign * ybyk \in Int /\ r.y + sign * xbyk \in Int
      /\ r.z - sign * tabval \in Int
  BY <1>2, <1>3, <1>4, <1>5, <1>6
<1> QED
  BY <1>7, <1>8, ShortInRange DEF LoopState

\* f holds the registers of the loop, turn by turn.
IsLoop(f, direction, mode, xin, yin, zin) ==
  f = [k \in 0 .. turns(mode) |->
         IF k = 0 THEN [x |-> xin, y |-> yin, z |-> zin]
         ELSE rotation(direction, mode, k, f[k - 1])]

\* The function of the loop exists, and so satisfies its equation.
LEMMA LoopEquation ==
  ASSUME NEW direction, NEW mode \in Modes,
         NEW xin \in Shorts, NEW yin \in Shorts, NEW zin \in Shorts
  PROVE  IsLoop(rotations(direction, mode, xin, yin, zin),
                direction, mode, xin, yin, zin)
<1> DEFINE N == turns(mode)
           start == [x |-> xin, y |-> yin, z |-> zin]
           F == [k \in 1 .. N |-> [r \in LoopState |->
                   rotation(direction, mode, k, r)]]
           after == rotations(direction, mode, xin, yin, zin)
           LoopOf(f) == f = [k \in 0 .. N |-> IF k = 0 THEN start
                               ELSE rotation(direction, mode, k, f[k - 1])]
<1>1. N \in Nat
  BY TurnsAre
<1>2. start \in LoopState
  BY DEF LoopState
<1>3. F \in [1 .. N -> [LoopState -> LoopState]]
  BY RotationType
<1>4. \E f : LoopOf(f)
  <2> HIDE DEF N, start, F
  <2>1. PICK f : f = [k \in 0 .. N |-> IF k = 0 THEN start ELSE F[k][f[k - 1]]]
    BY <1>1, <1>2, <1>3, LoopExists DEF Iterates
  <2> DEFINE T == {n \in Nat : n <= N => f[n] \in LoopState}
  <2>2. 0 \in T
    BY <1>1, <1>2, <2>1
  <2>3. ASSUME NEW n \in Nat, n \in T
        PROVE  n + 1 \in T
    <3>1. SUFFICES ASSUME n + 1 <= N
                   PROVE  f[n + 1] \in LoopState
      OBVIOUS
    <3>2. f[n + 1] = F[n + 1][f[n]]
      BY <1>1, <2>1, <3>1
    <3>3. f[n] \in LoopState
      BY <1>1, <2>3, <3>1
    <3> QED
      BY <1>1, <1>3, <3>1, <3>2, <3>3
  <2>4. Nat \subseteq T
    <3> HIDE DEF T
    <3> QED
      BY <2>2, <2>3, SetInduction
  <2>5. ASSUME NEW k \in 0 .. N, k # 0
        PROVE  F[k][f[k - 1]] = rotation(direction, mode, k, f[k - 1])
    <3>1. f[k - 1] \in LoopState
      BY <1>1, <2>4, <2>5
    <3> QED
      BY <1>1, <2>5, <3>1 DEF F
  <2>6. LoopOf(f)
    BY <2>1, <2>5
  <2> QED
    BY <2>6
<1>5. LoopOf(after)
  <2>1. after = CHOOSE f : LoopOf(f)
    BY DEF rotations
  <2> HIDE DEF after, LoopOf
  <2> QED
    BY <1>4, <2>1
<1> QED
  BY <1>5 DEF IsLoop

\* Every turn of the loop leaves shorts.
LEMMA LoopStates ==
  ASSUME NEW direction, NEW mode \in Modes,
         NEW xin \in Shorts, NEW yin \in Shorts, NEW zin \in Shorts
  PROVE  rotations(direction, mode, xin, yin, zin)
           \in [0 .. turns(mode) -> LoopState]
<1> DEFINE N == turns(mode)
           start == [x |-> xin, y |-> yin, z |-> zin]
           after == rotations(direction, mode, xin, yin, zin)
           S == {n \in Nat : n <= N => after[n] \in LoopState}
<1>1. N \in Nat
  BY TurnsAre
<1>2. start \in LoopState
  BY DEF LoopState
<1>3. after = [k \in 0 .. N |-> IF k = 0 THEN start
                 ELSE rotation(direction, mode, k, after[k - 1])]
  BY LoopEquation DEF IsLoop
<1>4. 0 \in S
  BY <1>1, <1>2, <1>3
<1>5. ASSUME NEW n \in Nat, n \in S
      PROVE  n + 1 \in S
  <2>1. SUFFICES ASSUME n + 1 <= N
                 PROVE  after[n + 1] \in LoopState
    OBVIOUS
  <2>2. n + 1 \in 1 .. N /\ after[n] \in LoopState
    BY <1>1, <1>5, <2>1
  <2>3. after[n + 1] = rotation(direction, mode, n + 1, after[n])
    BY <1>1, <1>3, <2>1
  <2> QED
    BY <2>2, <2>3, RotationType
<1>6. Nat \subseteq S
  <2> HIDE DEF S
  <2> QED
    BY <1>4, <1>5, SetInduction
<1>7. \A k \in 0 .. N : after[k] \in LoopState
  BY <1>1, <1>6
<1>8. after = [k \in 0 .. N |-> after[k]]
  BY <1>3
<1> QED
  BY <1>7, <1>8 DEF after

\* cordic() terminates with registers for every turn of its loop: it starts
\* from its arguments, every turn rotates what the turn before left, and no
\* register ever leaves the shorts.
THEOREM LoopRuns ==
  ASSUME NEW direction, NEW mode \in Modes,
         NEW xin \in Shorts, NEW yin \in Shorts, NEW zin \in Shorts
  PROVE  LET after == rotations(direction, mode, xin, yin, zin)
         IN  /\ after \in [0 .. turns(mode) -> LoopState]
             /\ after[0] = [x |-> xin, y |-> yin, z |-> zin]
             /\ \A k \in 1 .. turns(mode) :
                  after[k] = rotation(direction, mode, k, after[k - 1])
<1> DEFINE after == rotations(direction, mode, xin, yin, zin)
<1>1. after = [k \in 0 .. turns(mode) |->
                 IF k = 0 THEN [x |-> xin, y |-> yin, z |-> zin]
                 ELSE rotation(direction, mode, k, after[k - 1])]
  BY LoopEquation DEF IsLoop
<1>2. after \in [0 .. turns(mode) -> LoopState]
  BY LoopStates
<1>3. turns(mode) \in Nat
  BY TurnsAre
<1> HIDE DEF after
<1> QED
  BY <1>1, <1>2, <1>3 DEF after

\* The registers cordic() returns are shorts.
LEMMA CordicReturnsShorts ==
  ASSUME NEW direction, NEW mode \in Modes,
         NEW xin \in Shorts, NEW yin \in Shorts, NEW zin \in Shorts
  PROVE  cordic(direction, mode, xin, yin, zin) \in LoopState
<1>1. turns(mode) \in 0 .. turns(mode)
  BY TurnsAre
<1>2. rotations(direction, mode, xin, yin, zin)
        \in [0 .. turns(mode) -> LoopState]
  BY LoopRuns
<1> QED
  BY <1>1, <1>2 DEF cordic

\* No two operations have the same code.
LEMMA CodesDiffer ==
  /\ SIN # COS /\ SIN # ATAN /\ SIN # SQRT /\ SIN # RECIPROCAL
  /\ COS # ATAN /\ COS # SQRT /\ COS # RECIPROCAL
  /\ ATAN # SQRT /\ ATAN # RECIPROCAL /\ SQRT # RECIPROCAL
BY DEF SIN, COS, ATAN, SQRT, RECIPROCAL

\* The result of each operation, by the registers cordic() returns.
LEMMA SoftwareResultIs ==
  ASSUME NEW x, NEW y
  PROVE  /\ SoftwareResult(SIN, x, y) =
              cordic("ROTATION", "CIRCULAR", cordic_1K, 0, x).y
         /\ SoftwareResult(COS, x, y) =
              cordic("ROTATION", "CIRCULAR", cordic_1K, 0, x).x
         /\ SoftwareResult(ATAN, x, y) =
              cordic("VECTORING", "CIRCULAR", x, y, 0).z
         /\ SoftwareResult(SQRT, x, y) =
              Short(Quotient(cordic_1Kp *
                cordic("VECTORING", "HYPERBOLIC",
                       Short(x + 4096), Short(x - 4096), 0).x, MUL))
         /\ SoftwareResult(RECIPROCAL, x, y) =
              cordic("VECTORING", "LINEAR", x, MUL, 0).z
BY CodesDiffer, SMT DEF SoftwareResult

\* What a program of sw/ stores is a short, for every element of its array
\* and every operation the software implements.
THEOREM ResultsAreShorts ==
  ASSUME NEW op \in {SIN, COS, ATAN, SQRT, RECIPROCAL},
         NEW x \in Shorts, NEW y \in Shorts
  PROVE  SoftwareResult(op, x, y) \in Shorts
<1> DEFINE root == cordic("VECTORING", "HYPERBOLIC",
                          Short(x + 4096), Short(x - 4096), 0)
<1>1. 0 \in Shorts /\ cordic_1K \in Shorts /\ MUL \in Shorts
  BY ShortsAre DEF cordic_1K, MUL
<1>2. Short(x + 4096) \in Shorts /\ Short(x - 4096) \in Shorts
  BY ShortsAre, ShortInRange
<1>3. /\ cordic("ROTATION", "CIRCULAR", cordic_1K, 0, x) \in LoopState
      /\ cordic("VECTORING", "CIRCULAR", x, y, 0) \in LoopState
      /\ root \in LoopState
      /\ cordic("VECTORING", "LINEAR", x, MUL, 0) \in LoopState
  BY <1>1, <1>2, CordicReturnsShorts DEF Modes
<1>4. CASE op \in {SIN, COS, ATAN, RECIPROCAL}
  BY <1>3, <1>4, SoftwareResultIs DEF LoopState
<1>5. CASE op = SQRT
  <2> HIDE DEF root
  <2>1. root.x \in Int
    BY <1>3, ShortsAre DEF LoopState
  <2>2. Quotient(cordic_1Kp * root.x, MUL) \in Int
    BY <2>1 DEF Quotient, cordic_1Kp, MUL
  <2>3. SoftwareResult(op, x, y) = Short(Quotient(cordic_1Kp * root.x, MUL))
    BY <1>5, SoftwareResultIs DEF root
  <2> QED
    BY <2>2, <2>3, ShortInRange
<1> QED
  BY <1>4, <1>5

=============================================================================

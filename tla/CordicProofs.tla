---------------------------- MODULE CordicProofs -----------------------------
(***************************************************************************)
(* The rotation of crocdic_cordic converges for every angle of the         *)
(* documented range, proved from its tables: the iteration adds or         *)
(* subtracts an entry so that the angle left over shrinks from one bound   *)
(* of Residual to the next, and no sum leaves the sixteen bits.            *)
(***************************************************************************)
EXTENDS CrocdicCordic, TLAPS

\* The part of the engine's state the angle depends on.
AngleType ==
  /\ state \in {"IDLE", "CALCULATE", "DONE"}
  /\ count \in 0 .. ITER
  /\ state = "CALCULATE" => count < kfinal
  /\ z \in Words
  /\ ports \in PortType

IInv == AngleType /\ AngleConverges

\* A word is a natural number below the modulus.  (Cited instead of the
\* definitions, whose range is too large to be written out.)
LEMMA WordsAre ==
  /\ Modulus = 65536
  /\ \A v : v \in Words <=> v \in Int /\ 0 <= v /\ v < Modulus
<1>1. Modulus = 65536
  BY DEF Modulus
<1>2. Modulus \in Int
  BY <1>1
<1>3. \A v : v \in Words <=> v \in Int /\ 0 <= v /\ v < Modulus
  BY <1>2 DEF Words
<1> QED
  BY <1>1, <1>3

\* Every integer is cut to a word.
LEMMA Wrap16Word == \A v \in Int : Wrap16(v) \in Words
  BY WordsAre DEF Wrap16

\* Table and bounds fit: an entry is not above the next bound, nor is what
\* it leaves of the present one.
LEMMA TableFitsResidual ==
  ASSUME NEW c \in 0 .. 13
  PROVE  /\ Residual[c + 1] \in Int /\ Residual[c + 1] <= 25735
         /\ Residual[c + 2] \in Int /\ Residual[c + 2] <= 25735
         /\ CORDIC_TAB["CIRCULAR"][c + 1] \in Int
         /\ 0 <= CORDIC_TAB["CIRCULAR"][c + 1]
         /\ CORDIC_TAB["CIRCULAR"][c + 1] <= Residual[c + 2]
         /\ Residual[c + 1] - CORDIC_TAB["CIRCULAR"][c + 1] <= Residual[c + 2]
<1>1. CASE c \in 0 .. 4
  BY <1>1 DEF Residual, CORDIC_TAB
<1>2. CASE c \in 5 .. 9
  BY <1>2 DEF Residual, CORDIC_TAB
<1>3. CASE c \in 10 .. 13
  BY <1>3 DEF Residual, CORDIC_TAB
<1> QED
  BY <1>1, <1>2, <1>3

\* A signed angle at most r from zero, moved towards it by a, with r and a
\* far below the limit of the register: no wrap, and the new distance.
LEMMA MoveTowardsZero ==
  ASSUME NEW v \in Words, NEW r \in Int, NEW s \in Int, NEW a \in Int,
         r <= 25735, s <= 25735, 0 <= a, a <= s, r - a <= s,
         Magnitude(Signed(v)) <= r
  PROVE  /\ Signed(v) >= 0 => Magnitude(Signed(Wrap16(v - a))) <= s
         /\ Signed(v) < 0  => Magnitude(Signed(Wrap16(v + a))) <= s
<1>1. v \in Int /\ 0 <= v /\ v < 65536 /\ Modulus = 65536
  BY WordsAre
<1>2. CASE v >= 32768
  <2>1. v >= 65536 - r /\ Signed(v) < 0
    BY <1>1, <1>2 DEF Signed, Magnitude
  <2>2. Wrap16(v + a) = IF v + a >= 65536 THEN v + a - 65536 ELSE v + a
    BY <1>1, <2>1 DEF Wrap16
  <2> QED
    BY <1>1, <1>2, <2>1, <2>2 DEF Signed, Magnitude
<1>3. CASE v < 32768
  <2>1. v <= r /\ Signed(v) >= 0
    BY <1>1, <1>3 DEF Signed, Magnitude
  <2>2. Wrap16(v - a) = IF v - a < 0 THEN v - a + 65536 ELSE v - a
    BY <1>1, <2>1 DEF Wrap16
  <2> QED
    BY <1>1, <1>3, <2>1, <2>2 DEF Signed, Magnitude
<1> QED
  BY <1>1, <1>2, <1>3

\* The power-up state.
LEMMA InitIInv == Init => IInv
  BY DEF Init, IInv, AngleType, AngleConverges, ITER, Words, Modulus,
         ResetPorts, PortType, Operations, SIN

\* The mode and the length of a calculation depend on the operation alone.
LEMMA KfinalValue ==
  /\ kfinal \in {14, 15}
  /\ Rotation => Mode = "CIRCULAR" /\ kfinal = 14
  BY DEF kfinal, Mode, Rotation, ITER, SIN, COS, ATAN, SQRT

\* Loading leaves an angle in the register, the argument's own in rotation.
LEMMA LoadStep ==
  ASSUME IInv, InputsAssumption, NEW en \in BOOLEAN, Load(en)
  PROVE  IInv'
<1>1. z' \in Words
  <2>1. ports.in0 \in Words /\ z \in Words
    BY DEF IInv, AngleType, PortType
  <2>2. 0 \in Words
    BY WordsAre
  <2>3. LoadZ \in Words
    BY <2>1, <2>2, Zenon DEF LoadZ
  <2> QED
    BY <2>3 DEF Load
<1>2. ports' \in PortType
  BY InputsAssumption DEF Load, IInv, AngleType
<1>3. kfinal' \in {14, 15}
  BY DEF kfinal, ITER
<1>4. AngleType'
  BY <1>1, <1>2, <1>3 DEF Load, IInv, AngleType, ITER
<1>5. AngleConverges'
  <2>1. CASE state' = "IDLE"
    BY <2>1 DEF AngleConverges
  <2>2. CASE en
    <3>1. ports' = ports /\ state' = "CALCULATE" /\ count' = 0
      BY <2>2 DEF Load
    <3>2. Rotation => z' = ports.in0
      <4>1. Rotation => ports.op \notin {ATAN, SQRT, RECIPROCAL}
        BY DEF Rotation, SIN, COS, ATAN, SQRT, RECIPROCAL
      <4> QED
        BY <4>1, Zenon DEF Load, LoadZ, Rotation
    <3>3. Residual[1] = 25735 /\ SW!half_pi = 25735
      BY DEF Residual, SW!half_pi
    <3> QED
      BY <3>1, <3>2, <3>3 DEF AngleConverges, Rotation
  <2> QED
    BY <2>1, <2>2 DEF Load
<1> QED
  BY <1>4, <1>5 DEF IInv

\* One iteration takes the angle from one bound to the next.
LEMMA CalculateStep ==
  ASSUME IInv, Calculate
  PROVE  IInv'
<1>1. ports' = ports /\ state = "CALCULATE" /\ count < kfinal
  BY DEF Calculate, IInv, AngleType
<1>2. Rotation' = Rotation /\ kfinal' = kfinal
  BY <1>1 DEF Rotation, kfinal, Mode
<1>3. z' \in Words
  <2>1. z' = Wrap16(z - sign * angle)
    BY DEF Calculate
  <2>2. sign \in {1, -1}
    BY DEF sign
  <2>3. angle \in Int
    <3>1. Mode \in {"CIRCULAR", "HYPERBOLIC", "LINEAR"}
      BY DEF Mode
    <3>2. kk \in 0 .. 13
      <4>1. count \in 0 .. 14
        BY DEF IInv, AngleType, ITER
      <4>2. CASE Mode = "HYPERBOLIC"
        BY <4>1, <4>2 DEF kk, HYP_STEPS
      <4>3. CASE Mode # "HYPERBOLIC"
        BY <1>1, <4>1, <4>3 DEF kk, kfinal, ITER
      <4> QED
        BY <4>2, <4>3
    <3> QED
      BY <3>1, <3>2 DEF angle, CORDIC_TAB
  <2>4. z - sign * angle \in Int
    <3>1. z \in Int
      BY WordsAre DEF IInv, AngleType
    <3> QED
      BY <2>2, <2>3, <3>1
  <2> QED
    BY <2>1, <2>4, Wrap16Word
<1>4. AngleType'
  BY <1>1, <1>2, <1>3, KfinalValue DEF Calculate, IInv, AngleType, ITER
<1>5. AngleConverges'
  <2>1. SUFFICES ASSUME Rotation, Magnitude(Signed(ports.in0)) <= SW!half_pi
                 PROVE  LET i == IF state' = "DONE" THEN ITER ELSE count'
                        IN  Magnitude(Signed(z')) <= Residual[i + 1]
    BY <1>1, <1>2 DEF AngleConverges
  <2>2. count \in 0 .. 13 /\ Mode = "CIRCULAR"
    BY <1>1, <2>1, KfinalValue DEF IInv, AngleType, ITER
  <2>3. angle = CORDIC_TAB["CIRCULAR"][count + 1]
    BY <2>2 DEF angle, kk
  <2>4. Magnitude(Signed(z)) <= Residual[count + 1]
    BY <1>1, <2>1 DEF IInv, AngleConverges
  <2>5. z \in Words
    BY DEF IInv, AngleType
  <2>6. z' = IF Signed(z) >= 0 THEN Wrap16(z - angle) ELSE Wrap16(z + angle)
    <3>1. angle \in Int
      BY <2>2, <2>3, TableFitsResidual
    <3>2. sign = IF Signed(z) >= 0 THEN 1 ELSE -1
      BY <2>1 DEF sign
    <3>3. z - 1 * angle = z - angle /\ z - (-1) * angle = z + angle
      BY <2>5, <3>1, WordsAre
    <3> QED
      BY <3>2, <3>3 DEF Calculate
  <2>7. Magnitude(Signed(z')) <= Residual[count + 2]
    <3> DEFINE r == Residual[count + 1]
               s == Residual[count + 2]
    <3>1. /\ r \in Int /\ s \in Int /\ angle \in Int
          /\ r <= 25735 /\ s <= 25735
          /\ 0 <= angle /\ angle <= s /\ r - angle <= s
      BY <2>2, <2>3, TableFitsResidual
    <3>2. Magnitude(Signed(z)) <= r
      BY <2>4
    <3> HIDE DEF r, s
    <3>3. /\ Signed(z) >= 0 => Magnitude(Signed(Wrap16(z - angle))) <= s
          /\ Signed(z) < 0  => Magnitude(Signed(Wrap16(z + angle))) <= s
      BY <2>5, <3>1, <3>2, MoveTowardsZero
    <3>4. Signed(z) \in Int
      BY <2>5, WordsAre DEF Signed
    <3>5. Magnitude(Signed(z')) <= s
      BY <2>6, <3>3, <3>4
    <3> QED
      BY <3>5 DEF s
  <2>8. (IF state' = "DONE" THEN ITER ELSE count') = count + 1
    <3>1. kfinal = 14 /\ count \in Int
      BY <2>1, <2>2, KfinalValue
    <3>2. IF count = 13 THEN state' = "DONE" /\ count' = count
                        ELSE count' = count + 1 /\ state' = "CALCULATE"
      BY <1>1, <3>1 DEF Calculate
    <3>3. CASE count = 13
      BY <3>2, <3>3 DEF ITER
    <3>4. CASE count # 13
      BY <3>2, <3>4
    <3> QED
      BY <3>3, <3>4
  <2> QED
    BY <2>2, <2>7, <2>8
<1> QED
  BY <1>4, <1>5 DEF IInv

\* Nothing of the angle is left when the engine is idle again.
LEMMA FinishStep ==
  ASSUME IInv, Finish
  PROVE  IInv'
<1>1. ResetPorts \in PortType
  BY WordsAre DEF ResetPorts, PortType, Operations, SIN
<1> QED
  BY <1>1 DEF Finish, IInv, AngleType, AngleConverges

\* IInv is inductive.
THEOREM AngleInvariant == Spec => []IInv
<1>1. Init => IInv
  BY InitIInv
<1>2. IInv /\ [Next]_vars => IInv'
  <2>1. CASE UNCHANGED vars
    BY <2>1 DEF vars, IInv, AngleType, AngleConverges, kfinal, Mode, Rotation
  <2> QED
    BY <2>1, InputsAssumption, LoadStep, CalculateStep, FinishStep DEF Next
<1> QED
  BY <1>1, <1>2, PTL DEF Spec

\* For every argument from -pi/2 to pi/2 the rotation of SIN and COS
\* converges: before each iteration the angle left over is within Residual,
\* and nine units or fewer remain when the result is delivered.
THEOREM RotationConverges == Spec => []AngleConverges
<1>1. IInv => AngleConverges
  BY DEF IInv
<1> QED
  BY AngleInvariant, <1>1, PTL

\* The control of the engine, to the cycle, is that of the black box which
\* CrocdicTop instantiates twice: its theorems hold of the detailed engine.
THEOREM ControlAsUnit == Spec => ImplementsUnit
<1> DEFINE Step == \E en \in BOOLEAN :
             Engine' = Unit!CordicNext(Engine, en, ports.op, ports.in0, ports.in1)
<1>1. ASSUME IInv, [Next]_vars
      PROVE  [Step]_vars
  <2>1. ASSUME NEW en \in BOOLEAN, Load(en)
        PROVE  Step
    <3>1. Engine' = Unit!CordicNext(Engine, en, ports.op, ports.in0, ports.in1)
      BY <2>1 DEF Load, Engine, Unit!CordicNext, Unit!CordicLoad
    <3> QED
      BY <3>1
  <2>2. CASE Calculate
    <3>1. kfinal = Unit!Kfinal(ports.op)
      BY DEF kfinal, Mode, Unit!Kfinal, SIN, COS, ATAN, SQRT, Unit!SQRT
    <3>2. Engine' = Unit!CordicIterate(Engine, ports.op)
      BY <2>2, <3>1 DEF Calculate, Engine, Unit!CordicIterate
    <3>3. Engine' = Unit!CordicNext(Engine, TRUE, ports.op, ports.in0, ports.in1)
      BY <2>2, <3>2 DEF Calculate, Engine, Unit!CordicNext
    <3> QED
      BY <3>3
  <2>3. CASE Finish
    <3>1. Engine' = Unit!CordicNext(Engine, TRUE, ports.op, ports.in0, ports.in1)
      BY <2>3 DEF Finish, Engine, Unit!CordicNext
    <3> QED
      BY <3>1
  <2> QED
    BY <1>1, <2>1, <2>2, <2>3 DEF Next
<1> HIDE DEF Step
<1>2. Spec => [][Step]_vars
  BY <1>1, AngleInvariant, PTL DEF Spec
<1> QED
  BY <1>2 DEF ImplementsUnit, Step

-----------------------------------------------------------------------------
(* The registers keep their widths.                                         *)

\* Every shift of an iteration is by less than the width.
LEMMA ShiftsAre ==
  ASSUME IInv, state = "CALCULATE"
  PROVE  kk \in 0 .. 13
<1>1. count \in 0 .. 14 /\ count < kfinal
  BY DEF IInv, AngleType, ITER
<1>2. CASE Mode = "HYPERBOLIC"
  BY <1>1, <1>2 DEF kk, HYP_STEPS
<1>3. CASE Mode # "HYPERBOLIC"
  BY <1>1, <1>3 DEF kk, kfinal, ITER
<1> QED
  BY <1>2, <1>3

\* An arithmetic shift of a word is an integer.
LEMMA ShiftedWord ==
  ASSUME NEW v \in Words, NEW k \in 0 .. 13
  PROVE  Signed(v) \div 2^k \in Int
<1>1. Signed(v) \in Int
  BY WordsAre DEF Signed
<1>2. 2^k \in Int /\ 2^k > 0
  <2>1. CASE k = 0
    BY <2>1
  <2>2. CASE k = 1
    BY <2>2
  <2>3. CASE k = 2
    BY <2>3
  <2>4. CASE k = 3
    BY <2>4
  <2>5. CASE k = 4
    BY <2>5
  <2>6. CASE k = 5
    BY <2>6
  <2>7. CASE k = 6
    BY <2>7
  <2>8. CASE k = 7
    BY <2>8
  <2>9. CASE k = 8
    BY <2>9
  <2>10. CASE k = 9
    BY <2>10
  <2>11. CASE k = 10
    BY <2>11
  <2>12. CASE k = 11
    BY <2>12
  <2>13. CASE k = 12
    BY <2>13
  <2>14. CASE k = 13
    BY <2>14
  <2> QED
    BY <2>1, <2>2, <2>3, <2>4, <2>5, <2>6, <2>7,
       <2>8, <2>9, <2>10, <2>11, <2>12, <2>13, <2>14
<1> QED
  BY <1>1, <1>2

TypeInv == IInv /\ x \in Words /\ y \in Words /\ latched \in PortType

\* A load leaves the registers within their widths.
LEMMA LoadTypes ==
  ASSUME TypeInv, NEW en \in BOOLEAN, Load(en)
  PROVE  x' \in Words /\ y' \in Words /\ latched' \in PortType
<1>1. ports \in PortType /\ ports.in0 \in Words /\ ports.in1 \in Words
  BY DEF TypeInv, IInv, AngleType, PortType
<1>2. ports.in0 + 4096 \in Int /\ ports.in0 - 4096 \in Int
  BY <1>1, WordsAre
<1>3. /\ Wrap16(ports.in0 + 4096) \in Words /\ Wrap16(ports.in0 - 4096) \in Words
      /\ CORDIC_1K \in Words /\ MUL \in Words /\ 0 \in Words
  BY <1>2, Wrap16Word, WordsAre DEF CORDIC_1K, MUL
<1>4. LoadX \in Words
  BY <1>1, <1>3 DEF LoadX, TypeInv
<1>5. LoadY \in Words
  BY <1>1, <1>3 DEF LoadY, TypeInv
<1> QED
  BY <1>1, <1>4, <1>5 DEF Load

\* So does an iteration.
LEMMA CalculateTypes ==
  ASSUME TypeInv, Calculate
  PROVE  x' \in Words /\ y' \in Words /\ latched' \in PortType
<1>1. kk \in 0 .. 13
  BY ShiftsAre DEF TypeInv, Calculate
<1>2. x \in Words /\ y \in Words
  BY DEF TypeInv
<1>3. xbyk \in Int
  BY <1>1, <1>2, ShiftedWord DEF xbyk
<1>4. ybyk \in Int
  <2>1. Signed(y) \div 2^kk \in Int
    BY <1>1, <1>2, ShiftedWord
  <2>2. -(Signed(y) \div 2^kk) \in Int /\ 0 \in Int
    BY <2>1
  <2> QED
    BY <2>1, <2>2, Zenon DEF ybyk
<1>5. x - sign * ybyk \in Int /\ y + sign * xbyk \in Int
  <2>1. sign \in {1, -1}
    BY DEF sign
  <2>2. x \in Int /\ y \in Int
    BY <1>2, WordsAre
  <2> QED
    BY <1>3, <1>4, <2>1, <2>2
<1> QED
  BY <1>5, Wrap16Word DEF Calculate, TypeInv

\* TypeInv is inductive.
THEOREM TypeInvariant == Spec => []TypeInv
<1>1. Init => TypeInv
  <2>1. 0 \in Words /\ ResetPorts \in PortType
    BY WordsAre DEF ResetPorts, PortType, Operations, SIN
  <2> QED
    BY <2>1, InitIInv DEF Init, TypeInv
<1>2. ASSUME TypeInv, IInv', [Next]_vars
      PROVE  TypeInv'
  <2>1. ASSUME NEW en \in BOOLEAN, Load(en)
        PROVE  TypeInv'
    BY <1>2, <2>1, LoadTypes DEF TypeInv
  <2>2. CASE Calculate
    BY <1>2, <2>2, CalculateTypes DEF TypeInv
  <2>3. CASE Finish
    BY <1>2, <2>3 DEF Finish, TypeInv
  <2>4. CASE UNCHANGED vars
    BY <1>2, <2>4 DEF vars, TypeInv
  <2> QED
    BY <1>2, <2>1, <2>2, <2>3, <2>4 DEF Next
<1> QED
  BY <1>1, <1>2, AngleInvariant, PTL DEF Spec

\* The iteration registers hold sixteen bits, the iteration counter never
\* leaves its range, and no table of constants or steps is read past its end.
THEOREM EngineTypes == Spec => []TypeOK
<1>1. TypeInv => TypeOK
  BY DEF TypeInv, IInv, AngleType, TypeOK
<1> QED
  BY <1>1, TypeInvariant, PTL

-----------------------------------------------------------------------------
(* The results are those of the C function.  The registers of the engine    *)
(* are those of cordic() after as many turns of its loop.                   *)

R == INSTANCE CordicReferenceProofs

Direction == IF Rotation THEN "ROTATION" ELSE "VECTORING"
Computed  == ports.op \in {SIN, COS, ATAN, SQRT, RECIPROCAL}

\* The registers of the C function, turn by turn, for what the engine loads.
Software ==
  R!rotations(Direction, Mode, Signed(LoadX), Signed(LoadY), Signed(LoadZ))

\* The registers of the engine, read as shorts, are r.
Holds(r) == Signed(x) = r.x /\ Signed(y) = r.y /\ Signed(z) = r.z

LockStep ==
  state # "IDLE" =>
    /\ latched = ports
    /\ Computed => Holds(Software[IF state = "DONE" THEN kfinal ELSE count])

MatchInv == TypeInv /\ LockStep

\* A word read as a short, and back.
LEMMA SignedIsShort ==
  ASSUME NEW v \in Words
  PROVE  /\ Signed(v) \in R!Shorts
         /\ Signed(v) \in Int
         /\ Wrap16(Signed(v)) = v
<1>1. /\ v \in Int /\ 0 <= v /\ v < 65536 /\ Modulus = 65536
      /\ 2^15 = 32768
  BY WordsAre
<1>2. Signed(v) \in Int /\ -32768 <= Signed(v) /\ Signed(v) <= 32767
  BY <1>1 DEF Signed
<1>3. Signed(v) \in R!Shorts
  BY <1>1, <1>2 DEF R!Shorts
<1>4. Wrap16(Signed(v)) = v
  BY <1>1 DEF Signed, Wrap16
<1> QED
  BY <1>2, <1>3, <1>4

\* A register of the engine cuts a sum as a C assignment to a short does.
LEMMA SignedSum ==
  ASSUME NEW v \in Words, NEW d \in Int
  PROVE  Signed(Wrap16(v + d)) = R!Short(Signed(v) + d)
<1>1. /\ v \in Int /\ 0 <= v /\ v < 65536 /\ Modulus = 65536
      /\ 2^15 = 32768 /\ 2^16 = 65536
  BY WordsAre
<1> DEFINE u == v + d
<1>2. u \in Int /\ (Signed(v) + d = u \/ Signed(v) + d = u - 65536)
  BY <1>1 DEF Signed
<1>3. R!Short(Signed(v) + d) = ((Signed(v) + d + 32768) % 65536) - 32768
  BY <1>1 DEF R!Short
<1>4. Wrap16(u) = u % 65536
  BY <1>1 DEF Wrap16
<1> HIDE DEF u
<1>5. R!Short(Signed(v) + d) = ((u + 32768) % 65536) - 32768
  <2>1. (u - 65536 + 32768) % 65536 = (u + 32768) % 65536
    BY <1>2
  <2> QED
    BY <1>2, <1>3, <2>1
<1>6. Signed(Wrap16(u)) = ((u + 32768) % 65536) - 32768
  BY <1>1, <1>2, <1>4 DEF Signed
<1> QED
  BY <1>5, <1>6 DEF u

\* The loop has as many turns as the engine has iterations.
LEMMA SameTurns == R!turns(Mode) = kfinal
  BY DEF R!turns, R!CORDIC_NTAB, kfinal, ITER

\* An iteration reads the entry of the table that the C function reads.
LEMMA SameAngle ==
  ASSUME TypeInv, state = "CALCULATE"
  PROVE  /\ Mode \in {"CIRCULAR", "LINEAR", "HYPERBOLIC"}
         /\ count + 1 \in 1 .. kfinal
         /\ kk = IF Mode = "HYPERBOLIC" THEN R!cordic_hyp_steps[count + 1]
                 ELSE count
         /\ angle = R!cordic_tab[Mode][kk + 1]
         /\ angle \in Int
<1>1. Mode \in {"CIRCULAR", "LINEAR", "HYPERBOLIC"}
  BY DEF Mode
<1>2. count \in 0 .. 14 /\ count < kfinal /\ kfinal \in {14, 15}
  BY KfinalValue DEF TypeInv, IInv, AngleType, ITER
<1>3. kk = IF Mode = "HYPERBOLIC" THEN R!cordic_hyp_steps[count + 1]
           ELSE count
  BY DEF kk, HYP_STEPS, R!cordic_hyp_steps
<1>4. kk \in 0 .. 13
  BY ShiftsAre DEF TypeInv
<1>5. angle = R!cordic_tab[Mode][kk + 1] /\ angle \in Int
  <2>1. CASE Mode = "CIRCULAR"
    BY <1>4, <2>1 DEF angle, CORDIC_TAB, R!cordic_tab
  <2>2. CASE Mode = "LINEAR"
    BY <1>4, <2>2 DEF angle, CORDIC_TAB, R!cordic_tab
  <2>3. CASE Mode = "HYPERBOLIC"
    <3>1. kk \in 1 .. 13
      BY <1>2, <2>3 DEF kk, HYP_STEPS
    <3> QED
      BY <2>3, <3>1 DEF angle, CORDIC_TAB, R!cordic_tab
  <2> QED
    BY <1>1, <2>1, <2>2, <2>3
<1> QED
  BY <1>1, <1>2, <1>3, <1>5

\* One iteration of the engine is one turn of the loop.
LEMMA TurnMatches ==
  ASSUME TypeInv, Calculate, Computed,
         NEW r \in R!LoopState, Holds(r)
  PROVE  LET t == R!rotation(Direction, Mode, count + 1, r)
         IN  Signed(x') = t.x /\ Signed(y') = t.y /\ Signed(z') = t.z
<1> DEFINE skk == IF Mode = "HYPERBOLIC" THEN R!cordic_hyp_steps[count + 1]
                  ELSE (count + 1) - 1
           ssign == IF (Direction = "ROTATION" /\ r.z >= 0)
                       \/ (Direction = "VECTORING" /\ r.y < 0)
                    THEN 1 ELSE -1
           sybyk == CASE Mode = "CIRCULAR"   -> r.y \div 2^skk
                      [] Mode = "LINEAR"     -> 0
                      [] Mode = "HYPERBOLIC" -> -(r.y \div 2^skk)
<1>1. state = "CALCULATE" /\ x \in Words /\ y \in Words /\ z \in Words
  BY DEF TypeInv, IInv, AngleType, Calculate
<1>2. count \in Int
  BY DEF TypeInv, IInv, AngleType, ITER
<1>3. kk = skk
  BY <1>1, <1>2, SameAngle
<1>4. Signed(x) = r.x /\ Signed(y) = r.y /\ Signed(z) = r.z
  BY DEF Holds
<1>5. sign = ssign
  BY <1>4 DEF sign, Direction
<1>6. ybyk = sybyk
  <2>1. Mode \in {"CIRCULAR", "LINEAR", "HYPERBOLIC"}
    BY <1>1, SameAngle
  <2> HIDE DEF skk
  <2>2. CASE Mode = "CIRCULAR"
    BY <1>3, <1>4, <2>2 DEF ybyk
  <2>3. CASE Mode = "LINEAR"
    BY <1>3, <1>4, <2>3 DEF ybyk
  <2>4. CASE Mode = "HYPERBOLIC"
    BY <1>3, <1>4, <2>4 DEF ybyk
  <2> QED
    BY <2>1, <2>2, <2>3, <2>4
<1>7. xbyk = r.x \div 2^skk
  BY <1>3, <1>4 DEF xbyk
<1>8. R!rotation(Direction, Mode, count + 1, r) =
        [ x |-> R!Short(r.x - ssign * sybyk),
          y |-> R!Short(r.y + ssign * (r.x \div 2^skk)),
          z |-> R!Short(r.z - ssign * R!cordic_tab[Mode][skk + 1]) ]
  BY DEF R!rotation
<1>9. R!cordic_tab[Mode][skk + 1] = angle
  BY <1>1, <1>3, SameAngle
<1> HIDE DEF skk, ssign, sybyk
<1>10. R!rotation(Direction, Mode, count + 1, r) =
         [ x |-> R!Short(Signed(x) - sign * ybyk),
           y |-> R!Short(Signed(y) + sign * xbyk),
           z |-> R!Short(Signed(z) - sign * angle) ]
  BY <1>4, <1>5, <1>6, <1>7, <1>8, <1>9
<1>11. sign * ybyk \in Int /\ sign * xbyk \in Int /\ sign * angle \in Int
  <2>1. sign \in {1, -1}
    BY DEF sign
  <2>2. kk \in 0 .. 13
    BY <1>1, ShiftsAre DEF TypeInv
  <2>3. Signed(x) \div 2^kk \in Int /\ Signed(y) \div 2^kk \in Int
    BY <1>1, <2>2, ShiftedWord
  <2>4. xbyk \in Int
    BY <2>3 DEF xbyk
  <2>5. ybyk \in Int
    <3>1. -(Signed(y) \div 2^kk) \in Int /\ 0 \in Int
      BY <2>3
    <3> QED
      BY <2>3, <3>1, Zenon DEF ybyk
  <2>6. angle \in Int
    BY <1>1, SameAngle
  <2> QED
    BY <2>1, <2>4, <2>5, <2>6
<1>12. /\ x' = Wrap16(x + (-(sign * ybyk)))
       /\ y' = Wrap16(y + sign * xbyk)
       /\ z' = Wrap16(z + (-(sign * angle)))
  <2>1. x \in Int /\ z \in Int
    BY <1>1, WordsAre
  <2>2. /\ x - sign * ybyk = x + (-(sign * ybyk))
        /\ z - sign * angle = z + (-(sign * angle))
    BY <1>11, <2>1
  <2> QED
    BY <2>2 DEF Calculate
<1>13. /\ Signed(x') = R!Short(Signed(x) + (-(sign * ybyk)))
       /\ Signed(y') = R!Short(Signed(y) + sign * xbyk)
       /\ Signed(z') = R!Short(Signed(z) + (-(sign * angle)))
  <2>1. -(sign * ybyk) \in Int /\ -(sign * angle) \in Int
    BY <1>11
  <2> QED
    BY <1>1, <1>11, <1>12, <2>1, SignedSum
<1>14. /\ Signed(x) + (-(sign * ybyk)) = Signed(x) - sign * ybyk
       /\ Signed(z) + (-(sign * angle)) = Signed(z) - sign * angle
  BY <1>1, <1>11, SignedIsShort
<1> QED
  BY <1>10, <1>13, <1>14

\* What a computed operation loads depends on the ports alone.
LEMMA LoadsFromPorts ==
  ASSUME TypeInv, Computed, ports' = ports
  PROVE  /\ LoadX' = LoadX /\ LoadY' = LoadY /\ LoadZ' = LoadZ
         /\ Mode' = Mode /\ Direction' = Direction /\ Rotation' = Rotation
         /\ kfinal' = kfinal
         /\ Software' = Software
<1>1. Mode' = Mode /\ Direction' = Direction /\ Rotation' = Rotation
  BY DEF Mode, Direction, Rotation
<1>2. kfinal' = kfinal
  BY <1>1 DEF kfinal
<1>3. LoadX' = LoadX /\ LoadY' = LoadY /\ LoadZ' = LoadZ
  <2>1. CASE ports.op \in {SIN, COS}
    BY <2>1 DEF LoadX, LoadY, LoadZ
  <2>2. CASE ports.op = ATAN
    BY <2>2 DEF LoadX, LoadY, LoadZ, SIN, COS, ATAN
  <2>3. CASE ports.op = SQRT
    BY <2>3 DEF LoadX, LoadY, LoadZ, SIN, COS, ATAN, SQRT, RECIPROCAL
  <2>4. CASE ports.op = RECIPROCAL
    BY <2>4 DEF LoadX, LoadY, LoadZ, SIN, COS, ATAN, SQRT, RECIPROCAL
  <2> QED
    BY <2>1, <2>2, <2>3, <2>4 DEF Computed
<1>4. Software' = Software
  BY <1>1, <1>3 DEF Software
<1> QED
  BY <1>1, <1>2, <1>3, <1>4

\* The registers are loaded with words.
LEMMA LoadsAreWords ==
  ASSUME TypeInv
  PROVE  LoadX \in Words /\ LoadY \in Words /\ LoadZ \in Words
<1>1. /\ ports.in0 \in Words /\ ports.in1 \in Words
      /\ x \in Words /\ y \in Words /\ z \in Words
  BY DEF TypeInv, IInv, AngleType, PortType
<1>2. ports.in0 + 4096 \in Int /\ ports.in0 - 4096 \in Int
  BY <1>1, WordsAre
<1>3. /\ Wrap16(ports.in0 + 4096) \in Words /\ Wrap16(ports.in0 - 4096) \in Words
      /\ CORDIC_1K \in Words /\ MUL \in Words /\ 0 \in Words
  BY <1>2, Wrap16Word, WordsAre DEF CORDIC_1K, MUL
<1>4. LoadX \in Words
  BY <1>1, <1>3 DEF LoadX
<1>5. LoadY \in Words
  BY <1>1, <1>3 DEF LoadY
<1>6. LoadZ \in Words
  BY <1>1, <1>3 DEF LoadZ
<1> QED
  BY <1>4, <1>5, <1>6

\* The turns of the C function for what is loaded.
LEMMA SoftwareTurns ==
  ASSUME TypeInv
  PROVE  /\ Software[0] = [x |-> Signed(LoadX), y |-> Signed(LoadY),
                           z |-> Signed(LoadZ)]
         /\ \A k \in 1 .. kfinal :
              Software[k] = R!rotation(Direction, Mode, k, Software[k - 1])
         /\ \A k \in 0 .. kfinal :
              Software[k] \in R!LoopState
<1> DEFINE d == Direction
           m == Mode
           a == Signed(LoadX)
           b == Signed(LoadY)
           c == Signed(LoadZ)
           after == R!rotations(d, m, a, b, c)
<1>1. a \in R!Shorts /\ b \in R!Shorts /\ c \in R!Shorts
  BY LoadsAreWords, SignedIsShort
<1>2. m \in R!Modes
  BY DEF Mode, R!Modes
<1>3. R!turns(m) = kfinal /\ kfinal \in Nat
  BY SameTurns, KfinalValue
<1>4. Software = after
  BY DEF Software
<1> HIDE DEF d, m, a, b, c
<1>5. R!IsLoop(after, d, m, a, b, c)
  BY <1>1, <1>2, R!LoopEquation
<1>6. after \in [0 .. R!turns(m) -> R!LoopState]
  BY <1>1, <1>2, R!LoopStates
<1> HIDE DEF after
<1>7. /\ after[0] = [x |-> a, y |-> b, z |-> c]
      /\ \A k \in 1 .. kfinal :
           after[k] = R!rotation(d, m, k, after[k - 1])
      /\ \A k \in 0 .. kfinal :
           after[k] \in R!LoopState
  BY <1>3, <1>5, <1>6 DEF R!IsLoop
<1> QED
  BY <1>4, <1>7 DEF d, m, a, b, c

\* With the enable both start from the same registers.
LEMMA LoadMatches ==
  ASSUME MatchInv, NEW en \in BOOLEAN, Load(en)
  PROVE  LockStep'
<1>1. CASE ~en
  BY <1>1 DEF Load, LockStep
<1>2. CASE en
  <2>1. /\ ports' = ports /\ latched' = ports /\ state' = "CALCULATE"
        /\ count' = 0 /\ x' = LoadX /\ y' = LoadY /\ z' = LoadZ
    BY <1>2 DEF Load
  <2>2. ASSUME Computed'
        PROVE  Holds(Software[IF state = "DONE" THEN kfinal ELSE count])'
    <3>1. Computed
      BY <2>1, <2>2 DEF Computed
    <3>2. Software' = Software
      BY <2>1, <3>1, LoadsFromPorts DEF MatchInv
    <3>3. Software[0] = [x |-> Signed(LoadX), y |-> Signed(LoadY),
                         z |-> Signed(LoadZ)]
      BY SoftwareTurns DEF MatchInv
    <3> QED
      BY <2>1, <3>2, <3>3 DEF Holds
  <2> QED
    BY <2>1, <2>2 DEF LockStep
<1> QED
  BY <1>1, <1>2

\* An iteration takes both from one turn to the next.
LEMMA CalculateMatches ==
  ASSUME MatchInv, Calculate
  PROVE  LockStep'
<1>1. state = "CALCULATE" /\ ports' = ports /\ latched' = latched
  BY DEF Calculate
<1>2. latched = ports
  BY <1>1 DEF MatchInv, LockStep
<1>3. ASSUME Computed'
      PROVE  Holds(Software[IF state = "DONE" THEN kfinal ELSE count])'
  <2>1. Computed
    BY <1>1, <1>3 DEF Computed
  <2>2. Software' = Software /\ kfinal' = kfinal
    BY <1>1, <2>1, LoadsFromPorts DEF MatchInv
  <2>3. count + 1 \in 1 .. kfinal /\ count \in Int /\ kfinal \in Int
    BY <1>1, SameAngle, KfinalValue DEF MatchInv, TypeInv, IInv, AngleType, ITER
  <2>4. count \in 0 .. kfinal /\ (count + 1) - 1 = count
    BY <2>3
  <2> DEFINE r == Software[count]
  <2>5. r \in R!LoopState /\ Holds(r)
    BY <1>1, <2>1, <2>4, SoftwareTurns DEF MatchInv, LockStep
  <2>6. Software[count + 1] = R!rotation(Direction, Mode, count + 1, r)
    BY <2>3, <2>4, SoftwareTurns DEF MatchInv
  <2> HIDE DEF r
  <2>7. LET t == R!rotation(Direction, Mode, count + 1, r)
        IN  Signed(x') = t.x /\ Signed(y') = t.y /\ Signed(z') = t.z
    BY <2>1, <2>5, TurnMatches DEF MatchInv
  <2>8. (IF state' = "DONE" THEN kfinal ELSE count') = count + 1
    <3>1. CASE count = kfinal - 1
      BY <2>3, <3>1 DEF Calculate
    <3>2. CASE count # kfinal - 1
      BY <1>1, <2>3, <3>2 DEF Calculate
    <3> QED
      BY <3>1, <3>2
  <2> QED
    BY <2>2, <2>6, <2>7, <2>8 DEF Holds
<1> QED
  BY <1>1, <1>2, <1>3 DEF LockStep

\* At every clock edge the registers of a computing engine are those of the
\* C function after as many turns of its loop, for every operand.
THEOREM LockStepInvariant == Spec => []MatchInv
<1>1. Init => LockStep
  BY DEF Init, LockStep
<1>2. MatchInv /\ TypeInv' /\ [Next]_vars => LockStep'
  <2> SUFFICES ASSUME MatchInv, TypeInv', [Next]_vars
               PROVE  LockStep'
    OBVIOUS
  <2>1. ASSUME NEW en \in BOOLEAN, Load(en)
        PROVE  LockStep'
    BY <2>1, LoadMatches
  <2>2. CASE Calculate
    BY <2>2, CalculateMatches
  <2>3. CASE Finish
    BY <2>3 DEF Finish, LockStep
  <2>4. CASE UNCHANGED vars
    <3>1. LockStep
      BY DEF MatchInv
    <3> QED
      BY <2>4, <3>1 DEF vars, LockStep, Computed, Holds, Software, Direction,
         Rotation, Mode, kfinal, LoadX, LoadY, LoadZ
  <2> QED
    BY <2>1, <2>2, <2>3, <2>4 DEF Next
<1>3. Spec => []TypeInv
  BY TypeInvariant
<1> QED
  BY <1>1, <1>2, <1>3, PTL DEF Spec, MatchInv

\* The C function the properties refer to is the one LoopRuns is about.
LEMMA SameFunction ==
  /\ SW!Shorts = R!Shorts /\ SW!half_pi = R!half_pi
  /\ \A v : SW!Short(v) = R!Short(v)
  /\ \A d, m, a, b, c : SW!cordic(d, m, a, b, c) = R!cordic(d, m, a, b, c)
  /\ \A op, a, b : SW!SoftwareResult(op, a, b) = R!SoftwareResult(op, a, b)
<1>1. SW!Shorts = R!Shorts /\ SW!half_pi = R!half_pi
  BY DEF SW!Shorts, R!Shorts, SW!half_pi, R!half_pi
<1>2. \A v : SW!Short(v) = R!Short(v)
  BY DEF SW!Short, R!Short
<1>3. \A d, m, a, b, c : SW!cordic(d, m, a, b, c) = R!cordic(d, m, a, b, c)
  BY DEF SW!cordic, R!cordic, SW!rotations, R!rotations, SW!turns, R!turns,
         SW!CORDIC_NTAB, R!CORDIC_NTAB, SW!rotation, R!rotation, SW!Short,
         R!Short, SW!cordic_tab, R!cordic_tab, SW!cordic_hyp_steps,
         R!cordic_hyp_steps
<1>4. \A op, a, b : SW!SoftwareResult(op, a, b) = R!SoftwareResult(op, a, b)
  BY DEF SW!SoftwareResult, R!SoftwareResult, SW!Quotient,
     R!Quotient, SW!cordic_1K, R!cordic_1K, SW!cordic_1Kp, R!cordic_1Kp,
     SW!MUL, R!MUL, SW!SIN, R!SIN, SW!COS, R!COS, SW!ATAN, R!ATAN,
     SW!SQRT, R!SQRT, SW!RECIPROCAL, R!RECIPROCAL, SW!cordic, R!cordic,
     SW!rotations, R!rotations, SW!turns, R!turns, SW!CORDIC_NTAB,
     R!CORDIC_NTAB, SW!rotation, R!rotation, SW!Short, R!Short,
     SW!cordic_tab, R!cordic_tab, SW!cordic_hyp_steps, R!cordic_hyp_steps
<1> QED
  BY <1>1, <1>2, <1>3, <1>4

\* The codes of the operations differ, and are those of the C programs.
LEMMA CodesAre ==
  /\ SIN = 0 /\ COS = 1 /\ ATAN = 2 /\ SQRT = 3 /\ RECIPROCAL = 4
  /\ R!SIN = 0 /\ R!COS = 1 /\ R!ATAN = 2 /\ R!SQRT = 3 /\ R!RECIPROCAL = 4
  /\ Unit!SIN = 0 /\ Unit!COS = 1 /\ Unit!ATAN = 2 /\ Unit!SQRT = 3
  /\ Unit!RECIPROCAL = 4
BY DEF SIN, COS, ATAN, SQRT, RECIPROCAL, R!SIN, R!COS, R!ATAN, R!SQRT,
       R!RECIPROCAL, Unit!SIN, Unit!COS, Unit!ATAN, Unit!SQRT, Unit!RECIPROCAL

\* With done the registers are those the C function returns.
LEMMA RegistersReturned ==
  ASSUME MatchInv, state = "DONE", Computed
  PROVE  /\ Holds(R!cordic(Direction, Mode,
                           Signed(LoadX), Signed(LoadY), Signed(LoadZ)))
         /\ R!cordic(Direction, Mode, Signed(LoadX), Signed(LoadY),
                     Signed(LoadZ)) \in R!LoopState
<1>1. Holds(Software[kfinal])
  BY DEF MatchInv, LockStep
<1>2. Software[kfinal] = R!cordic(Direction, Mode,
                           Signed(LoadX), Signed(LoadY), Signed(LoadZ))
  BY SameTurns DEF Software, R!cordic
<1>3. kfinal \in 0 .. kfinal
  BY KfinalValue
<1>4. Software[kfinal] \in R!LoopState
  BY <1>3, SoftwareTurns DEF MatchInv
<1> QED
  BY <1>1, <1>2, <1>4

\* What the engine loads is what the C programs pass to the function.
LEMMA LoadsAreArguments ==
  ASSUME TypeInv
  PROVE  LET a == Signed(ports.in0)
             b == Signed(ports.in1)
         IN
         /\ ports.op \in {SIN, COS} =>
              /\ Direction = "ROTATION" /\ Mode = "CIRCULAR"
              /\ Signed(LoadX) = R!cordic_1K
              /\ Signed(LoadY) = 0 /\ Signed(LoadZ) = a
         /\ ports.op = ATAN =>
              /\ Direction = "VECTORING" /\ Mode = "CIRCULAR"
              /\ Signed(LoadX) = a /\ Signed(LoadY) = b /\ Signed(LoadZ) = 0
         /\ ports.op = SQRT =>
              /\ Direction = "VECTORING" /\ Mode = "HYPERBOLIC"
              /\ Signed(LoadX) = R!Short(a + 4096)
              /\ Signed(LoadY) = R!Short(a - 4096)
              /\ Signed(LoadZ) = 0
         /\ ports.op = RECIPROCAL =>
              /\ Direction = "VECTORING" /\ Mode = "LINEAR"
              /\ Signed(LoadX) = a
              /\ Signed(LoadY) = R!MUL /\ Signed(LoadZ) = 0
<1> DEFINE a == Signed(ports.in0)
           b == Signed(ports.in1)
<1>1. ports.in0 \in Words /\ ports.in1 \in Words
  BY DEF TypeInv, IInv, AngleType, PortType
<1>2. /\ Signed(0) = 0 /\ Signed(CORDIC_1K) = R!cordic_1K
      /\ Signed(MUL) = R!MUL
  BY DEF Signed, CORDIC_1K, R!cordic_1K, MUL, R!MUL
<1>3. /\ Signed(Wrap16(ports.in0 + 4096)) = R!Short(a + 4096)
      /\ Signed(Wrap16(ports.in0 - 4096)) = R!Short(a - 4096)
  <2>1. /\ ports.in0 - 4096 = ports.in0 + (-4096)
        /\ a - 4096 = a + (-4096)
    BY <1>1, WordsAre, SignedIsShort
  <2>2. 4096 \in Int /\ -4096 \in Int
    OBVIOUS
  <2> QED
    BY <1>1, <2>1, <2>2, SignedSum
<1>4. ASSUME ports.op \in {SIN, COS}
      PROVE  /\ Direction = "ROTATION" /\ Mode = "CIRCULAR"
             /\ LoadX = CORDIC_1K /\ LoadY = 0 /\ LoadZ = ports.in0
  <2>1. Direction = "ROTATION" /\ Mode = "CIRCULAR"
    BY <1>4, CodesAre DEF Direction, Rotation, Mode
  <2>2. LoadX = CORDIC_1K
    BY <1>4, CodesAre DEF LoadX
  <2>3. LoadY = 0
    BY <1>4, CodesAre DEF LoadY
  <2>4. LoadZ = ports.in0
    BY <1>4, CodesAre DEF LoadZ
  <2> QED
    BY <2>1, <2>2, <2>3, <2>4
<1>5. ASSUME ports.op = ATAN
      PROVE  /\ Direction = "VECTORING" /\ Mode = "CIRCULAR"
             /\ LoadX = ports.in0 /\ LoadY = ports.in1 /\ LoadZ = 0
  <2>1. Direction = "VECTORING" /\ Mode = "CIRCULAR"
    BY <1>5, CodesAre DEF Direction, Rotation, Mode
  <2>2. LoadX = ports.in0
    BY <1>5, CodesAre DEF LoadX
  <2>3. LoadY = ports.in1
    BY <1>5, CodesAre DEF LoadY
  <2>4. LoadZ = 0
    BY <1>5, CodesAre DEF LoadZ
  <2> QED
    BY <2>1, <2>2, <2>3, <2>4
<1>6. ASSUME ports.op = SQRT
      PROVE  /\ Direction = "VECTORING" /\ Mode = "HYPERBOLIC"
             /\ LoadX = Wrap16(ports.in0 + 4096)
             /\ LoadY = Wrap16(ports.in0 - 4096) /\ LoadZ = 0
  BY <1>6, CodesAre DEF Direction, Rotation, Mode, LoadX, LoadY, LoadZ
<1>7. ASSUME ports.op = RECIPROCAL
      PROVE  /\ Direction = "VECTORING" /\ Mode = "LINEAR"
             /\ LoadX = ports.in0 /\ LoadY = MUL /\ LoadZ = 0
  BY <1>7, CodesAre DEF Direction, Rotation, Mode, LoadX, LoadY, LoadZ
<1> QED
  BY <1>2, <1>3, <1>4, <1>5, <1>6, <1>7

\* A root is scaled alike in hardware and in C, if its register is not
\* negative.
LEMMA ScaledRoot ==
  ASSUME NEW v \in Words, Signed(v) >= 0
  PROVE  /\ (CORDIC_1KP * v) \div MUL \in Int
         /\ Signed(Wrap16((CORDIC_1KP * v) \div MUL)) =
              R!Short(R!Quotient(R!cordic_1Kp * Signed(v), R!MUL))
<1>1. v \in Int /\ 0 <= v /\ v < 65536 /\ Signed(v) = v
  BY WordsAre DEF Signed
<1> DEFINE q == (CORDIC_1KP * v) \div MUL
<1>2. q \in Int
  BY <1>1 DEF CORDIC_1KP, MUL
<1>3. R!Quotient(R!cordic_1Kp * Signed(v), R!MUL) = q
  <2>1. CORDIC_1KP * v >= 0
    BY <1>1 DEF CORDIC_1KP
  <2> QED
    BY <1>1, <2>1 DEF R!Quotient, R!cordic_1Kp, R!MUL, CORDIC_1KP, MUL
<1> HIDE DEF q
<1>4. Signed(Wrap16(0 + q)) = R!Short(Signed(0) + q)
  BY <1>2, WordsAre, SignedSum
<1>5. 0 + q = q /\ Signed(0) + q = q
  BY <1>2 DEF Signed
<1> QED
  BY <1>2, <1>3, <1>4, <1>5 DEF q

\* With done the element the engine delivers is the short the C program
\* computes; of a root only for an argument that is not negative.
LEMMA Delivered ==
  ASSUME MatchInv, RootsNotNegative, state = "DONE", Computed,
         ports.op = SQRT => Signed(ports.in0) >= 0
  PROVE  /\ output_element \in Words
         /\ Signed(output_element) =
              R!SoftwareResult(ports.op, Signed(ports.in0), Signed(ports.in1))
<1> DEFINE a == Signed(ports.in0)
           b == Signed(ports.in1)
           r == R!cordic(Direction, Mode, Signed(LoadX), Signed(LoadY),
                         Signed(LoadZ))
<1>1. Holds(r)
  BY RegistersReturned
<1>2. TypeInv /\ x \in Words /\ y \in Words /\ z \in Words
  BY DEF MatchInv, TypeInv, IInv, AngleType
<1>3. ports.op = SIN => r = R!cordic("ROTATION", "CIRCULAR", R!cordic_1K, 0, a)
  BY <1>2, LoadsAreArguments
<1>4. ports.op = COS => r = R!cordic("ROTATION", "CIRCULAR", R!cordic_1K, 0, a)
  BY <1>2, LoadsAreArguments
<1>5. ports.op = ATAN => r = R!cordic("VECTORING", "CIRCULAR", a, b, 0)
  BY <1>2, LoadsAreArguments
<1>6. ports.op = SQRT => r = R!cordic("VECTORING", "HYPERBOLIC",
                                R!Short(a + 4096), R!Short(a - 4096), 0)
  BY <1>2, LoadsAreArguments
<1>7. ports.op = RECIPROCAL => r = R!cordic("VECTORING", "LINEAR", a, R!MUL, 0)
  BY <1>2, LoadsAreArguments
<1> HIDE DEF r
<1>8. CASE ports.op = SIN
  <2>1. output_element = y
    BY <1>8, CodesAre DEF output_element
  <2>2. R!SoftwareResult(ports.op, a, b) = r.y
    BY <1>3, <1>8, CodesAre, R!SoftwareResultIs
  <2> QED
    BY <1>1, <1>2, <2>1, <2>2 DEF Holds
<1>9. CASE ports.op = COS
  <2>1. output_element = x
    BY <1>9, CodesAre DEF output_element
  <2>2. R!SoftwareResult(ports.op, a, b) = r.x
    BY <1>4, <1>9, CodesAre, R!SoftwareResultIs
  <2> QED
    BY <1>1, <1>2, <2>1, <2>2 DEF Holds
<1>10. CASE ports.op = ATAN
  <2>1. output_element = z
    BY <1>10, CodesAre DEF output_element
  <2>2. R!SoftwareResult(ports.op, a, b) = r.z
    BY <1>5, <1>10, CodesAre, R!SoftwareResultIs
  <2> QED
    BY <1>1, <1>2, <2>1, <2>2 DEF Holds
<1>11. CASE ports.op = RECIPROCAL
  <2>1. output_element = z
    BY <1>11, CodesAre DEF output_element
  <2>2. R!SoftwareResult(ports.op, a, b) = r.z
    BY <1>7, <1>11, CodesAre, R!SoftwareResultIs
  <2> QED
    BY <1>1, <1>2, <2>1, <2>2 DEF Holds
<1>12. CASE ports.op = SQRT
  <2>1. output_element = Wrap16((CORDIC_1KP * x) \div MUL)
    BY <1>12, CodesAre DEF output_element
  <2>2. a \in 0 .. 2^15 - 1
    <3>1. ports.in0 \in Words /\ 2^15 = 32768
      BY <1>2 DEF TypeInv, IInv, AngleType, PortType
    <3> QED
      BY <1>12, <3>1, WordsAre DEF Signed
  <2>3. Signed(x) >= 0
    <3>1. RootRegister(a) >= 0
      BY <2>2 DEF RootsNotNegative
    <3>2. SW!cordic("VECTORING", "HYPERBOLIC",
                    SW!Short(a + 4096), SW!Short(a - 4096), 0) = r
      BY <1>6, <1>12, SameFunction
    <3> QED
      BY <1>1, <3>1, <3>2 DEF Holds, RootRegister
  <2>4. R!SoftwareResult(ports.op, a, b) =
          R!Short(R!Quotient(R!cordic_1Kp * r.x, R!MUL))
    BY <1>6, <1>12, CodesAre, R!SoftwareResultIs
  <2>5. r.x = Signed(x)
    BY <1>1 DEF Holds
  <2> QED
    BY <1>2, <2>1, <2>3, <2>4, <2>5, ScaledRoot, Wrap16Word
<1> QED
  BY <1>8, <1>9, <1>10, <1>11, <1>12 DEF Computed

\* The operations without an output deliver zero.
LEMMA DeliveredZero ==
  ASSUME ~Computed
  PROVE  output_element = 0
BY DEF Computed, output_element

\* The value the black box promises.
LEMMA PromisedValue ==
  ASSUME latched = ports
  PROVE  Unit!Output(Engine, ports.op) =
           IF ~Computed THEN 0
           ELSE IF ports.op = ATAN
                THEN Wrap16(SW!SoftwareResult(ATAN, Signed(ports.in0),
                                              Signed(ports.in1)))
                ELSE Wrap16(SW!SoftwareResult(ports.op, Signed(ports.in0), 0))
<1>1. Unit!Output(Engine, ports.op) =
        Unit!Result(ports.op, ports.in0, ports.in1)
  BY DEF Unit!Output, Engine
<1>2. CASE ports.op = ATAN
  BY <1>1, <1>2, CodesAre DEF Unit!Result, SoftwareAtan, Computed
<1>3. CASE ports.op \in {SIN, COS, SQRT, RECIPROCAL}
  BY <1>1, <1>3, CodesAre DEF Unit!Result, SoftwareUnary, Computed
<1>4. CASE ~Computed
  BY <1>1, <1>4, CodesAre DEF Unit!Result, Computed
<1> QED
  BY <1>2, <1>3, <1>4 DEF Computed

\* A result of one operand does not depend on a second.
LEMMA UnaryResult ==
  ASSUME NEW op \in {SIN, COS, SQRT, RECIPROCAL}, NEW a, NEW b
  PROVE  R!SoftwareResult(op, a, b) = R!SoftwareResult(op, a, 0)
BY CodesAre, R!SoftwareResultIs

\* For every operand of every operation the engine delivers the bits the C
\* program computes (of a root, for the arguments that are not negative).
\* TLC evaluates RootsNotNegative, which has no parameter and no variable.
THEOREM ResultsMatch ==
  ASSUME RootsNotNegative
  PROVE  Spec => []MatchesSoftware
<1>1. MatchInv => MatchesSoftware
  <2> SUFFICES ASSUME MatchInv
               PROVE  MatchesSoftware
    OBVIOUS
  <2>1. SUFFICES ASSUME state = "DONE",
                        ports.op = SQRT => Signed(ports.in0) >= 0
                 PROVE  output_element = Unit!Output(Engine, ports.op)
    BY DEF MatchesSoftware
  <2>2. latched = ports
    BY <2>1 DEF MatchInv, LockStep
  <2>3. CASE ~Computed
    BY <2>2, <2>3, DeliveredZero, PromisedValue
  <2>4. CASE Computed
    <3>1. /\ output_element \in Words
          /\ Signed(output_element) =
               R!SoftwareResult(ports.op, Signed(ports.in0), Signed(ports.in1))
      BY <2>1, <2>4, Delivered
    <3>2. Wrap16(Signed(output_element)) = output_element
      BY <3>1, SignedIsShort
    <3>3. CASE ports.op = ATAN
      BY <2>2, <2>4, <3>1, <3>2, <3>3, PromisedValue, SameFunction
    <3>4. CASE ports.op # ATAN
      <4>1. R!SoftwareResult(ports.op, Signed(ports.in0), Signed(ports.in1)) =
              R!SoftwareResult(ports.op, Signed(ports.in0), 0)
        BY <2>4, <3>4, UnaryResult DEF Computed
      <4> QED
        BY <2>2, <2>4, <3>1, <3>2, <3>4, <4>1, PromisedValue, SameFunction
    <3> QED
      BY <3>3, <3>4
  <2> QED
    BY <2>3, <2>4
<1> QED
  BY <1>1, LockStepInvariant, PTL

\* For every angle, every radicand and every divisor of the documented
\* ranges the engine delivers the value of the mathematical function.  TLC
\* evaluates the two hypotheses, facts of the C function alone.
THEOREM ResultsAccurate ==
  ASSUME RootsNotNegative, SoftwareAccurate
  PROVE  Spec => []Accurate
<1>1. MatchInv => Accurate
  <2> SUFFICES ASSUME MatchInv
               PROVE  Accurate
    OBVIOUS
  <2> DEFINE a == Signed(ports.in0)
             b == Signed(ports.in1)
  <2>1. SUFFICES ASSUME state = "DONE"
                 PROVE  /\ Rotation /\ a \in Angles =>
                             OnUnitCircle(Signed(x), Signed(y))
                        /\ ports.op = SQRT /\ a \in Radicands =>
                             IsRoot(Signed(output_element), a)
                        /\ ports.op = RECIPROCAL /\ a \in Divisors =>
                             IsReciprocal(Signed(output_element), a)
    BY DEF Accurate
  <2>2. TypeInv
    BY DEF MatchInv
  <2>3. ASSUME Rotation, a \in Angles
        PROVE  OnUnitCircle(Signed(x), Signed(y))
    <3> DEFINE r == R!cordic("ROTATION", "CIRCULAR", R!cordic_1K, 0, a)
    <3>1. Computed /\ ports.op \in {SIN, COS}
      BY <2>3 DEF Computed, Rotation
    <3>2. R!cordic(Direction, Mode, Signed(LoadX), Signed(LoadY),
                   Signed(LoadZ)) = r
      BY <2>2, <3>1, LoadsAreArguments
    <3>3. Holds(r)
      BY <2>1, <3>1, <3>2, RegistersReturned
    <3>4. SW!cordic("ROTATION", "CIRCULAR", CORDIC_1K, 0, a) = r
      BY SameFunction DEF CORDIC_1K, R!cordic_1K
    <3> HIDE DEF r
    <3>5. OnUnitCircle(r.x, r.y)
      BY <2>3, <3>4 DEF SoftwareAccurate
    <3> QED
      BY <3>3, <3>5 DEF Holds
  <2>4. ASSUME ports.op = SQRT, a \in Radicands
        PROVE  IsRoot(Signed(output_element), a)
    <3>1. a >= 0 /\ Computed
      BY <2>4 DEF Radicands, Computed
    <3>2. Signed(output_element) = R!SoftwareResult(ports.op, a, b)
      BY <2>1, <3>1, Delivered
    <3>3. R!SoftwareResult(ports.op, a, b) = SW!SoftwareResult(SQRT, a, 0)
      BY <2>4, UnaryResult, SameFunction
    <3> QED
      BY <2>4, <3>2, <3>3 DEF SoftwareAccurate
  <2>5. ASSUME ports.op = RECIPROCAL, a \in Divisors
        PROVE  IsReciprocal(Signed(output_element), a)
    <3>1. ports.op # SQRT /\ Computed
      BY <2>5, CodesAre DEF Computed
    <3>2. Signed(output_element) = R!SoftwareResult(ports.op, a, b)
      BY <2>1, <3>1, Delivered
    <3>3. R!SoftwareResult(ports.op, a, b) = SW!SoftwareResult(RECIPROCAL, a, 0)
      BY <2>5, UnaryResult, SameFunction
    <3> QED
      BY <2>5, <3>2, <3>3 DEF SoftwareAccurate
  <2> QED
    BY <2>3, <2>4, <2>5
<1> QED
  BY <1>1, LockStepInvariant, PTL

=============================================================================

---------------------------- MODULE CrocdicCordic ----------------------------
(***************************************************************************)
(* One CORDIC engine (crocdic_cordic.sv) to the bit: WIDTH = 16, ITER = 14,*)
(* one clock cycle per step.  It implements the black box CordicUnit whose *)
(* arithmetic is that of the C programs.                                   *)
(*                                                                         *)
(* The input ports are driven by the registers of crocdic_top, which hold  *)
(* them still from the cycle of the enable to that of done.                *)
(***************************************************************************)
EXTENDS UserPkg, Sequences

CONSTANT Inputs   \* values the ports may take, records of PortType

WIDTH == 16
ITER  == 14

Modulus   == 65536   \* 2^WIDTH
Words     == 0 .. Modulus - 1
Wrap16(v) == v % Modulus
Signed(v) == IF v >= 32768 THEN v - Modulus ELSE v
PortType  == [op : Operations, in0 : Words, in1 : Words]

ASSUME InputsAssumption == Inputs \subseteq PortType

VARIABLES
  state, count,   \* control
  x, y, z,        \* the iteration registers
  ports,          \* operation_i and the two input elements
  latched         \* history: ports when the registers were last loaded

vars == <<state, count, x, y, z, ports, latched>>

ResetPorts == [op |-> SIN, in0 |-> 0, in1 |-> 0]

CORDIC_1K  == 9949
CORDIC_1KP == 19783
MUL        == 16384

CORDIC_TAB ==
  [ HYPERBOLIC |->
      <<65535, 8999, 4184, 2058, 1025, 512, 256, 128, 64, 32, 16, 8, 4, 2>>,
    LINEAR |->
      <<16384, 8192, 4096, 2048, 1024, 512, 256, 128, 64, 32, 16, 8, 4, 2>>,
    CIRCULAR |->
      <<12867, 7596, 4013, 2037, 1022, 511, 255, 127, 63, 31, 15, 7, 3, 1>> ]

\* Seeded defect: no hyperbolic step is repeated.
HYP_STEPS_ONCE == <<1, 2, 3, 4, 5, 6, 7, 8, 9, 10, 11, 12, 13, 13, 13>>

HYP_STEPS == <<1, 2, 3, 4, 4, 5, 6, 7, 8, 9, 10, 11, 12, 13, 13>>

Mode ==
  CASE ports.op \in {SIN, COS, ATAN} -> "CIRCULAR"
    [] ports.op = SQRT               -> "HYPERBOLIC"
    [] OTHER                         -> "LINEAR"

Rotation == ports.op \in {SIN, COS}

kfinal == IF Mode = "HYPERBOLIC" THEN ITER + 1 ELSE ITER

\* INVERSE_SQRT and the unnamed codes load nothing.
LoadX ==
  CASE ports.op \in {SIN, COS}         -> CORDIC_1K
    [] ports.op \in {ATAN, RECIPROCAL} -> ports.in0
    [] ports.op = SQRT                 -> Wrap16(ports.in0 + 4096)
    [] OTHER                           -> x
LoadY ==
  CASE ports.op \in {SIN, COS} -> 0
    [] ports.op = ATAN         -> ports.in1
    [] ports.op = SQRT         -> Wrap16(ports.in0 - 4096)
    [] ports.op = RECIPROCAL   -> MUL
    [] OTHER                   -> y
LoadZ ==
  CASE ports.op \in {SIN, COS}               -> ports.in0
    [] ports.op \in {ATAN, SQRT, RECIPROCAL} -> 0
    [] OTHER                                 -> z

\* Seeded defect: the iteration counter is not cleared.
LoadKeepsCount(en) ==
  /\ state = "IDLE"
  /\ x' = LoadX /\ y' = LoadY /\ z' = LoadZ
  /\ latched' = ports
  /\ IF en
     THEN state' = "CALCULATE" /\ UNCHANGED ports
     ELSE /\ UNCHANGED state
          /\ \/ UNCHANGED ports
             \/ ports = ResetPorts /\ ports' \in Inputs
  /\ UNCHANGED count

\* Idle, the engine loads in every cycle; the inputs that count are those of
\* the cycle of the enable.  Without it the ports may change.
Load(en) ==
  /\ state = "IDLE"
  /\ count' = 0
  /\ x' = LoadX /\ y' = LoadY /\ z' = LoadZ
  /\ latched' = ports
  /\ IF en
     THEN state' = "CALCULATE" /\ UNCHANGED ports
     ELSE /\ UNCHANGED state
          /\ \/ UNCHANGED ports
             \/ ports = ResetPorts /\ ports' \in Inputs

kk    == IF Mode = "HYPERBOLIC" THEN HYP_STEPS[count + 1] ELSE count
sign  == IF (Rotation /\ Signed(z) >= 0) \/ (~Rotation /\ Signed(y) < 0)
         THEN 1 ELSE -1
\* Seeded defect: the shift of x is logical.
xbykLogical == x \div 2^kk

xbyk  == Signed(x) \div 2^kk
ybyk  == CASE Mode = "HYPERBOLIC" -> -(Signed(y) \div 2^kk)
           [] Mode = "LINEAR"     -> 0
           [] OTHER               -> Signed(y) \div 2^kk
\* Seeded defect: the table of the linear mode is read in every mode.
angleLinear == CORDIC_TAB["LINEAR"][kk + 1]

angle == CORDIC_TAB[Mode][kk + 1]

\* Seeded defect: z is not cut to the width of its register.
CalculateWide ==
  /\ state = "CALCULATE"
  /\ x' = Wrap16(x - sign * ybyk)
  /\ y' = Wrap16(y + sign * xbyk)
  /\ z' = z - sign * angle
  /\ IF count = kfinal - 1
     THEN state' = "DONE" /\ UNCHANGED count
     ELSE count' = count + 1 /\ UNCHANGED state
  /\ UNCHANGED <<ports, latched>>

Calculate ==
  /\ state = "CALCULATE"
  /\ x' = Wrap16(x - sign * ybyk)
  /\ y' = Wrap16(y + sign * xbyk)
  /\ z' = Wrap16(z - sign * angle)
  /\ IF count = kfinal - 1
     THEN state' = "DONE" /\ UNCHANGED count
     ELSE count' = count + 1 /\ UNCHANGED state
  /\ UNCHANGED <<ports, latched>>

\* Done for one cycle.  The top level takes the result into the register
\* that drives an input, so the ports change (here: return to rest).
Finish ==
  /\ state = "DONE"
  /\ state' = "IDLE"
  /\ ports' = ResetPorts
  /\ UNCHANGED <<count, x, y, z, latched>>

\* The root is scaled in 32 bits, unsigned.
output_element ==
  CASE ports.op = COS                  -> x
    [] ports.op = SIN                  -> y
    [] ports.op \in {ATAN, RECIPROCAL} -> z
    [] ports.op = SQRT                 -> Wrap16((CORDIC_1KP * x) \div MUL)
    [] OTHER                           -> 0

Init ==
  /\ state = "IDLE"
  /\ count = 0
  /\ x = 0 /\ y = 0 /\ z = 0
  /\ ports = ResetPorts
  /\ latched = ResetPorts

Next == Load(TRUE) \/ Load(FALSE) \/ Calculate \/ Finish

Spec == Init /\ [][Next]_vars

-----------------------------------------------------------------------------
(* Properties.                                                             *)

SW == INSTANCE CordicReference

SoftwareUnary(op, a) == Wrap16(SW!SoftwareResult(op, Signed(a), 0))
SoftwareAtan(a, b)   == Wrap16(SW!SoftwareResult(ATAN, Signed(a), Signed(b)))

Unit == INSTANCE CordicUnit WITH
  Data <- Words, Zero <- 0, NoData <- -1, NumWords <- 1,
  InitMem <- [h \in {0, 1} |-> 0], Unary <- SoftwareUnary, Atan <- SoftwareAtan

Engine == [ state |-> state, count |-> count, op |-> latched.op,
            in0 |-> latched.in0, in1 |-> latched.in1 ]

\* Registers keep their widths, and no table is read past its end.
TypeOK ==
  /\ state \in {"IDLE", "CALCULATE", "DONE"}
  /\ count \in 0 .. ITER
  /\ state = "CALCULATE" => count < kfinal
  /\ x \in Words /\ y \in Words /\ z \in Words
  /\ ports \in PortType /\ latched \in PortType

\* The control of the engine is that of the black box CrocdicTop is built
\* from: done comes ITER (SQRT: ITER + 1) cycles after the enable.
ImplementsUnit ==
  [][\E en \in BOOLEAN :
       Engine' = Unit!CordicNext(Engine, en, ports.op, ports.in0, ports.in1)]_vars

\* What every program of sw/ verifies for the array it holds: with done the
\* engine delivers the bits of the C function, wrapped intermediate values
\* included.  The root alone needs an argument that is not negative (its
\* last multiplication is unsigned in hardware and signed in C).
MatchesSoftware ==
  state = "DONE" /\ (ports.op = SQRT => Signed(ports.in0) >= 0) =>
    output_element = Unit!Output(Engine, ports.op)

\* Largest angle left over before each iteration, from half_pi: the tables
\* are truncated, so nine units remain after the last.
Residual ==
  <<25735, 12868, 7596, 4013, 2037, 1022, 511, 256, 129, 66, 35, 20, 13, 10, 9>>

Magnitude(v) == IF v < 0 THEN -v ELSE v

\* "Function is valid for arguments in range -pi/2 -- pi/2": the rotation
\* converges for all of them, the angle left over never exceeds Residual.
AngleConverges ==
  state # "IDLE" /\ Rotation /\ Magnitude(Signed(ports.in0)) <= SW!half_pi =>
    LET i == IF state = "DONE" THEN ITER ELSE count
    IN  Magnitude(Signed(z)) <= Residual[i + 1]

\* What a result is of the argument a, and the arguments it is promised for.
OnUnitCircle(c, s) == 1000 * Magnitude(c * c + s * s - 2^28) <= 2^28
IsRoot(r, a) ==
  (r - 14) * (r - 14) <= a * 2^14 /\ a * 2^14 <= (r + 14) * (r + 14)
IsReciprocal(r, a) == Magnitude(r * a - 2^28) <= 13 * a

Angles    == -SW!half_pi .. SW!half_pi
Radicands == 500 .. 2^15 - 4097
Divisors  == 2^13 + 1 .. 2^15 - 1

\* The results are those of the mathematical functions: sine and cosine lie
\* on the unit circle to one part in a thousand, a root of 500 or more (and
\* small enough for 4096 to be added) is off by at most 14 units, and a
\* reciprocal whose result can be represented by at most 13.
Accurate ==
  LET a == Signed(ports.in0)
      r == Signed(output_element)
  IN  state = "DONE" =>
      /\ Rotation /\ a \in Angles => OnUnitCircle(Signed(x), Signed(y))
      /\ ports.op = SQRT /\ a \in Radicands => IsRoot(r, a)
      /\ ports.op = RECIPROCAL /\ a \in Divisors => IsReciprocal(r, a)

-----------------------------------------------------------------------------
(* Facts of the C function alone, over the whole range of its arguments:   *)
(* constant formulas, which TLC evaluates.                                 *)

\* The register a root is scaled from is not negative for any argument that
\* is not, so that scaling it unsigned (hardware) or signed (C) is the same.
RootRegister(a) ==
  SW!cordic("VECTORING", "HYPERBOLIC",
            SW!Short(a + 4096), SW!Short(a - 4096), 0).x
RootsNotNegative == \A a \in 0 .. 2^15 - 1 : RootRegister(a) >= 0

\* Every result of the C programs is that of the mathematical function.
SoftwareAccurate ==
  /\ \A a \in Angles :
       LET r == SW!cordic("ROTATION", "CIRCULAR", CORDIC_1K, 0, a)
       IN  OnUnitCircle(r.x, r.y)
  /\ \A a \in Radicands : IsRoot(SW!SoftwareResult(SQRT, a, 0), a)
  /\ \A a \in Divisors : IsReciprocal(SW!SoftwareResult(RECIPROCAL, a, 0), a)

=============================================================================

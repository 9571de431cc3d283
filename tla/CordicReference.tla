--------------------------- MODULE CordicReference ---------------------------
(***************************************************************************)
(* The software CORDIC the accelerator is compared with by the programs of *)
(* sw/: the C function cordic() on sixteen-bit shorts, and the result each *)
(* program computes from it.                                               *)
(***************************************************************************)
EXTENDS UserPkg, Sequences

\* Conversion of an int to a short.
Short(v) == ((v + 2^15) % 2^16) - 2^15
Shorts   == -(2^15) .. 2^15 - 1

cordic_1K   == 9949
cordic_1Kp  == 19783
MUL         == 16384
half_pi     == 25735
CORDIC_NTAB == 14

cordic_tab ==
  [ HYPERBOLIC |->
      <<-1, 8999, 4184, 2058, 1025, 512, 256, 128, 64, 32, 16, 8, 4, 2>>,
    LINEAR |->
      <<16384, 8192, 4096, 2048, 1024, 512, 256, 128, 64, 32, 16, 8, 4, 2>>,
    CIRCULAR |->
      <<12867, 7596, 4013, 2037, 1022, 511, 255, 127, 63, 31, 15, 7, 3, 1>> ]

cordic_hyp_steps == <<1, 2, 3, 4, 4, 5, 6, 7, 8, 9, 10, 11, 12, 13, 13>>

\* kfinal of cordic().
turns(mode) ==
  IF mode = "HYPERBOLIC" THEN CORDIC_NTAB + 1 ELSE CORDIC_NTAB

\* Turn k of the loop of cordic(), from registers r.
rotation(direction, mode, k, r) ==
  LET kk   == IF mode = "HYPERBOLIC" THEN cordic_hyp_steps[k] ELSE k - 1
      sign == IF (direction = "ROTATION" /\ r.z >= 0)
                 \/ (direction = "VECTORING" /\ r.y < 0)
              THEN 1 ELSE -1
      ybyk == CASE mode = "CIRCULAR"   -> r.y \div 2^kk
                [] mode = "LINEAR"     -> 0
                [] mode = "HYPERBOLIC" -> -(r.y \div 2^kk)
  IN  [ x |-> Short(r.x - sign * ybyk),
        y |-> Short(r.y + sign * (r.x \div 2^kk)),
        z |-> Short(r.z - sign * cordic_tab[mode][kk + 1]) ]

\* The registers before the loop and after each of its turns.
rotations(direction, mode, xin, yin, zin) ==
  LET after[k \in 0 .. turns(mode)] ==
        IF k = 0 THEN [x |-> xin, y |-> yin, z |-> zin]
        ELSE rotation(direction, mode, k, after[k - 1])
  IN  after

\* cordic(): the registers it returns.
cordic(direction, mode, xin, yin, zin) ==
  rotations(direction, mode, xin, yin, zin)[turns(mode)]

\* Division of C ints, towards zero.
Quotient(a, b) == IF a >= 0 THEN a \div b ELSE -((-a) \div b)

\* destination_array_SW[i] of the program for each operation.
SoftwareResult(op, x, y) ==
  CASE op = SIN  -> cordic("ROTATION", "CIRCULAR", cordic_1K, 0, x).y
    [] op = COS  -> cordic("ROTATION", "CIRCULAR", cordic_1K, 0, x).x
    [] op = ATAN -> cordic("VECTORING", "CIRCULAR", x, y, 0).z
    [] op = SQRT ->
         LET r == cordic("VECTORING", "HYPERBOLIC",
                         Short(x + 4096), Short(x - 4096), 0)
         IN  Short(Quotient(cordic_1Kp * r.x, MUL))
    [] op = RECIPROCAL -> cordic("VECTORING", "LINEAR", x, MUL, 0).z

=============================================================================

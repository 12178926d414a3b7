-------------------------------- MODULE Math32 --------------------------------
(***************************************************************************)
(* The int32 helpers of pkg/math32.  The Go code computes quotients in     *)
(* float64 and converts the rounded result to int32; here a quotient is    *)
(* the pair p, q of its numerator and denominator and is rounded exactly.  *)
(* The conversion of a float64 that no int32 represents is left to the     *)
(* platform by the Go specification, and the controller image is built for *)
(* amd64 (every such value becomes the least int32) and for arm64 (a NaN   *)
(* becomes 0 and a large value the greatest int32).                        *)
(***************************************************************************)
EXTENDS Integers

CONSTANTS
    Int32Max,    \* the greatest int32: 2^31 - 1, smaller in the models
    NaN32,       \* int32(NaN) on the platform
    Overflow32   \* int32(f) for an f above Int32Max on the platform

Int32Min == -Int32Max - 1

ASSUME Int32Assumption ==
    /\ Int32Max \in Nat \ {0}
    /\ \/ NaN32 = -Int32Max - 1 /\ Overflow32 = -Int32Max - 1    \* amd64
       \/ NaN32 = 0 /\ Overflow32 = Int32Max                     \* arm64

Max32(x, y) == IF x < y THEN y ELSE x

Min32(x, y) == IF x > y THEN y ELSE x

Cap(x, a, b) == Max32(a, Min32(x, b))

\* The int32 conversion of an integral float64 that is not negative.
ToInt32(x) == IF x > Int32Max THEN Overflow32 ELSE x

\* Rounding p / q (p, q >= 0) down or up and converting: 0/0 is NaN, p/0 is +Inf.
Floor32(p, q) ==
    IF q = 0 THEN (IF p = 0 THEN NaN32 ELSE Overflow32) ELSE ToInt32(p \div q)

Ceil32(p, q) ==
    IF q = 0 THEN (IF p = 0 THEN NaN32 ELSE Overflow32)
             ELSE ToInt32((p + q - 1) \div q)

\* math.Mod keeps the sign of the dividend.
Mod32(x, y) == IF x >= 0 THEN x % y ELSE -((-x) % y)

\* int32 addition wraps around.
Add32(x, y) ==
    IF x + y > Int32Max THEN x + y - 2 * (Int32Max + 1) ELSE x + y
================================================================================

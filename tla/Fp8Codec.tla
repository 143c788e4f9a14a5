------------------------------ MODULE Fp8Codec ------------------------------
(***************************************************************************)
(* The FP8 numbers of the compiler's reference simulator: a byte read as   *)
(* a number, and a number written as a byte (compiler/titan_compiler.py).  *)
(***************************************************************************)
EXTENDS Integers

\* fp8_to_float, in units of 2^-9: E4M3, no infinities.  NaN has no number.
FP8_NAN == 127
fp8_to_float(b) ==
    LET e == (b \div 8) % 16
        m == b % 8
        a == IF e = 0 THEN m ELSE (8 + m) * 2 ^ (e - 1)
    IN  IF b >= 128 THEN -a ELSE a

\* Mutant: int() for round().
Truncated(n, shift) == n \div 2 ^ shift

\* round(n / 2^shift) of Python
Nearest(n, shift) ==
    LET q == n \div 2 ^ shift
        rem == n % 2 ^ shift
    IN  IF 2 * rem > 2 ^ shift \/ (2 * rem = 2 ^ shift /\ q % 2 = 1) THEN q + 1 ELSE q

\* 448.0, the largest number, in units of 2^-12.
FP8_LARGEST == 448 * 4096

\* float_to_fp8 of x * 2^-12: ties to even, saturated at 448, and zero below 2^-9.
float_to_fp8(x) ==
    LET sign == IF x < 0 THEN 128 ELSE 0
        a == LET y == IF x < 0 THEN -x ELSE x IN IF y > FP8_LARGEST THEN FP8_LARGEST ELSE y
        e == (CHOOSE k \in 3..20 : 2 ^ k <= a /\ a < 2 ^ (k + 1)) - 12
        m == Nearest(a, e + 9) - 8
        e1 == IF m = 8 THEN e + 1 ELSE e
        m1 == IF m = 8 THEN 0 ELSE m
    IN  CASE a < 8 -> sign
          [] a >= 8 /\ e < -6 -> sign + Nearest(a, 3)       \* 8 is the first normal
          [] OTHER -> IF e1 > 8 \/ (e1 = 8 /\ m1 = 7) THEN sign + 126
                      ELSE sign + (e1 + 7) * 8 + m1
=============================================================================

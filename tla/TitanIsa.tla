------------------------------- MODULE TitanIsa -------------------------------
(***************************************************************************)
(* The instruction words of Titan ISA v2 and the arithmetic of one thread, *)
(* as compiler/titan_compiler.py encodes and interprets them.              *)
(*                                                                         *)
(* A word is a record of its fields.  The fields rs2 and rs3 of the        *)
(* register form are the two halves of imm12, as in the encoding, so that  *)
(* one form read as the other gives what the decoder would see.  Data      *)
(* words have W bits instead of 32; every other width is the program's.    *)
(***************************************************************************)
EXTENDS Integers, Sequences, Bitwise

CONSTANTS
    W,              \* bits of a data word (32 in the program)
    WMMA_TILE       \* rows, columns and depth of a WMMA tile (16 in the program)

ASSUME WidthAssumption == W \in 25..30 /\ W % 2 = 0
ASSUME TileAssumption == WMMA_TILE \in Nat \ {0}

-----------------------------------------------------------------------------
(* Registers, immediates, comparison codes. *)

R_ZERO == 0
R_PARAM == 1
R_LDA == 58
R_LDB == 59
R_LDC == 60
R_POOL == [i \in 1..56 |-> i + 1]       \* R2 .. R57, in allocation order

IMM_MAX == 4095                          \* imm12
EXIT_IMM == 4095
WMMA_FLAG_FP8 == 1

CMP_EQ == 0
CMP_NE == 1
CMP_LT == 2
CMP_GE == 3
CMP_LTU == 4
CMP_GEU == 5

\* The two instruction forms.  A register form stores rs2 and rs3 in the bits that
\* hold imm12 in the other.
enc_r(op, rd, rs1, rs2, rs3, pred) ==
    [op |-> op, rd |-> rd % 64, rs1 |-> rs1 % 64, imm |-> (rs2 % 64) * 64 + (rs3 % 64),
     pred |-> pred % 4, uimm |-> FALSE]

enc_i(op, rd, rs1, imm, pred) ==
    [op |-> op, rd |-> rd % 64, rs1 |-> rs1 % 64, imm |-> imm, pred |-> pred % 4, uimm |-> TRUE]

rs2(w) == w.imm \div 64
rs3(w) == w.imm % 64

-----------------------------------------------------------------------------
(* Data words: non-negative integers below 2^W. *)

ModW == 2 ^ W
HalfW == 2 ^ (W \div 2)

\* v & 0xFFFFFFFF
Word(v) == v % ModW

\* s32: the signed reading of a word.
s32(v) == LET w == Word(v) IN IF w >= ModW \div 2 THEN w - ModW ELSE w

\* The product of two words modulo 2^W: the high halves only reach the low word
\* through the cross terms.
MulWord(a, b) ==
    LET a1 == a \div HalfW
        a0 == a % HalfW
        b1 == b \div HalfW
        b0 == b % HalfW
        cross == (a1 * b0 + a0 * b1) % HalfW
    IN  Word(cross * HalfW + a0 * b0)

\* int(a / b) of Python: the quotient towards zero; all ones for a zero divisor.
Magnitude(v) == IF v < 0 THEN -v ELSE v

DivWord(a, b) ==
    LET x == s32(a)
        y == s32(b)
        q == Magnitude(x) \div Magnitude(y)
    IN  IF y = 0 THEN ModW - 1
        ELSE Word(IF (x < 0) = (y < 0) THEN q ELSE -q)

\* Shift counts are taken modulo the word width.
ShlWord(a, b) == LET n == b % W IN (a % 2 ^ (W - n)) * 2 ^ n
ShrWord(a, b) == a \div 2 ^ (b % W)
SraWord(a, b) == Word(s32(a) \div 2 ^ (b % W))

AluOps == {"ADD", "SUB", "MUL", "DIV", "AND", "OR", "XOR", "SHL", "SHR", "SRA"}

\* What an integer instruction writes to rd.
Alu(op, a, b) ==
    CASE op = "ADD" -> Word(a + b)
      [] op = "SUB" -> Word(a - b)
      [] op = "MUL" -> MulWord(a, b)
      [] op = "DIV" -> DivWord(a, b)
      [] op = "AND" -> a & b
      [] op = "OR" -> a | b
      [] op = "XOR" -> a ^^ b
      [] op = "SHL" -> ShlWord(a, b)
      [] op = "SHR" -> ShrWord(a, b)
      [] op = "SRA" -> SraWord(a, b)

\* The verdict of SETP under condition code cond.
Compare(cond, a, b) ==
    CASE cond = CMP_EQ -> a = b
      [] cond = CMP_NE -> a # b
      [] cond = CMP_LT -> s32(a) < s32(b)
      [] cond = CMP_GE -> s32(a) >= s32(b)
      [] cond = CMP_LTU -> a < b
      [] cond = CMP_GEU -> a >= b
=============================================================================

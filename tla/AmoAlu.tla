------------------------------- MODULE AmoAlu -------------------------------
(***************************************************************************)
(* The amo_alu of hardware/src/tcdm_adapter.sv on words of W bits (32 in   *)
(* the hardware), and the RISC-V definition of the operations it computes. *)
(* X is a word of unknown value; it spreads as in a Verilog simulation.    *)
(***************************************************************************)
EXTENDS Integers, Bitwise

CONSTANTS W, X

Words == 0 .. 2^W - 1

Signed(x) == IF x >= 2^(W - 1) THEN x - 2^W ELSE x

ExtendZero(op, x) == x                      \* mutant: signed comparisons zero-extend

(* An operand widened to W+1 bits, unsigned for the unsigned comparisons.  *)
Extend(op, x) == (IF op \in {"AMOMaxu", "AMOMinu"} THEN x ELSE Signed(x)) % 2^(W + 1)

(* One adder of W+2 bits serves the sum and the four comparisons: bit W of *)
(* a + (-b), with a and b extended to W+1 bits, says whether a < b.        *)
AmoAlu(op, a, b) ==
  LET neg(x) == (2^(W + 1) - Extend(op, x)) % 2^(W + 1)
      sum == (Extend(op, a) + (IF op = "AMOAdd" THEN Extend(op, b) ELSE neg(b))) % 2^(W + 2)
      less == (sum \div 2^W) % 2 = 1
  IN  IF op = "AMOSwap" THEN b
      ELSE IF a = X THEN X
      ELSE CASE op = "AMOAdd" -> sum % 2^W
             [] op = "AMOAnd" -> a & b
             [] op = "AMOOr"  -> a | b
             [] op = "AMOXor" -> a ^^ b
             [] op \in {"AMOMax", "AMOMaxu"} -> IF less THEN b ELSE a
             [] op \in {"AMOMin", "AMOMinu"} -> IF less THEN a ELSE b
             [] OTHER -> 0

(* The RISC-V A extension's definition of the same operations.             *)
AmoReference(op, a, b) ==
  LET bit(x, i) == (x \div 2^i) % 2
      Bits(f(_, _)) == CHOOSE x \in Words :
                         \A i \in 0 .. W - 1 : bit(x, i) = f(bit(a, i), bit(b, i))
      Pick(x, y, test) == IF test THEN x ELSE y
  IN  IF op = "AMOSwap" THEN b
      ELSE IF a = X THEN X
      ELSE CASE op = "AMOAdd"  -> (a + b) % 2^W
             [] op = "AMOAnd"  -> Bits(LAMBDA x, y : x * y)
             [] op = "AMOOr"   -> Bits(LAMBDA x, y : x + y - x * y)
             [] op = "AMOXor"  -> Bits(LAMBDA x, y : (x + y) % 2)
             [] op = "AMOMax"  -> Pick(a, b, Signed(a) >= Signed(b))
             [] op = "AMOMin"  -> Pick(a, b, Signed(a) <= Signed(b))
             [] op = "AMOMaxu" -> Pick(a, b, a >= b)
             [] op = "AMOMinu" -> Pick(a, b, a <= b)

(* Byte-enable write: "low" enables only the low half of the word.         *)
MergeBytes(old, new, be) ==
  CASE be = "full" -> new
    [] old = X     -> X
    [] OTHER       -> (old \div 2^(W \div 2)) * 2^(W \div 2) + (new % 2^(W \div 2))
==============================================================================

------------------------------- MODULE Numbers -------------------------------
(***************************************************************************)
(* Rust's primitive numbers on the JVM: how each is carried in a JVM local, *)
(* and what the instructions that translator.rs and helpers.rs emit for an  *)
(* OOMIR operation make of it.  A Rust u8 is carried sign-extended in a     *)
(* byte, u16 in a char, u32 in an int and u64 in a long.                    *)
(*                                                                          *)
(* A byte has ByteBits bits and the widths keep their ratio of 1, 2, 4 and  *)
(* 8 bytes.  A float is a whole number or NaN: its rounding is left out.    *)
(***************************************************************************)
EXTENDS Integers, Sequences, FiniteSets, Bitwise, Folding

CONSTANT ByteBits

ASSUME ByteBitsAssumption == ByteBits \in {2, 4, 8}

SignedTypes   == {"I8", "I16", "I32", "I64"}
UnsignedTypes == {"U8", "U16", "U32", "U64"}
IntTypes      == SignedTypes \cup UnsignedTypes
FloatTypes    == {"F32", "F64"}

Bytes == [I8 |-> 1, U8 |-> 1, Boolean |-> 1, I16 |-> 2, U16 |-> 2,
          I32 |-> 4, U32 |-> 4, F32 |-> 4, I64 |-> 8, U64 |-> 8, F64 |-> 8]

Bits(w)        == w * ByteBits
Unsigned(n, w) == n % 2^Bits(w)
Half(w)        == 2^(Bits(w) - 1)
Signed(n, w)   == Unsigned(n + Half(w), w) - Half(w)

NaN == 2^(10 * ByteBits)

(***************************************************************************)
(* What Rust means: the reference the translation is held to.              *)
(***************************************************************************)

Least(ty)    == IF ty \in SignedTypes THEN -(2^(Bits(Bytes[ty]) - 1)) ELSE 0
Greatest(ty) == 2^(Bits(Bytes[ty]) - IF ty \in SignedTypes THEN 1 ELSE 0) - 1

RustWrap(ty, n) ==
    IF ty \in SignedTypes THEN Signed(n, Bytes[ty]) ELSE Unsigned(n, Bytes[ty])

Truncated(x, y) ==
    LET q == (IF x < 0 THEN -x ELSE x) \div (IF y < 0 THEN -y ELSE y)
    IN  IF (x < 0) = (y < 0) THEN q ELSE -q

\* The product before wrapping; both factors are brought near zero, for TLC's sake.
RustProduct(ty, x, y) ==
    RustWrap(ty, Signed(x, Bytes[ty]) * Signed(y, Bytes[ty]))

RustOp(op, ty, x, y) ==
    LET a == Unsigned(x, Bytes[ty])
        b == Unsigned(y, Bytes[ty])
    IN  CASE op = "add" -> RustWrap(ty, x + y)
          [] op = "sub" -> RustWrap(ty, x - y)
          [] op = "mul" -> RustProduct(ty, x, y)
          [] op = "div" -> Truncated(x, y)
          [] op = "rem" -> x - y * Truncated(x, y)
          [] op = "and" -> RustWrap(ty, a & b)
          [] op = "or"  -> RustWrap(ty, a | b)
          [] op = "xor" -> RustWrap(ty, a ^^ b)

RustShift(op, ty, x, distance) ==
    LET d == distance % Bits(Bytes[ty])
    IN  IF op = "shl" THEN RustWrap(ty, Signed(x, Bytes[ty]) * 2^d) ELSE x \div 2^d

RustOverflows(op, ty, x, y) ==
    CASE op = "add" -> x + y \notin Least(ty) .. Greatest(ty)
      [] op = "sub" -> x - y \notin Least(ty) .. Greatest(ty)
      [] op = "mul" -> IF ty \in SignedTypes THEN x * y \notin Least(ty) .. Greatest(ty)
                       ELSE x # 0 /\ y > Greatest(ty) \div x

RustCompare(op, x, y) ==
    CASE op = "eq" -> x = y /\ x # NaN
      [] op = "ne" -> x # y \/ x = NaN
      [] OTHER -> /\ NaN \notin {x, y}
                  /\ CASE op = "lt" -> x < y
                       [] op = "le" -> x <= y
                       [] op = "gt" -> x > y
                       [] op = "ge" -> x >= y

Clamped(ty, n) ==
    IF n < Least(ty) THEN Least(ty) ELSE IF n > Greatest(ty) THEN Greatest(ty) ELSE n

RustCast(src, dest, x) ==
    CASE dest \in FloatTypes \/ dest = "Boolean" -> x
      [] dest \in IntTypes /\ src \in FloatTypes -> IF x = NaN THEN 0 ELSE Clamped(dest, x)
      [] OTHER -> RustWrap(dest, x)

\* The JVM value that stands for the Rust value x of type ty.
Carrier(ty, x) ==
    IF ty \in IntTypes \ {"U16"} THEN Signed(x, Bytes[ty]) ELSE x

(***************************************************************************)
(* The JVM's instructions, at w = 4 bytes for an int and 8 for a long.      *)
(***************************************************************************)

JvmWidth(ty) == IF ty \in {"I64", "U64"} THEN 8 ELSE 4

I2b(n) == Signed(n, 1)
I2s(n) == Signed(n, 2)
I2c(n) == Unsigned(n, 2)
L2i(n) == Signed(n, 4)
Mask8(n) == Unsigned(n, 1)

JvmOp(op, w, a, b) ==
    CASE op = "add" -> Signed(a + b, w)
      [] op = "sub" -> Signed(a - b, w)
      [] op = "mul" -> Signed(a * b, w)
      [] op = "div" -> Signed(Truncated(a, b), w)
      [] op = "rem" -> a - b * Truncated(a, b)
      [] op = "and" -> Signed(Unsigned(a, w) & Unsigned(b, w), w)
      [] op = "or"  -> Signed(Unsigned(a, w) | Unsigned(b, w), w)
      [] op = "xor" -> Signed(Unsigned(a, w) ^^ Unsigned(b, w), w)
      [] op = "shl" -> Signed(a * 2^b, w)
      [] op = "shr" -> a \div 2^b
      [] op = "ushr" -> Signed(Unsigned(a, w) \div 2^b, w)

\* Integer.divideUnsigned and its siblings.
UnsignedCall(op, w, a, b) ==
    LET x == Unsigned(a, w)
        y == Unsigned(b, w)
    IN  Signed(IF op = "div" THEN x \div y ELSE x % y, w)

Sign(n) == IF n < 0 THEN -1 ELSE IF n > 0 THEN 1 ELSE 0
CompareUnsigned(w, a, b) == Sign(Unsigned(a, w) - Unsigned(b, w))
Fcmp(nan, a, b) == IF NaN \in {a, b} THEN nan ELSE Sign(a - b)

Tests(op, n, m) ==
    CASE op = "eq" -> n = m [] op = "ne" -> n # m [] op = "lt" -> n < m
      [] op = "le" -> n <= m [] op = "gt" -> n > m [] op = "ge" -> n >= m

(***************************************************************************)
(* The translation.                                                        *)
(***************************************************************************)

normalize_integer_result(ty, n) ==
    CASE ty \in {"I8", "U8"} -> I2b(n)
      [] ty = "I16" -> I2s(n)
      [] ty = "U16" -> I2c(n)
      [] OTHER -> n

translate_binary_op(op, ty, a, b) ==
    normalize_integer_result(ty, JvmOp(op, JvmWidth(ty), a, b))

translate_unsigned_div_rem(op, ty, a, b) ==
    CASE ty = "U8"  -> normalize_integer_result(ty, JvmOp(op, 4, Mask8(a), Mask8(b)))
      [] ty = "U16" -> normalize_integer_result(ty, JvmOp(op, 4, a, b))
      [] OTHER -> UnsignedCall(op, JvmWidth(ty), a, b)

\* Unsigned quotients and remainders go their own way.
TranslateArithmetic(op, ty, a, b) ==
    IF op \in {"div", "rem"} /\ ty \in UnsignedTypes
    THEN translate_unsigned_div_rem(op, ty, a, b)
    ELSE translate_binary_op(op, ty, a, b)

TranslateBitwise(op, ty, a, b) == translate_binary_op(op, ty, a, b)

TranslateOp(op, ty, a, b) ==
    IF op \in {"and", "or", "xor"} THEN TranslateBitwise(op, ty, a, b) ELSE TranslateArithmetic(op, ty, a, b)

\* A distance is an int, cut from a long.
load_jvm_int_operand(ty, n) == IF JvmWidth(ty) = 8 THEN L2i(n) ELSE n

translate_primitive_shift(op, ty, a, dty, d) ==
    normalize_integer_result(ty,
        JvmOp(IF op = "shr" /\ ty \in UnsignedTypes THEN "ushr" ELSE op, JvmWidth(ty),
              IF op = "shr" /\ ty = "U8" THEN Mask8(a) ELSE a,
              load_jvm_int_operand(dty, d) % Bits(Bytes[ty])))

\* Both operands have the type ty, as MIR requires; the answer is 1 or 0.
CompareUnsignedTypes(op, ty, a, b) ==
    CASE ty = "U8" -> Tests(op, Mask8(a), Mask8(b))
      [] ty = "U16" -> Tests(op, a, b)
      [] OTHER -> Tests(op, CompareUnsigned(JvmWidth(ty), a, b), 0)

CompareFloats(op, a, b) ==
    Tests(op, Fcmp(IF op \in {"lt", "le"} THEN 1 ELSE -1, a, b), 0)

CompareOp(op, ty, a, b) ==
    IF CASE ty \in UnsignedTypes -> CompareUnsignedTypes(op, ty, a, b)
         [] ty \in FloatTypes -> CompareFloats(op, a, b)
         [] OTHER -> Tests(op, a, b)
    THEN 1 ELSE 0

TranslateNot(ty, a) ==
    IF ty = "Boolean" THEN JvmOp("xor", 4, a, 1)
    ELSE normalize_integer_result(ty, JvmOp("xor", JvmWidth(ty), a, -1))

TranslateNeg(ty, a) ==
    IF ty \in FloatTypes THEN IF a = NaN THEN NaN ELSE -a
    ELSE normalize_integer_result(ty, Signed(-a, JvmWidth(ty)))

\* F2i, D2l and the runtime's f32ToU8 and its siblings: they saturate.
FloatToInt(dest, n) == Carrier(dest, IF n = NaN THEN 0 ELSE Clamped(dest, n))

IntToFloat(src, n) ==
    CASE src \in {"U32", "U64"} -> Unsigned(n, Bytes[src])
      [] src = "U8" -> Mask8(n)
      [] OTHER -> n

narrow(dest, n) == normalize_integer_result(dest, n)

IntToInt(src, dest, n) ==
    IF Bytes[dest] <= 4
    THEN narrow(dest, CASE Bytes[src] = 8 -> L2i(n)
                        [] src = "U8" /\ Bytes[dest] > 1 -> Mask8(n)
                        [] OTHER -> n)
    ELSE CASE src = "U8"  -> Mask8(n)
           [] src = "U32" -> Unsigned(n, 4)
           [] OTHER -> n

primitive_to_primitive(src, dest, n) ==
    CASE src \in FloatTypes /\ dest \in FloatTypes -> n
      [] src \in FloatTypes -> FloatToInt(dest, n)
      [] dest \in FloatTypes -> IntToFloat(src, n)
      [] OTHER -> IntToInt(src, dest, n)

\* Types with the same JVM descriptor share their carrier: no cast is emitted.
SameDescriptor(src, dest) ==
    \/ src = dest
    \/ {src, dest} \in {{"I8", "U8"}, {"I32", "U32"}, {"I64", "U64"}}

load_operand_as(src, dest, n) ==
    IF SameDescriptor(src, dest) THEN n ELSE primitive_to_primitive(src, dest, n)

\* A constant from its unsigned bits, as mir_int_to_oomir_const and load_constant make it.
load_constant(ty, bits) ==
    CASE ty = "Boolean" -> IF bits # 0 THEN 1 ELSE 0
      [] ty = "U16" -> Unsigned(bits, 2)
      [] OTHER -> Signed(bits, Bytes[ty])

\* The target a switch on a value of type ty takes: one of `cases`, or none.
SwitchTarget(ty, n, cases) ==
    LET hits == {c \in cases : load_constant(ty, c) = n}
    IN  IF hits = {} THEN <<>> ELSE <<CHOOSE c \in hits : TRUE>>

(***************************************************************************)
(* Checked arithmetic: the generated RustcCodegenJVMIntrinsics methods.     *)
(***************************************************************************)

Holds(op, ty, a, b) == CompareOp(op, ty, a, b) = 1

CheckedSum(op, ty, a, b, result) ==
    IF ty \in UnsignedTypes
    THEN IF op = "add" THEN Holds("lt", ty, result, a) ELSE Holds("lt", ty, a, b)
    ELSE LET left  == TranslateOp("xor", ty, a, IF op = "add" THEN result ELSE b)
             right == TranslateOp("xor", ty, IF op = "add" THEN b ELSE a, result)
         IN  Holds("lt", ty, TranslateOp("and", ty, left, right), 0)

\* Mutant: the product's check forgets that MIN / -1 wraps.
MCheckedProduct(ty, a, b, result) ==
    /\ a # 0 /\ b # 0
    /\ Holds("ne", ty, TranslateOp("div", ty, result, b), a)

CheckedProduct(ty, a, b, result) ==
    /\ a # 0 /\ b # 0
    /\ \/ Holds("ne", ty, TranslateOp("div", ty, result, b), a)
       \/ ty \in {"I32", "I64"} /\ a = Least(ty) /\ b = -1

\* The pair the intrinsic returns.
emit_checked_arithmetic_intrinsic(op, ty, a, b) ==
    LET result == TranslateOp(op, ty, a, b)
    IN  [result |-> result,
         overflow |-> IF op = "mul" THEN CheckedProduct(ty, a, b, result)
                      ELSE CheckedSum(op, ty, a, b, result)]

\* Ord::cmp as a number: greater minus less.
TranslateCmp(ty, a, b) ==
    LET asInt(op) == load_operand_as("Boolean", "I32", CompareOp(op, ty, a, b))
    IN  TranslateOp("sub", "I32", asInt("gt"), asInt("lt"))
=============================================================================

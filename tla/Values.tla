------------------------------- MODULE Values --------------------------------
(***************************************************************************)
(* The life of one Rust value in the compiled program: it begins as a       *)
(* constant, and the rvalues of the program compute with it, cast it, store *)
(* it in unions, read it back and transmute it.                             *)
(*                                                                          *)
(* Beside the JVM's value the model keeps `mem`, the bytes Rust says the    *)
(* value has, computed from Rust's rules alone.  A byte that Rust leaves     *)
(* open, padding say, is Uninit; what Rust makes undefined is not done.     *)
(***************************************************************************)
EXTENDS Constants

CONSTANTS Samples,      \* the constants: [ty, id], an allocation that holds a ty at offset 0
          Built,        \* values the program assembles: [ty, jvm, mem]
          ScalarAbi,    \* the types that rustc passes as one scalar
          TransmuteTargets,
          MaxSteps

VARIABLES it,           \* the value: [ty, jvm, mem]
          answer,       \* what the last question was answered, and the truth
          lossy,        \* it began as a union constant that kept only one field
          steps

vars == <<it, answer, lossy, steps>>

(***************************************************************************)
(* What Rust says the bytes mean.                                           *)
(***************************************************************************)

Part(mem, at, size) == SubSeq(mem, at + 1, at + size)
Defined(mem) == \A n \in DOMAIN mem : mem[n] # Uninit

BytesOf(n, size) == [k \in 1 .. size |-> Unsigned(n \div 2^Bits(k - 1), 1)]

RustNumber(num, mem) ==
    IF num \in FloatTypes THEN FloatFromBits(num, Signed(NumberIn(mem), Bytes[num]))
    ELSE RustWrap(num, NumberIn(mem))

RustVariant(ty, mem) ==
    LET tag == Tag(ty)
        size == IF tag.size > 8 THEN 8 ELSE tag.size
        high(d) == [n \in 1 .. tag.size - size |-> IF d < 0 THEN 2^ByteBits - 1 ELSE 0]
        Has(d, held, number) == Unsigned(d, size) = number /\ Part(held, size, tag.size - size) = high(d)
        Some(direct) == IF direct = {} THEN 0 ELSE CHOOSE v \in direct : TRUE
        Niche(relative) == IF relative <= tag.last - tag.first THEN tag.first + relative ELSE tag.untagged
        Named(held, number) ==
            IF tag.how = "niche" THEN Niche(Unsigned(number - tag.start, size))
            ELSE Some({v \in DOMAIN Layout[ty].variants : Has(Layout[ty].discriminants[v], held, number)})
        Tagged(held) == IF Defined(held) THEN Named(held, NumberIn(Part(held, 0, size))) ELSE 0
    IN  IF tag.how = "single" THEN tag.variant ELSE Tagged(Part(mem, tag.at, tag.size))

RustState(ty, mem) == NumberIn(Part(mem, Layout[ty].tag.at, Layout[ty].tag.size))

\* The fields that a value with these bytes has.
FieldsIn(ty, mem) ==
    LET L == Layout[ty]
        Saved(active) == [n \in DOMAIN active |-> [at |-> active[n].at, ty |-> active[n].ty]]
    IN  CASE L.kind = "aggregate" -> union_aggregate_layout(L.fields)
          [] L.kind = "enum" -> union_enum_variant_layout(ty, RustVariant(ty, mem))
          [] L.kind = "array" -> [n \in 1 .. L.len |-> [at |-> (n - 1) * Layout[L.elem].size, ty |-> L.elem]]
          [] L.kind = "coroutine" -> L.fields \o Saved(L.active[RustState(ty, mem) + 1])

RECURSIVE Valid(_, _)
Valid(ty, mem) ==
    LET L == Layout[ty]
        All(fields) ==
            \A n \in DOMAIN fields : Valid(fields[n].ty, Part(mem, fields[n].at, Layout[fields[n].ty].size))
    IN  CASE L.size = 0 \/ L.kind = "union" -> TRUE
          [] L.kind = "scalar" -> Defined(mem) /\ (L.num = "Boolean" => NumberIn(mem) <= 1)
          [] L.kind \in {"wide", "fat", "pointer"} -> Defined(mem)
          [] L.kind \in {"nonnull", "arrayref"} -> Defined(mem) /\ NumberIn(mem) # 0
          [] L.kind = "managed" -> Defined(mem) /\ \E a \in DOMAIN Allocations :
                 Allocations[a].what = "function" /\ Allocations[a].base = NumberIn(mem)
          [] L.kind = "pat" -> Valid(L.elem, mem) /\ NumberIn(mem) >= L.least
          [] L.kind \in {"array", "aggregate"} /\ L.size > 0 -> All(FieldsIn(ty, mem))
          [] L.kind = "enum" /\ L.size > 0 -> RustVariant(ty, mem) # 0 /\ All(FieldsIn(ty, mem))
          [] L.kind = "coroutine" -> /\ Defined(Part(mem, L.tag.at, L.tag.size))
                                     /\ RustState(ty, mem) + 1 \in DOMAIN L.active
                                     /\ All(FieldsIn(ty, mem))

\* The bytes a typed copy carries over: not the padding.
RECURSIVE Covered(_, _)
Covered(ty, mem) ==
    LET L == Layout[ty]
        OfFields(fields) ==
            UNION {{fields[n].at + k : k \in Covered(fields[n].ty,
                        Part(mem, fields[n].at, Layout[fields[n].ty].size))} : n \in DOMAIN fields}
        tagBytes == IF L.kind \in {"aggregate", "array"} \/ (L.kind = "enum" /\ L.tag.how = "single") THEN {}
                    ELSE L.tag.at + 1 .. L.tag.at + L.tag.size
    IN  CASE L.size = 0 -> {}
          [] L.kind = "pat" -> Covered(L.elem, mem)
          [] L.kind \in {"aggregate", "array", "enum", "coroutine"} /\ L.size > 0 ->
                 tagBytes \cup OfFields(FieldsIn(ty, mem))
          [] OTHER -> 1 .. L.size

Typed(ty, mem) ==
    LET Only(covered) == [n \in DOMAIN mem |-> IF n \in covered THEN mem[n] ELSE Uninit]
    IN  Only(Covered(ty, mem))

\* Whether the JVM value v stands for the Rust value with these bytes.
RECURSIVE Represents(_, _, _)
Represents(ty, v, mem) ==
    LET L == Layout[ty]
        fields == FieldsIn(ty, mem)
        Each(values) == \A n \in DOMAIN fields :
                           Represents(fields[n].ty, values[n], Part(mem, fields[n].at, Layout[fields[n].ty].size))
        word(at) == Signed(NumberIn(Part(mem, at, 8)), 8)
    IN  CASE L.size = 0 -> TRUE
          [] L.kind = "scalar" -> v = Carrier(L.num, RustNumber(L.num, mem))
          [] L.kind = "wide" -> v = <<word(8), word(0)>>
          [] L.kind = "fat" -> v = [to |-> word(0), len |-> word(8)]
          [] L.kind \in {"pointer", "nonnull", "managed"} -> v = word(0)
          [] L.kind = "arrayref" -> v = [to |-> word(0), len |-> L.len]
          [] L.kind = "pat" -> Represents(L.elem, v, mem)
          [] L.kind = "union" -> \A n \in DOMAIN mem : mem[n] # Uninit => v.bytes[n] = Signed(mem[n], 1)
          [] L.kind \in {"array", "aggregate"} /\ L.size > 0 -> Each(v)
          [] L.kind = "enum" /\ L.size > 0 -> v.variant = RustVariant(ty, mem) /\ Each(v.fields)
          [] L.kind = "coroutine" ->
                 /\ v.state = RustState(ty, mem)
                 /\ Each(v.upvars \o [n \in DOMAIN L.active[v.state + 1] |-> v.saved[L.active[v.state + 1][n].saved]])

(***************************************************************************)
(* Constants.                                                               *)
(***************************************************************************)

\* The bytes of an allocation, its pointers in place.
Linked(id) ==
    LET A == Allocations[id]
        there(n) == {r \in A.relocs : n - r.at \in 1 .. 8}
    IN  [n \in DOMAIN A.bytes |->
            IF there(n) = {} THEN A.bytes[n]
            ELSE LET r == CHOOSE r \in there(n) : TRUE
                 IN  BytesOf(Allocations[r.to].base + r.offset, 8)[n - r.at]]

\* A union in it is made from a field that leaves some of the union's bytes out.
RECURSIVE KeepsOneField(_, _, _)
KeepsOneField(ty, id, base) ==
    LET L == Layout[ty]
        LeavesOut(mem, field) == \E n \in DOMAIN mem \ Covered(field, Part(mem, 0, Layout[field].size)) :
                                     mem[n] # Uninit
        UnionKeeps(mem, n) == n # 0 /\ LeavesOut(mem, L.fields[n].ty)
        SomeKeeps(fields) == \E n \in DOMAIN fields : KeepsOneField(fields[n].ty, id, base + fields[n].at)
    IN  CASE L.kind = "union" /\ L.size > 0 ->
                 UnionKeeps(Part(Linked(id), base, L.size), UnionField(ty, id, base))
          [] L.kind \in {"aggregate", "enum", "array"} /\ L.size > 0 ->
                 SomeKeeps(FieldsIn(ty, Part(Linked(id), base, L.size)))
          [] OTHER -> FALSE

\* What the program makes of a constant: the memory's value, or the scalar's.  One that
\* cannot be read becomes zero or null, with no more than a line in the log.
default_operand_for_oomir_type(ty) == IF KindOf(ty) = "scalar" THEN 0 ELSE <<>>
FromMemory(s) ==
    LET OrDefault(read) == IF read.ok THEN read.v ELSE default_operand_for_oomir_type(s.ty)
    IN  OrDefault(read_constant_value_from_memory(s.id, 0, s.ty))
FromScalar(s) == adapt_operand_to_rust_type(read_scalar_int_constant(s.ty, NumberIn(Linked(s.id))), s.ty)

\* Each constant as the program and as Rust have it.
Loaded ==
    {[ty    |-> s.ty,
      id    |-> s.id,
      jvm   |-> FromMemory(s),
      mem   |-> Typed(s.ty, Linked(s.id)),
      lossy |-> KeepsOneField(s.ty, s.id, 0)] : s \in Samples}

NoAnswer == [said |-> <<>>, truth |-> <<>>, excepted |-> FALSE]

Init ==
    /\ answer = NoAnswer
    /\ steps = 0
    /\ \/ \E c \in Loaded :
              \/ it = [ty |-> c.ty, jvm |-> c.jvm, mem |-> c.mem] /\ lossy = c.lossy
              \/ /\ c.ty \in ScalarAbi /\ Allocations[c.id].relocs = {}
                 /\ it = [ty |-> c.ty, jvm |-> FromScalar(c), mem |-> c.mem]
                 /\ lossy = FALSE
       \/ \E b \in Built : it = b /\ lossy = FALSE

(***************************************************************************)
(* Rvalues.                                                                 *)
(***************************************************************************)

IsNumber(nums) == KindOf(it.ty) = "scalar" /\ Layout[it.ty].num \in nums
Num == Layout[it.ty].num
Number == RustNumber(Num, it.mem)

Becomes(ty, jvm, mem) == it' = [ty |-> ty, jvm |-> jvm, mem |-> mem]
NumberBecomes(num, jvm, n) == Becomes(num, jvm, BytesOf(n, Bytes[num]))
Silent == answer' = NoAnswer
Asked(said, truth, excepted) == answer' = [said |-> said, truth |-> truth, excepted |-> excepted]

\* The other operand, and its carrier.
Operands(num) ==
    {0, 1, Greatest(num)} \cup (IF num \in SignedTypes THEN {-1, Least(num)} ELSE {2})

Step == steps < MaxSteps /\ steps' = steps + 1 /\ UNCHANGED lossy

BinaryOp ==
    /\ Step /\ IsNumber(IntTypes) /\ Silent
    /\ \E op \in {"add", "sub", "mul", "div", "rem", "and", "or", "xor"}, y \in Operands(Num) :
           /\ op \in {"div", "rem"} => y # 0 /\ ~(y = -1 /\ Number = Least(Num))
           /\ NumberBecomes(Num, TranslateOp(op, Num, it.jvm, Carrier(Num, y)), RustOp(op, Num, Number, y))

\* A u8 must be able to hold every distance, as eight bits are for any width.
Shift ==
    /\ Step /\ IsNumber(IntTypes) /\ Silent
    /\ \E op \in {"shl", "shr"}, dty \in {"U8", "I32", "U64"} : \E d \in Operands(dty) :
           /\ Bits(Bytes[Num]) <= 2^Bits(Bytes[dty])
           /\ NumberBecomes(Num, translate_primitive_shift(op, Num, it.jvm, dty, Carrier(dty, d)),
                            RustShift(op, Num, Number, d))

Comparison ==
    /\ Step /\ IsNumber(IntTypes \cup FloatTypes) /\ Silent
    /\ \E op \in {"eq", "ne", "lt", "le", "gt", "ge"},
          y \in IF Num \in FloatTypes THEN {0, 1, NaN} ELSE Operands(Num) :
           NumberBecomes("Boolean", CompareOp(op, Num, it.jvm, Carrier(Num, y)),
                         IF RustCompare(op, Number, y) THEN 1 ELSE 0)

\* Ord::cmp gives an Ordering, a fieldless enum.
ThreeWay ==
    /\ Step /\ IsNumber(IntTypes) /\ Silent
    /\ \E y \in Operands(Num) :
           Becomes("Ordering",
                   adapt_simple_enum_operand("I32", TranslateCmp(Num, it.jvm, Carrier(Num, y)), "Ordering"),
                   BytesOf(Sign(Number - y), 1))

CheckedOp ==
    /\ Step /\ IsNumber(IntTypes)
    /\ \E op \in {"add", "sub", "mul"}, y \in Operands(Num) :
           LET pair == emit_checked_arithmetic_intrinsic(op, Num, it.jvm, Carrier(Num, y))
               narrow_minimum == /\ op = "mul" /\ Num \in {"I8", "I16"}
                                 /\ Number = Least(Num) /\ y = -1
           IN  /\ NumberBecomes(Num, pair.result, RustOp(op, Num, Number, y))
               /\ Asked(<<pair.overflow>>, <<RustOverflows(op, Num, Number, y)>>, narrow_minimum)

UnaryNot ==
    /\ Step /\ IsNumber(IntTypes \cup {"Boolean"}) /\ Silent
    /\ NumberBecomes(Num, TranslateNot(Num, it.jvm),
                     IF Num = "Boolean" THEN 1 - Number ELSE RustWrap(Num, -1 - Number))

UnaryNeg ==
    /\ Step /\ IsNumber(SignedTypes \cup FloatTypes) /\ Silent
    /\ NumberBecomes(Num, TranslateNeg(Num, it.jvm),
                     IF Num \in FloatTypes THEN FloatBits(Num, IF Number = NaN THEN NaN ELSE -Number)
                     ELSE RustWrap(Num, -Number))

\* A float is followed only while its bits can hold it.
Cast ==
    /\ Step /\ IsNumber(IntTypes \cup FloatTypes \cup {"Boolean"}) /\ Silent
    /\ \E dest \in IntTypes \cup FloatTypes :
           LET n == RustCast(Num, dest, Number)
               half == 2^(Bits(Bytes[dest]) - 1)
           IN  /\ Num \in FloatTypes \/ dest \in IntTypes \/ Num # "Boolean"
               /\ dest \in FloatTypes => n = NaN \/ n \in 1 - half .. half - 1
               /\ NumberBecomes(dest, load_operand_as(Num, dest, it.jvm),
                                IF dest \in FloatTypes THEN FloatBits(dest, n) ELSE n)

\* A match on an integer: the arm taken.
SwitchInt ==
    /\ Step /\ IsNumber(IntTypes \cup {"Boolean"}) /\ UNCHANGED it
    /\ \E cases \in {{0}, {0, Unsigned(-1, Bytes[Num])}, {2^(Bits(Bytes[Num]) - 1), 1}} :
           /\ Num = "Boolean" => cases = {0}
           /\ LET bits == NumberIn(it.mem)
              IN  Asked(SwitchTarget(Num, it.jvm, cases), IF bits \in cases THEN <<bits>> ELSE <<>>, FALSE)

Discriminant ==
    /\ Step /\ KindOf(it.ty) = "enum" /\ Silent
    /\ LET num == Layout[it.ty].discr
       IN  NumberBecomes(num, DiscriminantOf(it.ty, it.jvm, num),
                         RustWrap(num, Layout[it.ty].discriminants[RustVariant(it.ty, it.mem)]))

ExactTypes == {ty \in TransmuteTargets : exact_bytes_supported(ty)}

Transmute ==
    /\ Step /\ Silent
    /\ exact_bytes_supported(it.ty)
    /\ \E target \in ExactTypes \ {it.ty} :
           /\ layout_size_bytes(target) = layout_size_bytes(it.ty)
           /\ Valid(target, it.mem)
           /\ Becomes(target, ensure_exact_transmute_helper(it.ty, target, it.jvm), Typed(target, it.mem))

\* Written through a pointer of its type and read back.
ThroughMemory ==
    /\ Step /\ Silent
    /\ KindOf(it.ty) \in {"aggregate", "enum", "array", "union"}
    /\ Becomes(it.ty,
               ensure_pointer_memory_codec_decode(it.ty, ensure_pointer_memory_codec_encode(it.ty, it.jvm).bytes),
               it.mem)

IntoUnion ==
    /\ Step /\ Silent
    /\ \E u \in TransmuteTargets : KindOf(u) = "union" /\ u # it.ty
           /\ \E f \in DOMAIN Layout[u].fields :
                  /\ Layout[u].fields[f].ty = it.ty
                  /\ Becomes(u, union_from_function(u, f, it.jvm),
                             [n \in 1 .. layout_size_bytes(u) |->
                                 IF n \in DOMAIN it.mem THEN it.mem[n] ELSE Uninit])

FromUnion ==
    /\ Step /\ Silent /\ KindOf(it.ty) = "union"
    /\ \E f \in DOMAIN Layout[it.ty].fields :
           LET ty == Layout[it.ty].fields[f].ty
               mem == Part(it.mem, 0, layout_size_bytes(ty))
           IN  /\ Valid(ty, mem)
               /\ Becomes(ty, union_getter_function(it.ty, f, it.jvm), Typed(ty, mem))

\* A field assigned in place.
IntoField ==
    /\ Step /\ Silent /\ KindOf(it.ty) = "union"
    /\ \E f \in DOMAIN Layout[it.ty].fields, c \in Loaded :
           /\ c.ty = Layout[it.ty].fields[f].ty /\ ~c.lossy
           /\ Becomes(it.ty, union_setter_function(it.ty, f, it.jvm, c.jvm),
                      [n \in DOMAIN it.mem |-> IF n \in DOMAIN c.mem THEN c.mem[n] ELSE it.mem[n]])

Next ==
    \/ BinaryOp \/ Shift \/ Comparison \/ ThreeWay \/ CheckedOp \/ UnaryNot \/ UnaryNeg \/ Cast
    \/ SwitchInt \/ Discriminant
    \/ Transmute \/ ThroughMemory \/ IntoUnion \/ FromUnion \/ IntoField

Spec == Init /\ [][Next]_vars

(***************************************************************************)
(* Properties.                                                              *)
(***************************************************************************)

\* The JVM value stands for exactly the bytes Rust says the value has, whatever constants,
\* operations, casts, unions, typed pointers and transmutes it came through: numbers keep
\* their width and sign (normalize_integer_result, primitive_to_primitive), tags and niches
\* name the right variant, pointers keep their address.  A union constant is excepted: it
\* keeps the one field that read_constant_value_from_memory chose.
JvmHoldsRust == lossy \/ Represents(it.ty, it.jvm, it.mem)

\* Overflow flags and switch targets are those of Rust's arithmetic, except that the
\* intrinsics report no overflow for MIN * -1 in i8 and i16.
AnswersAreRight == lossy \/ answer.excepted \/ answer.said = answer.truth

\* Every codec stays inside the bytes and the side table that were allocated for it, and
\* writing the value again gives the bytes Rust says it has, wherever Rust says what they are.
EncodesItsBytes ==
    LET st == Encode(it.ty, it.jvm, NewStorage(it.ty), 0)
    IN  /\ ~st.fault
        /\ lossy \/ \A n \in DOMAIN it.mem : it.mem[n] # Uninit => st.bytes[n] = Signed(it.mem[n], 1)

=============================================================================

------------------------------ MODULE Constants ------------------------------
(***************************************************************************)
(* Constants: how lower1/operand/const_eval.rs turns the memory that rustc's *)
(* compile-time evaluation left behind into JVM values, and how             *)
(* lower1/value_repr.rs turns a scalar that stands for an enum or a struct   *)
(* into its object.                                                          *)
(*                                                                           *)
(* An allocation is memory or a function.  Its bytes may be uninitialised,   *)
(* and its relocs say where it holds a pointer and to what: the bytes there  *)
(* are only the offset, and `base` is the address the target will have.      *)
(***************************************************************************)
EXTENDS Codecs

CONSTANT Allocations    \* each [what, base, bytes, relocs], relocs a set of [at, to, offset]

Uninit == -1

Failed == [ok |-> FALSE, v |-> 0]
Success(v) == [ok |-> TRUE, v |-> v]

Sized(id) == Len(Allocations[id].bytes)

\* The unsigned number that bytes hold, the least significant first.
RECURSIVE NumberIn(_)
NumberIn(bytes) == IF bytes = <<>> THEN 0 ELSE Head(bytes) + 2^ByteBits * NumberIn(Tail(bytes))

(***************************************************************************)
(* Allocation::read_scalar.  A pointer can only be read whole, and only by  *)
(* a reader that asks for provenance.                                       *)
(***************************************************************************)
ReadScalar(id, at, size, provenance) ==
    LET touched == {r \in Allocations[id].relocs : r.at < at + size /\ at < r.at + 8}
        whole   == {r \in touched : r.at = at /\ size = 8}
        Pointer(r) == [how |-> "pointer", to |-> r.to, offset |-> r.offset]
        Scalar(bytes) ==
            CASE at + size > Sized(id) \/ \E n \in DOMAIN bytes : bytes[n] = Uninit -> [how |-> "error"]
              [] at + size <= Sized(id) /\ (\A n \in DOMAIN bytes : bytes[n] # Uninit) /\ touched = {} ->
                     [how |-> "int", n |-> NumberIn(bytes)]
              [] OTHER -> IF provenance /\ whole # {} THEN Pointer(CHOOSE r \in whole : TRUE)
                          ELSE [how |-> "error"]
    IN  Scalar(SubSeq(Allocations[id].bytes, at + 1, at + size))

(***************************************************************************)
(* Scalars.                                                                 *)
(***************************************************************************)

\* The unsigned integer type that carries a scalar of `size` bytes.
ScalarCarrier(size) ==
    CASE size = 1 -> "U8" [] size = 2 -> "U16" [] size = 4 -> "U32" [] size = 8 -> "U64"

scalar_int_to_oomir_constant(num, bits) ==
    IF num \in FloatTypes THEN FloatFromBits(num, Signed(bits, Bytes[num]))
    ELSE load_constant(num, bits)

RECURSIVE read_zero_sized_constant(_)
read_zero_sized_constant(ty) ==
    LET L == Layout[ty]
        Each(fields) == LET kept == union_aggregate_layout(fields)
                        IN  [n \in DOMAIN kept |-> read_zero_sized_constant(kept[n].ty)]
    IN  CASE L.kind = "unit" -> <<>>
          [] L.kind = "aggregate" -> Each(L.fields)
          [] L.kind = "union" -> allocate_union_object_storage(0, 1)
          [] L.kind = "enum" -> [variant |-> L.tag.variant, fields |-> Each(L.variants[L.tag.variant])]
          [] L.kind = "array" -> [n \in 1 .. IF has_jvm_value(L.elem) THEN L.len ELSE 0 |->
                                     read_zero_sized_constant(L.elem)]

\* The one field of a struct that has bytes.
scalar_struct_field_ty(ty) ==
    LET fields == Layout[ty].fields
    IN  CHOOSE f \in {fields[n].ty : n \in DOMAIN fields} : layout_size_bytes(f) > 0

(***************************************************************************)
(* A scalar constant of any type: `carrier` is the type of the number v, or *)
(* "object" when v is the value itself.                                     *)
(***************************************************************************)
RECURSIVE read_scalar_int_constant(_, _)
read_scalar_int_constant(ty, bits) ==
    LET L == Layout[ty]
        number(num) == [carrier |-> num, v |-> scalar_int_to_oomir_constant(num, bits)]
        capture(f) == IF layout_size_bytes(f.ty) = 0 THEN read_zero_sized_constant(f.ty)
                      ELSE read_scalar_int_constant(f.ty, bits).v
    IN  CASE L.size = 0 -> [carrier |-> "object", v |-> read_zero_sized_constant(ty)]
          [] L.kind = "pointer" -> [carrier |-> "object", v |-> Signed(bits, 8)]
          [] L.kind = "aggregate" /\ L.size > 0 /\ L.what = "closure" ->
                 [carrier |-> "object",
                  v |-> LET kept == union_aggregate_layout(L.fields)
                        IN  [n \in DOMAIN kept |-> capture(kept[n])]]
          [] L.kind = "enum" /\ L.size > 0 -> number(ScalarCarrier(L.size))
          [] L.kind = "aggregate" /\ L.size > 0 /\ L.what = "tuple" -> number(ScalarCarrier(L.size))
          [] L.kind = "aggregate" /\ L.size > 0 /\ L.what = "struct" ->
                 read_scalar_int_constant(scalar_struct_field_ty(ty), bits)
          [] L.kind = "pat" -> read_scalar_int_constant(L.elem, bits)
          [] L.kind = "scalar" -> number(L.num)

\* The bits of an integer constant, whatever its signedness.
integer_constant_bits(num, n) == Unsigned(n, Bytes[num])

\* The variants of a fieldless enum with the tag n.
materialize_direct_fieldless_enum_constant(ty, num, n) ==
    LET size == Tag(ty).size
    IN  {v \in DOMAIN Layout[ty].variants :
            Unsigned(Layout[ty].discriminants[v], size) = Unsigned(integer_constant_bits(num, n), size)}

IsFieldlessDirect(ty) ==
    /\ KindOf(ty) = "enum" /\ Tag(ty).how = "direct"
    /\ \A v \in DOMAIN Layout[ty].variants : Layout[ty].variants[v] = <<>>

construct_fieldless_enum_variant(variant) == [variant |-> variant, fields |-> <<>>]

\* A number moved through its own bytes into the object's.
adapt_physical_scalar(num, n, ty) ==
    Decode(ty, emit_scalar_to_union_bytes(num, n, allocate_union_object_storage(Bytes[num], Bytes[num]), 0), 0)

\* The constant c as the carrier of a value of type ty.
adapt_operand_to_rust_type(c, ty) ==
    LET hits == materialize_direct_fieldless_enum_constant(ty, c.carrier, c.v)
    IN  CASE c.carrier = "object" \/ KindOf(ty) = "scalar" -> c.v
          [] c.carrier # "object" /\ IsFieldlessDirect(ty) /\ hits # {} ->
                 construct_fieldless_enum_variant(CHOOSE v \in hits : \A w \in hits : v <= w)
          [] OTHER -> adapt_physical_scalar(c.carrier, c.v, ty)

(***************************************************************************)
(* Memory.                                                                  *)
(***************************************************************************)

\* The part of an enum's reader that finds the active variant; 0 when there is none.
ActiveVariant(ty, id, base) ==
    LET tag  == Tag(ty)
        mask(n) == Unsigned(n, tag.size)
        First(direct) == IF direct = {} THEN 0 ELSE CHOOSE v \in direct : \A w \in direct : v <= w
        Niche(relative) == IF relative <= tag.last - tag.first THEN tag.first + relative ELSE tag.untagged
        Variant(read) ==
            CASE read.how = "error" -> 0
              [] tag.how = "direct" /\ read.how = "int" ->
                     First({v \in DOMAIN Layout[ty].variants : mask(Layout[ty].discriminants[v]) = read.n})
              [] tag.how = "niche" /\ read.how = "int" -> Niche(mask(read.n - tag.start))
              [] tag.how = "niche" /\ read.how = "pointer" -> tag.untagged
    IN  IF tag.how = "single" THEN tag.variant
        ELSE Variant(ReadScalar(id, base + tag.at, tag.size, tag.how = "niche" /\ tag.size = 8))

\* Whether a value of type ty, read from a constant, holds a function pointer.
RECURSIVE constant_contains_function_pointer(_, _)
constant_contains_function_pointer(ty, v) ==
    LET L == Layout[ty]
        Any(fields, values) == LET kept == union_aggregate_layout(fields)
                               IN  \E n \in DOMAIN kept : constant_contains_function_pointer(kept[n].ty, values[n])
    IN  CASE L.kind = "managed" -> TRUE
          [] L.kind = "array" -> \E n \in DOMAIN v : constant_contains_function_pointer(L.elem, v[n])
          [] L.kind = "aggregate" -> Any(L.fields, v)
          [] L.kind = "enum" -> Any(L.variants[v.variant], v.fields)
          [] L.kind = "union" -> \E n \in DOMAIN v.objects : v.objects[n] # 0
          [] OTHER -> FALSE

RECURSIVE read_constant_value_from_memory(_, _, _)

ReadAll(id, base, fields) ==
    LET Together(reads) ==
            IF \A n \in DOMAIN reads : reads[n].ok THEN Success([n \in DOMAIN reads |-> reads[n].v]) ELSE Failed
    IN  Together([n \in DOMAIN fields |-> read_constant_value_from_memory(id, base + fields[n].at, fields[n].ty)])

\* A struct, a tuple or a closure.
handle_constant_struct(ty, id, base) == ReadAll(id, base, union_aggregate_layout(Layout[ty].fields))

handle_constant_enum(ty, id, base) ==
    LET WithFields(variant, fields) ==
            IF fields.ok THEN Success([variant |-> variant, fields |-> fields.v]) ELSE Failed
        Read(variant) ==
            IF variant = 0 THEN Failed
            ELSE WithFields(variant, ReadAll(id, base, union_enum_variant_layout(ty, variant)))
    IN  Read(ActiveVariant(ty, id, base))

ReadArray(ty, id, base) ==
    LET L == Layout[ty]
    IN  IF ~has_jvm_value(L.elem) THEN Success(<<>>)
        ELSE ReadAll(id, base, [n \in 1 .. L.len |-> [at |-> (n - 1) * layout_size_bytes(L.elem), ty |-> L.elem]])

(***************************************************************************)
(* A union keeps the field that can be read and that has a function pointer *)
(* just when the memory has one: the last such field, or the last readable  *)
(* one.  0 when there is none.                                              *)
(***************************************************************************)
UnionField(ty, id, base) ==
    LET fields == Layout[ty].fields
        function == \E r \in Allocations[id].relocs :
                        r.at \in base .. base + layout_size_bytes(ty) - 1 /\ Allocations[r.to].what = "function"
        latest(S) == CHOOSE n \in S : \A m \in S : m <= n
        Kept(fitting, readable) ==
            IF fitting # {} THEN latest(fitting) ELSE IF readable # {} THEN latest(readable) ELSE 0
        Among(reads, readable) ==
            Kept({n \in readable : constant_contains_function_pointer(fields[n].ty, reads[n].v) = function}, readable)
        From(reads) == Among(reads, {n \in DOMAIN fields : reads[n].ok})
    IN  From([n \in DOMAIN fields |-> read_constant_value_from_memory(id, base, fields[n].ty)])

\* Without a readable field, the raw bytes: an uninitialised one reads as anything, here 0.
ReadUnion(ty, id, base) ==
    LET size == layout_size_bytes(ty)
        raw(n) == LET b == Allocations[id].bytes[base + n] IN IF b = Uninit THEN 0 ELSE Signed(b, 1)
        From(field) ==
            IF field = 0
            THEN [allocate_union_object_storage(size, size) EXCEPT !.bytes = [n \in 1 .. size |-> raw(n)]]
            ELSE union_from_function(ty, field,
                     read_constant_value_from_memory(id, base, Layout[ty].fields[field].ty).v)
    IN  Success(From(UnionField(ty, id, base)))

\* A pointer into a constant: its target's memory is evaluated too, and shared by identity.
anonymous_memory_pointer_constant(pointer, pointee) ==
    /\ Allocations[pointer.to].what = "memory" /\ Allocations[pointer.to].relocs = {}
    /\ Sized(pointer.to) > layout_size_bytes(pointee)

pointer_constant_for_pointee(pointer, pointee) ==
    IF \/ Allocations[pointer.to].what # "memory"
       \/ /\ pointer.offset + layout_size_bytes(pointee) <= Sized(pointer.to)
          /\ read_constant_value_from_memory(pointer.to, pointer.offset, pointee).ok
    THEN Success(Allocations[pointer.to].base + pointer.offset) ELSE Failed

read_pointer_constant(pointer, pointee) ==
    IF anonymous_memory_pointer_constant(pointer, pointee)
    THEN IF pointer.offset > Sized(pointer.to) THEN Failed
         ELSE Success(Allocations[pointer.to].base + pointer.offset)
    ELSE pointer_constant_for_pointee(pointer, pointee)

ReadRawPointer(ty, id, base) ==
    LET Pointer(read) ==
            CASE read.how = "error" -> Failed
              [] read.how = "int" -> Success(read_scalar_int_constant(ty, read.n).v)
              [] read.how = "pointer" -> read_pointer_constant(read, Layout[ty].pointee)
    IN  Pointer(ReadScalar(id, base, 8, TRUE))

\* A function pointer: an integer, or a pointer to data, is refused.
read_function_pointer_constant(id, base) ==
    LET read == ReadScalar(id, base, 8, TRUE)
    IN  IF read.how = "pointer" /\ Allocations[read.to].what = "function"
        THEN Success(Allocations[read.to].base) ELSE Failed

\* The elements of a slice.
read_slice_backed_value(id, base, len, elem) ==
    ReadAll(id, base, [n \in 1 .. len |-> [at |-> (n - 1) * layout_size_bytes(elem), ty |-> elem]])

\* A slice pointer; the data of a slice that is not the whole allocation is a copy, at `copy`.
read_slice_from_fat_pointer(ty, id, base) ==
    LET elem == Layout[ty].elem
        Pointer(to, n) == Success([to |-> to, len |-> Signed(n, 8)])
        Into(target, data, n) ==
            IF target.what = "memory" /\ read_slice_backed_value(data.to, data.offset, n, elem).ok
            THEN Pointer(IF data.offset = 0 /\ n * layout_size_bytes(elem) = Sized(data.to)
                         THEN target.base ELSE target.copy, n)
            ELSE Failed
        Slice(length, data) ==
            CASE length.how # "int" \/ data.how = "error" -> Failed
              [] length.how = "int" /\ data.how = "int" -> Pointer(Signed(data.n, 8), length.n)
              [] length.how = "int" /\ data.how = "pointer" -> Into(Allocations[data.to], data, length.n)
    IN  Slice(ReadScalar(id, base + 8, 8, FALSE), ReadScalar(id, base, 8, TRUE))

ReadNumber(num, id, base) ==
    LET read == ReadScalar(id, base, Bytes[num], FALSE)
    IN  IF read.how = "int" THEN Success(scalar_int_to_oomir_constant(num, read.n)) ELSE Failed

read_constant_value_from_memory(id, base, ty) ==
    LET L == Layout[ty]
    IN  CASE L.size = 0 -> Success(read_zero_sized_constant(ty))
          [] L.kind \in {"pat", "nonnull"} -> read_constant_value_from_memory(id, base, L.elem)
          [] L.kind = "scalar" -> ReadNumber(L.num, id, base)
          [] L.kind = "wide" ->
                 LET low == ReadScalar(id, base, 8, FALSE)
                     high == ReadScalar(id, base + 8, 8, FALSE)
                 IN  IF low.how = "int" /\ high.how = "int"
                     THEN Success(<<Signed(high.n, 8), Signed(low.n, 8)>>) ELSE Failed
          [] L.kind = "fat" -> read_slice_from_fat_pointer(ty, id, base)
          [] L.kind = "pointer" -> ReadRawPointer(ty, id, base)
          [] L.kind = "managed" -> read_function_pointer_constant(id, base)
          [] L.kind = "array" /\ L.size > 0 -> ReadArray(ty, id, base)
          [] L.kind = "aggregate" /\ L.size > 0 -> handle_constant_struct(ty, id, base)
          [] L.kind = "enum" /\ L.size > 0 -> handle_constant_enum(ty, id, base)
          [] L.kind = "union" /\ L.size > 0 -> ReadUnion(ty, id, base)
          [] L.kind \in {"coroutine", "arrayref"} -> Failed
=============================================================================

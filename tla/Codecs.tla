------------------------------- MODULE Codecs --------------------------------
(***************************************************************************)
(* How lower1/types.rs moves Rust values between their JVM carriers and     *)
(* Rust's memory: the writers and readers it generates for unions, for      *)
(* transmutes and for the typed views of a pointer.                         *)
(*                                                                          *)
(* A type is described by the layout rustc computed for it.  A storage is   *)
(* an array of JVM bytes with a side table of JVM objects.  A pointer is    *)
(* the number the runtime gives it: that the number leads back to the same  *)
(* pointer is what AddressSpace shows.                                      *)
(***************************************************************************)
EXTENDS Numbers

CONSTANT Layout     \* the layout of each type, by the type's name

(***************************************************************************)
(* Layouts.  Every layout has a kind and a size.  A "scalar" has a num; an  *)
(* "aggregate" and a "union" have fields, each [at, ty]; an "enum" has a    *)
(* tag, the discriminants and the fields of its variants; an "array" has an *)
(* elem and a len; a "pat" has an elem; a "coroutine" has upvars, a state   *)
(* tag and, for each state, the saved fields active in it.                  *)
(***************************************************************************)

KindOf(ty)      == Layout[ty].kind
layout_size_bytes(ty) == Layout[ty].size
has_jvm_value(ty) == KindOf(ty) # "unit"

\* The fields that have a JVM carrier.
union_aggregate_layout(fields) == SelectSeq(fields, LAMBDA f : has_jvm_value(f.ty))
union_enum_variant_layout(ty, variant) == union_aggregate_layout(Layout[ty].variants[variant])

(***************************************************************************)
(* Storage.                                                                 *)
(***************************************************************************)

RECURSIVE needs_union_object_storage_inner(_)
needs_union_object_storage_inner(ty) ==
    LET AnyOf(fields) == \E n \in DOMAIN fields : needs_union_object_storage_inner(fields[n].ty)
    IN  /\ layout_size_bytes(ty) > 0
        /\ CASE KindOf(ty) \in {"scalar", "wide"} -> FALSE
             [] KindOf(ty) \in {"array", "pat"} -> needs_union_object_storage_inner(Layout[ty].elem)
             [] KindOf(ty) \in {"aggregate", "union"} -> AnyOf(Layout[ty].fields)
             [] KindOf(ty) = "enum" -> \E v \in DOMAIN Layout[ty].variants : AnyOf(Layout[ty].variants[v])
             [] OTHER -> TRUE

\* Mutant: the side table has an entry for a word, not for a byte.
Munion_object_storage_size(ty, size) ==
    IF needs_union_object_storage_inner(ty) THEN size \div 8 ELSE 0

union_object_storage_size(ty, size) ==
    IF needs_union_object_storage_inner(ty) THEN IF size > 1 THEN size ELSE 1 ELSE 0

\* An index past the end of either array throws: fault.
allocate_union_object_storage(size, objects) ==
    [bytes |-> [n \in 1 .. size |-> 0], objects |-> [n \in 1 .. objects |-> 0], fault |-> FALSE]

StoreBytes(st, at, bytes) ==
    IF bytes # <<>> /\ at + Len(bytes) > Len(st.bytes) THEN [st EXCEPT !.fault = TRUE]
    ELSE [st EXCEPT !.bytes = SubSeq(@, 1, at) \o bytes \o SubSeq(@, at + Len(bytes) + 1, Len(@))]

emit_object_to_union_storage(object, st, at) ==
    IF at + 1 \in DOMAIN st.objects THEN [st EXCEPT !.objects[at + 1] = object]
    ELSE [st EXCEPT !.fault = TRUE]

\* Pointer.copyUnionStorage: the bytes, and the objects where both have a table.
emit_union_storage_copy(from, at, to, base, size) ==
    LET copied(n) == n - base \in 1 .. size
        inTables  == /\ base + size <= Len(to.objects)
                     /\ Len(from.objects) > 0 => at + size <= Len(from.objects)
    IN  [bytes   |-> [n \in DOMAIN to.bytes |->
                         IF copied(n) THEN from.bytes[at + n - base] ELSE to.bytes[n]],
         objects |-> [n \in DOMAIN to.objects |->
                         IF ~(copied(n) /\ inTables) THEN to.objects[n]
                         ELSE IF from.objects = <<>> THEN 0 ELSE from.objects[at + n - base]],
         fault   |-> to.fault \/ (Len(to.objects) > 0 /\ ~inTables)]

(***************************************************************************)
(* Numbers: a byte at a time, the least significant first.                  *)
(***************************************************************************)

emit_bits_to_union_bytes(bits, bitsTy, size, st, base) ==
    StoreBytes(Given(bits, st), base,
        [n \in 1 .. size |->
            load_operand_as(bitsTy, "I8",
                TranslateBitwise("and", bitsTy, translate_primitive_shift("shr", bitsTy, bits, "I32", Bits(n - 1)),
                                 2^ByteBits - 1))])

emit_bits_from_union_bytes(bitsTy, size, st, base) ==
    Foldl(LAMBDA bits, n :
              TranslateBitwise("or", bitsTy, bits,
                  translate_primitive_shift("shl", bitsTy,
                      TranslateBitwise("and", bitsTy, load_operand_as("I8", bitsTy, st.bytes[base + n]),
                                       2^ByteBits - 1),
                      "I32", Bits(n - 1))),
          0, UpTo(size))

scalar_bits_type(num) ==
    CASE num = "U64" -> "U64" [] num \in {"I64", "F64"} -> "I64" [] OTHER -> "I32"

\* The bits of a float: NaN is the pattern no whole number uses.
FloatBits(num, n)     == IF n = NaN THEN Signed(2^(Bits(Bytes[num]) - 1), Bytes[num]) ELSE n
FloatFromBits(num, b) == IF b = Signed(2^(Bits(Bytes[num]) - 1), Bytes[num]) THEN NaN ELSE b

scalar_bit_operand_for_union(num, v) ==
    IF num \in FloatTypes THEN FloatBits(num, v)
    ELSE load_operand_as(num, scalar_bits_type(num), v)

emit_scalar_to_union_bytes(num, v, st, base) ==
    emit_bits_to_union_bytes(scalar_bit_operand_for_union(num, v), scalar_bits_type(num),
                             Bytes[num], st, base)

emit_scalar_from_union_bytes(num, st, base) ==
    LET FromBits(bits) == IF num \in FloatTypes THEN FloatFromBits(num, bits)
                          ELSE load_operand_as(scalar_bits_type(num), num, bits)
    IN  FromBits(emit_bits_from_union_bytes(scalar_bits_type(num), Bytes[num], st, base))

\* A 128-bit number is a pair of longs, the high one first.
EncodeWide(v, st, base) ==
    emit_bits_to_union_bytes(v[1], "I64", 8,
        emit_bits_to_union_bytes(v[2], "I64", 8, st, base), base + 8)

DecodeWide(st, base) ==
    <<emit_bits_from_union_bytes("I64", 8, st, base + 8), emit_bits_from_union_bytes("I64", 8, st, base)>>

(***************************************************************************)
(* Enums.  A tag of 16 bytes is a pair; its values here fit the low long.   *)
(***************************************************************************)

Tag(ty) == Layout[ty].tag

\* Every bit of the discriminant when the tag is wide, the tag's own bits otherwise.
masked_enum_discriminant_bits(n, size) == IF size = 16 THEN n ELSE Unsigned(n, size)

emit_u128_constant(n) == <<IF n < 0 THEN -1 ELSE 0, Signed(n, 8)>>

TagOfVariant(ty, variant) ==
    IF Tag(ty).how = "direct" THEN Layout[ty].discriminants[variant]
    ELSE Tag(ty).start + variant - Tag(ty).first

emit_tag_to_union_bytes(n, st, at, size) ==
    IF size = 16 THEN EncodeWide(emit_u128_constant(n), st, at)
    ELSE emit_bits_to_union_bytes(Signed(n, 8), "I64", size, st, at)

\* The variants whose tag the storage holds, among those the reader compares with.
TagMatches(ty, st, base) ==
    LET tag == Tag(ty)
        compared == IF tag.how = "direct" THEN DOMAIN Layout[ty].variants ELSE tag.first .. tag.last
        value(v) == masked_enum_discriminant_bits(TagOfVariant(ty, v), tag.size)
    IN  IF tag.size = 16
        THEN LET found == DecodeWide(st, base + tag.at)
             IN  {v \in compared : emit_u128_constant(value(v)) = found}
        ELSE LET found == emit_bits_from_union_bytes("I64", tag.size, st, base + tag.at)
             IN  {v \in compared : Signed(value(v), 8) = found}

\* The variant the reader builds; 0 when it throws.
ReaderVariant(ty, st, base) ==
    LET First(hits) == IF hits # {} THEN CHOOSE v \in hits : \A w \in hits : v <= w
                       ELSE IF Tag(ty).how = "niche" THEN Tag(ty).untagged ELSE 0
    IN  IF Tag(ty).how = "single" THEN Tag(ty).variant ELSE First(TagMatches(ty, st, base))

\* A fieldless enum of 1, 2, 4 or 8 bytes has a factory that takes a discriminant.
simple_enum_union_size(ty) ==
    IF /\ KindOf(ty) = "enum"
       /\ \A v \in DOMAIN Layout[ty].variants : Layout[ty].variants[v] = <<>>
       /\ layout_size_bytes(ty) \in {1, 2, 4, 8}
    THEN layout_size_bytes(ty) ELSE 0

\* Mutant: the factory does not look for the sign-extended discriminant.
Menum_from_union_discriminant_function(ty, n) ==
    LET hits == {v \in DOMAIN Layout[ty].variants :
                    Unsigned(Layout[ty].discriminants[v], simple_enum_union_size(ty)) = n}
    IN  IF hits = {} THEN 0 ELSE CHOOSE v \in hits : TRUE

\* The factory: the masked discriminant and the sign-extended one lead to the variant.
enum_from_union_discriminant_function(ty, n) ==
    LET size == simple_enum_union_size(ty)
        hits == {v \in DOMAIN Layout[ty].variants :
                    n \in {Unsigned(Layout[ty].discriminants[v], size),
                           Signed(Layout[ty].discriminants[v], size)}}
    IN  IF hits = {} THEN 0 ELSE CHOOSE v \in hits : \A w \in hits : v <= w

\* An integer that stands for a simple enum, as the enum's class.
adapt_simple_enum_operand(num, n, ty) ==
    [variant |-> enum_from_union_discriminant_function(ty, load_operand_as(num, "I64", n)),
     fields |-> <<>>]

\* Rvalue::Discriminant: the number _unionDiscriminant answers, in the type asked for.
DiscriminantOf(ty, v, num) ==
    load_operand_as("I64", num, Signed(Unsigned(Layout[ty].discriminants[v.variant],
                                                Layout[ty].discrSize), 8))

(***************************************************************************)
(* Types.                                                                   *)
(***************************************************************************)

RECURSIVE Encode(_, _, _, _), Decode(_, _, _)

RECURSIVE EncodeFirst(_, _, _, _, _)
EncodeFirst(n, fields, values, st, base) ==
    LET before == EncodeFirst(n - 1, fields, values, st, base)
    IN  IF n = 0 THEN st ELSE Given(before, Encode(fields[n].ty, values[n], before, base + fields[n].at))

emit_aggregate_to_union_bytes(fields, values, st, base) ==
    EncodeFirst(Len(fields), fields, values, st, base)

emit_aggregate_from_union_bytes(fields, st, base) ==
    [n \in DOMAIN fields |-> Decode(fields[n].ty, st, base + fields[n].at)]

\* A variant, an uninhabited one, that is neither the untagged one nor in the niche's range.
HasNoTag(ty, variant) ==
    Tag(ty).how = "niche" /\ variant \notin {Tag(ty).untagged} \cup (Tag(ty).first .. Tag(ty).last)

\* The fields, and then the tag over them.  An enum with a variant that has no tag gets no
\* writers, which here is a fault.
enum_variant_union_writer(ty, v, st, base) ==
    LET written == emit_aggregate_to_union_bytes(union_enum_variant_layout(ty, v.variant), v.fields, st, base)
        tag == Tag(ty)
    IN  IF \E variant \in DOMAIN Layout[ty].variants : HasNoTag(ty, variant) THEN [st EXCEPT !.fault = TRUE]
        ELSE IF tag.how = "single" \/ (tag.how = "niche" /\ v.variant = tag.untagged) THEN written
        ELSE emit_tag_to_union_bytes(
                 masked_enum_discriminant_bits(TagOfVariant(ty, v.variant), tag.size),
                 written, base + tag.at, tag.size)

enum_union_reader(ty, st, base) ==
    LET Variant(variant) ==
            [variant |-> variant,
             fields |-> IF variant = 0 THEN <<>>
                        ELSE emit_aggregate_from_union_bytes(union_enum_variant_layout(ty, variant), st, base)]
    IN  Variant(ReaderVariant(ty, st, base))

\* The upvars, the state, and the saved fields active in the state.
coroutine_encode(ty, v, st, base) ==
    LET L == Layout[ty]
        active == L.active[v.state + 1]
        entry == emit_bits_to_union_bytes(v.state, "I32", L.tag.size,
                     emit_aggregate_to_union_bytes(L.fields, v.upvars, st, base), base + L.tag.at)
    IN  emit_aggregate_to_union_bytes(active, [n \in DOMAIN active |-> v.saved[active[n].saved]], entry, base)

\* An inactive saved field gets its type's default value.
coroutine_decode(ty, st, base) ==
    LET L == Layout[ty]
        Saved(active, k) ==
            LET at == {n \in DOMAIN active : active[n].saved = k}
                Read(f) == Decode(f.ty, st, base + f.at)
            IN  IF at = {} THEN 0 ELSE Read(active[CHOOSE n \in at : TRUE])
        Frame(state) ==
            [upvars |-> emit_aggregate_from_union_bytes(L.fields, st, base),
             state  |-> state,
             saved  |-> [k \in 1 .. L.len |-> Saved(L.active[state + 1], k)]]
    IN  Frame(emit_bits_from_union_bytes("I32", L.tag.size, st, base + L.tag.at))

\* The codec methods take and return whole arrays, so the value is moved with its table.
EncodeCoroutine(ty, v, st, base) ==
    LET size == layout_size_bytes(ty)
        nested == coroutine_encode(ty, v, allocate_union_object_storage(size, size), 0)
    IN  emit_union_storage_copy(nested, 0, st, base, size)

DecodeCoroutine(ty, st, base) ==
    LET size == layout_size_bytes(ty)
    IN  coroutine_decode(ty, emit_union_storage_copy(st, base, allocate_union_object_storage(size, size), 0, size), 0)

\* A pointer is written as the number of its address.
emit_direct_pointer_to_union_bytes(v, size, st, base) ==
    emit_bits_to_union_bytes(v, "U64", size, st, base)
emit_direct_pointer_from_union_bytes(size, st, base) ==
    emit_bits_from_union_bytes("I64", size, st, base)

\* A raw pointer or a reference: its address, by a codec or without one.
EncodePointer(v, size, st, base) == emit_bits_to_union_bytes(v, "U64", size, st, base)
DecodePointer(size, st, base)    == emit_bits_from_union_bytes("I64", size, st, base)

\* A reference to an array, carried as a view of the array but thin in Rust: the address
\* alone is written, and the length of the type is put back.
EncodeArrayReference(v, size, st, base) == emit_bits_to_union_bytes(v.to, "U64", size, st, base)
DecodeArrayReference(ty, st, base) ==
    [to |-> emit_bits_from_union_bytes("U64", layout_size_bytes(ty), st, base), len |-> Layout[ty].len]

\* A slice or string pointer: the address of its data and its length.
EncodeFatPointer(v, st, base) ==
    emit_bits_to_union_bytes(v.len, "U64", 8, emit_bits_to_union_bytes(v.to, "U64", 8, st, base), base + 8)
DecodeFatPointer(st, base) ==
    [to |-> emit_bits_from_union_bytes("I64", 8, st, base),
     len |-> emit_bits_from_union_bytes("I64", 8, st, base + 8)]

\* A JVM object: the number the runtime keeps for it, zeros, and the object itself.
emit_managed_object_to_union_bytes(v, size, st, base) ==
    LET address == IF size < 8 THEN size ELSE 8
        padded == StoreBytes(emit_bits_to_union_bytes(v, "U64", address, st, base), base + address,
                             [n \in 1 .. size - address |-> 0])
    IN  emit_object_to_union_storage(v, padded, base)

emit_managed_object_from_union_bytes(size, st, base) ==
    emit_bits_from_union_bytes("I64", IF size < 8 THEN size ELSE 8, st, base)

\* Pointer.encodeArrayMemory and decodeArrayMemory: each element by its own codec.
EncodeArray(ty, v, st, base) ==
    LET L == Layout[ty]
        size == layout_size_bytes(L.elem)
        element(x) == Encode(L.elem, x,
                          allocate_union_object_storage(size, union_object_storage_size(L.elem, size)), 0).bytes
        Joined(elements) == [n \in 1 .. L.len * size |-> elements[(n - 1) \div size + 1][((n - 1) % size) + 1]]
    IN  StoreBytes(st, base, Joined([n \in 1 .. L.len |-> element(v[n])]))

DecodeArray(ty, st, base) ==
    LET size == layout_size_bytes(Layout[ty].elem)
        table == union_object_storage_size(Layout[ty].elem, size)
        part(n) == [bytes |-> SubSeq(st.bytes, base + (n - 1) * size + 1, base + n * size),
                    objects |-> [k \in 1 .. table |-> 0], fault |-> FALSE]
    IN  [n \in 1 .. Layout[ty].len |-> Decode(Layout[ty].elem, part(n), 0)]

\* A union's own storage, which a union carries as its value.
DecodeUnion(ty, st, base) ==
    LET size == layout_size_bytes(ty)
    IN  emit_union_storage_copy(st, base,
            allocate_union_object_storage(size, union_object_storage_size(ty, size)), 0, size)

\* emit_ty_to_union_bytes.  A struct without a layout never gets to the arm that stores it
\* as an object: asking for its size has failed before.
Encode(ty, v, st, base) ==
    LET L == Layout[ty]
    IN  CASE L.size = 0 -> st
          [] L.size > 0 /\ L.kind = "scalar" -> emit_scalar_to_union_bytes(L.num, v, st, base)
          [] L.kind = "wide" -> EncodeWide(v, st, base)
          [] L.kind = "fat" -> EncodeFatPointer(v, st, base)
          [] L.kind = "nonnull" -> emit_direct_pointer_to_union_bytes(v, L.size, st, base)
          [] L.kind = "pointer" -> EncodePointer(v, L.size, st, base)
          [] L.kind = "arrayref" -> EncodeArrayReference(v, L.size, st, base)
          [] L.kind = "coroutine" -> EncodeCoroutine(ty, v, st, base)
          [] L.kind = "pat" -> Encode(L.elem, v, st, base)
          [] L.kind = "array" /\ L.size > 0 -> EncodeArray(ty, v, st, base)
          [] L.kind = "enum" /\ L.size > 0 -> enum_variant_union_writer(ty, v, st, base)
          [] L.kind = "union" -> emit_union_storage_copy(v, 0, st, base, L.size)
          [] L.kind = "aggregate" /\ L.size > 0 ->
                 emit_aggregate_to_union_bytes(union_aggregate_layout(L.fields), v, st, base)
          [] L.kind = "managed" -> emit_managed_object_to_union_bytes(v, L.size, st, base)

\* emit_ty_from_union_bytes; a value without bytes is made up anew.
Decode(ty, st, base) ==
    LET L == Layout[ty]
    IN  CASE L.kind = "unit" -> <<>>
          [] L.kind = "scalar" -> emit_scalar_from_union_bytes(L.num, st, base)
          [] L.kind = "wide" -> DecodeWide(st, base)
          [] L.kind = "fat" -> DecodeFatPointer(st, base)
          [] L.kind = "nonnull" -> emit_direct_pointer_from_union_bytes(L.size, st, base)
          [] L.kind = "pointer" -> DecodePointer(L.size, st, base)
          [] L.kind = "arrayref" -> DecodeArrayReference(ty, st, base)
          [] L.kind = "coroutine" -> DecodeCoroutine(ty, st, base)
          [] L.kind = "pat" -> Decode(L.elem, st, base)
          [] L.kind = "array" -> DecodeArray(ty, st, base)
          [] L.kind = "enum" -> enum_union_reader(ty, st, base)
          [] L.kind = "union" -> DecodeUnion(ty, st, base)
          [] L.kind = "aggregate" -> emit_aggregate_from_union_bytes(union_aggregate_layout(L.fields), st, base)
          [] L.kind = "managed" -> emit_managed_object_from_union_bytes(L.size, st, base)

(***************************************************************************)
(* What the program does with them.                                         *)
(***************************************************************************)

\* The codec class of a type: encode and decode on whole byte arrays.
NewStorage(ty) ==
    allocate_union_object_storage(layout_size_bytes(ty), union_object_storage_size(ty, layout_size_bytes(ty)))

ensure_pointer_memory_codec_encode(ty, v) == Encode(ty, v, NewStorage(ty), 0)
ensure_pointer_memory_codec_decode(ty, bytes) ==
    Given(bytes, Decode(ty, [NewStorage(ty) EXCEPT !.bytes = bytes], 0))

\* Union.from_<field>, the getter, and the setter that writes in place.
union_from_function(ty, field, v) ==
    LET f == Layout[ty].fields[field] IN Encode(f.ty, v, NewStorage(ty), f.at)
union_getter_function(ty, field, v) ==
    LET f == Layout[ty].fields[field] IN Decode(f.ty, v, f.at)
union_setter_function(ty, field, v, value) ==
    LET f == Layout[ty].fields[field] IN Encode(f.ty, value, v, f.at)

RECURSIVE exact_bytes_supported(_)
exact_bytes_supported(ty) ==
    LET L == Layout[ty]
        All(fields) == \A n \in DOMAIN fields : exact_bytes_supported(fields[n].ty)
    IN  CASE L.size = 0 -> TRUE
          [] L.kind \in {"scalar", "wide", "pointer", "nonnull", "arrayref", "fat", "managed"} -> TRUE
          [] L.kind \in {"pat", "array"} /\ L.size > 0 -> exact_bytes_supported(L.elem)
          [] L.kind \in {"aggregate", "union"} /\ L.size > 0 -> All(L.fields)
          [] L.kind = "enum" /\ L.size > 0 -> \A v \in DOMAIN L.variants : All(L.variants[v])
          [] L.kind = "coroutine" -> All(L.fields) /\ \A k \in DOMAIN L.active : All(L.active[k])
          [] OTHER -> FALSE

\* Between thin pointers the carrier itself is kept, and between fat ones when the pointee
\* is the same or one is a byte slice and the other a string.
IsThinPointer(ty) == KindOf(ty) \in {"pointer", "nonnull"}
KeepsCarrier(source, target) ==
    \/ IsThinPointer(source) /\ IsThinPointer(target)
    \/ /\ KindOf(source) = "fat" /\ KindOf(target) = "fat"
       /\ \/ Layout[source].elem = Layout[target].elem
          \/ {Layout[source].elem, Layout[target].elem} = {"U8", "str"}

\* An integer that becomes a pointer: an address without provenance.
emit_unprovenanced_pointer_from_union_bytes(size, st) == emit_bits_from_union_bytes("U64", size, st, 0)

\* Otherwise the bytes are written and reread.
ensure_exact_transmute_helper(source, target, v) ==
    LET size == layout_size_bytes(source)
        Reread(st) ==
            IF Evaluated(st) /\ KindOf(source) \in {"scalar", "wide"} /\ IsThinPointer(target)
            THEN emit_unprovenanced_pointer_from_union_bytes(size, st) ELSE Decode(target, st, 0)
    IN  IF KeepsCarrier(source, target) THEN v
        ELSE Reread(Encode(source, v, allocate_union_object_storage(size, IF size > 1 THEN size ELSE 1), 0))
=============================================================================

-------------------------- MODULE ConstantFactories --------------------------
(***************************************************************************)
(* How lower2 writes a class: a constant that would take too many           *)
(* instructions where it is used becomes a call of a private factory of the *)
(* class, a long array is filled by several helpers, and a long array that  *)
(* is only read is built once and shared.  src/src/lower2.rs                *)
(***************************************************************************)
EXTENDS ClassFiles

CONSTANT MaxInline    \* MAX_INLINE_CONSTANT_INSTRUCTIONS
ASSUME MaxInlinePositive == MaxInline \in Nat \ {0}

-----------------------------------------------------------------------------
\* Constants: ty is the element type of an array or slice and the type of a
\* factory call, text the class, method or string, items the parts.
Constant(k, ty, text, n, items) == [k |-> k, ty |-> ty, text |-> text, n |-> n, items |-> items]
IntC(n) == Constant("int", <<"I">>, <<>>, n, <<>>)
LongC(n) == Constant("long", <<"J">>, <<>>, n, <<>>)
StrC(text) == Constant("string", <<"String">>, text, 0, <<>>)
ArrayC(ty, items) == Constant("array", ty, <<>>, 0, items)
SliceC(ty, items) == Constant("slice", ty, <<>>, 0, items)
SliceRefC(ty, backing, length) == Constant("sliceref", ty, <<>>, length, <<backing>>)
PointerC(text, value) == Constant("pointer", <<"Pointer">>, text, 0, <<value>>)
InstanceC(class, items) == Constant("instance", class, class, 0, items)
StaticCallC(text, items) == Constant("call", <<"Object">>, text, 0, items)
FactoryC(owner, method, ty) == Constant("factory", ty, owner \o method, Len(owner), <<>>)

type_from_constant(c) ==
    IF c.k = "array" THEN <<"Array">> \o c.ty
    ELSE IF c.k \in {"slice", "sliceref"} THEN <<"Slice">> \o c.ty
    ELSE c.ty

\* The cost of each part, and of storing it.
RECURSIVE constant_instruction_cost(_), PartsCost(_, _)
PartsCost(items, each) ==
    IF items = <<>> THEN 0
    ELSE each + constant_instruction_cost(Head(items)) + PartsCost(Tail(items), each)
constant_instruction_cost(c) ==
    CASE c.k = "call" -> 1 + PartsCost(c.items, 0)
      [] c.k = "pointer" -> 7 + PartsCost(c.items, 0)
      [] c.k = "array" -> 2 + PartsCost(c.items, 3)
      [] c.k = "slice" -> 7 + PartsCost(c.items, 3)
      [] c.k = "sliceref" -> 5 + PartsCost(c.items, 0)
      [] c.k = "instance" -> 3 + PartsCost(c.items, 0)
      [] OTHER -> 1

IsLarge(c) == constant_instruction_cost(c) > MaxInline

-----------------------------------------------------------------------------
\* A class being written: its pool, its finished methods, the number of the
\* next factory and the code of the method in hand.
Builder(pool) == [pool |-> pool, methods |-> <<>>, boot |-> <<>>, next |-> 0, code |-> <<>>]

Emit(b, op, n) == [b EXCEPT !.code = Append(@, Instr(op, n))]

EmitIndex(b, op, at) == Emit(b, IF op = "ldc" /\ at >= LdcLimit THEN "ldc_w" ELSE op, at)
EmitAt(b, op, s) == EmitIndex(b, op, IndexOf(b.pool, s))

\* An instruction that reaches the pool; ldc takes the wide form when it must.
EmitPool(b, op, s) ==
    EmitAt([b EXCEPT !.pool = Interned(@, s)], op, s)

RECURSIVE load_constant(_, _), LoadParts(_, _), StoreElements(_, _, _, _, _)
LoadParts(b, items) ==
    IF Evaluated(b) /\ items = <<>> THEN b ELSE LoadParts(load_constant(b, Head(items)), Tail(items))

\* Elements k .. end of the array that the instruction array pushes.
StoreElements(b, array, items, k, end) ==
    IF Evaluated(b) /\ k > end THEN b
    ELSE StoreElements(Emit(load_constant(Emit(Emit(b, array, 0), "push", k - 1), items[k]), "aastore", 0),
                       array, items, k + 1, end)
LoadArray(b, items) ==
    StoreElements(Emit(Emit(b, "push", Len(items)), "newarray", 0), "dup", items, 1, Len(items))

LoadFactoryCall(b, c) ==
    EmitPool(b, "invokestatic", MethodRef(SubSeq(c.text, 1, c.n), SubSeq(c.text, c.n + 1, Len(c.text)),
                                          <<"()">> \o c.ty))
LoadStaticCall(b, c) ==
    EmitPool(LoadParts(b, c.items), "invokestatic", MethodRef(<<"rt">>, c.text, <<"Make", Len(c.items)>>))

\* The runtime keeps one allocation for each identity.
LoadInternedPointer(b, c) ==
    EmitPool(LoadParts(EmitPool(b, "ldc", StringOf(c.text)), c.items), "invokestatic",
             MethodRef(<<"Pointer">>, <<"constantCell">>, <<"Cell">>))
LoadInstance(b, c) ==
    LET made == EmitPool(b, "new", ClassOf(c.text))
    IN  EmitPool(LoadParts(Emit(made, "dup", 0), c.items), "invokespecial",
                 MethodRef(c.text, <<"<init>">>, <<"(..)V", Len(c.items)>>))

load_constant(b, c) ==
    CASE c.k = "int" -> Emit(b, "push", c.n)
      [] c.k = "long" -> EmitPool(b, "ldc2_w", LongOf(c.n))
      [] c.k = "string" -> EmitPool(b, "ldc", StringOf(c.text))
      [] c.k = "array" -> LoadArray(b, c.items)
      [] c.k = "slice" -> Emit(LoadArray(b, c.items), "wrap", Len(c.items))
      [] c.k = "sliceref" -> Emit(LoadParts(b, c.items), "wrap", c.n)
      [] c.k = "factory" -> LoadFactoryCall(b, c)
      [] c.k = "call" -> LoadStaticCall(b, c)
      [] c.k = "pointer" -> LoadInternedPointer(b, c)
      [] c.k = "instance" -> LoadInstance(b, c)

WithMethod(b, name, desc, flags) ==
    [b EXCEPT !.code = <<>>,
              !.methods = Append(@, [flags EXCEPT !.name = IndexOf(b.pool, Utf8(name)),
                                                  !.desc = IndexOf(b.pool, Utf8(desc)),
                                                  !.code = b.code])]

\* The code in hand becomes a method; with a name and a descriptor interned.
Finished(b, name, desc, flags) ==
    WithMethod([b EXCEPT !.pool = InternedAll(@, <<Utf8(name), Utf8(desc)>>)], name, desc, flags)

add_constant_helper_method(b, name, desc) ==
    Finished([b EXCEPT !.next = @ + 1], name, desc, [Nameless EXCEPT !.static = TRUE, !.public = FALSE])

factory_name(b) == <<"factory", b.next>>
fill_name(b) == <<"fill", b.next>>

\* Where a fill helper that starts at k stops: it takes one element at least,
\* and more while they stay within the limit.
ChunkEnd(items, k) ==
    CHOOSE m \in k .. Len(items) :
        /\ \A j \in k + 1 .. m : PartsCost(SubSeq(items, k, j), 3) <= MaxInline
        /\ m < Len(items) => PartsCost(SubSeq(items, k, m + 1), 3) > MaxInline

\* One helper: elements k .. ChunkEnd of the array in local 0.
Filled(b, ty, items, k) ==
    add_constant_helper_method(
        Emit(StoreElements(b, "aload", items, k, ChunkEnd(items, k)), "return", 0),
        fill_name(b), <<"Fill">> \o ty)

\* Each answers the class as it then is and the constant to use instead.
RECURSIVE create_constant_factory(_, _, _), create_chunked_array_factory(_, _, _),
          PrepareFrom(_, _, _, _), CallFills(_, _, _), FillFrom(_, _, _)

\* The code in hand, which leaves a ty, becomes the next factory.
AsFactory(b, owner, ty) ==
    Given(b, [b |-> add_constant_helper_method(Emit(b, "areturn", 0), factory_name(b), <<"()">> \o ty),
              c |-> FactoryC(owner, factory_name(b), ty)])

WithPart(items, f) == [b |-> f.b, items |-> Append(items, f.c)]
PrepareFrom(a, owner, items, all) ==
    IF Evaluated(a) /\ items = <<>> THEN a
    ELSE PrepareFrom(WithPart(a.items, IF all \/ IsLarge(Head(items))
                                       THEN create_constant_factory(a.b, owner, Head(items))
                                       ELSE [b |-> a.b, c |-> Head(items)]),
                     owner, Tail(items), all)
PreparedParts(b, owner, items, all) == PrepareFrom([b |-> b, items |-> <<>>], owner, items, all)

FillFrom(a, ty, items) ==
    IF Evaluated(a) /\ a.k > Len(items) THEN a
    ELSE FillFrom([b |-> Filled(a.b, ty, items, a.k), names |-> Append(a.names, fill_name(a.b)),
                   k |-> ChunkEnd(items, a.k) + 1], ty, items)
CallFills(b, desc, refs) ==
    IF Evaluated(b) /\ refs = <<>> THEN b
    ELSE CallFills(EmitPool(Emit(b, "aload", 0), "invokestatic",
                            MethodRef(Head(refs)[1], Head(refs)[2], desc)), desc, Tail(refs))
FilledArray(filled, owner, c) ==
    CallFills(Emit(Emit(Emit(filled.b, "push", Len(c.items)), "newarray", 0), "astore", 0),
              <<"Fill">> \o c.ty, [k \in DOMAIN filled.names |-> <<owner, filled.names[k]>>])
ChunkedArray(prepared, owner, c) ==
    AsFactory(Emit(FilledArray(FillFrom([b |-> prepared.b, names |-> <<>>, k |-> 1], c.ty, prepared.items),
                               owner, c), "aload", 0),
              owner, <<"Array">> \o c.ty)
create_chunked_array_factory(b0, owner, c) ==
    LET prepared == PreparedParts(b0, owner, c.items, FALSE)
    IN  Given(prepared, ChunkedArray(prepared, owner, c))

SliceFactory(backing, owner, c) ==
    Given(backing, create_constant_factory(backing.b, owner, SliceRefC(c.ty, backing.c, Len(c.items))))
PartsFactory(b, owner, c) == AsFactory(load_constant(b, c), owner, type_from_constant(c))
PreparedFactory(prepared, owner, c) ==
    Given(prepared, PartsFactory(prepared.b, owner, [c EXCEPT !.items = prepared.items]))

create_constant_factory(b0, owner, c) ==
    CASE c.k = "array" /\ IsLarge(c) -> create_chunked_array_factory(b0, owner, c)
      [] c.k = "slice" /\ IsLarge(c) -> SliceFactory(create_chunked_array_factory(b0, owner, c), owner, c)
      [] c.k \in {"int", "long", "string", "factory"} -> [b |-> b0, c |-> c]
      [] OTHER -> PreparedFactory(PreparedParts(b0, owner, c.items, c.k \in {"sliceref", "pointer", "call"}),
                                  owner, c)

\* A shared array is asked of the runtime, which calls the builder once.
AskShared(b, owner, builder) ==
    EmitPool(LoadParts(b, <<StrC(owner \o <<"#">> \o builder), StrC(owner), StrC(builder)>>),
             "invokestatic", MethodRef(<<"Pointer">>, <<"sharedConstant">>, <<"Shared">>))
SharedArray(built, owner) ==
    AsFactory(AskShared(built.b, owner, SubSeq(built.c.text, built.c.n + 1, Len(built.c.text))), owner, built.c.ty)
create_shared_array_factory(b0, owner, c) ==
    SharedArray(create_chunked_array_factory(b0, owner, c), owner)
=============================================================================

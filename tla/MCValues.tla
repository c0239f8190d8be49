------------------------------ MODULE MCValues -------------------------------
(***************************************************************************)
(* Values on bytes of two bits, with a type for every way of laying out an   *)
(* enum, a union, a pointer and an aggregate that the codecs tell apart.     *)
(***************************************************************************)
EXTENDS Values, TLC

Scalar(num) == [kind |-> "scalar", size |-> Bytes[num], num |-> num]
At(at, ty) == [at |-> at, ty |-> ty]
Struct(size, fields) == [kind |-> "aggregate", what |-> "struct", size |-> size, fields |-> fields]
Enum(size, discr, discriminants, variants, tag) ==
    [kind |-> "enum", size |-> size, discr |-> discr, discrSize |-> Bytes[discr],
     discriminants |-> discriminants, variants |-> variants, tag |-> tag]
Direct(at, size) == [how |-> "direct", at |-> at, size |-> size]
Niche(at, size, first, last, start, untagged) ==
    [how |-> "niche", at |-> at, size |-> size, first |-> first, last |-> last, start |-> start, untagged |-> untagged]
Single(variant) == [how |-> "single", variant |-> variant]

NumberLayouts == [num \in DOMAIN Bytes |-> Scalar(num)]

TheLayout == NumberLayouts @@
  [Unit     |-> [kind |-> "unit", size |-> 0],
   Marker   |-> Struct(0, <<At(0, "Unit")>>),
   Pair     |-> Struct(4, <<At(0, "U8"), At(0, "Marker"), At(2, "U16")>>),
   Tuple    |-> [Struct(2, <<At(0, "Unit"), At(0, "I16")>>) EXCEPT !.what = "tuple"],
   Closure  |-> [Struct(1, <<At(0, "Marker"), At(0, "I8")>>) EXCEPT !.what = "closure"],
   Ordering |-> Enum(1, "I8", <<-1, 0, 1>>, <<<<>>, <<>>, <<>>>>, Direct(0, 1)),
   Newtype  |-> Struct(1, <<At(0, "Ordering"), At(1, "Unit")>>),
   OptBool  |-> Enum(1, "I64", <<0, 1>>, <<<<>>, <<At(0, "Boolean")>>>>, Niche(0, 1, 1, 1, 2, 2)),
   OptOrd   |-> Enum(1, "I64", <<0, 1>>, <<<<>>, <<At(0, "Ordering")>>>>, Niche(0, 1, 1, 1, 2, 2)),
   Shape    |-> Enum(4, "U8", <<0, 3, 1>>, <<<<At(1, "U8")>>, <<At(2, "U16")>>, <<At(1, "Unit")>>>>, Direct(0, 1)),
   Far      |-> Enum(4, "I64", <<0, 1, 2>>,
                     <<<<At(1, "Boolean"), At(2, "U16")>>, <<At(2, "U16")>>, <<>>>>, Niche(1, 1, 2, 3, 2, 1)),
   Only     |-> Enum(2, "I64", <<0>>, <<<<At(0, "U16")>>>>, Single(1)),
   Huge     |-> Enum(16, "I64", <<-1, 1>>, <<<<>>, <<>>>>, Direct(0, 16)),
   Ptr      |-> [kind |-> "pointer", size |-> 8, pointee |-> "U16"],
   NotZero  |-> [kind |-> "pat", size |-> 8, elem |-> "Ptr", least |-> 1],
   NonNull  |-> [kind |-> "nonnull", size |-> 8, elem |-> "NotZero"],
   RefFour  |-> [kind |-> "arrayref", size |-> 8, elem |-> "U8", len |-> 4],
   OptPtr   |-> Enum(8, "I64", <<0, 1>>, <<<<>>, <<At(0, "NonNull")>>>>, Niche(0, 8, 1, 1, 0, 2)),
   Function |-> [kind |-> "managed", size |-> 8],
   OptFn    |-> Enum(8, "I64", <<0, 1>>, <<<<>>, <<At(0, "Function")>>>>, Niche(0, 8, 1, 1, 0, 2)),
   Slice    |-> [kind |-> "fat", size |-> 16, elem |-> "U8"],
   Text     |-> [kind |-> "fat", size |-> 16, elem |-> "str"],
   Signs    |-> [kind |-> "fat", size |-> 16, elem |-> "I8"],
   Wide     |-> [kind |-> "wide", size |-> 16],
   Four     |-> [kind |-> "array", size |-> 4, elem |-> "U8", len |-> 4],
   Longs    |-> [kind |-> "array", size |-> 16, elem |-> "U64", len |-> 2],
   Shapes   |-> [kind |-> "array", size |-> 8, elem |-> "Shape", len |-> 2],
   Units    |-> [kind |-> "array", size |-> 0, elem |-> "Marker", len |-> 2],
   Small    |-> [kind |-> "union", size |-> 4,
                 fields |-> <<At(0, "U8"), At(0, "I16"), At(0, "Pair"), At(0, "Shape"), At(0, "Four"), At(0, "U32")>>],
   Mixed    |-> [kind |-> "union", size |-> 8,
                 fields |-> <<At(0, "Ptr"), At(0, "U64"), At(0, "OptPtr"), At(0, "Function")>>],
   Holder   |-> Struct(12, <<At(0, "Mixed"), At(8, "Small")>>),
   Frame    |-> [kind |-> "coroutine", size |-> 4, fields |-> <<At(0, "U8")>>, tag |-> [at |-> 1, size |-> 1],
                 active |-> <<<<>>, <<>>, <<[at |-> 2, ty |-> "U16", saved |-> 1]>>,
                              <<[at |-> 2, ty |-> "U8", saved |-> 2], [at |-> 3, ty |-> "I8", saved |-> 3]>>>>,
                 len |-> 3]]

Byte == 0 .. 3
Zeros(n) == [k \in 1 .. n |-> 0]
Words2 == {<<0, 0>>, <<3, 1>>, <<0, 2>>, <<3, 3>>, <<1, 0>>}
Singles == [1 .. 1 -> Byte]
Words4 == {<<0, 0, 0, 0>>, <<3, 3, 3, 1>>, <<0, 0, 0, 2>>, <<3, 3, 3, 3>>, <<2, 1, 3, 0>>}
Words8 == {Zeros(8), <<3, 3, 3, 3, 3, 3, 3, 3>>, <<0, 0, 0, 0, 0, 0, 0, 2>>, <<2, 1, 3, 0, 0, 0, 0, 0>>}
SmallWords == Words4 \cup {<<3, Uninit, 1, 2>>, <<0, 3, Uninit, Uninit>>, <<2, Uninit, Uninit, Uninit>>}

\* Constants that hold no pointer: their bytes, by type.
Plain ==
  [U8 |-> Singles, I8 |-> Singles, Boolean |-> {<<0>>, <<1>>}, Closure |-> Singles,
   U16 |-> Words2, I16 |-> Words2, Tuple |-> {<<1, 2>>, <<3, 3>>}, Only |-> {<<1, 2>>, <<0, 3>>},
   U32 |-> Words4, I32 |-> Words4, F32 |-> Words4, U64 |-> Words8, I64 |-> Words8, F64 |-> Words8,
   Ordering |-> {<<0>>, <<1>>, <<3>>}, Newtype |-> {<<0>>, <<1>>, <<3>>},
   OptBool |-> {<<0>>, <<1>>, <<2>>}, OptOrd |-> Singles,
   Pair |-> {<<2, Uninit, 1, 3>>, <<3, Uninit, 0, 2>>},
   Shape |-> {<<0, 3, Uninit, Uninit>>, <<3, Uninit, 1, 2>>, <<1, Uninit, Uninit, Uninit>>},
   Far |-> {<<Uninit, 1, 3, 1>>, <<Uninit, 2, 3, 1>>, <<Uninit, 3, Uninit, Uninit>>},
   Four |-> Words4, Shapes |-> {<<0, 3, Uninit, Uninit, 3, Uninit, 1, 2>>},
   Longs |-> {a \o b : a, b \in {<<3, 3, 3, 3, 3, 3, 3, 3>>, <<0, 1, 2, 3, 0, 1, 2, 2>>}},
   Wide |-> {[k \in 1 .. 16 |-> k % 4], [k \in 1 .. 16 |-> 3]},
   Marker |-> {<<>>}, Units |-> {<<>>},
   Ptr |-> {Zeros(8), <<2, 1, 3, 0, 0, 0, 0, 2>>}, OptPtr |-> {Zeros(8)}, OptFn |-> {Zeros(8)},
   Small |-> SmallWords, Mixed |-> Words8]

(***************************************************************************)
(* Constants with pointers: to a number, into the middle of an array, to a   *)
(* function, and a slice of an array.                                        *)
(***************************************************************************)
Target == <<100>>
Array == <<101>>
Callee == <<102>>
ToTarget == <<103>>
IntoArray == <<104>>
ToCallee == <<105>>
OfArray == <<106>>
Held == <<107>>

Memory(base, bytes, relocs) ==
    [what |-> "memory", base |-> base, copy |-> base + 16, bytes |-> bytes, relocs |-> relocs]
Reloc(at, to, offset) == [at |-> at, to |-> to, offset |-> offset]

TheAllocations ==
    [bytes \in UNION {Plain[ty] : ty \in DOMAIN Plain} |-> Memory(0, bytes, {})] @@
    (Target :> Memory(20, <<1, 2>>, {})) @@
    (Array :> Memory(36, <<1, 2, 3, 0>>, {})) @@
    (Callee :> [what |-> "function", base |-> 9, bytes |-> <<>>, relocs |-> {}]) @@
    (ToTarget :> Memory(60, Zeros(8), {Reloc(0, Target, 0)})) @@
    (IntoArray :> Memory(70, <<2>> \o Zeros(7), {Reloc(0, Array, 2)})) @@
    (ToCallee :> Memory(80, Zeros(8), {Reloc(0, Callee, 0)})) @@
    (OfArray :> Memory(90, Zeros(9) \o <<1>> \o Zeros(6), {Reloc(0, Array, 0)})) @@
    (Held :> Memory(110, Zeros(8) \o <<3, 1, 0, 2>>, {Reloc(0, Callee, 0)}))

TheSamples ==
    UNION {{[ty |-> ty, id |-> bytes] : bytes \in Plain[ty]} : ty \in DOMAIN Plain} \cup
    {[ty |-> ty, id |-> id] : ty \in {"Ptr", "NonNull", "OptPtr", "Mixed"}, id \in {ToTarget, IntoArray}} \cup
    {[ty |-> ty, id |-> ToCallee] : ty \in {"Function", "OptFn", "Mixed"}} \cup
    {[ty |-> "Slice", id |-> OfArray], [ty |-> "Holder", id |-> Held]}

\* A coroutine in its first state and at two of its awaits, and an enum with a tag of 16 bytes.
TheBuilt ==
    {[ty |-> "Frame", jvm |-> [upvars |-> <<-1>>, state |-> 0, saved |-> <<0, 0, 0>>], mem |-> <<3, 0, Uninit, Uninit>>],
     [ty |-> "Frame", jvm |-> [upvars |-> <<1>>, state |-> 2, saved |-> <<13, 0, 0>>], mem |-> <<1, 2, 1, 3>>],
     [ty |-> "Frame", jvm |-> [upvars |-> <<1>>, state |-> 3, saved |-> <<5, -2, -1>>], mem |-> <<1, 3, 2, 3>>],
     [ty |-> "Huge", jvm |-> [variant |-> 1, fields |-> <<>>], mem |-> [k \in 1 .. 16 |-> 3]],
     [ty |-> "Huge", jvm |-> [variant |-> 2, fields |-> <<>>], mem |-> <<1>> \o Zeros(15)]}

TheScalarAbi == DOMAIN Bytes \cup {"Ordering", "Newtype", "OptBool", "OptOrd", "Tuple", "Closure", "Only", "Ptr", "OptPtr"}
TheTransmuteTargets == DOMAIN TheLayout \ {"Unit"}

\* TLC evaluates a definition once, and what a constant stands for each time.
MCLayout == LET known == TheLayout IN known
MCAllocations == LET known == TheAllocations IN known
MCSamples == LET known == TheSamples IN known
MCBuilt == LET known == TheBuilt IN known
MCScalarAbi == LET known == TheScalarAbi IN known
MCTransmuteTargets == LET known == TheTransmuteTargets IN known
=============================================================================

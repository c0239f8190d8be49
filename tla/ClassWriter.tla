----------------------------- MODULE ClassWriter -----------------------------
(***************************************************************************)
(* From an OOMIR module to its classes: the functions of each owner class   *)
(* with their constants prepared, the statics with their initialiser, the   *)
(* classes of data types with the methods placed in them, the interfaces.   *)
(* src/src/lower2.rs, src/src/lower2/jvm_gen.rs                             *)
(*                                                                          *)
(* A function has an owner, a name and a body.  Its body is a sequence of   *)
(* instructions, a return the last of them, over numbered variables:        *)
(*   Move d c | Copy d s | Get d s i | Put d i x | GetField d s i |         *)
(*   SetField d i x | Length d s | Call d f | Pointer d f | Static d f |    *)
(*   Return s | ReturnOf c                                                  *)
(* Of the operands that may be constants two stand for all: a Move's, which *)
(* may be shared, and a Return's, which like any other may not.             *)
(***************************************************************************)
EXTENDS ConstantFactories

NoConstant == IntC(0)
Ins(k, d, s, i, c, f) == [k |-> k, d |-> d, s |-> s, i |-> i, c |-> c, f |-> f]
Move(d, c) == Ins("Move", d, 0, 0, c, <<>>)
Copy(d, s) == Ins("Copy", d, s, 0, NoConstant, <<>>)
Get(d, s, i) == Ins("Get", d, s, i, NoConstant, <<>>)
Put(d, i, s) == Ins("Put", d, s, i, NoConstant, <<>>)
GetField(d, s, i) == Ins("GetField", d, s, i, NoConstant, <<>>)
SetField(d, i, s) == Ins("SetField", d, s, i, NoConstant, <<>>)
Length(d, s) == Ins("Length", d, s, 0, NoConstant, <<>>)
Call(d, f) == Ins("Call", d, 0, 0, NoConstant, f)
Pointer(d, f) == Ins("Pointer", d, 0, 0, NoConstant, f)
Static(d, f) == Ins("Static", d, 0, 0, NoConstant, f)
Return(s) == Ins("Return", 0, s, 0, NoConstant, <<>>)
ReturnOf(c) == Ins("ReturnOf", 0, 0, 0, c, <<>>)

\* What an instruction defines and what it reads.
instruction_def(i) == IF i.k \in {"Put", "SetField", "Return", "ReturnOf"} THEN {} ELSE {i.d}
instruction_uses(i) ==
    IF i.k \in {"Put", "SetField"} THEN {i.d, i.s}
    ELSE IF i.k \in {"Move", "Call", "Pointer", "Static", "ReturnOf"} THEN {} ELSE {i.s}

InstrsOf(body) == {body[k] : k \in DOMAIN body}

\* Mutant: the copies of an element are not followed.
Mobject_array_elements_are_read_only(body, array) ==
    LET loaded == {i.d : i \in {x \in InstrsOf(body) : x.k = "Get" /\ x.s = array}}
    IN  \A i \in InstrsOf(body) :
            instruction_uses(i) \intersect loaded # {} =>
                i.k \in {"Copy", "GetField"} /\ i.s \in loaded

\* The objects loaded from the array are only looked at: copied, or read
\* through a field, and so are their copies.
object_array_elements_are_read_only(body, array) ==
    LET loaded == {i.d : i \in {x \in InstrsOf(body) : x.k = "Get" /\ x.s = array}}
        more(V) == V \union {i.d : i \in {x \in InstrsOf(body) : x.k = "Copy" /\ x.s \in V}}
        elements == Iterated(more, LAMBDA V : more(V) = V, loaded)
    IN  \A i \in InstrsOf(body) :
            instruction_uses(i) \intersect elements # {} =>
                i.k \in {"Copy", "GetField"} /\ i.s \in elements

\* The variables that hold a large array, once, and only lend its elements
\* and its length.
read_only_large_array_variables(body) ==
    LET candidates == {i \in InstrsOf(body) : i.k = "Move" /\ i.c.k = "array" /\ IsLarge(i.c)}
        defined(v) == Cardinality({k \in DOMAIN body : v \in instruction_def(body[k])})
        lent(v) == \A i \in InstrsOf(body) :
                       v \in instruction_uses(i) => i.k \in {"Get", "Length"} /\ i.s = v
    IN  {i.d : i \in {x \in candidates :
            /\ lent(x.d) /\ defined(x.d) = 1
            /\ x.c.ty \in {<<"I">>, <<"J">>} \/ object_array_elements_are_read_only(body, x.d)}}

\* A large constant operand is replaced; a read-only array is shared.
prepare_constant_operand(b, owner, c, shared) ==
    IF ~IsLarge(c) THEN [b |-> b, c |-> c]
    ELSE IF shared THEN create_shared_array_factory(b, owner, c)
    ELSE create_constant_factory(b, owner, c)

WithOperand(a, i, p) == [b |-> p.b, body |-> Append(a.body, [i EXCEPT !.c = p.c])]
PrepareOperands(b, f, shared) ==
    Foldl(LAMBDA a, i : IF i.k \notin {"Move", "ReturnOf"} THEN [a EXCEPT !.body = Append(@, i)]
                        ELSE WithOperand(a, i, prepare_constant_operand(a.b, f.owner, i.c,
                                                                        i.k = "Move" /\ i.d \in shared)),
          [b |-> b, body |-> <<>>], f.body)
prepare_function_constants(b, f) == PrepareOperands(b, f, read_only_large_array_variables(f.body))

FnDesc == <<"fn">>
RefTo(f) == MethodRef(f[1], f[2], FnDesc)

Metafactory == MethodHandle(6, MethodRef(<<"LambdaMetafactory">>, <<"metafactory">>, <<"meta">>))
PointerArgs(f) == <<MethodType(FnDesc), MethodHandle(6, RefTo(f)), MethodType(FnDesc)>>
BindPointer(b, args) ==
    EmitPool([b EXCEPT !.boot = Append(@, [ref |-> IndexOf(b.pool, Metafactory),
                                           args |-> [k \in DOMAIN args |-> IndexOf(b.pool, args[k])]])],
             "invokedynamic", InvokeDynamic(Len(b.boot), <<"call">>, FnDesc))

\* A function pointer is a call site of its own, bound by a bootstrap method
\* that names the function.
EmitPointer(b, f) ==
    BindPointer([b EXCEPT !.pool = InternedAll(@, <<Metafactory>> \o PointerArgs(f))], PointerArgs(f))

\* The instructions in the order the translator writes them.
EmitInstruction(b, i) ==
    LET from == Emit(b, "aload", i.s)
        element == Emit(Emit(b, "aload", i.d), "push", i.i)
        field(n) == FieldRef(<<"Object">>, <<"field", n>>, <<"I">>)
    IN  CASE i.k = "Move" -> Emit(load_constant(b, i.c), "astore", i.d)
          [] i.k = "Copy" -> Emit(from, "astore", i.d)
          [] i.k = "Get" -> Emit(Emit(Emit(from, "push", i.i), "aaload", 0), "astore", i.d)
          [] i.k = "Put" -> Emit(Emit(element, "aload", i.s), "aastore", 0)
          [] i.k = "GetField" -> Emit(EmitPool(from, "getfield", field(i.i)), "astore", i.d)
          [] i.k = "SetField" -> EmitPool(Emit(Emit(b, "aload", i.d), "aload", i.s), "putfield", field(i.i))
          [] i.k = "Length" -> Emit(Emit(from, "arraylength", 0), "astore", i.d)
          [] i.k = "Call" -> Emit(EmitPool(b, "invokestatic", RefTo(i.f)), "astore", i.d)
          [] i.k = "Pointer" -> Emit(EmitPointer(b, i.f), "astore", i.d)
          [] i.k = "Static" -> Emit(EmitPool(b, "getstatic", FieldRef(i.f[1], i.f[2], <<"Pointer">>)),
                                    "astore", i.d)
          [] i.k = "Return" -> Emit(from, "areturn", 0)
          [] i.k = "ReturnOf" -> Emit(load_constant(b, i.c), "areturn", 0)

\* The method of a function: its variables live from their first store to the
\* end; the handler table and the frames name a class each.
LiveFrom(code, offsets) ==
    LET stores == {k \in DOMAIN code : code[k].op = "astore"}
    IN  IF stores = {} THEN 0 ELSE offsets[(CHOOSE k \in stores : \A j \in stores : k <= j) + 1]
Attributes(pool, offsets, from, f) ==
    [Nameless EXCEPT !.static = f.static,
       !.vars = <<[start |-> from, length |-> offsets[Len(offsets)] - from,
                   name |-> IndexOf(pool, Utf8(<<"this">>))]>>,
       !.frames = <<IndexOf(pool, ClassOf(f.owner))>>,
       !.catches = <<0, IndexOf(pool, ClassOf(<<"Throwable">>))>>,
       !.params = <<IndexOf(pool, Utf8(<<"this">>))>>]
WithAttributes(b, offsets, f) ==
    Finished(b, f.name, FnDesc, Attributes(b.pool, offsets, LiveFrom(b.code, offsets), f))
Translated(b, f) ==
    WithAttributes([b EXCEPT !.pool = InternedAll(@, <<Utf8(<<"this">>), ClassOf(f.owner),
                                                       ClassOf(<<"Throwable">>)>>)],
                   instruction_byte_offsets(b.code), f)
Prepared(p, f) == Given(p, Translated(Foldl(EmitInstruction, p.b, p.body), f))
AddFunction(b, f) ==
    Prepared(prepare_function_constants(
                 [b EXCEPT !.pool = InternedAll(@, <<Utf8(f.name), Utf8(FnDesc)>>)], f), f)

RECURSIVE AddFunctions(_, _)
AddFunctions(b, fs) == IF Evaluated(b) /\ fs = <<>> THEN b ELSE AddFunctions(AddFunction(b, fs[1]), Tail(fs))

ClassFrom(name, iface, interfaces, fields, b) ==
    [name |-> name, iface |-> iface, interfaces |-> interfaces, fields |-> fields,
     pool |-> b.pool, methods |-> b.methods, boot |-> b.boot]

Started(names) == Builder(InternedAll(<<>>, [k \in DOMAIN names |-> ClassOf(names[k])]))
create_default_constructor(b) == Finished(Emit(b, "return", 0), <<"<init>">>, <<"()V">>, Nameless)

\* <clinit>: each static is built and, unless it is an array, put in a cell.
StoreStatic(b, owner, s) == EmitPool(b, "putstatic", FieldRef(owner, s.name, <<"Pointer">>))
LoadStatic(code, init, s) ==
    IF s.value.k = "array" THEN load_constant([init.b EXCEPT !.code = code], init.c)
    ELSE Emit(load_constant([init.b EXCEPT !.code = code], init.c), "make", 1)
InitializeStatic(b, owner, s) ==
    StoreStatic(LoadStatic(b.code, create_constant_factory([b EXCEPT !.code = <<>>], owner, s.value), s), owner, s)
RECURSIVE InitializeStatics(_, _, _)
InitializeStatics(b, owner, statics) ==
    IF Evaluated(b) /\ statics = <<>> THEN b
    ELSE InitializeStatics(InitializeStatic(b, owner, Head(statics)), owner, Tail(statics))
create_static_initializer_method(b, owner, statics) ==
    Finished(Emit(InitializeStatics(b, owner, statics), "return", 0),
             <<"<clinit>">>, <<"()V">>, [Nameless EXCEPT !.static = TRUE])

\* The class that holds the functions and statics of one owner.
WithStatics(b, owner, statics) ==
    IF statics = <<>> THEN b ELSE create_static_initializer_method(b, owner, statics)
ModuleClass(owner, functions, statics) ==
    ClassFrom(owner, FALSE, <<>>, [k \in DOMAIN statics |-> statics[k].name],
              create_default_constructor(
                  AddFunctions(WithStatics(Started(<<<<"Object">>, owner>>), owner, statics), functions)))

\* The class of a data type: its constructor, then the methods placed in it.
create_data_type_classfile_for_class(name, type) ==
    LET start == Started(<<name, <<"Object">>>> \o type.interfaces)
    IN  ClassFrom(name, FALSE, [k \in DOMAIN type.interfaces |->
                                   IndexOf(start.pool, ClassOf(type.interfaces[k]))],
                  type.fields,
                  AddFunctions(create_default_constructor(start),
                               [k \in DOMAIN type.methods |-> [type.methods[k] EXCEPT !.owner = name]]))

create_data_type_classfile_for_interface(name, methods) ==
    ClassFrom(name, TRUE, <<>>, <<>>,
              Foldl(LAMBDA b, m : Finished(b, m, FnDesc, Nameless), Started(<<name, <<"Object">>>>), methods))
=============================================================================

------------------------------ MODULE DropGlue ------------------------------
(***************************************************************************)
(* The drop code of a type: emit_rust_drop_value                           *)
(* (src/src/lower1/control_flow.rs), the rustDrop and _rust_drop_fields    *)
(* methods of the generated classes (src/src/lower1/types.rs) and the      *)
(* helpers of Pointer.java they call.                                      *)
(*                                                                         *)
(* A type is a tree.  own names its Drop implementation ("" without one);  *)
(* parts are its fields, captures or elements, the fields of the active    *)
(* variant of an enum, the pointee of a Box or the value behind a dyn.     *)
(***************************************************************************)
EXTENDS Folding, Integers, Sequences

Ty(kind, own, parts) == [kind |-> kind, own |-> own, parts |-> parts]

\* A Box has a Drop implementation of its own, the deallocation.
Boxed(pointee) == Ty("box", "dealloc", <<pointee>>)

RECURSIVE NeedsDrop(_)
NeedsDrop(t) == t.own # "" \/ \E i \in DOMAIN t.parts : NeedsDrop(t.parts[i])

\* The parts that are dropped at all.
Droppable(t) == SelectSeq(t.parts, NeedsDrop)

-----------------------------------------------------------------------------
(* Emitted code.  A step of drop code is a call:                           *)
(*   own     the type's Drop::drop                                         *)
(*   adt     Pointer.dropAdtWithCleanup      box     dropBoxWithCleanup    *)
(*   slice   Pointer.dropSlice               value   Pointer.dropRustValue *)
(*   fields  _rust_drop_fields               shim    rustc's drop shim     *)
(*   place   the instructions of a Drop terminator or a drop_in_place      *)

Step(call, t) == [call |-> call, ty |-> t]

\* The same call for every type of a list.
Each(call, types) == Foldl(LAMBDA s, t : Append(s, Step(call, t)), <<>>, types)

RECURSIVE emit_rust_drop_value(_)

\* The parts' drops one after the other in one straight list of instructions:
\* a struct without Drop, a tuple, a closure, an array.
EmitParts(t) == Foldl(LAMBDA s, p : s \o emit_rust_drop_value(p), <<>>, Droppable(t))

\* A Box: the pointee first, unless it needs no drop.
EmitBox(t) ==
    IF Droppable(t) # <<>> THEN <<Step("box", t)>> ELSE <<Step("own", t)>>

EmitStruct(t) == IF t.own # "" THEN <<Step("adt", t)>> ELSE EmitParts(t)

EmitEnum(t) == IF t.own # "" THEN <<Step("adt", t)>> ELSE <<Step("fields", t)>>

EmitSlice(t) == IF Droppable(t) # <<>> THEN <<Step("slice", t)>> ELSE <<>>

emit_rust_drop_value(t) ==
    CASE t.kind = "box" -> EmitBox(t)
      [] t.kind = "struct" -> EmitStruct(t)
      [] t.kind = "enum" -> EmitEnum(t)
      [] t.kind = "slice" -> EmitSlice(t)
      [] t.kind = "dyn" -> <<Step("value", t)>>
      [] OTHER -> EmitParts(t)

\* A struct with a Drop implementation: that, then the fields as objects.
managed_drop_actions(t) == <<Step("own", t)>> \o Each("value", Droppable(t))

\* _rust_drop_fields of such a struct: the actions without the first.
managed_struct_drop_fields_function(t) == Tail(managed_drop_actions(t))

\* _rust_drop_fields of the active variant's class.
enum_variant_drop_glue_function(t) == Each("value", Droppable(t))

-----------------------------------------------------------------------------
(* The frames that run the steps                                           *)
(*   user     a function's own code; its values are dropped by MIR blocks  *)
(*   shim     a drop shim: a MIR body with cleanup blocks of its own       *)
(*   list     instructions in a row, with no handler around them           *)
(*   safe     cleanup_safe_drop_body: a handler around each action         *)
(*   runtime  a helper of Pointer.java that goes on after a failure        *)

Work(code, todo) == [code |-> code, todo |-> todo]

\* rustDrop of a class.
managed_drop_glue_function(t) == Work("list", emit_rust_drop_value(t))

\* A Drop terminator, ptr::drop_in_place and a call of drop glue emit the drop
\* where they are.
DropPlace(t) == Work("list", emit_rust_drop_value(t))

\* The shim rustc makes for a type: its Drop::drop and a Drop terminator for
\* every part, the pointee of a Box before the Box.
DropShim(t) ==
    LET own == IF t.own = "" THEN <<>> ELSE <<Step("own", t)>>
        parts == Each("place", Droppable(t))
    IN  Work("shim", IF t.kind = "box" THEN parts \o own ELSE own \o parts)

\* The classes that implement RustDrop: ADTs and tuples that need drop.
AdtIsRustDrop(t) == t.kind \in {"struct", "enum", "box"} /\ NeedsDrop(t)
TupleIsRustDrop(t) == t.kind = "tuple" /\ NeedsDrop(t)
IsRustDrop(t) == AdtIsRustDrop(t) \/ TupleIsRustDrop(t)

\* What a trait object holds: the adapter of its concrete type or, for a closure
\* behind a callable trait, the closure's own object.
HasAdapter(t) == t.kind = "dyn" /\ t.parts[1].kind # "closure"

\* rustDrop of the adapter.
ensure_trait_object_adapter_class(t) == DropShim(t.parts[1])

\* dropRustValue goes by the class of the object, for a Pointer that of the
\* object it leads to.  An array is dropped element by element; an object whose
\* class is no RustDrop, a closure's, is left.
dropRustValue(t) ==
    CASE IsRustDrop(t) -> managed_drop_glue_function(t)
      [] HasAdapter(t) /\ NeedsDrop(t) -> ensure_trait_object_adapter_class(t)
      [] t.kind = "array" -> Work("runtime", Each("value", t.parts))
      [] OTHER -> Work("list", <<>>)

dropAdtWithCleanup(t) == Work("runtime", <<Step("own", t), Step("fields", t)>>)

\* The pointee's shim, or dropTraitPointer for a trait object.
dropBoxWithCleanup(t) ==
    LET pointee == t.parts[1] IN
    Work("runtime", <<Step(IF pointee.kind = "dyn" THEN "value" ELSE "shim", pointee),
                      Step("own", t)>>)

\* Elements that are RustDrop drop themselves, the others go to their shim.
dropSlice(t) ==
    Work("runtime",
         Foldl(LAMBDA s, e : Append(s, Step(IF IsRustDrop(e) THEN "value" ELSE "shim", e)),
               <<>>, t.parts))

\* _rust_drop_fields of the value's class.
DropFields(t) ==
    Work("safe", IF t.kind = "enum" THEN enum_variant_drop_glue_function(t)
                 ELSE managed_struct_drop_fields_function(t))

\* What a step runs, when it is not user code.
Runs(step) ==
    CASE step.call = "place" -> DropPlace(step.ty)
      [] step.call = "shim" -> DropShim(step.ty)
      [] step.call = "value" -> dropRustValue(step.ty)
      [] step.call = "adt" -> dropAdtWithCleanup(step.ty)
      [] step.call = "box" -> dropBoxWithCleanup(step.ty)
      [] step.call = "slice" -> dropSlice(step.ty)
      [] step.call = "fields" -> DropFields(step.ty)

-----------------------------------------------------------------------------
(* Rust's drop glue, the reference: a value's Drop::drop, then its parts   *)
(* in order; a Box frees its memory after the pointee is dropped.          *)

RECURSIVE RustDrops(_)
RustParts(t) == Foldl(LAMBDA s, p : s \o RustDrops(p), <<>>, t.parts)
Own(t) == IF t.own = "" THEN <<>> ELSE <<t.own>>
RustDrops(t) ==
    IF t.kind = "box" THEN RustParts(t) \o Own(t) ELSE Own(t) \o RustParts(t)

\* The destructors a step stands for.
StepDrops(step) ==
    CASE step.call = "own" -> Own(step.ty)
      [] step.call = "fields" -> RustParts(step.ty)
      [] OTHER -> RustDrops(step.ty)
StepsDrops(steps) == Foldl(LAMBDA s, step : s \o StepDrops(step), <<>>, steps)

-----------------------------------------------------------------------------
(* For the frames of a thread                                              *)

\* A function's values are dropped one by one where their scope ends.
Glues(types) == Each("place", types)

\* The kind of the value a step drops, behind a trait object the payload's.
RECURSIVE Payload(_)
Payload(t) == IF t.kind = "dyn" THEN Payload(t.parts[1]) ELSE t
DroppedKind(step) == Payload(step.ty).kind

\* The lists of steps that follow from those in lists: their rests, their first
\* steps alone, and the code these run.
Reached(lists) ==
    Iterated(LAMBDA known :
                 known \cup UNION {{Tail(todo), <<Head(todo)>>} \cup
                                   (IF Head(todo).call = "own" THEN {} ELSE {Runs(Head(todo)).todo}) :
                                       todo \in known \ {<<>>}},
             LAMBDA known : \A todo \in known \ {<<>>} :
                                /\ {Tail(todo), <<Head(todo)>>} \subseteq known
                                /\ Head(todo).call = "own" \/ Runs(Head(todo)).todo \in known,
             lists)
=============================================================================

------------------------------ MODULE Translate ------------------------------
(***************************************************************************)
(* From OOMIR to JVM instructions (src/src/lower2/translator.rs): block      *)
(* layout, local slots, the instructions for scalars and references, calls, *)
(* protected regions, fixups, and the widening of branches.  Types are      *)
(* I32, Boolean, I64 and classes; pointers, views and other *)
(* carriers are left out.  A translation in progress is a record t: code,   *)
(* labels, the indices that still name a label (fix), the slots of typed    *)
(* names, the current slot and type of a name, and the protected regions.   *)
(***************************************************************************)
EXTENDS Oomir, Optimise2

CONSTANTS UnwindLocal,      \* the local that holds the caught exception
          Discriminant,     \* the name of the local a switch tests
          BranchLimit,      \* how many bytes a short branch can cross
          MethodLimit       \* how many bytes a method can have

I32 == <<"I32">>
Boolean == <<"Boolean">>
I64 == <<"I64">>

\* A call is an OOMIR call with the type of its result; Unit has none.
Unit == <<"unit">>
Call(d, as, ret) == [op |-> "InvokeStatic", dest |-> d, args |-> as, ty |-> ret, chunk |-> 0]

\* A call of another part of an outlined function.
CallChunk(d, as, ret, k) == [Call(d, as, ret) EXCEPT !.chunk = k]

\* An exception is made and thrown; which one is left out.
ThrowNew == [op |-> "ThrowNewWithMessage", args |-> <<>>]

Kind(ty) == IF ty \in {I32, Boolean} THEN "I" ELSE IF ty = I64 THEN "J" ELSE "A"
IsClass(ty) == Kind(ty) = "A"

frame_value_from_oomir_type(ty) == IF IsClass(ty) THEN Obj(ty) ELSE <<Kind(ty)>>

get_type_size(ty) == Width(Kind(ty))

get_load_instruction(ty, x) == Load(Kind(ty), x)
get_store_instruction(ty, x) == Store(Kind(ty), x)

-----------------------------------------------------------------------------
(* Local slots.                                                            *)

\* Only references share a slot with one another, and only small integers.
can_share_jvm_local(a, b) == Kind(a) = Kind(b) /\ (a = b \/ Kind(a) # "J")

Named(t, x, ty, slot) ==
    [t EXCEPT !.typed = [p \in DOMAIN @ \cup {<<x, ty>>} |-> IF p = <<x, ty>> THEN slot ELSE @[p]],
              !.map = [y \in DOMAIN @ \cup {x} |-> IF y = x THEN slot ELSE @[y]],
              !.types = [y \in DOMAIN @ \cup {x} |-> IF y = x THEN ty ELSE @[y]]]

assign_local(t, x, ty) ==
    IF <<x, ty>> \in DOMAIN t.typed THEN Named(t, x, ty, t.typed[<<x, ty>>])
    ELSE [Named(t, x, ty, t.next) EXCEPT !.next = @ + get_type_size(ty)]

get_or_assign_local(t, x, ty) ==
    IF <<x, ty>> \notin DOMAIN t.typed /\ x \in DOMAIN t.map /\ can_share_jvm_local(t.types[x], ty)
    THEN Named(t, x, ty, t.map[x])
    ELSE assign_local(t, x, ty)

Emit(t, is) == [t EXCEPT !.code = @ \o is]

\* A branch to a label, to be fixed up.
EmitBranch(t, i) == [t EXCEPT !.code = Append(@, i), !.fix = @ \cup {Len(t.code) + 1}]

get_cast_instructions(from, to) == IF from # to /\ IsClass(to) THEN <<Checkcast(to)>> ELSE <<>>

\* A name without a slot at this type is loaded at its current type and cast.
load_operand(t, o) ==
    IF ~o.var THEN Emit(t, <<Push(Kind(o.ty), o.value)>>)
    ELSE LET known == <<o.name, o.ty>> \in DOMAIN t.typed
             ty == IF known \/ o.name \notin DOMAIN t.types THEN o.ty ELSE t.types[o.name]
             u == IF known THEN t ELSE get_or_assign_local(t, o.name, ty)
         IN  Emit(u, <<get_load_instruction(ty, u.typed[<<o.name, ty>>])>>
                     \o get_cast_instructions(ty, o.ty))

load_operand_as(t, o, ty) == Emit(load_operand(t, o), get_cast_instructions(o.ty, ty))

store_result(t, x, ty) ==
    LET u == get_or_assign_local(t, x, ty)
    IN  Emit(u, <<get_store_instruction(ty, u.typed[<<x, ty>>])>>)

-----------------------------------------------------------------------------
(* Instructions.                                                           *)

translate_binary_op(t, i, f) ==
    LET ty == i.args[1].ty
        loaded == load_operand_as(load_operand_as(t, i.args[1], ty), i.args[2], ty)
    IN  store_result(Emit(loaded, <<Arith(Kind(ty), f)>>), i.dest, ty)

\* x := x + c and x := x - c on an int that has a slot.
emit_iinc_update(t, x, o, amount) ==
    o.var /\ o.name = x /\ o.ty = I32 /\ ~amount.var /\ amount.ty = I32
          /\ <<x, I32>> \in DOMAIN t.typed

\* Mutant: a decrement is taken for nothing to do.
MIncremented(t, x, a) ==
    [Emit(t, IF a <= 0 THEN <<>> ELSE <<Iinc(t.typed[<<x, I32>>], a)>>) EXCEPT !.types[x] = I32]

Incremented(t, x, a) ==
    [Emit(t, IF a = 0 THEN <<>> ELSE <<Iinc(t.typed[<<x, I32>>], a)>>) EXCEPT !.types[x] = I32]

TranslateAdd(t, i) ==
    CASE emit_iinc_update(t, i.dest, i.args[1], i.args[2]) -> Incremented(t, i.dest, i.args[2].value)
      [] ~emit_iinc_update(t, i.dest, i.args[1], i.args[2])
         /\ emit_iinc_update(t, i.dest, i.args[2], i.args[1]) -> Incremented(t, i.dest, i.args[1].value)
      [] OTHER -> translate_binary_op(t, i, "add")

TranslateSub(t, i) ==
    IF emit_iinc_update(t, i.dest, i.args[1], i.args[2])
    THEN Incremented(t, i.dest, -i.args[2].value)
    ELSE translate_binary_op(t, i, "sub")

\* if -> 3; iconst_0; goto -> 4; 3: iconst_1; 4: istore
materialize_boolean_from_branch(t, x, c) ==
    LET n == Len(t.code)
    IN  store_result(Emit(t, <<If(c, n + 4), Push("I", 0), GotoI(n + 5), Push("I", 1)>>), x, Boolean)

is_null_operand(o) == IsClass(o.ty) /\ ~o.var

translate_comparison_op(t, i) ==
    LET a == i.args[1]
        b == i.args[2]
        both == load_operand(load_operand(t, a), b)
        value == IF is_null_operand(a) THEN b ELSE a
    IN  CASE IsClass(a.ty) /\ is_null_operand(a) # is_null_operand(b) ->
                materialize_boolean_from_branch(load_operand(t, value), i.dest, "null")
          [] IsClass(a.ty) /\ is_null_operand(a) = is_null_operand(b) ->
                materialize_boolean_from_branch(both, i.dest, "acmpeq")
          [] a.ty = I64 ->
                materialize_boolean_from_branch(Emit(both, <<Arith("J", "cmp")>>), i.dest,
                                                IF i.op = "Eq" THEN "eq" ELSE "lt")
          [] OTHER ->
                materialize_boolean_from_branch(both, i.dest,
                                                IF i.op = "Eq" THEN "icmpeq" ELSE "icmplt")

TranslateCall(t, i) ==
    LET loaded == Foldl(LAMBDA u, o : load_operand_as(u, o, o.ty), t, i.args)
        ret == IF i.ty = Unit THEN TopV ELSE frame_value_from_oomir_type(i.ty)
        invoke == Invoke(ret, [n \in DOMAIN i.args |-> frame_value_from_oomir_type(i.args[n].ty)])
        called == Emit(loaded, <<[invoke EXCEPT !.n = i.chunk]>>)
    IN  CASE i.ty = Unit -> called
          [] i.ty # Unit /\ i.dest # NoLocal -> store_result(called, i.dest, i.ty)
          [] OTHER -> Emit(called, <<[Op("pop") EXCEPT !.k = Kind(i.ty)]>>)

TranslateRethrow(t) ==
    LET u == get_or_assign_local(t, UnwindLocal, Throwable)
    IN  Emit(u, <<Load("A", u.map[UnwindLocal]), Op("athrow")>>)

TranslateThrowNew(t) == Emit(t, <<Push("A", 0), Checkcast(Throwable), Op("athrow")>>)

TranslateReturn(t, i, ret) ==
    Emit(load_operand_as(t, i.args[1], ret), <<ReturnI(Kind(ret))>>)

\* A jump to the block laid out next is left out.
TranslateJump(t, i, fall) ==
    IF i.targets[1] = fall THEN t ELSE EmitBranch(t, GotoI(i.targets[1]))

\* Mutant: when the true block follows, the test is not inverted.
MTranslateBranch(t, i, fall) ==
    LET u == load_operand(t, i.args[1])
    IN  IF fall = i.targets[2] THEN EmitBranch(u, If("ne", i.targets[1]))
        ELSE IF fall = i.targets[1] THEN EmitBranch(u, If("ne", i.targets[2]))
        ELSE EmitBranch(EmitBranch(u, If("ne", i.targets[1])), GotoI(i.targets[2]))

TranslateBranch(t, i, fall) ==
    LET u == load_operand(t, i.args[1])
    IN  IF fall = i.targets[2] THEN EmitBranch(u, If("ne", i.targets[1]))
        ELSE IF fall = i.targets[1] THEN EmitBranch(u, If("eq", i.targets[2]))
        ELSE EmitBranch(EmitBranch(u, If("ne", i.targets[1])), GotoI(i.targets[2]))

CaseTarget(i, key) == i.targets[Max({n \in DOMAIN i.values : i.values[n] = key})]

\* Three cases or more become a table or a list of pairs, whichever is smaller.
emit_integer_switch(t, i) ==
    LET keys == Ordered(ToSet(i.values))
        low == keys[1]
        span == keys[Len(keys)] - low + 1
        default == i.targets[Len(i.targets)]
        table == [n \in 1 .. span |-> low + n - 1]
        useTable == 12 + span * 4 <= 8 + Len(keys) * 8
        used == IF useTable THEN table ELSE keys
    IN  EmitBranch(load_operand(t, i.args[1]),
                   SwitchI(IF useTable THEN "table" ELSE "lookup", used,
                           [n \in DOMAIN used |-> IF Contains(i.values, used[n])
                                                  THEN CaseTarget(i, used[n]) ELSE default]
                           \o <<default>>))

IsIntegerSwitch(i) ==
    /\ Kind(i.args[1].ty) = "I" /\ Len(i.values) >= 3
    /\ Cardinality(ToSet(i.values)) >= 3

\* A key twice with different targets is an error.
DuplicateKey(i) ==
    /\ Kind(i.args[1].ty) = "I" /\ Len(i.values) >= 3
    /\ \E m, n \in DOMAIN i.values : i.values[m] = i.values[n] /\ i.targets[m] # i.targets[n]

\* Otherwise the value is kept in a local of its own and compared key by key.
TranslateSwitch(t, i, at) ==
    LET ty == i.args[1].ty
        name == <<Discriminant, at>>
        kept == store_result(load_operand(t, i.args[1]), name, ty)
        Compare(u, n) ==
            LET loaded == Emit(u, <<get_load_instruction(ty, kept.typed[<<name, ty>>]),
                                    Push(Kind(ty), i.values[n])>>)
            IN  IF ty = I64
                THEN EmitBranch(Emit(loaded, <<Arith("J", "cmp")>>), If("eq", i.targets[n]))
                ELSE EmitBranch(loaded, If("icmpeq", i.targets[n]))
    IN  IF DuplicateKey(i) THEN [t EXCEPT !.ok = FALSE]
        ELSE IF IsIntegerSwitch(i) THEN emit_integer_switch(t, i)
        ELSE EmitBranch(Foldl(Compare, kept, [n \in DOMAIN i.values |-> n]),
                        GotoI(i.targets[Len(i.targets)]))

\* Regions do not nest, and one without instructions is dropped.
EnterRegion(t, i) ==
    IF t.open # <<>> THEN [t EXCEPT !.ok = FALSE]
    ELSE [t EXCEPT !.open = <<Len(t.code) + 1, i.targets[1]>>]

LeaveRegion(t) ==
    IF t.open = <<>> THEN [t EXCEPT !.ok = FALSE]
    ELSE [t EXCEPT !.open = <<>>,
                   !.regions = IF Len(t.code) + 1 > t.open[1]
                               THEN Append(@, [start |-> t.open[1], end |-> Len(t.code) + 1,
                                               target |-> t.open[2]])
                               ELSE @]

translate_instruction(t, i, at, fall, ret) ==
    CASE i.op = "Move" -> store_result(load_operand(t, i.args[1]), i.dest, i.args[1].ty)
      [] i.op = "Add" -> TranslateAdd(t, i)
      [] i.op = "Sub" -> TranslateSub(t, i)
      [] i.op = "Mul" -> translate_binary_op(t, i, "mul")
      [] i.op \in {"Eq", "Lt"} -> translate_comparison_op(t, i)
      [] i.op \in Calls -> TranslateCall(t, i)
      [] i.op = "Jump" -> TranslateJump(t, i, fall)
      [] i.op = "Branch" -> TranslateBranch(t, i, fall)
      [] i.op = "Switch" -> TranslateSwitch(t, i, at)
      [] i.op = "Return" -> TranslateReturn(t, i, ret)
      [] i.op = "Rethrow" -> TranslateRethrow(t)
      [] i.op = "ThrowNewWithMessage" -> TranslateThrowNew(t)
      [] i.op = "UnwindStart" -> EnterRegion(t, i)
      [] i.op = "UnwindEnd" -> LeaveRegion(t)

-----------------------------------------------------------------------------
(* Functions: [entry, blocks, params, ret, debug].                          *)

layout_successors(code) ==
    LET starts == SelectSeq(code, LAMBDA i : i.op = "UnwindStart")
        real == SelectSeq(code, LAMBDA i : i.op \notin {"UnwindStart", "UnwindEnd"})
        end == real[Len(real)]
        targets == IF end.op \in {"Jump", "Branch", "Switch"} THEN end.targets ELSE <<>>
    IN  [n \in DOMAIN starts |-> starts[n].targets[1]] \o
        (CASE end.op = "Branch" -> Reverse(targets)
           [] end.op = "Switch" -> <<targets[Len(targets)]>> \o Front(targets)
           [] OTHER -> targets)

\* Depth first from the entry, the first successor next.
layout_block_order(f) ==
    LET Visit(a, n) ==
            IF a.stack = <<>> THEN a
            ELSE LET l == Head(a.stack)
                 IN  IF Contains(a.order, l) THEN [a EXCEPT !.stack = Tail(@)]
                     ELSE [order |-> Append(a.order, l),
                           stack |-> SelectSeq(layout_successors(f.blocks[l]),
                                               LAMBDA s : s # l /\ ~Contains(a.order, s))
                                     \o Tail(a.stack)]
        pushes == 1 + FoldFunction(LAMBDA code, n : n + Len(layout_successors(code)), 0, f.blocks)
    IN  Foldl(Visit, [order |-> <<>>, stack |-> <<f.entry>>], [n \in 1 .. pushes |-> n]).order

Nothing == [code |-> <<>>, labels |-> <<>>, fix |-> {}, typed |-> <<>>, map |-> <<>>,
            types |-> <<>>, next |-> 0, open |-> <<>>, regions |-> <<>>, ok |-> TRUE]

\* Parameters are the first locals.
NewTranslator(f) == Foldl(LAMBDA t, p : assign_local(t, p[1], p[2]), Nothing, f.params)

initial_locals_for_oomir_function(f) ==
    LET t == NewTranslator(f)
    IN  [x \in 0 .. t.next - 1 |->
            IF \E p \in DOMAIN t.typed : t.typed[p] = x
            THEN frame_value_from_oomir_type((CHOOSE p \in DOMAIN t.typed : t.typed[p] = x)[2])
            ELSE TopV]

TranslateBlocks(f) ==
    LET order == layout_block_order(f)
        Block(t, n) ==
            LET l == order[n]
                fall == IF n < Len(order) THEN order[n + 1] ELSE NoLabel
                begun == [t EXCEPT !.labels = [k \in DOMAIN @ \cup {l} |->
                                                  IF k = l THEN Len(t.code) + 1 ELSE @[k]]]
            IN  Foldl(LAMBDA u, i : translate_instruction(u, i, l, fall, f.ret),
                         begun, f.blocks[l])
    IN  Foldl(Block, NewTranslator(f), [n \in DOMAIN order |-> n])

\* One handler for each target: keep the exception and go there.
HandlerTargets(t) == Ordered({t.regions[n].target : n \in DOMAIN t.regions})

emit_unwind_handlers(t) ==
    Foldl(LAMBDA u, l : EmitBranch(store_result(u, UnwindLocal, Throwable), GotoI(l)),
             t, HandlerTargets(t))

ExceptionTable(t) ==
    [n \in DOMAIN t.regions |->
        [start |-> t.regions[n].start, end |-> t.regions[n].end,
         handler |-> Len(t.code) - 1
                     + 2 * CHOOSE k \in DOMAIN HandlerTargets(t) :
                              HandlerTargets(t)[k] = t.regions[n].target]]

\* Labels become indices, and a goto to the next instruction a nop.
FixedUp(t, p) ==
    LET i == t.code[p]
        Resolved == CASE p \notin t.fix -> i
                      [] p \in t.fix /\ i.op = "switch" ->
                            [i EXCEPT !.ts = [n \in DOMAIN @ |-> t.labels[@[n]] - p]]
                      [] OTHER -> [i EXCEPT !.ts = <<t.labels[@[1]]>>]
    IN  IF Resolved.op = "goto" /\ Resolved.ts[1] = p + 1 THEN Op("nop") ELSE Resolved

local_hints_for_oomir_locals(t) ==
    [x \in 0 .. t.next - 1 |->
        IF \E p \in DOMAIN t.typed : t.typed[p] = x
        THEN frame_value_from_oomir_type((CHOOSE p \in DOMAIN t.typed : t.typed[p] = x)[2])
        ELSE TopV]

\* The slots of variables the debugger shows keep their place.
debug_variable_local(t, x) == IF x \in DOMAIN t.map THEN {t.map[x]} ELSE {}

\* The method as it enters the bytecode optimiser.
Translated(f) ==
    LET Method(t, u) ==
            [code |-> [p \in DOMAIN u.code |-> FixedUp(u, p)],
             table |-> ExceptionTable(t),
             ok |-> t.ok /\ t.open = <<>>,
             hints |-> local_hints_for_oomir_locals(u),
             initial |-> initial_locals_for_oomir_function(f),
             pinned |-> UNION {debug_variable_local(u, x) : x \in f.debug}]
        WithHandlers(t) == Method(t, emit_unwind_handlers(t))
    IN  WithHandlers(TranslateBlocks(f))

-----------------------------------------------------------------------------
(* Branches.                                                               *)

shift_exception_table_after_insert(table, at) ==
    [n \in DOMAIN table |->
        [start |-> IF table[n].start >= at THEN table[n].start + 1 ELSE table[n].start,
         end |-> IF table[n].end > at THEN table[n].end + 1 ELSE table[n].end,
         handler |-> IF table[n].handler >= at THEN table[n].handler + 1 ELSE table[n].handler]]

Bumped(t, at) == IF t >= at THEN t + 1 ELSE t

retarget_after_insert(m, at) ==
    [m EXCEPT !.table = shift_exception_table_after_insert(@, at),
              !.code = [p \in DOMAIN @ |->
                  IF @[p].op = "switch"
                  THEN [@[p] EXCEPT !.ts = [n \in DOMAIN @ |-> Bumped(p + @[n], at) - Bumped(p, at)]]
                  ELSE [@[p] EXCEPT !.ts = [n \in DOMAIN @ |-> Bumped(@[n], at)]]]]

\* Loads, stores and constants of small operands take one byte here.
instruction_size_at(i, offset) ==
    LET padding == (4 - ((offset + 1) % 4)) % 4
    IN  CASE i.op \in {"if", "goto", "invoke", "checkcast", "iinc"} -> 3
          [] i.op = "goto_w" -> 5
          [] i.op = "switch" /\ i.k = "table" -> 1 + padding + 12 + Len(i.ks) * 4
          [] i.op = "switch" /\ i.k = "lookup" -> 1 + padding + 8 + Len(i.ks) * 8
          [] OTHER -> 1

instruction_byte_offsets(code) ==
    Foldl(LAMBDA os, i : Append(os, os[Len(os)] + instruction_size_at(i, os[Len(os)])), <<0>>, code)

\* Mutant: the distance is taken from the next instruction.
Mbranch_offset_fits_i16(offsets, p, t) ==
    offsets[t] - offsets[p + 1] \in -BranchLimit .. BranchLimit - 1

branch_offset_fits_i16(offsets, p, t) ==
    offsets[t] - offsets[p] \in -BranchLimit .. BranchLimit - 1

\* One round: the first branch that is too long.  A conditional one jumps over
\* a wide goto on the opposite condition.
WidenOnce(m) ==
    LET offsets == instruction_byte_offsets(m.code)
        far == {p \in DOMAIN m.code : /\ m.code[p].op \in {"if", "goto"}
                                      /\ ~branch_offset_fits_i16(offsets, p, m.code[p].ts[1])}
        p == Min(far)
        t == m.code[p].ts[1]
        moved == retarget_after_insert(m, p + 1)
    IN  IF far = {} THEN m
        ELSE IF m.code[p].op = "goto" THEN [m EXCEPT !.code[p] = GotoW(t)]
        ELSE [moved EXCEPT !.code = InsertAt([@ EXCEPT ![p] = invert_conditional_branch(m.code[p], p + 2)],
                                             p + 1, GotoW(Bumped(t, p + 1)))]

widen_branches(m) == Foldl(LAMBDA n, i : WidenOnce(n), m, m.code)

-----------------------------------------------------------------------------
(* The rest of translate: slots, widening, defaults and frames.            *)

Allocated(m) ==
    LET prefix == Cardinality(DOMAIN m.initial)
        Remapped(map, rewritten) ==
            [rewritten EXCEPT !.hints =
                remap_frame_values(@, map, Max({compute_max_locals(rewritten.code), prefix}))]
        Rewritten(map) == Remapped(map, rewrite_locals(m, map))
    IN  Rewritten(allocate_local_slots(m, prefix, m.pinned))

MaxLocals(m) == Cardinality(DOMAIN m.hints)

Widened(m) ==
    LET moved == move_zero_branch_target(m.code)
        table == IF moved = m.code THEN m.table ELSE shift_exception_table_after_insert(m.table, 1)
    IN  widen_branches([m EXCEPT !.code = moved, !.table = table])

Finished(m) ==
    LET Initialized(r) ==
            [m EXCEPT !.code = r.code, !.table = r.table,
                      !.ok = @ /\ r.ok /\ Last(instruction_byte_offsets(r.code)) <= MethodLimit]
            @@ [frames |-> r.frames, moved |-> Len(r.code) - Len(m.code)]
    IN  Initialized(initialize_locals_loaded_as_top(m.code, m.table, m.initial, m.hints,
                                                    MaxLocals(m)))
=============================================================================

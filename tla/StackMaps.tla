------------------------------ MODULE StackMaps ------------------------------
(***************************************************************************)
(* Stack map frames (src/src/lower2/stackmaps.rs).  A work list of basic    *)
(* blocks finds the types of locals and operands at every branch target and *)
(* handler; a second, cheaper one finds the locals that may be loaded before*)
(* they are stored, which then get a default value on entry.  A state is    *)
(* [loc, st]; an analysis that hits an error has ok = FALSE.                *)
(***************************************************************************)
EXTENDS Jvm

-----------------------------------------------------------------------------
(* States.                                                                 *)

FrameStateNew(initial, maxLocals) ==
    [loc |-> [x \in 0 .. maxLocals - 1 |-> IF x \in DOMAIN initial THEN initial[x] ELSE TopV],
     st |-> <<>>]

store_local(s, x, v) == [s EXCEPT !.loc = PutLocal(@, x, v)]

load_hint_for_instruction(i) == KindValue(i.k)

\* A local of unknown type gets the type the translator has noted for its slot,
\* or else the one the instruction implies, and keeps it.
load_local(s, i, hints) ==
    LET x == i.n
        v == IF s.loc[x] # TopV THEN s.loc[x]
             ELSE IF x \in DOMAIN hints /\ hints[x] # TopV THEN hints[x]
             ELSE load_hint_for_instruction(i)
        known == IF s.loc[x] # TopV THEN s ELSE store_local(s, x, v)
    IN  [known EXCEPT !.st = Append(@, v)]

nested_parent_class(c) == IF Len(c) > 1 THEN Front(c) ELSE <<>>

common_object_class(a, b) ==
    CASE a = b -> a
      [] a # b /\ nested_parent_class(a) = b -> b
      [] a # b /\ nested_parent_class(b) = a -> a
      [] a # b /\ nested_parent_class(a) # <<>>
               /\ nested_parent_class(a) = nested_parent_class(b) -> nested_parent_class(a)
      [] OTHER -> ObjectClass

\* Mutant: the first of two unrelated types wins.
Mmerge_value(a, b) == IF a = NullV THEN b ELSE a

merge_value(a, b) ==
    IF a = b THEN a
    ELSE IF a = NullV /\ b[1] = "Obj" THEN b
    ELSE IF b = NullV /\ a[1] = "Obj" THEN a
    ELSE IF a[1] = "Obj" /\ b[1] = "Obj" THEN Obj(common_object_class(Tail(a), Tail(b)))
    ELSE TopV

\* Stacks of different heights are cut to the lower one.
merge_state(a, b) ==
    [loc |-> [x \in DOMAIN a.loc |-> merge_value(a.loc[x], b.loc[x])],
     st |-> [n \in 1 .. Min({Len(a.st), Len(b.st)}) |-> merge_value(a.st[n], b.st[n])]]

-----------------------------------------------------------------------------
(* Transfer.  Only the checks the code makes are made: the number of        *)
(* operands, and that a reference is one where one is taken.                *)

pop_reference(st) == st # <<>> /\ (IsReference(Top1(st)) \/ Top1(st) = TopV)

TransferFails(i, s) ==
    \/ Len(s.st) < Len(Pops(i))
    \/ i.op \in {"pop", "dup", "dup2"} /\ s.st = <<>>
    \/ i.op = "dup" /\ Top1(s.st) = <<"J">>
    \/ i.op = "invoke" /\ Len(s.st) < Len(i.ks) - 1
    \/ (i.op = "store" /\ i.k = "A") /\ ~pop_reference(s.st)
    \/ i.op \in {"athrow", "checkcast"} /\ ~pop_reference(s.st)
    \/ (i.op = "if" /\ i.k \in {"null", "nonnull"}) /\ ~pop_reference(s.st)

TransferConst(i, s) ==
    [s EXCEPT !.st = Append(@, IF i.k = "A" THEN NullV ELSE <<i.k>>)]

\* What is stored is the reference popped, or the kind of the instruction.
TransferStore(i, s) ==
    store_local([s EXCEPT !.st = Pop(@, 1)], i.n, IF i.k = "A" THEN Top1(s.st) ELSE <<i.k>>)

\* dup2 copies one wide value or two narrow ones; pop2 is the converse.
TransferStack(i, s) ==
    CASE i.op = "pop" -> [s EXCEPT !.st = Pop(@, 1)]
      [] i.op = "dup" -> [s EXCEPT !.st = Append(@, Top1(@))]
      [] i.op = "dup2" /\ Top1(s.st) = <<"J">> -> [s EXCEPT !.st = Append(@, Top1(@))]
      [] i.op = "dup2" /\ Top1(s.st) # <<"J">> -> [s EXCEPT !.st = @ \o <<Top2(@), Top1(@)>>]

\* The kind of the operation, whatever was popped.
TransferArithmetic(i, s) ==
    [s EXCEPT !.st = Append(Pop(@, Len(Pops(i))), IF i.op = "cmp" THEN <<"I">> ELSE <<i.k>>)]

apply_invoke(i, s) ==
    [s EXCEPT !.st = Pop(@, Len(i.ks) - 1) \o (IF i.ks[1] = TopV THEN <<>> ELSE <<i.ks[1]>>)]

transfer_instruction(i, s, hints) ==
    CASE i.op = "const" -> TransferConst(i, s)
      [] i.op = "load" -> load_local(s, i, hints)
      [] i.op = "store" -> TransferStore(i, s)
      [] i.op = "iinc" -> store_local(s, i.n, <<"I">>)
      [] i.op \in {"pop", "dup", "dup2"} -> TransferStack(i, s)
      [] i.op \in Binary \cup {"neg", "cmp"} -> TransferArithmetic(i, s)
      [] i.op = "checkcast" -> [s EXCEPT !.st = Append(Pop(@, 1), Obj(i.ks[1]))]
      [] i.op = "invoke" -> apply_invoke(i, s)
      [] OTHER -> [s EXCEPT !.st = Pop(@, Len(Pops(i)))]

-----------------------------------------------------------------------------
(* Blocks.                                                                 *)

branch_targets(code) == UNION {Targets(p, code[p]) : p \in DOMAIN code}

instruction_ends_block(i) == i.op = "if" \/ i.op \in NoFallThrough

frame_blocks(code, table) ==
    ({1} \cup branch_targets(code)
         \cup UNION {{e.start, e.end, e.handler} : e \in ToSet(table)}
         \cup {p + 1 : p \in {q \in DOMAIN code : instruction_ends_block(code[q])}})
    \cap DOMAIN code

BlockEnd(starts, n, b) == Min({p \in starts : p > b} \cup {n + 1}) - 1

HandlersAt(table, p) == {e.handler : e \in ToSet(Catchers(table, p))}

\* A work list over blocks.  entries maps the blocks reached so far to what
\* holds at their start; Merge joins an incoming fact into it; Before(f) is
\* what a handler inherits and After(p, f) what holds after instruction p.
Drain(code, table, first, Merge(_, _), Before(_), After(_, _), Fails(_, _)) ==
    LET starts == frame_blocks(code, table)
        Enter(a, t, f) ==
            IF t \notin DOMAIN code THEN a
            ELSE LET old == t \in DOMAIN a.entries
                     new == IF old THEN Merge(a.entries[t], f) ELSE f
                 IN  IF old /\ new = a.entries[t] THEN a
                     ELSE [a EXCEPT !.entries = [u \in DOMAIN @ \cup {t} |->
                                                    IF u = t THEN new ELSE @[u]],
                                    !.queue = IF Contains(@, t) THEN @ ELSE Append(@, t)]
        EnterAll(a, ts, f) == Foldl(LAMBDA b, t : Enter(b, t, f), a, Ordered(ts))
        Visit(a, p) ==
            IF ~a.ok THEN a
            ELSE LET h == EnterAll(a, HandlersAt(table, p), Before(a.now))
                 IN  IF Fails(p, h.now) THEN [h EXCEPT !.ok = FALSE]
                     ELSE [h EXCEPT !.now = After(p, h.now)]
        VisitBlock(w, b) ==
            LET last == BlockEnd(starts, Len(code), b)
                done == Foldl(Visit, [w EXCEPT !.queue = Tail(@), !.now = w.entries[b]],
                                 [n \in 1 .. last - b + 1 |-> b + n - 1])
            IN  EnterAll(done, SuccessorsOf(code, last), done.now)
    IN  Iterated(LAMBDA v : VisitBlock(v, Head(v.queue)),
                 LAMBDA v : v.queue = <<>> \/ ~v.ok,
                 [entries |-> [b \in {1} |-> first], queue |-> <<1>>,
                  now |-> first, ok |-> TRUE])

\* The types at the entry of every reachable block.
solve_frame_states(code, table, initial, hints, maxLocals) ==
    Drain(code, table, FrameStateNew(initial, maxLocals), merge_state,
          LAMBDA s : [s EXCEPT !.st = <<Obj(Throwable)>>],
          LAMBDA p, s : transfer_instruction(code[p], s, hints),
          LAMBDA p, s : TransferFails(code[p], s))

build_stack_map_attributes_from_analysis(code, table, analysis) ==
    LET targets == (branch_targets(code) \cup {e.handler : e \in ToSet(table)}) \ {1}
    IN  [t \in targets \cap DOMAIN analysis.entries |-> analysis.entries[t]]

-----------------------------------------------------------------------------
(* Locals that may be loaded before they are stored.                       *)

loaded_local(i) == IF i.op \in {"load", "iinc"} THEN {<<i.n, KindValue(i.k)>>} ELSE {}
stored_local(i) == IF i.op \in {"store", "iinc"} THEN {i.n} ELSE {}

AssignedAt(code, table, initial) ==
    Drain(code, table, {x \in DOMAIN initial : initial[x] # TopV},
          LAMBDA a, b : a \cap b,
          LAMBDA a : a,
          LAMBDA p, a : a \cup stored_local(code[p]),
          LAMBDA p, a : FALSE).entries

\* Pairs of a slot and the type it is loaded at.
locals_loaded_before_definite_store(code, table, initial) ==
    LET Loaded(entries, starts) ==
            UNION {UNION {{l \in loaded_local(code[p]) :
                              l[1] \notin entries[b] \cup UNION {stored_local(code[q]) : q \in b .. p - 1}} :
                          p \in b .. BlockEnd(starts, Len(code), b)} : b \in DOMAIN entries}
    IN  Loaded(AssignedAt(code, table, initial), frame_blocks(code, table))

\* One local loaded at two types cannot be given a default.
IncompatibleLoads(loads) == \E l, m \in loads : l[1] = m[1] /\ l[2] # m[2]

default_local_initializer(l) ==
    LET k == IF l[2][1] = "Obj" THEN "A" ELSE l[2][1] IN <<Push(k, 0), Store(k, l[1])>>

shift_exception_table(table, amount) ==
    [n \in DOMAIN table |-> [start |-> table[n].start + amount, end |-> table[n].end + amount,
                             handler |-> table[n].handler + amount]]

\* Offsets of switches are relative: source and target move equally.
shift_absolute_branch_targets(code, amount) ==
    [p \in DOMAIN code |->
        IF code[p].op \in Gotos \cup {"if"}
        THEN [code[p] EXCEPT !.ts = <<@[1] + amount>>] ELSE code[p]]

initialize_locals_loaded_as_top(code, table, initial, hints, maxLocals) ==
    LET Defaults(ordered) ==
            FlattenSeq([n \in DOMAIN ordered |-> default_local_initializer(ordered[n])])
        Framed(newCode, newTable, solved) ==
            [ok |-> solved.ok /\ locals_loaded_before_definite_store(newCode, newTable, initial) = {},
             code |-> newCode, table |-> newTable,
             frames |-> build_stack_map_attributes_from_analysis(newCode, newTable, solved)]
        Solved(newCode, newTable) ==
            Framed(newCode, newTable,
                   solve_frame_states(newCode, newTable, initial, hints, maxLocals))
        Prefixed(prefix) == Solved(prefix \o shift_absolute_branch_targets(code, Len(prefix)),
                                   shift_exception_table(table, Len(prefix)))
        Initialized(loads) ==
            IF IncompatibleLoads(loads)
            THEN [ok |-> FALSE, code |-> code, table |-> table, frames |-> <<>>]
            ELSE Prefixed(Defaults(OrderedBy(loads, LAMBDA a, b : a[1] < b[1])))
    IN  Initialized(locals_loaded_before_definite_store(code, table, initial))

\* A frame cannot describe instruction 0, where the descriptor's types hold.
move_zero_branch_target(code) ==
    IF 1 \in branch_targets(code)
    THEN <<Op("nop")>> \o shift_absolute_branch_targets(code, 1)
    ELSE code
=============================================================================

------------------------------ MODULE Optimise2 ------------------------------
(***************************************************************************)
(* The bytecode optimiser (src/src/lower2/optimise2.rs): the passes over    *)
(* instructions and exception table, liveness, and the allocation of local  *)
(* slots.  A method is [code, table, ok]; ok is FALSE once a pass has       *)
(* reported an error.  Line and variable metadata is left out.              *)
(***************************************************************************)
EXTENDS StackMaps

-----------------------------------------------------------------------------
(* What instructions do to locals.                                         *)

local_load(i) == i.op = "load"
local_store(i) == i.op = "store"

local_reads(i) == IF i.op \in {"load", "iinc"} THEN {i.n} ELSE {}
local_writes(i) == IF i.op \in {"store", "iinc"} THEN {i.n} ELSE {}

IsConst(i, v) == i.op = "const" /\ i.k = "I" /\ i.n = v

\* The branch that tests a materialised boolean, and the one that compares with 0.
bool_branch_target(i) == i.op = "if" /\ i.k \in {"eq", "ne"}
bool_zero_compare_target(i) == i.op = "if" /\ i.k \in {"icmpeq", "icmpne"}

invert_conditional_branch(i, t) == [i EXCEPT !.k = Inverse2(@), !.ts = <<t>>]
set_conditional_branch_target(i, t) == [i EXCEPT !.ts = <<t>>]

-----------------------------------------------------------------------------
(* Liveness, with an edge from every protected instruction to its handler.  *)

FlowSuccessors(code, table, p) ==
    (SuccessorsOf(code, p) \cup HandlersAt(table, p)) \cap DOMAIN code

analyze_local_liveness(code, table) ==
    LET next == [p \in DOMAIN code |-> FlowSuccessors(code, table, p)]
        Out(in, p) == UNION {in[q] : q \in next[p]}
        In(in, p) == (Out(in, p) \ local_writes(code[p])) \cup local_reads(code[p])
        Round(in, n) ==
            Foldl(LAMBDA a, p : [a EXCEPT ![p] = In(a, p)], in,
                     Reverse(UpTo(Len(code))))
        \* As many rounds as there are backward edges, and one more, suffice.
        rounds == 2 + Cardinality({p \in DOMAIN code : \E q \in next[p] : q <= p})
        in == Foldl(Round, [p \in DOMAIN code |-> {}], [n \in 1 .. rounds |-> n])
    IN  [in |-> in, out |-> [p \in DOMAIN code |-> Out(in, p)]]

-----------------------------------------------------------------------------
(* Removing instructions.                                                  *)

protected_instruction_indices(code, table) ==
    {1} \cup branch_targets(code)
        \cup UNION {{e.start, e.handler} \cup ({e.end} \cap DOMAIN code) : e \in ToSet(table)}

incoming_branch_sources(code, t) == {p \in DOMAIN code : t \in Targets(p, code[p])}

retarget_branches(i, old, new, map) ==
    IF i.op = "switch"
    THEN [i EXCEPT !.ts = [n \in DOMAIN @ |-> map[old + @[n]] - new]]
    ELSE [i EXCEPT !.ts = [n \in DOMAIN @ |-> map[@[n]]]]

\* Ranges that lose all their instructions go; the others keep their start and
\* handler, which must be kept, and end before the next instruction kept.
compact_instructions(m, keep) ==
    LET map == [p \in keep |-> Cardinality({q \in keep : q <= p})]
        kept == SelectSeq(m.table, LAMBDA e : (e.start .. e.end - 1) \cap keep # {})
        mapEnd(p) == IF \E q \in keep : q >= p THEN map[Min({q \in keep : q >= p})]
                     ELSE Cardinality(keep) + 1
        order == SelectSeq(UpTo(Len(m.code)), LAMBDA p : p \in keep)
        valid == /\ \A e \in ToSet(kept) : {e.start, e.handler} \subseteq keep
                 /\ \A p \in keep : Targets(p, m.code[p]) \subseteq keep
    IN  IF keep = DOMAIN m.code THEN m
        ELSE IF ~valid THEN [m EXCEPT !.ok = FALSE]
        ELSE [m EXCEPT !.code = [n \in DOMAIN order |->
                                    retarget_branches(m.code[order[n]], order[n], n, map)],
                       !.table = [n \in DOMAIN kept |->
                                    [start |-> map[kept[n].start], end |-> mapEnd(kept[n].end),
                                     handler |-> map[kept[n].handler]]]]

\* A scan from left to right: where Hit holds, the instructions up to Until are
\* done with, those of Dropped go, and the one at New's index is replaced.
Sweep(m, Hit(_), Until(_), Dropped(_), New(_)) ==
    LET Visit(a, p) ==
            IF p < a.next \/ ~Hit(p) THEN a
            ELSE [code |-> [a.code EXCEPT ![New(p)[1]] = New(p)[2]],
                  keep |-> a.keep \ Dropped(p), next |-> Until(p) + 1]
        end == Foldl(Visit, [code |-> m.code, keep |-> DOMAIN m.code, next |-> 1],
                        UpTo(Len(m.code)))
    IN  compact_instructions([m EXCEPT !.code = end.code], end.keep)

-----------------------------------------------------------------------------
(* Folding a materialised boolean into the branch that made it:             *)
(* if -> 3; iconst_0; goto -> 4; 3: iconst_1; 4: ...                        *)

Materialises(code, p) ==
    /\ p + 4 \in DOMAIN code
    /\ code[p].op = "if" /\ code[p].ts[1] = p + 3
    /\ IsConst(code[p + 1], 0) /\ IsConst(code[p + 3], 1)
    /\ code[p + 2].op = "goto" /\ code[p + 2].ts[1] = p + 4

only_expected_incoming(code, p, last) ==
    \A t \in p + 1 .. last :
        incoming_branch_sources(code, t) = IF t = p + 3 THEN {p}
                                           ELSE IF t = p + 4 THEN {p + 2} ELSE {}

FoldedBranch(i, branch) ==
    IF branch.k \in {"ne", "icmpne"} THEN set_conditional_branch_target(i, branch.ts[1])
    ELSE invert_conditional_branch(i, branch.ts[1])

fold_boolean_branch_materialization(m, pinned) ==
    LET code == m.code
        live == analyze_local_liveness(code, m.table)
        protected == protected_instruction_indices(code, m.table)
        Hit(p) ==
            /\ Materialises(code, p) /\ p + 6 \in DOMAIN code
            /\ (p .. p + 6) \cap protected = {}
            /\ local_store(code[p + 4]) /\ code[p + 4].k = "I" /\ code[p + 4].n \notin pinned
            /\ local_load(code[p + 5]) /\ code[p + 5].n = code[p + 4].n
            /\ bool_branch_target(code[p + 6])
            /\ code[p + 6].ts[1] \notin p + 1 .. p + 6
            /\ code[p + 4].n \notin live.out[p + 6]
            /\ only_expected_incoming(code, p, p + 6)
    IN  Sweep(m, Hit, LAMBDA p : p + 6, LAMBDA p : p + 1 .. p + 6,
              LAMBDA p : <<p, FoldedBranch(code[p], code[p + 6])>>)

\* The pairs of dup and store that follow p.
RECURSIVE DupStores(_, _)
DupStores(code, p) ==
    IF p + 1 \in DOMAIN code /\ code[p].op = "dup" /\ local_store(code[p + 1]) /\ code[p + 1].k = "I"
    THEN <<p>> \o DupStores(code, p + 2) ELSE <<>>

fold_boolean_zero_comparisons(m, pinned) ==
    LET code == m.code
        live == analyze_local_liveness(code, m.table)
        protected == protected_instruction_indices(code, m.table)
        Stores(p) == DupStores(code, p + 4)
        Compare(p) == p + 5 + 2 * Len(Stores(p))
        Hit(p) ==
            /\ Materialises(code, p) /\ Compare(p) \in DOMAIN code
            /\ IsConst(code[Compare(p) - 1], 0)
            /\ bool_zero_compare_target(code[Compare(p)])
            /\ (p .. Compare(p)) \cap protected = {}
            /\ code[Compare(p)].ts[1] \notin p + 1 .. Compare(p)
            /\ \A q \in ToSet(Stores(p)) :
                  code[q + 1].n \notin pinned \cup live.out[Compare(p)]
            /\ only_expected_incoming(code, p, Compare(p))
    IN  Sweep(m, Hit, Compare, LAMBDA p : p + 1 .. Compare(p),
              LAMBDA p : <<p, FoldedBranch(code[p], code[Compare(p)])>>)

\* dup; istore; iconst_0; if_icmp: the stores that no one reads afterwards, and
\* all but the last of a local, go with the constant.
fold_stack_boolean_zero_comparisons(m, pinned) ==
    LET code == m.code
        live == analyze_local_liveness(code, m.table)
        protected == protected_instruction_indices(code, m.table)
        Stores(p) == DupStores(code, p)
        Compare(p) == p + 1 + 2 * Len(Stores(p))
        Kept(p, q) ==
            LET x == code[q + 1].n
            IN  \/ x \in pinned
                \/ x \in live.out[Compare(p)]
                   /\ \A r \in ToSet(Stores(p)) : r > q => code[r + 1].n # x
        Hit(p) ==
            /\ Stores(p) # <<>> /\ Compare(p) \in DOMAIN code
            /\ IsConst(code[Compare(p) - 1], 0)
            /\ bool_zero_compare_target(code[Compare(p)])
            /\ (p .. Compare(p)) \cap protected = {}
            /\ code[Compare(p)].ts[1] \notin p .. Compare(p)
            /\ \A t \in p .. Compare(p) : incoming_branch_sources(code, t) = {}
        Dropped(p) == {Compare(p) - 1} \cup
                      UNION {{q, q + 1} : q \in {r \in ToSet(Stores(p)) : ~Kept(p, r)}}
        Test(p) == If(IF code[Compare(p)].k = "icmpne" THEN "ne" ELSE "eq", code[Compare(p)].ts[1])
    IN  Sweep(m, Hit, Compare, Dropped, LAMBDA p : <<Compare(p), Test(p)>>)

-----------------------------------------------------------------------------
(* Smaller peepholes.                                                      *)

remove_dead_duplicate_stores(m, pinned) ==
    LET code == m.code
        live == analyze_local_liveness(code, m.table)
        protected == protected_instruction_indices(code, m.table)
        Hit(p) ==
            /\ p + 1 \in DOMAIN code /\ {p, p + 1} \cap protected = {}
            /\ local_store(code[p + 1])
            /\ code[p].op = IF Width(code[p + 1].k) = 2 THEN "dup2" ELSE "dup"
            /\ code[p + 1].n \notin pinned \cup live.out[p + 1]
    IN  Sweep(m, Hit, LAMBDA p : p + 1, LAMBDA p : {p, p + 1}, LAMBDA p : <<p, code[p]>>)

remove_redundant_instructions(m) ==
    LET code == m.code
        protected == protected_instruction_indices(code, m.table)
        Idle(p) == /\ p \notin protected
                   /\ \/ code[p].op = "nop"
                      \/ code[p].op \in Gotos /\ code[p].ts[1] = p + 1
        SelfStore(p) ==
            /\ p + 1 \in DOMAIN code /\ {p, p + 1} \cap protected = {}
            /\ local_load(code[p]) /\ local_store(code[p + 1])
            /\ code[p].n = code[p + 1].n /\ code[p].k = code[p + 1].k
    IN  Sweep(m, LAMBDA p : Idle(p) \/ SelfStore(p),
              LAMBDA p : IF Idle(p) THEN p ELSE p + 1,
              LAMBDA p : IF Idle(p) THEN {p} ELSE {p, p + 1},
              LAMBDA p : <<p, code[p]>>)

remove_unreachable_instructions(m) ==
    LET Grow(S, n) == S \cup UNION {SuccessorsOf(m.code, p) : p \in S}
        roots == {1} \cup {e.handler : e \in ToSet(m.table)}
    IN  compact_instructions(m, Foldl(Grow, roots, m.code) \cap DOMAIN m.code)

resolve_goto_chain(code, t) ==
    Foldl(LAMBDA at, n : IF at \in DOMAIN code /\ code[at].op \in Gotos THEN code[at].ts[1] ELSE at,
             t, code)

\* In place, from the first instruction to the last.
thread_jump_targets(m) ==
    LET Thread(code, p) ==
            IF code[p].op = "switch"
            THEN [code EXCEPT ![p].ts =
                     [n \in DOMAIN @ |-> resolve_goto_chain(code, p + @[n]) - p]]
            ELSE [code EXCEPT ![p].ts = [n \in DOMAIN @ |-> resolve_goto_chain(code, @[n])]]
    IN  [m EXCEPT !.code = Foldl(Thread, @, UpTo(Len(@)))]

fold_branch_over_goto(m) ==
    LET code == m.code
        protected == protected_instruction_indices(code, m.table)
        Hit(p) ==
            /\ p + 2 \in DOMAIN code /\ (p .. p + 2) \cap protected = {}
            /\ code[p].op = "if" /\ code[p].ts[1] = p + 2
            /\ incoming_branch_sources(code, p + 1) = {}
            /\ code[p + 1].op \in Gotos /\ code[p + 1].ts[1] # p + 2
    IN  Sweep(m, Hit, LAMBDA p : p + 1, LAMBDA p : {p + 1},
              LAMBDA p : <<p, invert_conditional_branch(code[p], code[p + 1].ts[1])>>)

\* store x; load x becomes dup; store x, again in place.
rewrite_store_load_pairs(m) ==
    LET protected == protected_instruction_indices(m.code, m.table)
        Rewrite(code, p) ==
            IF /\ p + 1 \in DOMAIN code /\ {p, p + 1} \cap protected = {}
               /\ local_store(code[p]) /\ local_load(code[p + 1])
               /\ code[p].k = code[p + 1].k /\ code[p].n = code[p + 1].n
            THEN [code EXCEPT ![p] = Op(IF Width(code[p].k) = 2 THEN "dup2" ELSE "dup"),
                              ![p + 1] = code[p]]
            ELSE code
    IN  [m EXCEPT !.code = Foldl(Rewrite, @, UpTo(Len(@)))]

int_constant(i) == i.op = "const" /\ i.k = "I"

\* load x, constant and add in either order, or load x, constant and subtract.
iinc_pattern(code, p) ==
    LET loadFirst == local_load(code[p]) /\ code[p].k = "I" /\ int_constant(code[p + 1])
        loadSecond == int_constant(code[p]) /\ local_load(code[p + 1]) /\ code[p + 1].k = "I"
        x == IF loadFirst THEN code[p].n ELSE code[p + 1].n
        a == IF loadFirst THEN code[p + 1].n ELSE code[p].n
    IN  IF /\ local_store(code[p + 3]) /\ code[p + 3].k = "I" /\ code[p + 2].k = "I"
           /\ \/ code[p + 2].op = "add" /\ (loadFirst \/ loadSecond)
              \/ code[p + 2].op = "sub" /\ loadFirst
           /\ x = code[p + 3].n
        THEN <<x, IF code[p + 2].op = "sub" THEN -a ELSE a>> ELSE <<>>

fold_iinc_patterns(m) ==
    LET code == m.code
        protected == protected_instruction_indices(code, m.table)
        Hit(p) == /\ p + 3 \in DOMAIN code
                  /\ (p + 1 .. p + 3) \cap protected = {}
                  /\ iinc_pattern(code, p) # <<>>
        Amount(p) == iinc_pattern(code, p)[2]
    IN  Sweep(m, Hit, LAMBDA p : p + 3, LAMBDA p : p + 1 .. p + 3,
              LAMBDA p : <<p, IF Amount(p) = 0 THEN Op("nop")
                              ELSE Iinc(iinc_pattern(code, p)[1], Amount(p))>>)

fold_null_branch_comparisons(m) ==
    LET code == m.code
        protected == protected_instruction_indices(code, m.table)
        Hit(p) ==
            /\ p + 2 \in DOMAIN code /\ (p .. p + 2) \cap protected = {}
            /\ local_load(code[p]) /\ code[p].k = "A"
            /\ code[p + 1].op = "const" /\ code[p + 1].k = "A"
            /\ code[p + 2].op = "if" /\ code[p + 2].k \in {"acmpeq", "acmpne"}
    IN  Sweep(m, Hit, LAMBDA p : p + 2, LAMBDA p : {p + 1},
              LAMBDA p : <<p + 2, If(IF code[p + 2].k = "acmpeq" THEN "null" ELSE "nonnull",
                                     code[p + 2].ts[1])>>)

-----------------------------------------------------------------------------
(* Local slots.  Slots below prefix hold the parameters and stay.           *)

has_backward_control_flow(code, table) ==
    \/ \E p \in DOMAIN code : \E q \in SuccessorsOf(code, p) : q <= p
    \/ \E e \in ToSet(table) : e.handler <= Min({e.end, Len(code) + 1})

MentionedAt(code, x) == {p \in DOMAIN code : x \in local_reads(code[p]) \cup local_writes(code[p])}

Mentioned(code) == UNION {local_reads(code[p]) \cup local_writes(code[p]) : p \in DOMAIN code}

compute_linear_live_ranges(code) ==
    [x \in Mentioned(code) |-> [first |-> Min(MentionedAt(code, x)), last |-> Max(MentionedAt(code, x)),
                                width |-> Max({Width(code[p].k) : p \in MentionedAt(code, x)})]]

compute_live_ranges(code, table) ==
    LET At(live, x) == {p \in DOMAIN code : x \in live.in[p] \cup live.out[p]}
                           \cup MentionedAt(code, x)
        Ranges(live, linear) ==
            [x \in DOMAIN linear |-> [first |-> Min(At(live, x)), last |-> Max(At(live, x)),
                                      width |-> linear[x].width]]
    IN  IF ~has_backward_control_flow(code, table) THEN compute_linear_live_ranges(code)
        ELSE Ranges(analyze_local_liveness(code, table), compute_linear_live_ranges(code))

\* The slots [from, from + width).
Slots(from, width) == from .. from + width - 1

first_available_slot(occupied, first, width) ==
    CHOOSE s \in first .. first + Cardinality(occupied) * width + width :
        /\ Slots(s, width) \cap occupied = {}
        /\ \A t \in first .. s - 1 : Slots(t, width) \cap occupied # {}

\* A linear scan over the ranges in order of their start; a slot is free again
\* after the last instruction of its range.
allocate_local_slots(m, prefix, pinned) ==
    LET Scan(ranges) ==
            LET stay == {x \in DOMAIN ranges : x >= prefix /\ x \in pinned}
                moving == {x \in DOMAIN ranges : x >= prefix /\ x \notin pinned}
                Earlier(x, y) ==
                    \/ ranges[x].first < ranges[y].first
                    \/ /\ ranges[x].first = ranges[y].first
                       /\ \/ ranges[x].last < ranges[y].last
                          \/ ranges[x].last = ranges[y].last /\ x < y
                fixed == 0 .. prefix - 1 \cup UNION {Slots(x, ranges[x].width) : x \in stay}
                Place(a, x) ==
                    LET active == {y \in a.active : ranges[y].last >= ranges[x].first}
                        occupied == fixed \cup
                                    UNION {Slots(a.map[y], ranges[y].width) : y \in active}
                        s == first_available_slot(occupied, prefix, ranges[x].width)
                    IN  [active |-> active \cup {x},
                         map |-> [y \in DOMAIN a.map \cup {x} |-> IF y = x THEN s ELSE a.map[y]]]
            IN  Foldl(Place, [active |-> {}, map |-> [x \in 0 .. prefix - 1 \cup stay |-> x]],
                      OrderedBy(moving, Earlier)).map
    IN  Scan(compute_live_ranges(m.code, m.table))

rewrite_locals(m, map) ==
    [m EXCEPT !.code = [p \in DOMAIN @ |->
        IF @[p].op \in {"load", "store", "iinc"} /\ @[p].n \in DOMAIN map
        THEN [@[p] EXCEPT !.n = map[@]] ELSE @[p]]]

compute_max_locals(code) ==
    Max({0} \cup {code[p].n + Width(code[p].k) :
                     p \in {q \in DOMAIN code : code[q].op \in {"load", "store", "iinc"}}})

\* Two locals that disagree about their common slot leave it without a hint.
remap_frame_values(hints, map, maxLocals) ==
    [s \in 0 .. maxLocals - 1 |->
        LET vs == {hints[x] : x \in {y \in DOMAIN map \cap DOMAIN hints :
                                        map[y] = s /\ hints[y] # TopV}}
        IN  IF Cardinality(vs) = 1 THEN CHOOSE v \in vs : TRUE ELSE TopV]

-----------------------------------------------------------------------------
(* The passes before slot allocation, in order.                            *)

PassNames == <<"materialised booleans", "redundant", "thread", "branch over goto",
               "unreachable", "store load", "iinc", "null branch", "zero comparisons",
               "stack comparisons", "dead stores", "thread", "branch over goto",
               "unreachable", "redundant">>

optimise_pass(name, m, pinned) ==
    CASE name = "materialised booleans" -> fold_boolean_branch_materialization(m, pinned)
      [] name = "redundant" -> remove_redundant_instructions(m)
      [] name = "thread" -> thread_jump_targets(m)
      [] name = "branch over goto" -> fold_branch_over_goto(m)
      [] name = "unreachable" -> remove_unreachable_instructions(m)
      [] name = "store load" -> rewrite_store_load_pairs(m)
      [] name = "iinc" -> fold_iinc_patterns(m)
      [] name = "null branch" -> fold_null_branch_comparisons(m)
      [] name = "zero comparisons" -> fold_boolean_zero_comparisons(m, pinned)
      [] name = "stack comparisons" -> fold_stack_boolean_zero_comparisons(m, pinned)
      [] name = "dead stores" -> remove_dead_duplicate_stores(m, pinned)
=============================================================================

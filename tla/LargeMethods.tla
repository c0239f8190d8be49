----------------------------- MODULE LargeMethods -----------------------------
(***************************************************************************)
(* Functions too large for a JVM method (src/src/lower2/large_methods.rs)   *)
(* are cut into chunks along their control flow.  The first chunk keeps the *)
(* name; a jump into another chunk becomes a call of it, with the variables *)
(* that are live there, whose result is returned.  Arrays that carry more   *)
(* variables than a method can have parameters are left out.                *)
(***************************************************************************)
EXTENDS Translate

CONSTANTS MaxChunkCost,     \* MAX_CHUNK_COST
          Selector,         \* "__outlined_selector"
          Returned          \* "$outlined$return"

block_cost(code) == Len(SelectSeq(code, LAMBDA i : i.op \notin {"UnwindStart", "UnwindEnd"}))

Cost(f, labels) == FoldSet(LAMBDA l, n : n + block_cost(f.blocks[l]), 0, labels)

\* The targets of a block, exceptional ones included, in order of their labels.
successor_map(f) == [l \in DOMAIN f.blocks |-> Ordered(ToSet(get_block_successors(f.blocks[l])))]

-----------------------------------------------------------------------------
(* Components: blocks that reach one another, sources before targets.      *)

\* Depth first from a node, each after its successors; order collects.
RECURSIVE Visit(_, _, _)
Visit(a, node, successors) ==
    IF node \in a.visited THEN a
    ELSE LET inside == Foldl(LAMBDA b, t : Visit(b, t, successors),
                             [a EXCEPT !.visited = @ \cup {node}], successors[node])
         IN  [inside EXCEPT !.order = Append(@, node)]

PostOrder(node, successors) ==
    Visit([visited |-> {}, order |-> <<>>], node, successors).order

\* What leads to node over blocks that no earlier component has.
LeadingTo(node, successors, assigned) ==
    Iterated(LAMBDA s : s \cup {p \in DOMAIN successors \ assigned :
                                   ToSet(successors[p]) \cap s # {}},
             LAMBDA s : \A p \in DOMAIN successors \ (assigned \cup s) :
                           ToSet(successors[p]) \cap s = {},
             {node})

Components(f, successors) ==
    Foldl(LAMBDA cs, node :
              LET assigned == UNION ToSet(cs)
              IN  IF node \in assigned THEN cs
                  ELSE Append(cs, LeadingTo(node, successors, assigned)),
          <<>>, Reverse(PostOrder(f.entry, successors)))

topological_components(f) ==
    LET successors == successor_map(f)
        components == Components(f, successors)
        Of(l) == CHOOSE n \in DOMAIN components : l \in components[n]
        dag == [n \in DOMAIN components |->
                   Ordered({Of(t) : t \in UNION {ToSet(successors[l]) : l \in components[n]}} \ {n})]
        order == Reverse(PostOrder(Of(f.entry), dag))
    IN  [n \in DOMAIN order |-> components[order[n]]]

\* "large OOMIR function contains unreachable blocks after optimisation"
AllReachable(f) == ToSet(PostOrder(f.entry, successor_map(f))) = DOMAIN f.blocks

\* Components are gathered until the next would cost too much; one that costs
\* too much by itself is a chunk alone.
ComponentChunks(f) ==
    LET Closed(a) == IF a.current = {} THEN a.chunks ELSE Append(a.chunks, a.current)
        Add(a, component) ==
            LET cost == Cost(f, component)
            IN  IF cost > MaxChunkCost
                THEN [chunks |-> Append(Closed(a), component), current |-> {}]
                ELSE IF a.current # {} /\ Cost(f, a.current) + cost > MaxChunkCost
                THEN [chunks |-> Closed(a), current |-> component]
                ELSE [a EXCEPT !.current = @ \cup component]
    IN  Closed(Foldl(Add, [chunks |-> <<>>, current |-> {}], topological_components(f)))

-----------------------------------------------------------------------------
(* Variables.  A variable used at two types counts twice.                  *)

instruction_uses(i) ==
    {<<i.args[n].name, i.args[n].ty>> : n \in {m \in DOMAIN i.args : i.args[m].var}}
        \cup (IF i.op = "Rethrow" THEN {<<UnwindLocal, Throwable>>} ELSE {})

\* What a block reads before it assigns it; assignment is by name.
BlockUses(code) ==
    Foldl(LAMBDA a, i : [uses |-> a.uses \cup {v \in instruction_uses(i) : v[1] \notin a.defs},
                         defs |-> a.defs \cup Defs(i)],
          [uses |-> {}, defs |-> {}], code)

\* The variables live into each block, in the end.
live_variables(f) ==
    LET Round(live) ==
            [l \in DOMAIN f.blocks |->
                LET u == BlockUses(f.blocks[l])
                    out == UNION {live[s] : s \in ToSet(get_block_successors(f.blocks[l]))}
                IN  u.uses \cup {v \in out : v[1] \notin u.defs}]
    IN  Iterated(Round, LAMBDA live : Round(live) = live, [l \in DOMAIN f.blocks |-> {}])

-----------------------------------------------------------------------------
(* Chunks                                                                  *)

\* A set as a sequence, in one order of names or another.
Listed(S) ==
    Iterated(LAMBDA a : LET e == CHOOSE e \in a.left : TRUE
                        IN  [left |-> a.left \ {e}, seq |-> Append(a.seq, e)],
             LAMBDA a : a.left = {}, [left |-> S, seq |-> <<>>]).seq

\* The blocks of a chunk that others, or the caller, jump to.
Entries(f, chunks, k) ==
    Ordered({l \in chunks[k] :
        \/ l = f.entry
        \/ \E p \in DOMAIN f.blocks \ chunks[k] : Contains(get_block_successors(f.blocks[p]), l)})

\* A selector, if there is a choice, and what is live at any entry.
Parameters(f, chunks, k, live) ==
    LET entries == Entries(f, chunks, k)
        variables == UNION {live[e] : e \in ToSet(entries)}
    IN  (IF Len(entries) > 1 THEN <<<<Selector, I32>>>> ELSE <<>>) \o Listed(variables)

default_constant(ty) == Const(0, ty)

\* A parameter that is not live at the target gets a default.
call_arguments(f, chunks, k, target, live) ==
    LET entries == Entries(f, chunks, k)
        params == Parameters(f, chunks, k, live)
        choice == Const((CHOOSE n \in DOMAIN entries : entries[n] = target) - 1, I32)
    IN  [n \in DOMAIN params |->
            IF Len(entries) > 1 /\ n = 1 THEN choice
            ELSE IF params[n] \in live[target] THEN Var(params[n][1], params[n][2])
            ELSE default_constant(params[n][2])]

\* Labels of the blocks that are added.
TailLabel(target) == 100 + target
DispatchLabel == 200
InvalidLabel == 201

ChunkOf(chunks, l) == CHOOSE k \in DOMAIN chunks : l \in chunks[k]

\* The block that calls the chunk of target and returns its result.
Trampoline(f, chunks, target, live) ==
    LET k == ChunkOf(chunks, target)
    IN  <<CallChunk(Returned, call_arguments(f, chunks, k, target, live), f.ret, k),
          Return(Var(Returned, f.ret))>>

\* Targets in other chunks become trampolines.
rewrite_targets(code, chunk) ==
    [n \in DOMAIN code |->
        IF "targets" \notin DOMAIN code[n] THEN code[n]
        ELSE [code[n] EXCEPT !.targets = [m \in DOMAIN @ |-> IF @[m] \in chunk THEN @[m]
                                                             ELSE TailLabel(@[m])]]]

\* Several entries: a switch on the selector comes first.
Dispatch(entries) ==
    Switch(Var(Selector, I32), [n \in DOMAIN entries |-> n - 1], entries \o <<InvalidLabel>>)

OutlinedChunk(f, chunks, k, live) ==
    LET chunk == chunks[k]
        entries == Entries(f, chunks, k)
        outside == UNION {ToSet(get_block_successors(f.blocks[l])) : l \in chunk} \ chunk
        dispatched == k > 1 /\ Len(entries) > 1
        added == {TailLabel(t) : t \in outside}
                     \cup (IF dispatched THEN {DispatchLabel, InvalidLabel} ELSE {})
    IN  [entry |-> IF dispatched THEN DispatchLabel ELSE entries[1],
         blocks |-> [l \in chunk \cup added |->
                        CASE l \in chunk -> rewrite_targets(f.blocks[l], chunk)
                          [] l = DispatchLabel -> <<Dispatch(entries)>>
                          [] l = InvalidLabel -> <<ThrowNew>>
                          [] OTHER -> Trampoline(f, chunks, l - 100, live)],
         params |-> IF k = 1 THEN f.params ELSE Parameters(f, chunks, k, live),
         ret |-> f.ret,
         debug |-> IF k = 1 THEN f.debug ELSE {}]

\* The functions that take the place of f, the first under its name; none if f
\* is refused.
outline_function(f) ==
    IF Cost(f, DOMAIN f.blocks) <= MaxChunkCost THEN <<f>>
    ELSE IF ~AllReachable(f) THEN <<>>
    ELSE LET Outlined(chunks, live) ==
                 IF Len(chunks) = 1 THEN <<f>>
                 ELSE [k \in DOMAIN chunks |-> OutlinedChunk(f, chunks, k, live)]
         IN  Outlined(ComponentChunks(f), live_variables(f))
=============================================================================

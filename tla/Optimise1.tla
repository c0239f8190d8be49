------------------------------ MODULE Optimise1 ------------------------------
(***************************************************************************)
(* The OOMIR optimiser (src/src/optimise1.rs and src/src/optimise1/).  One  *)
(* function goes through the passes of optimise_function, one work-list     *)
(* step at a time: duplicate blocks, constant propagation, copy             *)
(* propagation, removal of dead moves, duplicate blocks again.  Then the    *)
(* original and the optimised function are executed side by side on the     *)
(* same arguments and the same answers from their callees.                  *)
(***************************************************************************)
EXTENDS Oomir

CONSTANTS Functions,    \* the functions that come out of lower1
          DebugLocals,  \* locals that have debug information
          Answers       \* arguments, and what callees return

ASSUME AnswersAreValues == Answers \subseteq Values

VARIABLES original,   \* the function as it came from lower1
          function,   \* the function as the passes have left it
          phase,      \* the pass that is running
          entryOf,    \* what the running analysis has found at block entries
          exitOf,     \* ... and at block exits
          queue,      \* its work list of labels
          stale,      \* constant propagation used a fact that no longer held
          source,     \* the machine that executes the original
          target      \* the machine that executes the optimised function

vars == <<original, function, phase, entryOf, exitOf, queue, stale, source, target>>

Labels == DOMAIN function.blocks

Sorted(S) == SetToSortSeq(S, <)

None == [l \in {} |-> {}]

-----------------------------------------------------------------------------
(* reorganisation.rs: blocks with the same instructions become one.  Which *)
(* of them survives depends on the order of a hash map.                    *)

Representatives ==
    {R \in SUBSET Labels : \A l \in Labels :
        Cardinality({r \in R : function.blocks[r] = function.blocks[l]}) = 1}

Canonical(R, l) == CHOOSE r \in R : function.blocks[r] = function.blocks[l]

Redirected(i, R) ==
    IF "targets" \in DOMAIN i
    THEN [i EXCEPT !.targets =
              [n \in DOMAIN @ |-> IF @[n] \in Labels THEN Canonical(R, @[n]) ELSE @[n]]]
    ELSE i

eliminate_duplicate_basic_blocks(R) ==
    [entry  |-> Canonical(R, function.entry),
     blocks |-> [l \in R |-> [n \in DOMAIN function.blocks[l] |->
                                 Redirected(function.blocks[l][n], R)]]]

-----------------------------------------------------------------------------
(* dataflow.rs: what a block does to a set of facts <<local, constant>>.   *)

lookup_const(o, facts) ==
    IF o.var THEN {p[2] : p \in {q \in facts : q[1] = o.name /\ q[2].ty = o.ty}}
             ELSE {o}

Propagated(o, facts) ==
    IF lookup_const(o, facts) = {} THEN o
    ELSE CHOOSE c \in lookup_const(o, facts) : TRUE

Is(o, v) == ~o.var /\ o.value = v

\* An instruction and the constants (at most one) its destination then has.
Outcome(i, known) == [instr |-> i, known |-> known]

Folded(d, v, ty) == Outcome(Move(d, Const(v, ty)), {Const(v, ty)})

\* update_state_based_on_operand is given the facts at the start of the block.
update_state_based_on_operand(d, o, initial) ==
    Outcome(Move(d, o), IF o.var THEN {p[2] : p \in {q \in initial : q[1] = o.name}}
                                 ELSE {o})

Evaluates(f, a, b) ==
    /\ ~a.var /\ ~b.var
    /\ f = "Div" => b.value # 0 /\ <<a.value, b.value>> # <<-HalfRange, -1>>

Evaluated(i, a, b) ==
    IF Evaluates(i.op, a, b)
    THEN Folded(i.dest, Apply(i.op, a.value, b.value), a.ty)
    ELSE Outcome([i EXCEPT !.args = <<a, b>>], {})

SimplifiedAdd(i, a, b, initial) ==
    CASE Is(b, 0) -> update_state_based_on_operand(i.dest, a, initial)
      [] Is(a, 0) /\ ~Is(b, 0) -> update_state_based_on_operand(i.dest, b, initial)
      [] OTHER -> Evaluated(i, a, b)

SimplifiedSub(i, a, b, initial) ==
    CASE Is(b, 0) -> update_state_based_on_operand(i.dest, a, initial)
      [] Is(a, 0) /\ b.var -> Outcome(Neg(i.dest, b), {})
      [] OTHER -> Evaluated(i, a, b)

\* Mutant: the identity of 1 * x keeps the constant instead of x.
MSimplifiedMul(i, a, b, initial) ==
    CASE Is(a, 0) \/ Is(b, 0) -> Folded(i.dest, 0, a.ty)
      [] Is(b, 1) \/ Is(a, 1) -> update_state_based_on_operand(i.dest, a, initial)
      [] OTHER -> Evaluated(i, a, b)

SimplifiedMul(i, a, b, initial) ==
    LET zero == Is(a, 0) \/ Is(b, 0)
    IN  CASE zero /\ ~a.var -> Folded(i.dest, 0, a.ty)
          [] ~zero /\ Is(b, 1) -> update_state_based_on_operand(i.dest, a, initial)
          [] ~zero /\ Is(a, 1) /\ ~Is(b, 1) ->
                 update_state_based_on_operand(i.dest, b, initial)
          [] OTHER -> Evaluated(i, a, b)

SimplifiedDiv(i, a, b, initial) ==
    CASE Is(a, 0) /\ ~Is(b, 0) -> Folded(i.dest, 0, a.ty)
      [] Is(b, 1) /\ ~Is(a, 0) -> update_state_based_on_operand(i.dest, a, initial)
      [] OTHER -> Evaluated(i, a, b)

\* A branch or switch on a constant becomes a jump.
Decided(i, o) ==
    CASE o.var -> [i EXCEPT !.args = <<o>>]
      [] ~o.var /\ i.op = "Branch" -> Jump(i.targets[IF o.value # 0 THEN 1 ELSE 2])
      [] ~o.var /\ i.op = "Switch" -> Jump(i.targets[SwitchTarget(i, o.value)])

Simplified(i, initial, facts) ==
    LET as == [n \in DOMAIN i.args |-> Propagated(i.args[n], facts)]
    IN  CASE i.op = "Add" -> SimplifiedAdd(i, as[1], as[2], initial)
          [] i.op = "Sub" -> SimplifiedSub(i, as[1], as[2], initial)
          [] i.op = "Mul" -> SimplifiedMul(i, as[1], as[2], initial)
          [] i.op = "Div" -> SimplifiedDiv(i, as[1], as[2], initial)
          [] i.op \in {"Eq", "Lt"} -> Evaluated(i, as[1], as[2])
          [] i.op = "Move" -> Outcome(Move(i.dest, as[1]), IF as[1].var THEN {} ELSE {as[1]})
          [] i.op = "Neg" -> IF as[1].var THEN Outcome(i, {})
                             ELSE Folded(i.dest, Wrap(-as[1].value), as[1].ty)
          [] i.op \in {"Branch", "Switch"} -> Outcome(Decided(i, as[1]), {})
          [] OTHER -> Outcome([i EXCEPT !.args = as], {})

\* A call through an object does not withdraw what was known of its destination.
FactsAfter(i, known, facts) ==
    IF i.op = "InvokeVirtual" THEN facts
    ELSE {p \in facts : p[1] \notin Defs(i)} \cup (Defs(i) \X known)

\* Simplification copied a fact of the start of the block that the block has
\* overwritten, or a call left the fact of the destination it assigns.
UsesStaleFact(i, s, facts) ==
    \/ s.instr.op = "Move" /\ s.instr.args[1].var /\ s.known # {}
    \/ i.op = "InvokeVirtual" /\ \E p \in facts : p[1] \in Defs(i)

process_block_instructions(code, initial) ==
    FoldLeft(LAMBDA done, i :
                 LET s == Simplified(i, initial, done.facts)
                 IN  [code  |-> Append(done.code, s.instr),
                      facts |-> FactsAfter(i, s.known, done.facts),
                      stale |-> done.stale \/ UsesStaleFact(i, s, done.facts)],
             [code |-> <<>>, facts |-> initial, stale |-> FALSE], code)

EntryFacts(l) == IF l \in DOMAIN entryOf THEN entryOf[l] ELSE {}

Processed(l) == process_block_instructions(function.blocks[l], EntryFacts(l))

transform_function ==
    LET rewritten == [entry  |-> function.entry,
                      blocks |-> [l \in Labels |-> Processed(l).code]]
    IN  [rewritten EXCEPT !.blocks = Restrict(@, find_reachable_blocks(rewritten))]

-----------------------------------------------------------------------------
(* copyprop.rs: what a block does to a set of aliases, and the rewriting.  *)

resolve_alias(o, aliases) == {a \in aliases : a.dest = o.name /\ a.ty = o.ty}

move_alias(o, aliases) ==
    IF resolve_alias(o, aliases) = {} THEN {o.name}
    ELSE {a.source : a \in resolve_alias(o, aliases)}

kill_aliases_touching(locals, aliases) ==
    {a \in aliases : a.dest \notin locals /\ a.source \notin locals}

transfer_aliases_through_instruction(aliases, i) ==
    LET copied == IF i.op = "Move" /\ i.args[1].var /\ i.dest \notin DebugLocals
                  THEN move_alias(i.args[1], aliases) \ {i.dest}
                  ELSE {}
    IN  kill_aliases_touching(Defs(i), aliases) \cup
        {[dest |-> i.dest, source |-> s, ty |-> i.args[1].ty] : s \in copied}

transfer_aliases_through_block(code, aliases) ==
    FoldLeft(transfer_aliases_through_instruction, aliases, code)

rewrite_operand(o, aliases) ==
    IF o.var THEN [o EXCEPT !.name = CHOOSE s \in move_alias(o, aliases) : TRUE] ELSE o

rewrite_instruction_uses(i, aliases) ==
    [i EXCEPT !.args = [n \in DOMAIN @ |-> rewrite_operand(@[n], aliases)]]

RewrittenBlock(code, aliases) ==
    FoldLeft(LAMBDA done, i :
                 LET r == rewrite_instruction_uses(i, done.aliases)
                 IN  [code    |-> Append(done.code, r),
                      aliases |-> transfer_aliases_through_instruction(done.aliases, r)],
             [code |-> <<>>, aliases |-> aliases], code).code

propagate_copies ==
    [function EXCEPT !.blocks =
        [l \in Labels |-> RewrittenBlock(function.blocks[l], entryOf[l])]]

-----------------------------------------------------------------------------
(* copyprop.rs: liveness and the removal of dead moves.                    *)

LiveBefore(i, live) == (live \ Defs(i)) \cup Uses(i)

LiveIn(code, live) == FoldRight(LiveBefore, code, live)

removable_dead_definition(i, live) ==
    /\ i.op \in {"Move", "PointerCell"}
    /\ i.dest \notin live \cup DebugLocals

SweptBlock(code, live) ==
    FoldRight(LAMBDA i, done :
                  IF removable_dead_definition(i, done.live) THEN done
                  ELSE [code |-> <<i>> \o done.code, live |-> LiveBefore(i, done.live)],
              code, [code |-> <<>>, live |-> live]).code

Swept ==
    [function EXCEPT !.blocks =
        [l \in Labels |-> SweptBlock(function.blocks[l], exitOf[l])]]

-----------------------------------------------------------------------------
(* The passes, in the order of optimise_function.                          *)

Init ==
    /\ original \in Functions
    /\ function = original
    /\ phase = "duplicates"
    /\ entryOf = None
    /\ exitOf = None
    /\ queue = <<>>
    /\ stale = FALSE
    /\ source = Start(original, [x \in Locals |-> 0])
    /\ target = source

Enter(p, entries, exits, labels) ==
    /\ phase' = p
    /\ entryOf' = entries
    /\ exitOf' = exits
    /\ queue' = labels

EliminateDuplicates ==
    /\ phase = "duplicates"
    /\ \E R \in Representatives : function' = eliminate_duplicate_basic_blocks(R)
    /\ Enter("constants", [l \in {function'.entry} |-> {}], None, <<function'.entry>>)
    /\ UNCHANGED <<original, stale, source, target>>

\* Mutant: a block that has been reached is never revisited.
MAnalyseConstants ==
    /\ phase = "constants"
    /\ queue # <<>>
    /\ LET l == Head(queue)
           out == process_block_instructions(function.blocks[l], entryOf[l]).facts
           outs == (l :> out) @@ exitOf
           Merged(k) == {p \in out : \A q \in Predecessors(function, k) \cap DOMAIN outs :
                                        p \in outs[q]}
           fresh == IF l \in DOMAIN exitOf /\ exitOf[l] = out THEN {}
                    ELSE {k \in ToSet(Successors(function, l)) \ {function.entry} : k \notin DOMAIN entryOf}
       IN  /\ exitOf' = outs
           /\ entryOf' = [k \in fresh |-> Merged(k)] @@ entryOf
           /\ \E order \in SetToSeqs(fresh \ ToSet(Tail(queue))) :
                 queue' = Tail(queue) \o order
    /\ UNCHANGED <<original, function, phase, stale, source, target>>

\* One turn of analyze_constant_propagation: only predecessors that have been
\* reached count, and the entry block keeps its empty set of facts.  The
\* successors are visited in the order of a hash set.
AnalyseConstants ==
    /\ phase = "constants"
    /\ queue # <<>>
    /\ LET l == Head(queue)
           out == process_block_instructions(function.blocks[l], entryOf[l]).facts
           outs == (l :> out) @@ exitOf
           Merged(k) == {p \in out : \A q \in Predecessors(function, k) \cap DOMAIN outs :
                                        p \in outs[q]}
           fresh == IF l \in DOMAIN exitOf /\ exitOf[l] = out THEN {}
                    ELSE {k \in ToSet(Successors(function, l)) \ {function.entry} :
                             k \notin DOMAIN entryOf \/ entryOf[k] # Merged(k)}
       IN  /\ exitOf' = outs
           /\ entryOf' = [k \in fresh |-> Merged(k)] @@ entryOf
           /\ \E order \in SetToSeqs(fresh \ ToSet(Tail(queue))) :
                 queue' = Tail(queue) \o order
    /\ UNCHANGED <<original, function, phase, stale, source, target>>

Transform ==
    /\ phase = "constants"
    /\ queue = <<>>
    /\ function' = transform_function
    /\ stale' = \E l \in DOMAIN function'.blocks : Processed(l).stale
    /\ LET nothing == [l \in DOMAIN function'.blocks |-> {}]
       IN  Enter("aliases", nothing, nothing, Sorted(DOMAIN nothing))
    /\ UNCHANGED <<original, source, target>>

\* One turn of analyze_copy_aliases, with meet_predecessor_aliases.
AnalyseAliases ==
    /\ phase = "aliases"
    /\ queue # <<>>
    /\ LET l == Head(queue)
           before == Predecessors(function, l)
           in == IF l = function.entry \/ before = {} THEN {}
                 ELSE {a \in UNION {exitOf[k] : k \in before} :
                          \A k \in before : a \in exitOf[k]}
           out == transfer_aliases_through_block(function.blocks[l], in)
           after == SelectSeq(Successors(function, l),
                              LAMBDA k : ~Contains(Tail(queue), k))
       IN  /\ entryOf' = [entryOf EXCEPT ![l] = in]
           /\ exitOf' = [exitOf EXCEPT ![l] = out]
           /\ queue' = IF out = exitOf[l] THEN Tail(queue) ELSE Tail(queue) \o after
    /\ UNCHANGED <<original, function, phase, stale, source, target>>

EnterLiveness(f) ==
    LET nothing == [l \in DOMAIN f.blocks |-> {}]
    IN  Enter("liveness", nothing, nothing, Reverse(Sorted(DOMAIN f.blocks)))

PropagateCopies ==
    /\ phase = "aliases"
    /\ queue = <<>>
    /\ function' = propagate_copies
    /\ EnterLiveness(function')
    /\ UNCHANGED <<original, stale, source, target>>

\* One turn of block_live_out.
AnalyseLiveness ==
    /\ phase = "liveness"
    /\ queue # <<>>
    /\ LET l == Head(queue)
           out == UNION {entryOf[k] : k \in ToSet(Successors(function, l))}
           in == LiveIn(function.blocks[l], out)
           before == SelectSeq(Sorted(Predecessors(function, l)),
                               LAMBDA k : ~Contains(Tail(queue), k))
       IN  /\ exitOf' = [exitOf EXCEPT ![l] = out]
           /\ entryOf' = [entryOf EXCEPT ![l] = in]
           /\ queue' = IF in = entryOf[l] THEN Tail(queue) ELSE Tail(queue) \o before
    /\ UNCHANGED <<original, function, phase, stale, source, target>>

\* eliminate_dead_moves goes round again while something was removed.
EliminateDeadMoves ==
    /\ phase = "liveness"
    /\ queue = <<>>
    /\ function' = Swept
    /\ IF function' = function THEN Enter("duplicates again", None, None, <<>>)
                               ELSE EnterLiveness(function')
    /\ UNCHANGED <<original, stale, source, target>>

EliminateDuplicatesAgain ==
    /\ phase = "duplicates again"
    /\ \E R \in Representatives : function' = eliminate_duplicate_basic_blocks(R)
    /\ Enter("run", None, None, <<>>)
    /\ \E env \in [Locals -> Answers] :
          /\ source' = Start(original, env)
          /\ target' = Start(function', env)
    /\ UNCHANGED <<original, stale>>

Pass ==
    \/ EliminateDuplicates \/ AnalyseConstants \/ Transform
    \/ AnalyseAliases \/ PropagateCopies
    \/ AnalyseLiveness \/ EliminateDeadMoves \/ EliminateDuplicatesAgain

-----------------------------------------------------------------------------
(* The two executions.  Each runs up to its next visible instruction; the  *)
(* callee then answers both alike.                                         *)

RunSource ==
    /\ phase = "run"
    /\ ~Visible(original, source)
    /\ ~Undefined(original, source)
    /\ source' = Silently(original, source)
    /\ UNCHANGED <<original, function, phase, entryOf, exitOf, queue, stale, target>>

RunTarget ==
    /\ phase = "run"
    /\ Visible(original, source)
    /\ ~Visible(function, target)
    /\ ~Undefined(function, target)
    /\ target' = Silently(function, target)
    /\ UNCHANGED <<original, function, phase, entryOf, exitOf, queue, stale, source>>

BothVisible ==
    /\ phase = "run"
    /\ Visible(original, source)
    /\ Visible(function, target)

SameCall ==
    /\ BothVisible
    /\ Current(original, source).op \in Calls
    /\ Current(function, target).op = Current(original, source).op

CalleeReturns ==
    /\ SameCall
    /\ \E v \in Answers :
          /\ source' = Assign(source, Current(original, source).dest, v)
          /\ target' = Assign(target, Current(function, target).dest, v)
    /\ UNCHANGED <<original, function, phase, entryOf, exitOf, queue, stale>>

CalleeThrows ==
    /\ SameCall
    /\ source.region # NoLabel
    /\ source' = Goto(source, source.region)
    /\ target' = Goto(target, target.region)
    /\ UNCHANGED <<original, function, phase, entryOf, exitOf, queue, stale>>

Finish ==
    /\ phase = "run"
    /\ \/ BothVisible /\ Current(original, source).op \in {"Return", "Rethrow"}
       \/ SameCall /\ source.region = NoLabel
       \/ Undefined(original, source)
    /\ phase' = "done"
    /\ UNCHANGED <<original, function, entryOf, exitOf, queue, stale, source, target>>

Execute == RunSource \/ RunTarget \/ CalleeReturns \/ CalleeThrows \/ Finish

Next == Pass \/ Execute

Spec == Init /\ [][Next]_vars

\* A pass has a step, and one that changes something, until the passes are over.
Compiling == phase \notin {"run", "done"}

\* Compiler and executions are sequential programs that do not stop by
\* themselves.  The second conjunct is WF_vars(Pass), with ENABLED spelt out.
FairSpec ==
    /\ Spec
    /\ []<>~Compiling \/ []<><<Pass>>_vars
    /\ WF_vars(Execute)

-----------------------------------------------------------------------------
(* Properties.                                                             *)

\* What two executions show of themselves: the instruction and the values it
\* is given, where its result goes, and whether a throw would be caught.
Observation(f, m) ==
    <<Current(f, m).op, Arguments(f, m), Defs(Current(f, m)), m.region = NoLabel>>

\* The optimised function makes the same calls with the same values and ends in
\* the same way as the original, whatever its callees answer and wherever they
\* throw.
SameBehaviour ==
    /\ BothVisible => Observation(function, target) = Observation(original, source)
    /\ phase = "run" /\ Visible(original, source) => ~Undefined(function, target)

\* The same, for functions in which constant propagation copied no fact that an
\* earlier instruction of the block had already made untrue.
SameBehaviourUnlessStale == ~stale => SameBehaviour

\* Liveness analysis and the repeated removal of dead moves come to an end, and
\* whenever the original reaches a call or its end the optimised function does
\* too: no pass leaves it going round in silence.
TargetKeepsUp ==
    /\ (phase = "liveness") ~> (phase = "run")
    /\ (phase = "run" /\ Visible(original, source) /\ ~stale) ~>
          (BothVisible \/ phase = "done")
=============================================================================

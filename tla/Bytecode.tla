------------------------------- MODULE Bytecode -------------------------------
(***************************************************************************)
(* A function on its way from OOMIR to loaded methods, one or, if it is too *)
(* large, several, and then the two side by side: the OOMIR machine is the  *)
(* source, the JVM the target.  Each pass of the bytecode optimiser is a    *)
(* step, which the methods, having nothing in common, take together.  The   *)
(* machines run until each stands before something a caller or callee sees; *)
(* then both take it.                                                       *)
(***************************************************************************)
EXTENDS LargeMethods

CONSTANTS Functions,    \* [entry, blocks, params, ret, debug]
          Answers,      \* what a callee returns
          Exceptions    \* what a callee throws; not 0, which is null

VARIABLES original,     \* the function
          methods,      \* the methods: code, table, hints, frames
          todo,         \* optimiser passes still to come
          phase,        \* where translate stands, then "run", then "done"
          source,       \* the OOMIR machine
          caught,       \* the exception the source last caught
          target        \* the JVM machine

vars == <<original, methods, todo, phase, source, caught, target>>

\* Locals that are not parameters start out as 0, which valid code never reads.
Inputs(f) ==
    {env \in [Locals -> Answers \cup {0}] :
        \A x \in Locals : (\A n \in DOMAIN f.params : f.params[n][1] # x) => env[x] = 0}

\* Enough local slots for the sampled methods.
Slots0 == 0 .. 15

ParameterSlots(f, env) ==
    LET t == NewTranslator(f)
    IN  [s \in Slots0 |-> IF \E x \in DOMAIN t.map : t.map[x] = s
                          THEN env[CHOOSE x \in DOMAIN t.map : t.map[x] = s] ELSE 0]

\* A machine in method k, and those that wait for it.
Running(m, k, callers) ==
    [pc |-> m.pc, loc |-> m.loc, st |-> m.st, in |-> k, callers |-> callers]

\* A machine before its function is called.
Idle == <<>>

Init ==
    /\ original \in Functions
    /\ methods = LET AllTranslated(parts) == [k \in DOMAIN parts |-> Translated(parts[k])]
                 IN  AllTranslated(outline_function(original))
    /\ todo = PassNames
    /\ phase = "optimise"
    /\ source = Idle /\ target = Idle /\ caught = 0

Optimise ==
    /\ phase = "optimise" /\ todo # <<>>
    /\ methods' = [k \in DOMAIN methods |->
                      optimise_pass(Head(todo), methods[k], methods[k].pinned)]
    /\ todo' = Tail(todo)
    /\ UNCHANGED <<original, phase, source, caught, target>>

Allocate ==
    /\ phase = "optimise" /\ todo = <<>>
    /\ methods' = [k \in DOMAIN methods |-> Allocated(methods[k])]
    /\ phase' = "widen"
    /\ UNCHANGED <<original, todo, source, caught, target>>

Widen ==
    /\ phase = "widen"
    /\ methods' = [k \in DOMAIN methods |-> Widened(methods[k])]
    /\ phase' = "frames"
    /\ UNCHANGED <<original, todo, source, caught, target>>

BuildFrames ==
    /\ phase = "frames"
    /\ methods' = [k \in DOMAIN methods |-> Finished(methods[k])]
    /\ phase' = "load"
    /\ UNCHANGED <<original, todo, source, caught, target>>

VerifierAccepts(method) ==
    Verifies(method.code, method.table, method.frames,
             FrameStateNew(method.initial, MaxLocals(method)).loc)

Loads == methods # <<>> /\ \A k \in DOMAIN methods : methods[k].ok /\ VerifierAccepts(methods[k])

\* A class that does not verify is not run; one that does is called.
LoadClass ==
    /\ phase = "load" /\ Loads
    /\ phase' = "run"
    /\ \E env \in Inputs(original) :
          /\ source' = Start(original, env)
          /\ target' = Running(StartAt(ParameterSlots(original, env)), 1, <<>>)
    /\ UNCHANGED <<original, methods, todo, caught>>

-----------------------------------------------------------------------------
(* Execution.                                                              *)

SourceStands == Visible(original, source)

method == methods[target.in]
TargetCall == method.code[target.pc]

\* Calls of other chunks, and their returns, are the function's own business.
TargetStands ==
    /\ VisibleI(method.code, target)
    /\ TargetCall.op = "invoke" => TargetCall.n = 0
    /\ TargetCall.op = "return" => target.callers = <<>>

\* Parameters lie side by side, a long in two slots.
SlotOfParameter(i, n) == FoldFunctionOnSet(LAMBDA k, a : a + Width(k[1]), 0, i.ks, 2 .. n)

EnterChunk ==
    LET i == TargetCall
        args == ArgumentsI(method.code, target)
        locals == [s \in Slots0 |-> IF \E n \in DOMAIN args : SlotOfParameter(i, n) = s
                                    THEN args[CHOOSE n \in DOMAIN args : SlotOfParameter(i, n) = s]
                                    ELSE 0]
        caller == [target EXCEPT !.st = Pop(@, Len(args))]
    IN  Running(StartAt(locals), i.n, Append(target.callers, caller))

LeaveChunk ==
    [Last(target.callers) EXCEPT !.pc = @ + 1, !.st = Append(@, Top1(target.st))]

RunSource ==
    /\ phase = "run" /\ ~SourceStands
    /\ source' = Silently(original, source)
    /\ UNCHANGED <<original, methods, todo, phase, caught, target>>

RunTarget ==
    /\ phase = "run" /\ SourceStands /\ ~TargetStands
    /\ target' = CASE TargetCall.op = "invoke" -> EnterChunk
                   [] TargetCall.op = "return" -> LeaveChunk
                   [] OTHER -> StepI(method.code, target)
    /\ UNCHANGED <<original, methods, todo, phase, source, caught>>

SourceCall == Current(original, source)

SourceView ==
    CASE SourceCall.op \in Calls -> <<"call", Arguments(original, source), source.region # NoLabel>>
      [] SourceCall.op = "Return" -> <<"return", Arguments(original, source), FALSE>>
      [] SourceCall.op = "Rethrow" -> <<"throw", <<caught>>, source.region # NoLabel>>

\* An exception goes to the innermost machine that has a handler.
Active == Append(target.callers, target)
Catching == {n \in DOMAIN Active : Catchers(methods[Active[n].in].table, Active[n].pc) # <<>>}
Caught == Catching # {}

TargetView ==
    CASE TargetCall.op = "invoke" -> <<"call", ArgumentsI(method.code, target), Caught>>
      [] TargetCall.op = "return" -> <<"return", <<Top1(target.st)>>, FALSE>>
      [] TargetCall.op = "athrow" -> <<"throw", <<Top1(target.st)>>, Caught>>

Together == phase = "run" /\ SourceStands /\ TargetStands /\ SourceView = TargetView

Result(i, v) == IF i.ty = Unit THEN <<>> ELSE <<IF i.ty = Boolean THEN v % 2 ELSE v>>

CalleeReturns ==
    /\ Together /\ SourceCall.op \in Calls
    /\ \E v \in Answers :
          LET r == Result(SourceCall, v)
          IN  /\ source' = IF r = <<>> THEN [source EXCEPT !.pc = @ + 1]
                           ELSE Assign(source, SourceCall.dest, r[1])
              /\ target' = [target EXCEPT !.pc = @ + 1,
                                          !.st = Pop(@, Len(TargetCall.ks) - 1) \o r]
    /\ UNCHANGED <<original, methods, todo, phase, caught>>

Propagates(e) ==
    IF Caught
    THEN /\ source' = Goto(source, source.region)
         /\ target' = LET m == Active[Max(Catching)] IN Catch(methods[m.in].table, m, e)
         /\ caught' = e
         /\ UNCHANGED phase
    ELSE /\ phase' = "done"
         /\ UNCHANGED <<source, target, caught>>

CalleeThrows ==
    /\ Together /\ SourceCall.op \in Calls
    /\ \E e \in Exceptions : Propagates(e)
    /\ UNCHANGED <<original, methods, todo>>

Rethrows ==
    /\ Together /\ SourceCall.op = "Rethrow"
    /\ Propagates(caught)
    /\ UNCHANGED <<original, methods, todo>>

Returns ==
    /\ Together /\ SourceCall.op = "Return"
    /\ phase' = "done"
    /\ UNCHANGED <<original, methods, todo, source, caught, target>>

Compile == Optimise \/ Allocate \/ Widen \/ BuildFrames
Execute == LoadClass \/ RunSource \/ RunTarget \/ CalleeReturns \/ CalleeThrows \/ Rethrows \/ Returns

Next == Compile \/ Execute

Spec == Init /\ [][Next]_vars

TargetRuns == phase = "run" /\ SourceStands /\ ~TargetStands

\* Weak fairness of RunTarget, whose guard is TargetRuns: the JVM goes on.
FairSpec == Spec /\ ([]<>~TargetRuns \/ []<><<RunTarget>>_vars)

-----------------------------------------------------------------------------
(* Properties.                                                             *)

\* A local that may be read before it is written, in a method without loops or
\* handlers: its slot can have been another local's in between.
ReadsGuarded ==
    \E m \in {Translated(f) : f \in ToSet(outline_function(original))} :
        /\ locals_loaded_before_definite_store(m.code, m.table, m.initial) # {}
        /\ ~has_backward_control_flow(m.code, m.table)

\* What translate returns loads: the code, the exception table and the stack map
\* frames it emits satisfy the JVM's verifier.
LoadsUnlessGuarded ==
    phase = "load" /\ ~ReadsGuarded => Loads

\* The method does what the function does: the same calls with the same
\* arguments, under a handler or not, the same exceptions rethrown and the same
\* value returned, whatever the callees answer.
MethodActsAsFunction ==
    phase = "run" /\ SourceStands /\ TargetStands => SourceView = TargetView

\* The most that the padding of switches between two instructions can grow.
Padding(m, p, t) ==
    IF m.moved = 0 THEN 0
    ELSE 3 * Cardinality({q \in Min({p, t}) .. Max({p, t}) : m.code[q].op = "switch"})

\* No branch that was left short crosses more bytes than a short branch can,
\* but for padding: default values for locals go in front of the code after its
\* branches were widened, and move its switches.
ShortBranchesReach ==
    phase = "load" =>
        \A m \in ToSet(methods) :
            LET offsets == instruction_byte_offsets(m.code)
            IN  \A p \in DOMAIN m.code :
                   m.code[p].op \in {"if", "goto"} =>
                       LET t == m.code[p].ts[1]
                           d == offsets[t] - offsets[p]
                           slack == Padding(m, p, t)
                       IN  d \in -BranchLimit - slack .. BranchLimit - 1 + slack

\* The method does not loop where the function goes on.
MethodGoesOn == (phase = "run" /\ SourceStands) ~> (phase # "run" \/ TargetStands)
=============================================================================

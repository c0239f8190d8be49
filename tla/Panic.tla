------------------------------- MODULE Panic -------------------------------
(***************************************************************************)
(* Panics, unwinding and destructors on one thread: PanicSupport's         *)
(* ACTIVE_PANIC and Pointer.catchUnwind (src/runtime/src), drop code as it *)
(* runs, and the cleanup of panic_unwind                                   *)
(* (src/std/overlay/panic_unwind/src/jvm.rs).                              *)
(*                                                                         *)
(* The thread is a stack of frames, the innermost last: functions and      *)
(* Drop implementations ("user"), catch_unwind ("catch") and drop code.    *)
(* What drop code is emitted for a type is a parameter; DropGlue has it.   *)
(***************************************************************************)
EXTENDS Integers, Sequences

CONSTANTS
    GlueSteps(_),   \* the calls that drop values of a list of types
    CodeOf(_),      \* the code and calls a call of drop code runs
    DropsOf(_),     \* the destructors a list of calls stands for, by Rust's rules
    KindOf(_),      \* the kind of the value a call drops
    Todos,          \* the lists of calls drop code consists of, whole and in part
    Owned,      \* the lists of types whose values the outermost function may own
    Nested,     \* and those of the functions called from destructors and deeper
    MaxCalls,   \* bound on the functions and catch_unwinds of the stack
    MaxThrows   \* bound on the throwables ever thrown

None == 0                  \* no throwable

NoCode == [code |-> "list", todo |-> <<>>]

\* dropRustValue left a value that is no RustDrop alone.
LeavesOut(call) == call.call = "value" /\ CodeOf(call) = NoCode

\* What the emitted drop code owes to Rust: a call stands for the destructors of
\* the code it runs, and only those of a closure are ever left out.
ASSUME DropCodeAssumption ==
    /\ <<>> \in Todos /\ DropsOf(<<>>) = <<>> /\ GlueSteps(<<>>) = <<>>
    /\ \A types \in Owned \cup Nested : GlueSteps(types) \in Todos
    /\ \A todo \in Todos : DropsOf(todo) \in Seq(STRING)
    /\ \A todo \in Todos \ {<<>>} :
          LET call == Head(todo)
              work == CodeOf(call)
          IN  /\ Tail(todo) \in Todos /\ <<call>> \in Todos
              /\ DropsOf(todo) = DropsOf(<<call>>) \o DropsOf(Tail(todo))
              /\ call.call # "own" =>
                    /\ work.todo \in Todos /\ work.code \in {"list", "shim", "safe", "runtime"}
                    /\ \/ DropsOf(work.todo) = DropsOf(<<call>>)
                       \/ LeavesOut(call) /\ KindOf(call) = "closure"
ASSUME BoundsAssumption == MaxCalls \in Nat /\ MaxThrows \in Nat

VARIABLES
    stack,     \* the frames of the thread
    flying,    \* the throwable that unwinds the innermost frame, or None
    active,    \* ACTIVE_PANIC
    thrown,    \* how many throwables exist
    rust,      \* the throwables that are RustPanic
    halted,    \* Runtime.halt has been called
    refused,   \* takePayload threw IllegalStateException
    replaced,  \* ghost: the panics a foreign exception took the place of
    skipped,   \* ghost: where destructors were passed over
    astray     \* ghost: a destructor ran out of turn

vars == <<stack, flying, active, thrown, rust, halted, refused, replaced, skipped, astray>>

\* code, todo: the work of the frame; pending: the throwable to go on with when
\* it is done; ending: its own code is over and its values are being dropped;
\* due: the destructors Rust has yet to run for its values, in order.
Frame(work, due) ==
    [code |-> work.code, todo |-> work.todo, pending |-> None,
     ending |-> FALSE, due |-> due]

Body(types) ==
    LET todo == GlueSteps(types) IN Frame([code |-> "user", todo |-> todo], DropsOf(todo))
Catching == Frame([code |-> "catch", todo |-> <<>>], <<>>)

\* A Rust thread, and main, starts inside a catch_unwind.
Init ==
    /\ stack = <<Catching>>
    /\ flying = None
    /\ active = None
    /\ thrown = 0
    /\ rust = {}
    /\ halted = FALSE /\ refused = FALSE
    /\ replaced = {} /\ skipped = {}
    /\ astray = FALSE

Top == stack[Len(stack)]
Below == SubSeq(stack, 1, Len(stack) - 1)
Calls == Len(SelectSeq(stack, LAMBDA f : f.code \in {"user", "catch"}))

Running == ~halted /\ stack # <<>> /\ flying = None
Unwinding == ~halted /\ stack # <<>> /\ flying # None

\* Functions, Drop implementations and what catch_unwind calls may call and throw.
InUserCode == Running /\ Top.code \in {"user", "catch"} /\ ~Top.ending

-----------------------------------------------------------------------------
(* What Rust expects                                                       *)

\* The innermost function of a stack: the drop code above it is its own.
FunctionOf(frames) ==
    CHOOSE i \in DOMAIN frames :
        /\ frames[i].code = "user"
        /\ \A j \in i + 1 .. Len(frames) : frames[j].code # "user"

\* names come next among the destructors due.
ComesNext(frames, names) ==
    LET due == frames[FunctionOf(frames)].due IN
    Len(names) <= Len(due) /\ SubSeq(due, 1, Len(names)) = names

\* The destructors in names are done with, run or passed over.
Settled(frames, names) ==
    [frames EXCEPT ![FunctionOf(frames)].due = SubSeq(@, Len(names) + 1, Len(@))]

\* Code that no handler surrounds: straight lists of drops, and the block that
\* raises the panic of a failed assertion.
Unprotected == {"list", "assert"}
Protected == {"user", "shim", "safe", "runtime"}

\* The innermost frame is left with work undone: where, and the frames below.
Abandon ==
    LET lost == DropsOf(Top.todo) IN
    /\ skipped' = IF lost = <<>> THEN skipped ELSE skipped \cup {Top.code}
    /\ stack' = IF lost = <<>> \/ Top.code \in {"user", "assert"} THEN Below ELSE Settled(Below, lost)

-----------------------------------------------------------------------------
(* Code runs                                                               *)

\* A function is called, or catch_unwind.
Enter ==
    /\ InUserCode /\ Calls < MaxCalls
    /\ \/ \E types \in IF Calls = 1 THEN Owned ELSE Nested : stack' = Append(stack, Body(types))
       \/ stack' = Append(stack, Catching)
    /\ UNCHANGED <<flying, active, thrown, rust, halted, refused, replaced, skipped, astray>>

\* raiseTracked: a panic while another one is active ends the process.
RaiseTracked(p) ==
    IF active # None
    THEN halted' = TRUE /\ flying' = p /\ UNCHANGED active
    ELSE active' = p /\ flying' = p /\ UNCHANGED halted

RaisePanic ==
    /\ InUserCode /\ thrown < MaxThrows
    /\ thrown' = thrown + 1
    /\ rust' = rust \cup {thrown'}
    /\ RaiseTracked(thrown')
    /\ UNCHANGED <<stack, refused, replaced, skipped, astray>>

\* A bounds or overflow check fails.  Its panic is raised in a block of its
\* own, which the region of the Assert terminator does not cover.
FailAssert ==
    /\ InUserCode /\ thrown < MaxThrows /\ Top.code = "user"
    /\ thrown' = thrown + 1
    /\ rust' = rust \cup {thrown'}
    /\ RaiseTracked(thrown')
    /\ stack' = Append(Below, [Top EXCEPT !.code = "assert"])
    /\ UNCHANGED <<refused, replaced, skipped, astray>>

\* A JVM exception that is no Rust panic.
ThrowForeign ==
    /\ InUserCode /\ thrown < MaxThrows
    /\ thrown' = thrown + 1
    /\ flying' = thrown'
    /\ UNCHANGED <<stack, active, rust, halted, refused, replaced, skipped, astray>>

\* The innermost frame, at its end or in drop code, takes its next step.  The
\* type's Drop::drop is user code; the rest is drop code, which for a closure
\* that only dropRustValue sees is none at all.
DropNext ==
    /\ Running /\ Top.todo # <<>>
    /\ LET call == Head(Top.todo)
           names == DropsOf(<<call>>)
           frames == Append(Below, [Top EXCEPT !.todo = Tail(@), !.ending = TRUE])
           lost == IF LeavesOut(call) THEN names ELSE <<>>
       IN  IF call.call = "own"
           THEN /\ astray' = (astray \/ ~ComesNext(frames, names))
                /\ stack' = Append(Settled(frames, names), Body(<<>>))
                /\ UNCHANGED skipped
           ELSE /\ stack' = Append(Settled(frames, lost), Frame(CodeOf(call), <<>>))
                /\ skipped' = IF lost = <<>> THEN skipped ELSE skipped \cup {KindOf(call)}
                /\ UNCHANGED astray
    /\ UNCHANGED <<flying, active, thrown, rust, halted, refused, replaced>>

\* Nothing is left to do: the frame returns, or goes on with the throwable it
\* put off.
Leave ==
    /\ Running /\ Top.todo = <<>>
    /\ flying' = Top.pending
    /\ stack' = Below
    /\ astray' = (astray \/ Top.due # <<>>)
    /\ UNCHANGED <<active, thrown, rust, halted, refused, replaced, skipped>>

-----------------------------------------------------------------------------
(* A throwable reaches a frame                                             *)

\* Without a handler the throwable goes on and the rest is passed over.
PassThrough ==
    /\ Unwinding /\ Top.code \in Unprotected
    /\ Abandon
    /\ UNCHANGED <<flying, active, thrown, rust, halted, refused, replaced, astray>>

\* Mutant: the throwable leaves the frame at once.
CleanupSkipped ==
    /\ Unwinding /\ Top.code \in Protected /\ Top.pending = None
    /\ Abandon
    /\ UNCHANGED <<flying, active, thrown, rust, halted, refused, replaced, astray>>

\* Mutant: the cleanup path drops nothing.
CleanupWithoutDrops ==
    /\ Unwinding /\ Top.code \in Protected /\ Top.pending = None
    /\ stack' = Append(Below, [Top EXCEPT !.pending = flying, !.ending = TRUE, !.todo = <<>>])
    /\ flying' = None
    /\ UNCHANGED <<active, thrown, rust, halted, refused, replaced, skipped, astray>>

\* The frame's code, or the first of its drops to fail: the other values are
\* dropped before the throwable goes on.
Cleanup ==
    /\ Unwinding /\ Top.code \in Protected /\ Top.pending = None
    /\ stack' = Append(Below, [Top EXCEPT !.pending = flying, !.ending = TRUE])
    /\ flying' = None
    /\ UNCHANGED <<active, thrown, rust, halted, refused, replaced, skipped, astray>>

\* Whether a failing drop during a cleanup ends the process: always in the
\* runtime's helpers, and for a panic in _rust_drop_fields, whose handler calls
\* PanicSupport.abort.  MIR has no region for UnwindAction::Terminate.
Terminates == Top.code = "runtime" \/ (Top.code = "safe" /\ flying \in rust)

\* A drop fails while the frame is being cleaned up.  What does not end the
\* process leaves the whole cleanup: a foreign exception or, from a function
\* or a drop shim, also a panic, which can then only take the place of a foreign
\* exception.
SecondFailure ==
    /\ Unwinding /\ Top.code \in Protected /\ Top.pending # None
    /\ IF Terminates
       THEN halted' = TRUE /\ UNCHANGED <<stack, replaced, skipped>>
       ELSE /\ Abandon
            /\ replaced' = replaced \cup ({Top.pending} \cap rust)
            /\ UNCHANGED halted
    /\ UNCHANGED <<flying, active, thrown, rust, refused, astray>>

\* Mutant: the caught panic stays active.
TakePayloadKeepingActive(p) == UNCHANGED <<active, refused>>

\* takePayload
TakePayload(p) ==
    IF active # p
    THEN refused' = TRUE /\ UNCHANGED active
    ELSE active' = None /\ UNCHANGED refused

\* panic_unwind's cleanup: a panic hands over its payload, anything else a
\* description of itself.
CatchFunction(p) ==
    IF p \in rust THEN TakePayload(p) ELSE UNCHANGED <<active, refused>>

\* catchUnwind
Catch ==
    /\ Unwinding /\ Top.code = "catch"
    /\ CatchFunction(flying)
    /\ stack' = Below
    /\ flying' = None
    /\ UNCHANGED <<thrown, rust, halted, replaced, skipped, astray>>

\* catchUnwind throws a VirtualMachineError or a ThreadDeath on.  Which foreign
\* throwables these are is left open.
Rethrow ==
    /\ Unwinding /\ Top.code = "catch" /\ flying \notin rust
    /\ stack' = Below
    /\ UNCHANGED <<flying, active, thrown, rust, halted, refused, replaced, skipped, astray>>

\* abortIfStackOverflow, in catchUnwind, the runtime's helpers and abort.
Overflow ==
    /\ Unwinding /\ flying \notin rust
    /\ Top.code \in {"catch", "runtime"} \/ (Top.code = "safe" /\ Top.pending # None)
    /\ halted' = TRUE
    /\ UNCHANGED <<stack, flying, active, thrown, rust, refused, replaced, skipped, astray>>

-----------------------------------------------------------------------------
Next ==
    \/ Enter \/ RaisePanic \/ FailAssert \/ ThrowForeign \/ DropNext \/ Leave
    \/ PassThrough \/ Cleanup \/ SecondFailure \/ Catch \/ Rethrow \/ Overflow

Spec == Init /\ [][Next]_vars

-----------------------------------------------------------------------------
(* Properties                                                              *)

\* The panics that have been raised and not yet caught.
InFlight ==
    (({flying} \cup {stack[i].pending : i \in DOMAIN stack}) \cap rust)

\* ACTIVE_PANIC is set exactly while a panic unwinds, unless a foreign
\* exception thrown by a destructor has replaced that panic; so no two panics
\* are ever in flight together, also when a catch_unwind would contain one.
ActiveWhileUnwinding ==
    /\ InFlight \subseteq {active} \/ halted
    /\ active # None => active \in InFlight \cup replaced

\* The destructors run are Rust's, in Rust's order, whichever of them panic:
\* a type's own before its fields', a Box's after its pointee's, and the ones
\* of a function's values before the function is left.
DropsInRustOrder == ~astray

\* Destructors are passed over only after a failure in a straight list of
\* drops, for a closure that only dropRustValue sees, when an assertion fails
\* in the function that owns the values, and when a destructor fails during a
\* cleanup, one of the two failures being a foreign exception; otherwise the
\* cleanup of functions, of drop shims, of _rust_drop_fields and of the
\* runtime's helpers leaves none out.
DropsComplete ==
    /\ skipped \subseteq {"list", "closure", "assert", "user", "shim", "safe"}
    /\ skipped \cap {"user", "shim", "safe"} # {} => rust # 1..thrown

\* "all Rust Drop side effects (closing handles, releasing locks) run eagerly":
\* while only panics are thrown, no destructor that is due is left out.
AllDropsRun == rust = 1..thrown => skipped = {}
=============================================================================

------------------------------ MODULE Threads ------------------------------
(***************************************************************************)
(* Rust threads on the JVM: ThreadSupport.spawn, join and detach           *)
(* (src/runtime/src/ThreadSupport.java) as the standard library's Thread   *)
(* drives them (src/std/overlay/std/src/sys/thread/jvm.rs).                *)
(*                                                                         *)
(* One record per thread id.  Its owner is the Rust code that holds the    *)
(* Thread value: it spawns, then joins or drops it; Thread::join consumes  *)
(* the value, so the drop, and with it detach, also follows every join.    *)
(* Its worker is the JVM thread that runs the body.                        *)
(***************************************************************************)
EXTENDS Integers

CONSTANT MaxThreads   \* bound on the ids NEXT_THREAD_ID hands out

ASSUME MaxThreadsAssumption == MaxThreads \in Nat

VARIABLES
    nextId,       \* NEXT_THREAD_ID
    registered,   \* the ids in THREADS
    owner,        \* where the owner of each id is
    worker,       \* where the worker of each id is
    failure,      \* ThreadRecord.failure is set
    detached,     \* ThreadRecord.detached
    threw,        \* ghost: the body ended with a throwable
    rethrown,     \* ghost: how often join has thrown the failure
    reported,     \* ghost: how often reportUncaughtFailure got the failure
    box,          \* who consumed the Box<ThreadInit>: "raw" is nobody yet
    interrupted,  \* local of join
    flag,         \* interrupt status of the owner's thread
    halted        \* Runtime.halt has been called

vars == <<nextId, registered, owner, worker, failure, detached, threw, rethrown,
          reported, box, interrupted, flag, halted>>

Ids == 1..MaxThreads

Init ==
    /\ nextId = 1
    /\ registered = {}
    /\ owner = [i \in Ids |-> "none"]
    /\ worker = [i \in Ids |-> "new"]
    /\ failure = [i \in Ids |-> FALSE]
    /\ detached = [i \in Ids |-> FALSE]
    /\ threw = [i \in Ids |-> FALSE]
    /\ rethrown = [i \in Ids |-> 0]
    /\ reported = [i \in Ids |-> 0]
    /\ box = [i \in Ids |-> "raw"]
    /\ interrupted = [i \in Ids |-> FALSE]
    /\ flag = [i \in Ids |-> FALSE]
    /\ halted = FALSE

OwnerGoes(i, from, to) == owner[i] = from /\ owner' = [owner EXCEPT ![i] = to]
WorkerGoes(i, from, to) == worker[i] = from /\ worker' = [worker EXCEPT ![i] = to]

ghosts == <<threw, rethrown, reported>>
record == <<failure, detached>>

-----------------------------------------------------------------------------
(* spawn                                                                   *)

\* Box::into_raw, then NEXT_THREAD_ID.getAndIncrement and a new record.
Spawn(i) ==
    /\ i = nextId
    /\ nextId' = nextId + 1
    /\ OwnerGoes(i, "none", "spawning")
    /\ UNCHANGED <<registered, worker, record, ghosts, box, interrupted, flag, halted>>

\* rustThreadStart finds no entry point and spawn throws, before any id is
\* handed out: Class.forName fails for every spawn or, once cached, for none.
\* Thread::new holds only the raw pointer by then, so nobody frees the box.
\* (It never passes a null pointer or a negative size, the other two throws.)
SpawnThrows(i) ==
    /\ i = nextId /\ nextId = 1
    /\ OwnerGoes(i, "none", "unwound")
    /\ UNCHANGED <<nextId, registered, worker, record, ghosts, box, interrupted,
                   flag, halted>>

\* THREADS.put: the record is visible before the thread runs.
Register(i) ==
    /\ OwnerGoes(i, "spawning", "starting")
    /\ registered' = registered \cup {i}
    /\ UNCHANGED <<nextId, worker, record, ghosts, box, interrupted, flag, halted>>

Start(i) ==
    /\ OwnerGoes(i, "starting", "owned")
    /\ WorkerGoes(i, "new", "running")
    /\ box' = [box EXCEPT ![i] = "worker"]
    /\ UNCHANGED <<nextId, registered, record, ghosts, interrupted, flag, halted>>

\* The Thread cannot be made or started (the JVM is out of threads or memory):
\* spawn takes the record back and returns 0.
StartFails(i) ==
    /\ OwnerGoes(i, "spawning", "failed") \/ OwnerGoes(i, "starting", "failed")
    /\ registered' = registered \ {i}
    /\ UNCHANGED <<nextId, worker, record, ghosts, box, interrupted, flag, halted>>

\* The same handler, for a stack overflow: the process ends.
StartOverflows(i) ==
    /\ owner[i] \in {"spawning", "starting"}
    /\ halted' = TRUE
    /\ UNCHANGED <<nextId, registered, owner, worker, record, ghosts, box,
                   interrupted, flag>>

\* Mutant: the box of a thread that could not start is leaked.
LeakBox(i) ==
    /\ OwnerGoes(i, "failed", "gone")
    /\ UNCHANGED <<nextId, registered, worker, record, ghosts, box, interrupted,
                   flag, halted>>

\* Thread::new drops the box when spawn has returned 0.
DropBox(i) ==
    /\ OwnerGoes(i, "failed", "gone")
    /\ box' = [box EXCEPT ![i] = "owner"]
    /\ UNCHANGED <<nextId, registered, worker, record, ghosts, interrupted, flag, halted>>

-----------------------------------------------------------------------------
(* The worker                                                              *)

\* The Rust entry point returns, after it has run the TLS destructors.
BodyReturns(i) ==
    /\ WorkerGoes(i, "running", "finally")
    /\ UNCHANGED <<nextId, registered, owner, record, ghosts, box, interrupted,
                   flag, halted>>

\* A throwable leaves the Rust entry point.
BodyThrows(i) ==
    /\ WorkerGoes(i, "running", "caught")
    /\ threw' = [threw EXCEPT ![i] = TRUE]
    /\ UNCHANGED <<nextId, registered, owner, record, rethrown, reported, box,
                   interrupted, flag, halted>>

\* PanicSupport.abortIfStackOverflow: the process ends.
BodyOverflows(i) ==
    /\ worker[i] = "running"
    /\ halted' = TRUE
    /\ UNCHANGED <<nextId, registered, owner, worker, record, ghosts, box,
                   interrupted, flag>>

\* Mutant: the worker reports its failure even when it leaves it to the owner.
RecordFailureReporting(i) ==
    /\ WorkerGoes(i, "caught", "reporting")
    /\ failure' = [failure EXCEPT ![i] = @ \/ ~detached[i]]
    /\ UNCHANGED <<nextId, registered, owner, detached, ghosts, box, interrupted,
                   flag, halted>>

\* The block synchronized on the record: a detached thread reports its own
\* failure, any other leaves it for the owner.
RecordFailure(i) ==
    /\ WorkerGoes(i, "caught", IF detached[i] THEN "reporting" ELSE "finally")
    /\ failure' = [failure EXCEPT ![i] = @ \/ ~detached[i]]
    /\ UNCHANGED <<nextId, registered, owner, detached, ghosts, box, interrupted,
                   flag, halted>>

WorkerReports(i) ==
    /\ WorkerGoes(i, "reporting", "finally")
    /\ reported' = [reported EXCEPT ![i] = @ + 1]
    /\ UNCHANGED <<nextId, registered, owner, record, threw, rethrown, box,
                   interrupted, flag, halted>>

\* TLS.remove in the finally block, and the end of the JVM thread.
Terminate(i) ==
    /\ WorkerGoes(i, "finally", "terminated")
    /\ UNCHANGED <<nextId, registered, owner, record, ghosts, box, interrupted,
                   flag, halted>>

-----------------------------------------------------------------------------
(* join                                                                    *)

\* THREADS.get; without a record join would throw IllegalStateException.
Join(i) ==
    /\ i \in registered
    /\ OwnerGoes(i, "owned", "joining")
    /\ interrupted' = [interrupted EXCEPT ![i] = FALSE]
    /\ UNCHANGED <<nextId, registered, worker, record, ghosts, box, flag, halted>>

\* Thread.interrupt reaches the owner; Thread.join throws and is called again.
InterruptJoin(i) ==
    /\ owner[i] = "joining" /\ ~interrupted[i]
    /\ interrupted' = [interrupted EXCEPT ![i] = TRUE]
    /\ UNCHANGED <<nextId, registered, owner, worker, record, ghosts, box, flag, halted>>

\* Mutant: an interrupted join is not tried again.
JoinableUninterrupted(i) == worker[i] = "terminated" /\ ~interrupted[i]

\* Thread.join returns when the JVM thread has terminated.
Joinable(i) == worker[i] = "terminated"

\* Thread.currentThread().interrupt() after an interrupted join.
RestoredFlag(i) == flag[i] \/ interrupted[i]

\* THREADS.remove(id, record), the interrupt restored, the failure thrown.
JoinReturns(i) ==
    /\ Joinable(i)
    /\ OwnerGoes(i, "joining", "dropping")
    /\ registered' = registered \ {i}
    /\ flag' = [flag EXCEPT ![i] = RestoredFlag(i)]
    /\ rethrown' = [rethrown EXCEPT ![i] = IF failure[i] THEN @ + 1 ELSE @]
    /\ UNCHANGED <<nextId, worker, record, threw, reported, box, interrupted, halted>>

-----------------------------------------------------------------------------
(* detach, called by the drop of Thread                                    *)

\* The Thread value goes out of scope without a join.
Drop(i) ==
    /\ OwnerGoes(i, "owned", "dropping")
    /\ UNCHANGED <<nextId, registered, worker, record, ghosts, box, interrupted,
                   flag, halted>>

\* THREADS.remove: after a join there is no record any more.
Detach(i) ==
    /\ OwnerGoes(i, "dropping", IF i \in registered THEN "detaching" ELSE "gone")
    /\ registered' = registered \ {i}
    /\ UNCHANGED <<nextId, worker, record, ghosts, box, interrupted, flag, halted>>

\* Mutant: the failure stays in the record of a detached thread.
TakeFailureUndetached(i) ==
    /\ OwnerGoes(i, "detaching", IF failure[i] THEN "reporting" ELSE "gone")
    /\ failure' = [failure EXCEPT ![i] = FALSE]
    /\ UNCHANGED <<nextId, registered, worker, detached, ghosts, box, interrupted,
                   flag, halted>>

\* The block synchronized on the record.
TakeFailure(i) ==
    /\ OwnerGoes(i, "detaching", IF failure[i] THEN "reporting" ELSE "gone")
    /\ detached' = [detached EXCEPT ![i] = TRUE]
    /\ failure' = [failure EXCEPT ![i] = FALSE]
    /\ UNCHANGED <<nextId, registered, worker, ghosts, box, interrupted, flag, halted>>

OwnerReports(i) ==
    /\ OwnerGoes(i, "reporting", "gone")
    /\ reported' = [reported EXCEPT ![i] = @ + 1]
    /\ UNCHANGED <<nextId, registered, worker, record, threw, rethrown, box,
                   interrupted, flag, halted>>

-----------------------------------------------------------------------------
\* Steps a thread that is inside spawn, join, detach or the body's handlers
\* takes by itself.
Runs(i) ==
    \/ Register(i) \/ DropBox(i) \/ JoinReturns(i) \/ Detach(i) \/ TakeFailure(i)
    \/ OwnerReports(i) \/ RecordFailure(i) \/ WorkerReports(i) \/ Terminate(i)

Next ==
    /\ ~halted
    /\ \E i \in Ids :
          \/ Spawn(i) \/ SpawnThrows(i) \/ Start(i) \/ StartFails(i) \/ StartOverflows(i)
          \/ BodyReturns(i) \/ BodyThrows(i) \/ BodyOverflows(i)
          \/ Join(i) \/ InterruptJoin(i) \/ Drop(i)
          \/ Runs(i)

Spec == Init /\ [][Next]_vars

\* The JVM schedules a thread that can run.  Nothing is assumed of a body, and
\* nothing of an owner that neither joins nor drops its thread.
Fairness == \A i \in Ids : WF_vars(~halted /\ Runs(i))

FairSpec == Spec /\ Fairness

-----------------------------------------------------------------------------
(* Properties                                                              *)

\* The ThreadInit box passes to the worker exactly when the thread starts and
\* back to Thread::new exactly when spawn returns 0: never freed twice, and
\* leaked only by a spawn that throws.
BoxConsumedOnce ==
    \A i \in Ids :
        /\ box[i] = "worker" <=> worker[i] # "new"
        /\ owner[i] = "gone" /\ worker[i] = "new" => box[i] = "owner"

\* The whole implements ThreadContract: a thread is running from a successful
\* Thread.start on, and its handle is released when its owner calls join or
\* lets it drop.
Contract == INSTANCE ThreadContract WITH
    body <- [i \in Ids |-> IF worker[i] \in {"new", "running"}
                           THEN IF worker[i] = "new" THEN "none" ELSE "running"
                           ELSE IF threw[i] THEN "threw" ELSE "returned"],
    handle <- [i \in Ids |-> IF worker[i] = "new" THEN "none"
                             ELSE IF owner[i] = "owned" THEN "held" ELSE "released"],
    delivered <- [i \in Ids |-> rethrown[i] + reported[i]]

ImplementsContract == Contract!Spec

\* Every failure of a thread whose handle was joined or dropped reaches
\* somebody.
FailureDelivered ==
    \A i \in Ids : (threw[i] /\ owner[i] \in {"joining", "dropping"})
        ~> (halted \/ rethrown[i] + reported[i] = 1)

\* join returns once the body has ended, however often it is interrupted.
JoinEnds ==
    \A i \in Ids : (owner[i] = "joining" /\ worker[i] # "running")
        ~> (halted \/ owner[i] = "gone")
=============================================================================

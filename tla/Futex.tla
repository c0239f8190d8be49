------------------------------- MODULE Futex -------------------------------
(***************************************************************************)
(* The futex of the JVM runtime: ThreadSupport.futexWait, futexWake and    *)
(* futexWakeAll, with the table FUTEX_QUEUES of reference-counted monitors *)
(* (src/runtime/src/ThreadSupport.java).                                   *)
(*                                                                         *)
(* A call runs as the steps another thread can observe: retaining the      *)
(* queue, the block that holds the monitor up to Object.wait, the time in  *)
(* the wait set, the block after the wake-up, and releasing the queue.     *)
(* The monitor is held exactly by a thread whose pc is "loop"; the wait    *)
(* set of a queue is the set of threads whose pc is "sleep" on it.  Java's *)
(* wait set, interrupts and spurious wake-ups are modelled from the Java   *)
(* language specification (17.2).                                          *)
(***************************************************************************)
EXTENDS Integers, FiniteSets

CONSTANTS
    Threads,          \* JVM threads that run Rust code
    Addresses,        \* addresses of Rust futex words
    Queues,           \* identities of FutexQueue objects
    Values,           \* contents of a futex word
    NoQueue,          \* Java's null
    MaxTime,          \* bound on the timeout of a timed wait, in clock units
    MaxCalls,         \* bound on the calls made in a behaviour
    MaxDisturbances   \* bound on interrupts and spurious wake-ups

ASSUME ConstantsAssumption ==
    /\ IsFiniteSet(Threads)
    /\ NoQueue \notin Queues
    /\ Addresses # {} /\ Values # {}
    /\ MaxTime \in Nat \ {0} /\ MaxCalls \in Nat /\ MaxDisturbances \in Nat

VARIABLES
    value,        \* the Rust word at each address
    table,        \* FUTEX_QUEUES: the queue registered for each address
    references,   \* FutexQueue.references
    pc,           \* where each thread is
    addr,         \* argument: address of the current call
    expected,     \* argument: expected value of the current wait
    limit,        \* argument: "never" (negative), "zero" or "timed"
    remaining,    \* local: time left of a timed wait
    monitor,      \* local: the queue the call works on
    interrupted,  \* local: the call has caught an InterruptedException
    flag,         \* the thread's interrupt status
    passedOver,   \* ghost: a notify chose another thread of the same wait set
    calls, disturbances

callVars == <<addr, expected, limit, remaining, monitor, interrupted>>
vars == <<value, table, references, pc, addr, expected, limit, remaining,
          monitor, interrupted, flag, passedOver, calls, disturbances>>

Limits == {"never", "zero", "timed"}
\* The reason a thread left the wait set is part of its pc.
Woken == {"notified", "spurious", "timedOut", "thrown"}
Holding == {"enter", "loop", "sleep", "exit"} \cup Woken
PCs == {"idle", "stored1", "storedAll", "notify", "notifyAll"} \cup Holding

TypeOK ==
    /\ value \in [Addresses -> Values]
    /\ table \in [Addresses -> Queues \cup {NoQueue}]
    /\ references \in [Queues -> Nat]
    /\ pc \in [Threads -> PCs]
    /\ addr \in [Threads -> Addresses]
    /\ expected \in [Threads -> Values]
    /\ limit \in [Threads -> Limits]
    /\ remaining \in [Threads -> Nat]
    /\ monitor \in [Threads -> Queues \cup {NoQueue}]
    /\ interrupted \in [Threads -> BOOLEAN]
    /\ flag \in [Threads -> BOOLEAN]
    /\ passedOver \in [Threads -> BOOLEAN]
    /\ calls \in Nat
    /\ disturbances \in Nat

Init ==
    /\ value \in [Addresses -> Values]
    /\ table = [a \in Addresses |-> NoQueue]
    /\ references = [q \in Queues |-> 0]
    /\ pc = [t \in Threads |-> "idle"]
    /\ addr = [t \in Threads |-> CHOOSE a \in Addresses : TRUE]
    /\ expected = [t \in Threads |-> CHOOSE v \in Values : TRUE]
    /\ limit = [t \in Threads |-> "never"]
    /\ remaining = [t \in Threads |-> 0]
    /\ monitor = [t \in Threads |-> NoQueue]
    /\ interrupted = [t \in Threads |-> FALSE]
    /\ flag = [t \in Threads |-> FALSE]
    /\ passedOver = [t \in Threads |-> FALSE]
    /\ calls = 0
    /\ disturbances = 0

-----------------------------------------------------------------------------
(* Java monitors                                                           *)

\* Mutant: the blocks of futexWait and of the wakes are not synchronized.
MonitorIgnored(q) == TRUE

\* The monitor of q is held by the thread that is between its value check
\* and Object.wait.
MonitorFree(q) == \A t \in Threads : pc[t] = "loop" => monitor[t] # q

Sleepers(q) == {t \in Threads : pc[t] = "sleep" /\ monitor[t] = q}

\* What may be left of a timeout after some time in Object.wait:
\* max(0, remaining - elapsed).
TimeLeft(t) == 0..remaining[t]

\* Object.wait, called with the monitor held: it throws at once when the
\* interrupt status is set, and otherwise joins the wait set and releases.
ObjectWait(t) ==
    \/ /\ flag[t]
       /\ flag' = [flag EXCEPT ![t] = FALSE]
       /\ interrupted' = [interrupted EXCEPT ![t] = TRUE]
       /\ \E left \in TimeLeft(t) : remaining' = [remaining EXCEPT ![t] = left]
       /\ UNCHANGED pc
    \/ /\ ~flag[t]
       /\ pc' = [pc EXCEPT ![t] = "sleep"]
       /\ UNCHANGED <<flag, interrupted, remaining>>

\* Mutant: a swallowed interrupt is not restored.
ReturnSwallowing(t) ==
    /\ pc' = [pc EXCEPT ![t] = "exit"]
    /\ UNCHANGED <<flag, interrupted>>

\* Leaving the synchronized block: a swallowed interrupt is restored.
Return(t) ==
    /\ pc' = [pc EXCEPT ![t] = "exit"]
    /\ flag' = [flag EXCEPT ![t] = @ \/ interrupted[t]]
    /\ UNCHANGED interrupted

-----------------------------------------------------------------------------
(* futexWait                                                               *)

\* Mutant: striped monitors, one queue for several addresses.
Striped(q) == TRUE

\* A new FutexQueue is an object no thread refers to any more.
Unreferenced(q) ==
    /\ \A a \in Addresses : table[a] # q
    /\ \A t \in Threads : monitor[t] # q

\* Mutant: the count of a queue that is already registered is overwritten.
RetainedOnce(a) == 1

\* queue.references++ on a new or on the registered queue.
Retained(a) == (IF table[a] = NoQueue THEN 0 ELSE references[table[a]]) + 1

\* retainFutexQueue: one atomic ConcurrentHashMap.compute.
RetainFutexQueue(t, a) ==
    \E q \in Queues :
        /\ IF table[a] = NoQueue THEN Unreferenced(q) ELSE q = table[a]
        /\ table' = [table EXCEPT ![a] = q]
        /\ references' = [references EXCEPT ![q] = Retained(a)]
        /\ monitor' = [monitor EXCEPT ![t] = q]

FutexWait(t, a, v, l) ==
    /\ pc[t] = "idle"
    /\ calls < MaxCalls
    /\ calls' = calls + 1
    /\ RetainFutexQueue(t, a)
    /\ pc' = [pc EXCEPT ![t] = "enter"]
    /\ addr' = [addr EXCEPT ![t] = a]
    /\ expected' = [expected EXCEPT ![t] = v]
    /\ limit' = [limit EXCEPT ![t] = l]
    /\ \E time \in 1..MaxTime :
           remaining' = [remaining EXCEPT ![t] = IF l = "timed" THEN time ELSE 0]
    /\ interrupted' = [interrupted EXCEPT ![t] = FALSE]
    /\ passedOver' = [passedOver EXCEPT ![t] = FALSE]
    /\ UNCHANGED <<value, flag, disturbances>>

\* Mutant: the word is not compared under the monitor.
ReturnsWithoutComparing(t) == limit[t] = "zero"

\* The early returns before the loop.
ReturnsAtOnce(t) == value[addr[t]] # expected[t] \/ limit[t] = "zero"

\* The synchronized block from its entry to the first iteration of the loop:
\* the word is compared while the monitor is held.
CompareValue(t) ==
    /\ pc[t] = "enter"
    /\ MonitorFree(monitor[t])
    /\ pc' = [pc EXCEPT ![t] = IF ReturnsAtOnce(t) THEN "exit" ELSE "loop"]
    /\ UNCHANGED <<value, table, references, callVars, flag, passedOver, calls,
                   disturbances>>

\* Mutant: wait is called with whatever is left.
NeverExpired(t) == FALSE

\* A timed wait whose time is used up returns false instead of calling
\* wait(0, 0), which would never time out.
Expired(t) == limit[t] = "timed" /\ remaining[t] = 0

\* The head of the loop.
LoopHead(t) ==
    /\ pc[t] = "loop"
    /\ IF Expired(t)
       THEN Return(t) /\ UNCHANGED remaining
       ELSE ObjectWait(t)
    /\ UNCHANGED <<value, table, references, addr, expected, limit, monitor,
                   passedOver, calls, disturbances>>

\* The deadline handed to Object.wait passes; a zero wait has no deadline.
TimeOut(t) ==
    /\ pc[t] = "sleep"
    /\ limit[t] = "timed" /\ remaining[t] > 0
    /\ pc' = [pc EXCEPT ![t] = "timedOut"]
    /\ UNCHANGED <<value, table, references, callVars, flag, passedOver, calls,
                   disturbances>>

SpuriousWake(t) ==
    /\ pc[t] = "sleep"
    /\ disturbances < MaxDisturbances
    /\ disturbances' = disturbances + 1
    /\ pc' = [pc EXCEPT ![t] = "spurious"]
    /\ UNCHANGED <<value, table, references, callVars, flag, passedOver, calls>>

\* Thread.interrupt by other Java code: a thread in a wait set leaves it with
\* an InterruptedException and a cleared status, any other gets the status.
Interrupt(t) ==
    /\ disturbances < MaxDisturbances
    /\ disturbances' = disturbances + 1
    /\ IF pc[t] = "sleep"
       THEN pc' = [pc EXCEPT ![t] = "thrown"] /\ UNCHANGED flag
       ELSE flag' = [flag EXCEPT ![t] = TRUE] /\ UNCHANGED pc
    /\ UNCHANGED <<value, table, references, callVars, passedOver, calls>>

\* The monitor is acquired again after Object.wait.  An untimed wait returns
\* true whatever woke it; a timed one looks at the word again; the handler of
\* InterruptedException goes back to the loop without looking at the word.
Resume(t) ==
    /\ pc[t] \in Woken
    /\ MonitorFree(monitor[t])
    /\ \/ /\ pc[t] = "thrown"
          /\ \E left \in TimeLeft(t) : remaining' = [remaining EXCEPT ![t] = left]
          /\ interrupted' = [interrupted EXCEPT ![t] = TRUE]
          /\ pc' = [pc EXCEPT ![t] = "loop"]
          /\ UNCHANGED flag
       \/ /\ pc[t] # "thrown" /\ limit[t] # "timed"
          /\ Return(t)
          /\ UNCHANGED remaining
       \/ /\ pc[t] # "thrown" /\ limit[t] = "timed"
          /\ \E left \in (IF pc[t] = "timedOut" THEN {0} ELSE TimeLeft(t)) :
                /\ remaining' = [remaining EXCEPT ![t] = left]
                /\ IF value[addr[t]] # expected[t] \/ left = 0
                   THEN Return(t)
                   ELSE /\ pc' = [pc EXCEPT ![t] = "loop"]
                        /\ UNCHANGED <<flag, interrupted>>
    /\ UNCHANGED <<value, table, references, addr, expected, limit, monitor,
                   passedOver, calls, disturbances>>

\* The finally block: releaseFutexQueue, one atomic computeIfPresent.  The
\* call returns: what it was given and what it remembered are gone.
ReleaseFutexQueue(t) ==
    /\ pc[t] = "exit"
    /\ pc' = [pc EXCEPT ![t] = "idle"]
    /\ monitor' = [monitor EXCEPT ![t] = NoQueue]
    /\ IF table[addr[t]] = monitor[t]
       THEN /\ references' = [references EXCEPT ![monitor[t]] = @ - 1]
            /\ table' = [table EXCEPT ![addr[t]] =
                            IF references[monitor[t]] = 1 THEN NoQueue ELSE @]
       ELSE UNCHANGED <<table, references>>
    /\ expected' = [expected EXCEPT ![t] = CHOOSE v \in Values : TRUE]
    /\ limit' = [limit EXCEPT ![t] = "never"]
    /\ remaining' = [remaining EXCEPT ![t] = 0]
    /\ interrupted' = [interrupted EXCEPT ![t] = FALSE]
    /\ passedOver' = [passedOver EXCEPT ![t] = FALSE]
    /\ UNCHANGED <<value, addr, flag, calls, disturbances>>

-----------------------------------------------------------------------------
(* futexWake and futexWakeAll                                              *)

\* Rust code changes the word and then wakes: the two steps of every user of
\* futex_wake.
Store(t, a, v, kind) ==
    /\ pc[t] = "idle"
    /\ calls < MaxCalls
    /\ calls' = calls + 1
    /\ value' = [value EXCEPT ![a] = v]
    /\ pc' = [pc EXCEPT ![t] = kind]
    /\ addr' = [addr EXCEPT ![t] = a]
    /\ UNCHANGED <<table, references, expected, limit, remaining, monitor,
                   interrupted, flag, passedOver, disturbances>>

\* FUTEX_QUEUES.get: nobody waits when the address has no queue.
LookUp(t) ==
    /\ pc[t] \in {"stored1", "storedAll"}
    /\ IF table[addr[t]] = NoQueue
       THEN pc' = [pc EXCEPT ![t] = "idle"] /\ UNCHANGED monitor
       ELSE /\ pc' = [pc EXCEPT ![t] = IF pc[t] = "stored1" THEN "notify"
                                                            ELSE "notifyAll"]
            /\ monitor' = [monitor EXCEPT ![t] = table[addr[t]]]
    /\ UNCHANGED <<value, table, references, addr, expected, limit, remaining,
                   interrupted, flag, passedOver, calls, disturbances>>

\* The part the two wakes share: the chosen sleepers leave the wait set.
Notify(t, chosen) ==
    /\ MonitorFree(monitor[t])
    /\ pc' = [u \in Threads |-> IF u = t THEN "idle"
                                ELSE IF u \in chosen THEN "notified" ELSE pc[u]]
    /\ passedOver' = [u \in Threads |->
                         passedOver[u] \/ u \in Sleepers(monitor[t]) \ chosen]
    /\ monitor' = [monitor EXCEPT ![t] = NoQueue]
    /\ UNCHANGED <<value, table, references, addr, expected, limit, remaining,
                   interrupted, flag, calls, disturbances>>

FutexWake(t) ==
    /\ pc[t] = "notify"
    /\ IF Sleepers(monitor[t]) = {}
       THEN Notify(t, {})
       ELSE \E u \in Sleepers(monitor[t]) : Notify(t, {u})

FutexWakeAll(t) ==
    /\ pc[t] = "notifyAll"
    /\ Notify(t, Sleepers(monitor[t]))

-----------------------------------------------------------------------------
Step(t) ==
    \/ CompareValue(t) \/ LoopHead(t) \/ Resume(t) \/ ReleaseFutexQueue(t)
    \/ LookUp(t) \/ FutexWake(t) \/ FutexWakeAll(t)

Call(t) ==
    \/ \E a \in Addresses, v \in Values, l \in Limits : FutexWait(t, a, v, l)
    \/ \E a \in Addresses, v \in Values, kind \in {"stored1", "storedAll"} :
          Store(t, a, v, kind)

Next == \E t \in Threads :
    Call(t) \/ Step(t) \/ TimeOut(t) \/ SpuriousWake(t) \/ Interrupt(t)

Spec == Init /\ [][Next]_vars

\* A running thread is scheduled, and a deadline passes.  Nothing is assumed
\* of calls, interrupts and spurious wake-ups.
Fairness == \A t \in Threads : WF_vars(Step(t)) /\ WF_vars(TimeOut(t))

FairSpec == Spec /\ Fairness

-----------------------------------------------------------------------------
(* Properties                                                              *)

Holders(q) == {t \in Threads : pc[t] \in Holding /\ monitor[t] = q}

\* The table and the reference counts agree with the running calls: a queue
\* is registered under the address of every futexWait that uses it, from
\* retainFutexQueue to releaseFutexQueue, its count is the number of those
\* calls, and a queue nobody uses is not left in the table.  A queue removed
\* or replaced under a waiter would receive no wake any more.
QueueCounted ==
    /\ \A t \in Threads : pc[t] \in Holding => table[addr[t]] = monitor[t]
    /\ \A a \in Addresses : table[a] # NoQueue =>
           /\ references[table[a]] = Cardinality(Holders(table[a]))
           /\ Holders(table[a]) # {}

\* The comment on FUTEX_QUEUES asks for exact keys because one monitor for
\* several addresses would notify the wrong waiter: two addresses never share
\* a queue, so the threads in a wait set wait for one address.
ExactKeys ==
    \A t, u \in Threads :
        pc[t] = "sleep" /\ pc[u] = "sleep" /\ monitor[t] = monitor[u]
            => addr[t] = addr[u]

Pending(u, t) ==
    \/ pc[u] \in {"stored1", "storedAll"} /\ addr[u] = addr[t]
    \/ pc[u] \in {"notify", "notifyAll"} /\ monitor[u] = monitor[t]

Stale(t) == pc[t] \in {"loop", "sleep"} /\ value[addr[t]] # expected[t]

\* No wake is missed by a call that was never interrupted: while such a call
\* waits for a word that no longer has the expected value, some thread has yet
\* to deliver the wake for that word, or a futexWake chose another sleeper.
NoMissedWakeUnlessInterrupted ==
    \A t \in Threads : Stale(t) /\ ~interrupted[t] /\ ~passedOver[t]
        => \E u \in Threads : Pending(u, t)

\* A futexWait with a timeout returns, however often it is woken early,
\* interrupted or notified for nothing.
TimedWaitReturns ==
    \A t \in Threads :
        (pc[t] = "enter" /\ limit[t] # "never") ~> (pc[t] = "idle")

\* An uninterrupted sleeper whose word has changed leaves the wait set: the
\* store is followed by a wake that reaches it, chooses another sleeper, or
\* the word gets the expected value back.
StaleSleeperWakes ==
    \A t \in Threads :
        (Stale(t) /\ ~interrupted[t] /\ ~passedOver[t])
            ~> (pc[t] \notin {"loop", "sleep"} \/ interrupted[t] \/ passedOver[t]
                \/ value[addr[t]] = expected[t])

\* A thread never loses an interrupt: the status, once set, is only cleared
\* by an InterruptedException the call remembers, and a call that remembers
\* one sets the status again before it is over.
InterruptKept ==
    [][\A t \in Threads :
          /\ flag[t] /\ ~flag'[t] => interrupted'[t]
          /\ interrupted[t] /\ pc[t] # "idle" /\ pc'[t] = "idle" => flag'[t]]_vars
=============================================================================

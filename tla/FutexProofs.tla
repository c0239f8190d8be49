---------------------------- MODULE FutexProofs ----------------------------
(***************************************************************************)
(* Proofs about Futex, for any number of threads, addresses and queues:    *)
(* the part of the inductive invariant about wakes and interrupts, and the *)
(* theorems.                                                               *)
(***************************************************************************)
EXTENDS FutexQueueProofs

\* What the types say of the state a promise about wakes is about.
WakeType ==
    /\ pc \in [Threads -> PCs]
    /\ addr \in [Threads -> Addresses]
    /\ expected \in [Threads -> Values]
    /\ value \in [Addresses -> Values]
    /\ table \in [Addresses -> Queues \cup {NoQueue}]
    /\ monitor \in [Threads -> Queues \cup {NoQueue}]
    /\ interrupted \in [Threads -> BOOLEAN]
    /\ passedOver \in [Threads -> BOOLEAN]

\* Every step keeps the promise about missed wakes.
LEMMA WakesPreserved ==
    ASSUME IInv, TypeOK', [Next]_vars
    PROVE  NoMissedWakeUnlessInterrupted'
<1> USE DEF PCs, Holding, Woken
<1>w. WakeType /\ WakeType' /\ MonitorHeld /\ QueueCounted
  BY DEF IInv, TypeOK, WakeType
<1> USE <1>w DEF WakeType
<1> SUFFICES ASSUME NEW w \in Threads,
                    (Stale(w) /\ ~interrupted[w] /\ ~passedOver[w])'
             PROVE  (\E u \in Threads : Pending(u, w))'
  BY DEF NoMissedWakeUnlessInterrupted
<1>a. ASSUME Stale(w), ~interrupted[w], ~passedOver[w]
      PROVE  \E u \in Threads : Pending(u, w)
  BY <1>a DEF IInv, NoMissedWakeUnlessInterrupted
<1>1. ASSUME NEW t \in Threads,
             CompareValue(t) \/ LoopHead(t) \/ Resume(t) \/ TimeOut(t)
                \/ SpuriousWake(t) \/ ReleaseFutexQueue(t)
      PROVE  (\E u \in Threads : Pending(u, w))'
  <2>1. Stale(w) /\ ~interrupted[w] /\ ~passedOver[w]
    <3>1. CASE CompareValue(t)
      BY SMTT(30), <3>1 DEF CompareValue, ReturnsAtOnce, callVars, Stale
    <3>2. CASE LoopHead(t)
      BY SMTT(30), <3>2 DEF LoopHead, Return, ObjectWait, Stale
    <3>3. CASE Resume(t)
      <4>1. CASE w # t
        <5>1. pc'[w] = pc[w] /\ interrupted'[w] = interrupted[w]
          BY SMTT(30), <3>3, <4>1 DEF Resume, Return
        <5>2. UNCHANGED <<value, addr, expected, passedOver>>
          BY <3>3 DEF Resume
        <5> QED
          BY <5>1, <5>2 DEF Stale
      <4>2. CASE w = t
        <5>1. pc'[t] = "loop"
          BY SMTT(30), <3>3, <4>2 DEF Resume, Return, Stale
        <5>2. interrupted'[t] \/ value[addr[t]] = expected[t]
          BY SMTT(30), <3>3, <5>1 DEF Resume, Return
        <5> QED
          BY <3>3, <4>2, <5>2 DEF Resume, Stale
      <4> QED
        BY <4>1, <4>2
    <3>4. CASE TimeOut(t) \/ SpuriousWake(t)
      BY SMTT(30), <3>4 DEF TimeOut, SpuriousWake, callVars, Stale
    <3>5. CASE ReleaseFutexQueue(t)
      <4>1. w # t
        <5>1. pc'[t] = "idle"
          BY <3>5 DEF ReleaseFutexQueue
        <5> QED
          BY <5>1 DEF Stale
      <4>2. /\ pc'[w] = pc[w] /\ expected'[w] = expected[w]
            /\ interrupted'[w] = interrupted[w] /\ passedOver'[w] = passedOver[w]
        <5>1. /\ pc' = [pc EXCEPT ![t] = "idle"]
              /\ expected' = [expected EXCEPT ![t] = CHOOSE v \in Values : TRUE]
              /\ interrupted' = [interrupted EXCEPT ![t] = FALSE]
              /\ passedOver' = [passedOver EXCEPT ![t] = FALSE]
          BY ONLY <3>5 DEF ReleaseFutexQueue
        <5> QED
          BY ONLY <5>1, <4>1, WakeType, w \in Threads DEF WakeType
      <4>3. UNCHANGED <<value, addr>>
        BY <3>5 DEF ReleaseFutexQueue
      <4> QED
        BY <4>2, <4>3 DEF Stale
    <3> QED
      BY <1>1, <3>1, <3>2, <3>3, <3>4, <3>5
  <2>2. PICK u \in Threads : Pending(u, w)
    BY <1>a, <2>1
  <2>3. u # t /\ w # u
    BY SMTT(30), <1>1, <2>1, <2>2 DEF CompareValue, LoopHead, Resume, TimeOut, SpuriousWake,
                ReleaseFutexQueue, Pending, Stale
  <2>4. pc'[u] = pc[u] /\ addr'[u] = addr[u] /\ monitor'[u] = monitor[u]
    BY SMTT(30), <1>1, <2>3 DEF CompareValue, LoopHead, Resume, TimeOut, SpuriousWake,
                ReleaseFutexQueue, Return, ObjectWait, callVars
  <2>5. addr'[w] = addr[w] /\ (pc[w] \in Holding => monitor'[w] = monitor[w])
    BY SMTT(30), <1>1, <2>1 DEF CompareValue, LoopHead, Resume, TimeOut, SpuriousWake,
                ReleaseFutexQueue, Return, ObjectWait, callVars, Stale
  <2> QED
    BY <2>1, <2>2, <2>4, <2>5 DEF Pending, Stale
<1>2. ASSUME NEW t \in Threads, Interrupt(t)
      PROVE  (\E u \in Threads : Pending(u, w))'
  <2>1. Stale(w) /\ ~interrupted[w] /\ ~passedOver[w]
    BY <1>2 DEF Interrupt, callVars, Stale
  <2>2. PICK u \in Threads : Pending(u, w)
    BY <1>a, <2>1
  <2> QED
    BY <1>2, <2>1, <2>2 DEF Interrupt, callVars, Pending, Stale
<1>3. ASSUME NEW t \in Threads, NEW a \in Addresses, NEW v \in Values,
             NEW l \in Limits, FutexWait(t, a, v, l)
      PROVE  (\E u \in Threads : Pending(u, w))'
  <2>1. w # t /\ Stale(w) /\ ~interrupted[w] /\ ~passedOver[w]
    BY <1>3 DEF FutexWait, Stale
  <2>2. PICK u \in Threads : Pending(u, w)
    BY <1>a, <2>1
  <2>3. u # t
    BY <1>3, <2>2 DEF FutexWait, Pending
  <2> QED
    BY SMTT(60), <1>3, <2>1, <2>2, <2>3 DEF FutexWait, RetainFutexQueue, Pending
<1>4. ASSUME NEW t \in Threads, NEW a \in Addresses, NEW v \in Values,
             NEW kind \in {"stored1", "storedAll"}, Store(t, a, v, kind)
      PROVE  (\E u \in Threads : Pending(u, w))'
  <2>1. CASE addr'[w] = a
    BY <1>4, <2>1 DEF Store, Pending
  <2>2. CASE addr'[w] # a
    <3>1. w # t /\ Stale(w) /\ ~interrupted[w] /\ ~passedOver[w]
      BY <1>4, <2>2 DEF Store, Stale
    <3>2. PICK u \in Threads : Pending(u, w)
      BY <1>a, <3>1
    <3>3. u # t
      BY <1>4, <3>2 DEF Store, Pending
    <3> QED
      BY <1>4, <3>1, <3>2, <3>3 DEF Store, Pending
  <2> QED
    BY <2>1, <2>2
<1>5. ASSUME NEW t \in Threads, LookUp(t)
      PROVE  (\E u \in Threads : Pending(u, w))'
  <2>1. w # t /\ Stale(w) /\ ~interrupted[w] /\ ~passedOver[w]
    BY <1>5 DEF LookUp, Stale
  <2>2. PICK u \in Threads : Pending(u, w)
    BY <1>a, <2>1
  <2>3. table[addr[w]] = monitor[w] /\ monitor[w] # NoQueue
    BY <2>1, ConstantsAssumption DEF QueueCounted, MonitorHeld, Stale
  <2>4. CASE u = t
    <3>1. /\ addr[t] = addr[w] /\ pc'[t] \in {"notify", "notifyAll"}
          /\ monitor'[t] = monitor[w] /\ monitor'[w] = monitor[w]
      BY SMTT(60), <1>5, <2>1, <2>2, <2>3, <2>4 DEF LookUp, Pending
    <3> QED
      BY <3>1 DEF Pending
  <2>5. CASE u # t
    BY SMTT(60), <1>5, <2>1, <2>2, <2>5 DEF LookUp, Pending
  <2> QED
    BY <2>4, <2>5
<1>6. ASSUME NEW t \in Threads, Wake(t)
      PROVE  (\E u \in Threads : Pending(u, w))'
  <2>1. PICK S \in SUBSET Sleepers(monitor[t]) : Notify(t, S)
    BY <1>6 DEF Wake
  <2>2. w # t /\ w \notin S /\ Stale(w) /\ ~interrupted[w] /\ ~passedOver[w]
    BY <2>1 DEF Notify, Stale
  <2>3. PICK u \in Threads : Pending(u, w)
    BY <1>a, <2>2
  <2>4. CASE u = t
    \* A notifier holds the monitor, so w is asleep and was passed over.
    <3>1. monitor[w] = monitor[t]
      BY <1>6, <2>3, <2>4 DEF Wake, Pending
    <3>2. w \in Sleepers(monitor[t])
      BY <2>1, <2>2, <3>1 DEF Notify, MonitorFree, Sleepers, Stale
    <3> QED
      BY ZenonT(30), <2>1, <2>2, <3>2 DEF Notify
  <2>5. CASE u # t
    <3>1. u \notin S
      BY <2>3 DEF Sleepers, Pending
    <3> QED
      BY <2>1, <2>2, <2>3, <2>5, <3>1 DEF Notify, Pending
  <2> QED
    BY <2>4, <2>5
<1>7. CASE UNCHANGED vars
  BY <1>7, <1>a DEF vars, Stale, Pending
<1> QED
  BY SMTT(60), <1>1, <1>2, <1>3, <1>4, <1>5, <1>6, <1>7, WakeCases DEF Next, Step, Call

\* What the types say of a remembered interrupt.
InterruptType ==
    /\ pc \in [Threads -> PCs]
    /\ interrupted \in [Threads -> BOOLEAN]
    /\ flag \in [Threads -> BOOLEAN]

\* Every step keeps the promise about remembered interrupts.
LEMMA InterruptsPreserved ==
    ASSUME IInv, [Next]_vars
    PROVE  InterruptOwed'
<1>w. InterruptType /\ InterruptOwed
  BY DEF IInv, TypeOK, InterruptType
<1>1. ASSUME NEW t \in Threads, LoopHead(t) PROVE InterruptOwed'
  BY SMTT(60), <1>1, <1>w DEF InterruptType, InterruptOwed, PCs, Holding, Woken,
              LoopHead, Return, ObjectWait
<1>2. ASSUME NEW t \in Threads, Resume(t) PROVE InterruptOwed'
  BY SMTT(60), <1>2, <1>w DEF InterruptType, InterruptOwed, PCs, Holding, Woken,
              Resume, Return
<1>3. ASSUME NEW t \in Threads, CompareValue(t) \/ TimeOut(t) \/ SpuriousWake(t)
                \/ Interrupt(t) \/ ReleaseFutexQueue(t) \/ LookUp(t)
      PROVE InterruptOwed'
  <2>1. CASE CompareValue(t)
    BY SMTT(60), <2>1, <1>w DEF InterruptType, InterruptOwed, PCs, Holding, Woken,
                CompareValue, ReturnsAtOnce, callVars
  <2>2. CASE TimeOut(t)
    BY SMTT(60), <2>2, <1>w DEF InterruptType, InterruptOwed, PCs, Holding, Woken,
                TimeOut, callVars
  <2>3. CASE SpuriousWake(t)
    BY SMTT(60), <2>3, <1>w DEF InterruptType, InterruptOwed, PCs, Holding, Woken,
                SpuriousWake, callVars
  <2>4. CASE Interrupt(t)
    BY SMTT(60), <2>4, <1>w DEF InterruptType, InterruptOwed, PCs, Holding, Woken,
                Interrupt, callVars
  <2>5. CASE ReleaseFutexQueue(t)
    BY SMTT(60), <2>5, <1>w DEF InterruptType, InterruptOwed, PCs, Holding, Woken,
                ReleaseFutexQueue
  <2>6. CASE LookUp(t)
    BY SMTT(60), <2>6, <1>w DEF InterruptType, InterruptOwed, PCs, Holding, Woken,
                LookUp
  <2> QED
    BY <1>3, <2>1, <2>2, <2>3, <2>4, <2>5, <2>6
<1>4. ASSUME NEW t \in Threads, Wake(t) PROVE InterruptOwed'
  <2>1. PICK S \in SUBSET Sleepers(monitor[t]) : Notify(t, S)
    BY <1>4 DEF Wake
  <2>2. UNCHANGED <<interrupted, flag>>
    BY <2>1 DEF Notify
  <2>3. pc[t] \in {"notify", "notifyAll"}
    BY <1>4 DEF Wake
  <2>4. pc'[t] = "idle"
    BY <2>1 DEF Notify
  <2>5. \A u \in Threads \ {t} : pc'[u] = pc[u] \/ pc'[u] = "notified"
    BY <2>1 DEF Notify
  <2> QED
    BY SMTT(60), <1>w, <2>2, <2>3, <2>4, <2>5 DEF InterruptType, InterruptOwed, PCs, Holding, Woken
<1>5. ASSUME NEW t \in Threads, Call(t) PROVE InterruptOwed'
  BY SMTT(60), <1>5, <1>w DEF InterruptType, InterruptOwed, PCs, Holding, Woken,
              Call, FutexWait, Store
<1>6. CASE UNCHANGED vars
  BY <1>6, <1>w DEF InterruptOwed, vars
<1> QED
  BY <1>1, <1>2, <1>3, <1>4, <1>5, <1>6, WakeCases DEF Next, Step

\* Every step keeps the invariant.
LEMMA IInvPreserved == IInv /\ [Next]_vars => IInv'
BY TypePreserved, QueuesPreserved, WakesPreserved, InterruptsPreserved
   DEF IInv, Queued

\* The state of the futex queues is well typed in every reachable state: in
\* particular a thread that holds a queue holds one of the Queues.
THEOREM TypeCorrect == Spec => []TypeOK
<1>1. Init => IInv
  BY InitIInv
<1>2. IInv /\ [Next]_vars => IInv'
  BY IInvPreserved
<1>3. IInv => TypeOK
  BY DEF IInv
<1> QED
  BY <1>1, <1>2, <1>3, PTL DEF Spec

\* FUTEX_QUEUES is exact for any number of threads and addresses: a queue is
\* registered while some futexWait uses it, counts those calls, and goes with
\* the last of them (retainFutexQueue, releaseFutexQueue).
THEOREM QueuesAreCounted == Spec => []QueueCounted
<1>1. Init => IInv
  BY InitIInv
<1>2. IInv /\ [Next]_vars => IInv'
  BY IInvPreserved
<1>3. IInv => QueueCounted
  BY DEF IInv
<1> QED
  BY <1>1, <1>2, <1>3, PTL DEF Spec

\* All threads in one wait set wait for the same address, as the comment on
\* FUTEX_QUEUES requires.
THEOREM KeysAreExact == Spec => []ExactKeys
<1>1. Init => IInv
  BY InitIInv
<1>2. IInv /\ [Next]_vars => IInv'
  BY IInvPreserved
<1>3. IInv => ExactKeys
  <2> SUFFICES ASSUME IInv, NEW t \in Threads, NEW u \in Threads,
                      pc[t] = "sleep", pc[u] = "sleep", monitor[t] = monitor[u]
               PROVE  addr[t] = addr[u]
    BY DEF ExactKeys
  <2>1. /\ addr[t] \in Addresses /\ addr[u] \in Addresses
        /\ table[addr[t]] = monitor[t] /\ table[addr[u]] = monitor[u]
        /\ monitor[t] # NoQueue
    BY ConstantsAssumption DEF IInv, TypeOK, QueueCounted, MonitorHeld, Holding
  <2> QED
    BY <2>1 DEF IInv, Injective
<1> QED
  BY <1>1, <1>2, <1>3, PTL DEF Spec

\* No uninterrupted futexWait misses a wake, for any number of threads.
THEOREM NoUninterruptedWakeMissed == Spec => []NoMissedWakeUnlessInterrupted
<1>1. Init => IInv
  BY InitIInv
<1>2. IInv /\ [Next]_vars => IInv'
  BY IInvPreserved
<1>3. IInv => NoMissedWakeUnlessInterrupted
  BY DEF IInv
<1> QED
  BY <1>1, <1>2, <1>3, PTL DEF Spec

\* No interrupt is lost: futexWait clears the status of its thread only to
\* remember it, and has set it again when it returns.
THEOREM InterruptsAreKept == Spec => InterruptKept
<1> DEFINE Kept == \A t \in Threads :
        /\ flag[t] /\ ~flag'[t] => interrupted'[t]
        /\ interrupted[t] /\ pc[t] # "idle" /\ pc'[t] = "idle" => flag'[t]
<1>1. Init => IInv
  BY InitIInv
<1>2. IInv /\ [Next]_vars => IInv'
  BY IInvPreserved
<1>3. IInv /\ [Next]_vars => [Kept]_vars
  <2> SUFFICES ASSUME IInv, Next PROVE Kept
    OBVIOUS
  <2>w. InterruptType /\ InterruptOwed
    BY DEF IInv, TypeOK, InterruptType
  <2>1. ASSUME NEW t \in Threads, LoopHead(t) PROVE Kept
    BY SMTT(60), <2>1, <2>w DEF InterruptType, InterruptOwed, PCs, Holding, Woken,
                LoopHead, Return, ObjectWait
  <2>2. ASSUME NEW t \in Threads, Resume(t) PROVE Kept
    BY SMTT(60), <2>2, <2>w DEF InterruptType, InterruptOwed, PCs, Holding, Woken,
                Resume, Return
  <2>3. ASSUME NEW t \in Threads, CompareValue(t) \/ TimeOut(t) \/ SpuriousWake(t)
                  \/ Interrupt(t) \/ ReleaseFutexQueue(t) \/ LookUp(t)
        PROVE Kept
    <3>1. CASE CompareValue(t)
      BY SMTT(60), <3>1, <2>w DEF InterruptType, InterruptOwed, PCs, Holding, Woken,
                  CompareValue, ReturnsAtOnce, callVars
    <3>2. CASE TimeOut(t)
      BY SMTT(60), <3>2, <2>w DEF InterruptType, InterruptOwed, PCs, Holding, Woken,
                  TimeOut, callVars
    <3>3. CASE SpuriousWake(t)
      BY SMTT(60), <3>3, <2>w DEF InterruptType, InterruptOwed, PCs, Holding, Woken,
                  SpuriousWake, callVars
    <3>4. CASE Interrupt(t)
      BY SMTT(60), <3>4, <2>w DEF InterruptType, InterruptOwed, PCs, Holding, Woken,
                  Interrupt, callVars
    <3>5. CASE ReleaseFutexQueue(t)
      BY SMTT(60), <3>5, <2>w DEF InterruptType, InterruptOwed, PCs, Holding, Woken,
                  ReleaseFutexQueue
    <3>6. CASE LookUp(t)
      BY SMTT(60), <3>6, <2>w DEF InterruptType, InterruptOwed, PCs, Holding, Woken,
                  LookUp
    <3> QED
      BY <2>3, <3>1, <3>2, <3>3, <3>4, <3>5, <3>6
  <2>4. ASSUME NEW t \in Threads, Wake(t) PROVE Kept
    <3>1. PICK S \in SUBSET Sleepers(monitor[t]) : Notify(t, S)
      BY <2>4 DEF Wake
    <3>2. UNCHANGED <<interrupted, flag>>
      BY <3>1 DEF Notify
    <3>3. pc[t] \in {"notify", "notifyAll"}
      BY <2>4 DEF Wake
    <3>4. pc'[t] = "idle"
      BY <3>1 DEF Notify
    <3>5. \A u \in Threads \ {t} : pc'[u] = pc[u] \/ pc'[u] = "notified"
      BY <3>1 DEF Notify
    <3> QED
      BY SMTT(60), <2>w, <3>2, <3>3, <3>4, <3>5 DEF InterruptType, InterruptOwed, PCs, Holding, Woken
  <2>5. ASSUME NEW t \in Threads, Call(t) PROVE Kept
    BY SMTT(60), <2>5, <2>w DEF InterruptType, InterruptOwed, PCs, Holding, Woken,
                Call, FutexWait, Store
  <2> HIDE DEF Kept
  <2> QED
    BY <2>1, <2>2, <2>3, <2>4, <2>5, WakeCases DEF Next, Step
<1> QED
  BY <1>1, <1>2, <1>3, PTL DEF Spec, InterruptKept

=============================================================================

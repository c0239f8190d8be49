-------------------------- MODULE FutexQueueProofs --------------------------
(***************************************************************************)
(* The inductive invariant of Futex, and that every step keeps the types   *)
(* and the counting of the queues, for any number of threads, addresses    *)
(* and queues.  FutexProofs has the rest of the invariant, and theorems.   *)
(***************************************************************************)
EXTENDS Futex, FiniteSetTheorems, TLAPS

\* Two addresses never have the same queue.
Injective ==
    \A a, b \in Addresses : table[a] # NoQueue /\ table[a] = table[b] => a = b

\* A call works on a queue from retainFutexQueue, or from the lookup of a
\* wake, to its end.
MonitorHeld ==
    \A t \in Threads : pc[t] \in Holding \cup {"notify", "notifyAll"}
        => monitor[t] \in Queues

\* Outside the loop of futexWait a remembered interrupt is set again.
InterruptOwed ==
    \A t \in Threads :
        /\ pc[t] = "enter" => ~interrupted[t]
        /\ interrupted[t] /\ pc[t] \notin {"enter", "loop", "sleep"} \cup Woken
               => flag[t]

\* The inductive invariant.
IInv ==
    /\ TypeOK
    /\ MonitorHeld
    /\ Injective
    /\ QueueCounted
    /\ NoMissedWakeUnlessInterrupted
    /\ InterruptOwed

\* The invariant holds before any call.
LEMMA InitIInv == Init => IInv
<1> SUFFICES ASSUME Init PROVE IInv
  OBVIOUS
<1> USE DEF Init, PCs, Holding, Woken, Limits
<1>1. TypeOK
  <2>1. /\ (CHOOSE a \in Addresses : TRUE) \in Addresses
        /\ (CHOOSE v \in Values : TRUE) \in Values
    BY ConstantsAssumption
  <2> QED
    BY <2>1 DEF TypeOK
<1>2. MonitorHeld /\ Injective /\ QueueCounted
  BY DEF MonitorHeld, Injective, QueueCounted
<1>3. NoMissedWakeUnlessInterrupted /\ InterruptOwed
  BY DEF NoMissedWakeUnlessInterrupted, InterruptOwed, Stale
<1> QED
  BY <1>1, <1>2, <1>3 DEF IInv

\* The two wakes as one: some sleepers of the monitor are notified.
Wake(t) ==
    /\ pc[t] \in {"notify", "notifyAll"}
    /\ \E S \in SUBSET Sleepers(monitor[t]) : Notify(t, S)

\* futexWake and futexWakeAll each notify some of the sleepers.
LEMMA WakeCases ==
    ASSUME NEW t \in Threads, FutexWake(t) \/ FutexWakeAll(t)
    PROVE  Wake(t)
<1>1. CASE FutexWakeAll(t)
  <2>1. Sleepers(monitor[t]) \in SUBSET Sleepers(monitor[t])
    OBVIOUS
  <2> QED
    BY <1>1, <2>1 DEF FutexWakeAll, Wake
<1>2. CASE FutexWake(t) /\ Sleepers(monitor[t]) = {}
  <2>1. {} \in SUBSET Sleepers(monitor[t])
    OBVIOUS
  <2> QED
    BY <1>2, <2>1 DEF FutexWake, Wake
<1>3. CASE FutexWake(t) /\ Sleepers(monitor[t]) # {}
  <2>1. PICK u \in Sleepers(monitor[t]) : Notify(t, {u})
    BY <1>3 DEF FutexWake
  <2>2. {u} \in SUBSET Sleepers(monitor[t])
    OBVIOUS
  <2> QED
    BY <1>3, <2>1, <2>2 DEF FutexWake, Wake
<1> QED
  BY <1>1, <1>2, <1>3

\* Every step keeps the types.
LEMMA TypePreserved ==
    ASSUME IInv, [Next]_vars
    PROVE  TypeOK'
<1> USE ConstantsAssumption DEF IInv, TypeOK, PCs, Holding, Woken, Limits
<1>1. ASSUME NEW t \in Threads, Call(t) PROVE TypeOK'
  <2>1. ASSUME NEW a \in Addresses, NEW v \in Values, NEW l \in Limits,
               FutexWait(t, a, v, l)
        PROVE  TypeOK'
    BY <2>1 DEF FutexWait, RetainFutexQueue, Retained
  <2>2. ASSUME NEW a \in Addresses, NEW v \in Values,
               NEW kind \in {"stored1", "storedAll"}, Store(t, a, v, kind)
        PROVE  TypeOK'
    BY <2>2 DEF Store
  <2> QED
    BY <1>1, <2>1, <2>2 DEF Call
<1>2. ASSUME NEW t \in Threads, CompareValue(t) PROVE TypeOK'
  BY <1>2 DEF CompareValue, callVars
<1>3. ASSUME NEW t \in Threads, LoopHead(t) PROVE TypeOK'
  <2>1. flag' \in [Threads -> BOOLEAN] /\ interrupted' \in [Threads -> BOOLEAN]
    BY <1>3, ZenonT(60) DEF LoopHead, Return, ObjectWait
  <2>2. pc' \in [Threads -> PCs] /\ remaining' \in [Threads -> Nat]
    BY <1>3 DEF LoopHead, Return, ObjectWait, TimeLeft
  <2> QED
    BY <1>3, <2>1, <2>2 DEF LoopHead
<1>4. ASSUME NEW t \in Threads, Resume(t) PROVE TypeOK'
  <2>1. flag' \in [Threads -> BOOLEAN] /\ interrupted' \in [Threads -> BOOLEAN]
    BY <1>4, ZenonT(60) DEF Resume, Return
  <2>2. pc' \in [Threads -> PCs] /\ remaining' \in [Threads -> Nat]
    BY <1>4 DEF Resume, Return, TimeLeft
  <2> QED
    BY <1>4, <2>1, <2>2 DEF Resume
<1>5. ASSUME NEW t \in Threads, LookUp(t) PROVE TypeOK'
  BY <1>5 DEF LookUp
<1>6. ASSUME NEW t \in Threads, Wake(t) PROVE TypeOK'
  BY <1>6 DEF Wake, Notify
<1>7. ASSUME NEW t \in Threads, TimeOut(t) \/ SpuriousWake(t) \/ Interrupt(t)
      PROVE  TypeOK'
  <2>1. flag' \in [Threads -> BOOLEAN]
    BY <1>7, Zenon DEF TimeOut, SpuriousWake, Interrupt
  <2> QED
    BY <1>7, <2>1 DEF TimeOut, SpuriousWake, Interrupt, callVars
<1>8. ASSUME NEW t \in Threads, ReleaseFutexQueue(t) PROVE TypeOK'
  <2>1. /\ monitor[t] \in Queues /\ monitor[t] # NoQueue
        /\ table[addr[t]] = monitor[t] /\ addr[t] \in Addresses
    BY <1>8 DEF ReleaseFutexQueue, MonitorHeld, QueueCounted
  <2>2. references[monitor[t]] # 0
    <3>1. /\ references[monitor[t]] = Cardinality(Holders(monitor[t]))
          /\ Holders(monitor[t]) # {}
      BY <2>1 DEF QueueCounted
    <3>2. IsFiniteSet(Holders(monitor[t]))
      BY FS_Subset DEF Holders
    <3> QED
      BY <3>1, <3>2, FS_EmptySet
  <2> QED
    BY <1>8, <2>1, <2>2 DEF ReleaseFutexQueue
<1>9. CASE UNCHANGED vars
  BY <1>9 DEF vars
<1> QED
  BY <1>1, <1>2, <1>3, <1>4, <1>5, <1>6, <1>7, <1>8, <1>9, WakeCases DEF Next, Step

\* What the table of queues promises: the part of IInv about queues.
Queued == MonitorHeld /\ Injective /\ QueueCounted

\* A step that leaves the table, the counts and the queue of every call alone,
\* and neither begins nor ends a futexWait, keeps it.
LEMMA QueuesFramed ==
    ASSUME Queued, UNCHANGED <<table, references, monitor, addr>>,
           \A u \in Threads :
               /\ pc'[u] \in Holding <=> pc[u] \in Holding
               /\ pc'[u] \in {"notify", "notifyAll"}
                     => pc[u] \in {"notify", "notifyAll"}
    PROVE  Queued'
<1>1. \A q : Holders(q)' = Holders(q)
  BY DEF Holders
<1>2. QueueCounted'
  BY <1>1 DEF Queued, QueueCounted
<1> QED
  BY <1>2 DEF Queued, MonitorHeld, Injective

\* Finitely many threads hold a queue.
LEMMA HoldersFinite == \A q : IsFiniteSet(Holders(q))
BY ConstantsAssumption, FS_Subset DEF Holders

\* retainFutexQueue keeps it: the caller becomes one more holder of the
\* registered queue, or the only holder of a new one.
LEMMA QueuesRetained ==
    ASSUME IInv, NEW t \in Threads, NEW a \in Addresses, NEW v \in Values,
           NEW l \in Limits, FutexWait(t, a, v, l)
    PROVE  Queued'
<1> USE DEF IInv, TypeOK, PCs, Holding, Woken
<1> DEFINE HoldersNext(p) == {u \in Threads : pc'[u] \in Holding /\ monitor'[u] = p}
<1>1. PICK q \in Queues :
          /\ IF table[a] = NoQueue THEN Unreferenced(q) ELSE q = table[a]
          /\ table' = [table EXCEPT ![a] = q]
          /\ references' = [references EXCEPT ![q] = Retained(a)]
          /\ monitor' = [monitor EXCEPT ![t] = q]
  BY ZenonT(30) DEF FutexWait, RetainFutexQueue
<1>2. /\ pc' = [pc EXCEPT ![t] = "enter"] /\ addr' = [addr EXCEPT ![t] = a]
      /\ pc[t] = "idle"
  BY DEF FutexWait
<1>3. q # NoQueue /\ \A b \in Addresses : b # a => table[b] # q
  BY <1>1, ConstantsAssumption DEF Unreferenced, Injective
<1>4. /\ HoldersNext(q) = Holders(q) \cup {t} /\ t \notin Holders(q)
      /\ \A p \in Queues : p # q => HoldersNext(p) = Holders(p)
  BY <1>1, <1>2 DEF Holders
<1>5. references'[q] = Cardinality(HoldersNext(q))
  <2>1. Cardinality(Holders(q) \cup {t}) = Cardinality(Holders(q)) + 1
    BY ZenonT(30), <1>4, HoldersFinite, FS_AddElement
  <2>2. CASE table[a] = NoQueue
    <3>1. Holders(q) = {}
      BY <1>1, <2>2 DEF Unreferenced, Holders
    <3> QED
      BY ZenonT(30), <1>1, <1>4, <2>1, <2>2, <3>1, FS_EmptySet DEF Retained
  <2>3. CASE table[a] # NoQueue
    BY ZenonT(30), <1>1, <1>4, <2>1, <2>3 DEF Retained, QueueCounted
  <2> QED
    BY <2>2, <2>3
<1>6. MonitorHeld' /\ Injective'
  BY <1>1, <1>2, <1>3 DEF MonitorHeld, Injective
<1>7. ASSUME NEW u \in Threads, pc'[u] \in Holding
      PROVE  table'[addr'[u]] = monitor'[u]
  BY <1>1, <1>2, <1>7, ConstantsAssumption DEF QueueCounted, MonitorHeld
<1>8. ASSUME NEW b \in Addresses, table'[b] # NoQueue
      PROVE  /\ references'[table'[b]] = Cardinality(HoldersNext(table'[b]))
             /\ HoldersNext(table'[b]) # {}
  <2>1. CASE b = a
    BY <1>1, <1>4, <1>5, <2>1
  <2>2. CASE b # a
    <3>1. table'[b] = table[b] /\ table[b] \in Queues /\ table[b] # q
      BY <1>1, <1>3, <1>8, <2>2
    <3> QED
      BY ZenonT(60), <1>1, <1>4, <1>8, <3>1 DEF QueueCounted
  <2> QED
    BY <2>1, <2>2
<1>9. QueueCounted'
  BY ZenonT(30), <1>7, <1>8 DEF QueueCounted, Holders
<1> QED
  BY <1>6, <1>9 DEF Queued

\* releaseFutexQueue keeps it: the queue leaves the table with its last
\* holder, and only then.
LEMMA QueuesReleased ==
    ASSUME IInv, NEW t \in Threads, ReleaseFutexQueue(t)
    PROVE  Queued'
<1> USE DEF IInv, TypeOK, PCs, Holding, Woken
<1> DEFINE HoldersNext(p) == {u \in Threads : pc'[u] \in Holding /\ monitor'[u] = p}
           q == monitor[t]
           a == addr[t]
<1>1. /\ q \in Queues /\ q # NoQueue /\ a \in Addresses /\ table[a] = q
      /\ pc[t] = "exit" /\ pc' = [pc EXCEPT ![t] = "idle"] /\ addr' = addr
      /\ monitor' = [monitor EXCEPT ![t] = NoQueue]
      /\ references' = [references EXCEPT ![q] = @ - 1]
      /\ table' = [table EXCEPT ![a] = IF references[q] = 1 THEN NoQueue ELSE @]
  BY ConstantsAssumption DEF ReleaseFutexQueue, MonitorHeld, QueueCounted
<1> HIDE DEF q, a
<1>2. /\ t \in Holders(q) /\ HoldersNext(q) = Holders(q) \ {t}
      /\ \A p \in Queues : p # q => HoldersNext(p) = Holders(p)
  BY <1>1 DEF Holders, q
<1>3. /\ references[q] = Cardinality(Holders(q))
      /\ Cardinality(HoldersNext(q)) = Cardinality(Holders(q)) - 1
      /\ Cardinality(Holders(q)) \in Nat
      /\ IsFiniteSet(HoldersNext(q))
  <2>1. IsFiniteSet(Holders(q))
    BY HoldersFinite
  <2> QED
    BY <1>1, <1>2, <2>1, FS_RemoveElement, FS_CardinalityType DEF QueueCounted
<1>4. references[q] = 1 => Holders(q) = {t}
  <2>1. HAVE references[q] = 1
  <2>2. Cardinality(HoldersNext(q)) = 0
    BY <1>3, <2>1
  <2>3. HoldersNext(q) = {}
    BY ZenonT(30), <1>3, <2>2, FS_EmptySet
  <2> QED
    BY <1>2, <2>3
<1>5. references[q] # 1 => HoldersNext(q) # {}
  <2>1. HAVE references[q] # 1
  <2>2. Cardinality(HoldersNext(q)) # 0
    BY <1>3, <2>1
  <2> QED
    BY <1>3, <2>2, FS_EmptySet
<1>6. MonitorHeld' /\ Injective'
  BY SMTT(30), <1>1 DEF MonitorHeld, Injective
<1>7. ASSUME NEW u \in Threads, pc'[u] \in Holding
      PROVE  table'[addr'[u]] = monitor'[u]
  <2>1. u # t /\ table[addr[u]] = monitor[u] /\ addr[u] \in Addresses
    BY <1>1, <1>7 DEF QueueCounted
  <2>2. CASE addr[u] = a
    <3>1. u \in Holders(q)
      BY <1>1, <1>7, <2>1, <2>2 DEF Holders
    <3> QED
      BY <1>1, <1>4, <2>1, <2>2, <3>1
  <2>3. CASE addr[u] # a
    BY <1>1, <2>1, <2>3
  <2> QED
    BY <2>2, <2>3
<1>8. ASSUME NEW b \in Addresses, table'[b] # NoQueue
      PROVE  /\ references'[table'[b]] = Cardinality(HoldersNext(table'[b]))
             /\ HoldersNext(table'[b]) # {}
  <2>1. CASE b = a
    BY ZenonT(30), <1>1, <1>3, <1>5, <1>8, <2>1
  <2>2. CASE b # a
    <3>1. table'[b] = table[b] /\ table[b] \in Queues /\ table[b] # q
      BY <1>1, <1>8, <2>2 DEF Injective
    <3>2. HoldersNext(table[b]) = Holders(table[b])
      BY <1>2, <3>1
    <3>3. references'[table[b]] = references[table[b]]
      BY <1>1, <3>1
    <3> HIDE DEF HoldersNext
    <3> QED
      BY ZenonT(30), <1>8, <3>1, <3>2, <3>3 DEF QueueCounted
  <2> QED
    BY <2>1, <2>2
<1>9. QueueCounted'
  BY ZenonT(30), <1>7, <1>8 DEF QueueCounted, Holders
<1> QED
  BY <1>6, <1>9 DEF Queued

\* Every step keeps what the table of queues promises.
LEMMA QueuesPreserved ==
    ASSUME IInv, [Next]_vars
    PROVE  Queued'
<1> Queued
  BY DEF IInv, Queued
<1> USE DEF IInv, TypeOK, PCs, Holding, Woken
<1>1. ASSUME NEW t \in Threads,
             CompareValue(t) \/ LoopHead(t) \/ Resume(t) \/ TimeOut(t)
                \/ SpuriousWake(t) \/ Interrupt(t)
      PROVE  Queued'
  <2>1. UNCHANGED <<table, references, monitor, addr>>
    BY SMTT(30), <1>1 DEF CompareValue, LoopHead, Resume, TimeOut, SpuriousWake, Interrupt, callVars
  <2>2. /\ pc' = pc \/ \E p \in Holding : pc' = [pc EXCEPT ![t] = p]
        /\ pc' = pc \/ pc[t] \in Holding
    BY <1>1 DEF CompareValue, LoopHead, Resume, TimeOut, SpuriousWake, Interrupt,
                Return, ObjectWait
  <2> QED
    BY <2>1, <2>2, QueuesFramed
<1>2. ASSUME NEW t \in Threads, LookUp(t) PROVE Queued'
  <2>1. \A q : Holders(q)' = Holders(q)
    BY <1>2 DEF LookUp, Holders
  <2>2. QueueCounted'
    BY <1>2, <2>1 DEF LookUp, QueueCounted
  <2> QED
    BY <1>2, <2>2 DEF LookUp, Queued, MonitorHeld, Injective
<1>3. ASSUME NEW t \in Threads, Wake(t) PROVE Queued'
  <2>1. PICK S \in SUBSET Sleepers(monitor[t]) : Notify(t, S)
    BY <1>3 DEF Wake
  <2>2. pc[t] \in {"notify", "notifyAll"} /\ \A u \in S : u \in Threads /\ pc[u] = "sleep"
    BY <1>3 DEF Wake, Sleepers
  <2>3. \A q : Holders(q)' = Holders(q)
    BY <2>1, <2>2 DEF Notify, Holders
  <2>4. QueueCounted'
    BY <2>1, <2>2, <2>3 DEF Notify, QueueCounted
  <2> QED
    BY <2>1, <2>2, <2>4 DEF Notify, Queued, MonitorHeld, Injective
<1>4. ASSUME NEW t \in Threads, Call(t) PROVE Queued'
  <2>1. ASSUME NEW a \in Addresses, NEW v \in Values,
               NEW kind \in {"stored1", "storedAll"}, Store(t, a, v, kind)
        PROVE  Queued'
    <3>1. \A q : Holders(q)' = Holders(q)
      BY <2>1 DEF Store, Holders
    <3>2. QueueCounted'
      BY <2>1, <3>1 DEF Store, QueueCounted
    <3> QED
      BY <2>1, <3>2 DEF Store, Queued, MonitorHeld, Injective
  <2> QED
    BY <1>4, <2>1, QueuesRetained DEF Call
<1>5. CASE UNCHANGED vars
  BY <1>5, QueuesFramed DEF vars
<1> QED
  BY <1>1, <1>2, <1>3, <1>4, <1>5, QueuesReleased, WakeCases DEF Next, Step

=============================================================================

--------------------------- MODULE ThreadsProofs ---------------------------
(***************************************************************************)
(* Proofs about Threads, for any number of threads: the box of a thread is *)
(* consumed once, and the whole implements ThreadContract.                 *)
(***************************************************************************)
EXTENDS Threads, TLAPS

OwnerStates ==
    {"none", "unwound", "spawning", "starting", "failed", "owned", "joining", "dropping",
     "detaching", "reporting", "gone"}

WorkerStates == {"new", "running", "caught", "reporting", "finally", "terminated"}

TypeOK ==
    /\ nextId \in Nat
    /\ registered \subseteq Ids
    /\ owner \in [Ids -> OwnerStates]
    /\ worker \in [Ids -> WorkerStates]
    /\ failure \in [Ids -> BOOLEAN]
    /\ detached \in [Ids -> BOOLEAN]
    /\ threw \in [Ids -> BOOLEAN]
    /\ rethrown \in [Ids -> Nat]
    /\ reported \in [Ids -> Nat]
    /\ box \in [Ids -> {"raw", "worker", "owner"}]
    /\ interrupted \in [Ids -> BOOLEAN]
    /\ flag \in [Ids -> BOOLEAN]
    /\ halted \in BOOLEAN

\* The owner has not got past Thread.start.
Unstarted == {"none", "unwound", "spawning", "starting", "failed"}

\* What became of the box, and that the worker exists once the owner is past
\* Thread.start.
Started(i) ==
    /\ box[i] = "worker" <=> worker[i] # "new"
    /\ box[i] = "owner" <=> worker[i] = "new" /\ owner[i] = "gone"
    /\ worker[i] = "new" => owner[i] \in Unstarted \cup {"gone"}
    /\ owner[i] \in Unstarted => worker[i] = "new"

\* The throwable of a body is in one place: with the worker, in the record,
\* with the owner that detached, or delivered.
InOnePlace(i) ==
    /\ worker[i] \in {"new", "running"} => ~threw[i]
    /\ worker[i] \in {"caught", "reporting"} =>
          threw[i] /\ ~failure[i] /\ rethrown[i] = 0 /\ reported[i] = 0
    /\ ~threw[i] => ~failure[i] /\ rethrown[i] = 0 /\ reported[i] = 0
    /\ worker[i] = "reporting" => detached[i]
    /\ detached[i] =>
          ~failure[i] /\ rethrown[i] = 0 /\ owner[i] \in {"reporting", "gone"}
    /\ owner[i] = "reporting" =>
          threw[i] /\ detached[i] /\ reported[i] = 0
             /\ worker[i] \in {"finally", "terminated"}
    /\ reported[i] # 0 => detached[i]
    /\ rethrown[i] # 0 => owner[i] \in {"dropping", "gone"} /\ i \notin registered

IInv == TypeOK /\ \A i \in Ids : Started(i) /\ InOnePlace(i)

\* A step of the owner or of the worker of i.
Step(i) ==
    \/ Spawn(i) \/ SpawnThrows(i) \/ Start(i) \/ StartFails(i) \/ StartOverflows(i)
    \/ BodyReturns(i) \/ BodyThrows(i) \/ BodyOverflows(i)
    \/ Join(i) \/ InterruptJoin(i) \/ Drop(i)
    \/ Runs(i)

\* The invariant holds before any thread is started.
LEMMA InitIInv == Init => IInv
<1> SUFFICES ASSUME Init PROVE IInv
  OBVIOUS
<1>1. TypeOK
  BY DEF Init, TypeOK, OwnerStates, WorkerStates
<1>2. ASSUME NEW i \in Ids
      PROVE  Started(i) /\ InOnePlace(i)
  BY DEF Init, Started, InOnePlace, Unstarted
<1> QED
  BY <1>1, <1>2 DEF IInv

\* Every step of an owner or a worker keeps the types.
LEMMA TypePreserved ==
    ASSUME TypeOK, NEW i \in Ids, ~halted, Step(i)
    PROVE  TypeOK'
<1> USE DEF TypeOK, OwnerStates, WorkerStates, ghosts, record
<1>1. CASE Spawn(i)
  BY <1>1 DEF Spawn, OwnerGoes
<1>2. CASE Register(i)
  BY <1>2 DEF Register, OwnerGoes
<1>3. CASE Start(i)
  BY <1>3 DEF Start, OwnerGoes, WorkerGoes
<1>4. CASE StartFails(i)
  BY <1>4 DEF StartFails, OwnerGoes
<1>5. CASE DropBox(i)
  BY <1>5 DEF DropBox, OwnerGoes
<1>6. CASE BodyReturns(i)
  BY <1>6 DEF BodyReturns, WorkerGoes
<1>7. CASE BodyThrows(i)
  BY <1>7 DEF BodyThrows, WorkerGoes
<1>8. CASE BodyOverflows(i)
  BY <1>8 DEF BodyOverflows
<1>9. CASE RecordFailure(i)
  BY <1>9 DEF RecordFailure, WorkerGoes
<1>10. CASE WorkerReports(i)
  BY <1>10 DEF WorkerReports, WorkerGoes
<1>11. CASE Terminate(i)
  BY <1>11 DEF Terminate, WorkerGoes
<1>12. CASE Join(i)
  BY <1>12 DEF Join, OwnerGoes
<1>13. CASE InterruptJoin(i)
  BY <1>13 DEF InterruptJoin
<1>14. CASE JoinReturns(i)
  BY <1>14 DEF JoinReturns, OwnerGoes, Joinable, RestoredFlag
<1>15. CASE Drop(i)
  BY <1>15 DEF Drop, OwnerGoes
<1>16. CASE Detach(i)
  BY <1>16 DEF Detach, OwnerGoes
<1>17. CASE TakeFailure(i)
  BY <1>17 DEF TakeFailure, OwnerGoes
<1>18. CASE SpawnThrows(i)
  BY <1>18 DEF SpawnThrows, OwnerGoes
<1>19. CASE StartOverflows(i)
  BY <1>19 DEF StartOverflows
<1>20. CASE OwnerReports(i)
  <2>1. reported \in [Ids -> Nat] /\ reported' = [reported EXCEPT ![i] = reported[i] + 1]
    BY <1>20, Zenon DEF OwnerReports
  <2>2. reported' \in [Ids -> Nat]
    BY ONLY <2>1, i \in Ids
  <2>3. owner' = [owner EXCEPT ![i] = "gone"]
    BY <1>20, Zenon DEF OwnerReports, OwnerGoes
  <2>4. UNCHANGED <<nextId, registered, worker, failure, detached, threw, rethrown, box,
                    interrupted, flag, halted>>
    BY <1>20, Zenon DEF OwnerReports
  <2> QED
    BY <2>2, <2>3, <2>4
<1> QED
  BY <1>1, <1>2, <1>3, <1>4, <1>5, <1>6, <1>7, <1>8, <1>9, <1>10, <1>11, <1>12, <1>13, <1>14, <1>15, <1>16, <1>17, <1>18, <1>19, <1>20 DEF Step, Runs

\* Every step keeps each closure box and each failure in one place.
LEMMA PlacesPreserved ==
    ASSUME IInv, NEW i \in Ids, ~halted, Step(i), NEW j \in Ids
    PROVE  Started(j)' /\ InOnePlace(j)'
<1> USE DEF TypeOK, OwnerStates, WorkerStates, ghosts, record, Unstarted, Started, InOnePlace
<1>0. TypeOK /\ Started(i) /\ Started(j) /\ InOnePlace(i) /\ InOnePlace(j)
  BY DEF IInv
<1> USE <1>0
<1>1. CASE Spawn(i)
  BY <1>1 DEF Spawn, OwnerGoes
<1>2. CASE Register(i)
  BY <1>2 DEF Register, OwnerGoes
<1>3. CASE Start(i)
  BY <1>3 DEF Start, OwnerGoes, WorkerGoes
<1>4. CASE StartFails(i)
  BY <1>4 DEF StartFails, OwnerGoes
<1>5. CASE DropBox(i)
  BY <1>5 DEF DropBox, OwnerGoes
<1>6. CASE BodyReturns(i)
  BY <1>6 DEF BodyReturns, WorkerGoes
<1>7. CASE BodyThrows(i)
  BY <1>7 DEF BodyThrows, WorkerGoes
<1>8. CASE BodyOverflows(i)
  BY <1>8 DEF BodyOverflows
<1>9. CASE RecordFailure(i)
  BY <1>9 DEF RecordFailure, WorkerGoes
<1>10. CASE WorkerReports(i)
  BY <1>10 DEF WorkerReports, WorkerGoes
<1>11. CASE Terminate(i)
  BY <1>11 DEF Terminate, WorkerGoes
<1>12. CASE Join(i)
  BY <1>12 DEF Join, OwnerGoes
<1>13. CASE InterruptJoin(i)
  BY <1>13 DEF InterruptJoin
<1>14. CASE JoinReturns(i)
  BY <1>14 DEF JoinReturns, OwnerGoes, Joinable, RestoredFlag
<1>15. CASE Drop(i)
  BY <1>15 DEF Drop, OwnerGoes
<1>16. CASE Detach(i)
  BY <1>16 DEF Detach, OwnerGoes
<1>17. CASE TakeFailure(i)
  BY <1>17 DEF TakeFailure, OwnerGoes
<1>18. CASE SpawnThrows(i)
  BY <1>18 DEF SpawnThrows, OwnerGoes
<1>19. CASE StartOverflows(i)
  BY <1>19 DEF StartOverflows
<1>20. CASE OwnerReports(i)
  BY <1>20 DEF OwnerReports, OwnerGoes
<1> QED
  BY <1>1, <1>2, <1>3, <1>4, <1>5, <1>6, <1>7, <1>8, <1>9, <1>10, <1>11, <1>12, <1>13, <1>14, <1>15, <1>16, <1>17, <1>18, <1>19, <1>20 DEF Step, Runs

\* IInv is inductive.
LEMMA IInvPreserved == IInv /\ [Next]_vars => IInv'
<1> SUFFICES ASSUME IInv, [Next]_vars PROVE IInv'
  OBVIOUS
<1>1. CASE Next
  <2>1. PICK i \in Ids : ~halted /\ Step(i)
    BY <1>1 DEF Next, Step
  <2> QED
    BY <2>1, TypePreserved, PlacesPreserved DEF IInv
<1>2. CASE UNCHANGED vars
  <2>1. TypeOK'
    BY <1>2 DEF IInv, TypeOK, vars
  <2>2. ASSUME NEW j \in Ids
        PROVE  Started(j)' /\ InOnePlace(j)'
    BY <1>2 DEF IInv, Started, InOnePlace, vars
  <2> QED
    BY <2>1, <2>2 DEF IInv
<1> QED
  BY <1>1, <1>2

\* The invariant holds in every reachable state.
THEOREM Inductive == Spec => []IInv
<1>1. Init => IInv
  BY InitIInv
<1>2. IInv /\ [Next]_vars => IInv'
  BY IInvPreserved
<1> QED
  BY <1>1, <1>2, PTL DEF Spec

\* However many threads are spawned, the ThreadInit box of each passes to its
\* worker exactly when Thread.start succeeded and is freed by Thread::new
\* exactly when spawn returned 0.
THEOREM BoxesAreConsumedOnce == Spec => []BoxConsumedOnce
<1>1. IInv => BoxConsumedOnce
  BY DEF IInv, Started, BoxConsumedOnce
<1> QED
  BY <1>1, Inductive, PTL

-----------------------------------------------------------------------------
(* The refinement                                                          *)

\* The state of ThreadContract that the state of thread i stands for.
BodyOf(i) ==
    IF worker[i] \in {"new", "running"}
    THEN IF worker[i] = "new" THEN "none" ELSE "running"
    ELSE IF threw[i] THEN "threw" ELSE "returned"
HandleOf(i) ==
    IF worker[i] = "new" THEN "none"
    ELSE IF owner[i] = "owned" THEN "held" ELSE "released"
DeliveredOf(i) == rethrown[i] + reported[i]

\* The initial states are initial states of the contract.
LEMMA InitRefines == Init => Contract!Init
BY DEF Init, Contract!Init

\* A step of i changes nothing of the other threads that the contract sees.
LEMMA OthersFramed ==
    ASSUME TypeOK, NEW i \in Ids, Step(i), NEW j \in Ids \ {i}
    PROVE  /\ BodyOf(j)' = BodyOf(j)
           /\ HandleOf(j)' = HandleOf(j)
           /\ DeliveredOf(j)' = DeliveredOf(j)
<1>1. /\ worker'[j] = worker[j] /\ threw'[j] = threw[j] /\ owner'[j] = owner[j]
      /\ rethrown'[j] = rethrown[j] /\ reported'[j] = reported[j]
  BY DEF TypeOK, Step, Runs, OwnerGoes, WorkerGoes, ghosts, record, Spawn, SpawnThrows,
     Register, Start, StartFails, StartOverflows, DropBox, BodyReturns, BodyThrows, BodyOverflows, RecordFailure,
     WorkerReports, Terminate, Join, InterruptJoin, JoinReturns, Drop, Detach,
     TakeFailure, OwnerReports
<1> QED
  BY <1>1 DEF BodyOf, HandleOf, DeliveredOf

\* A step of the threads is a step of the contract, or leaves it unchanged.
LEMMA StepRefines ==
    ASSUME IInv, NEW i \in Ids, Step(i)
    PROVE  Contract!Next \/ UNCHANGED Contract!vars
<1> USE DEF TypeOK, OwnerStates, WorkerStates, ghosts, record
<1>0. TypeOK /\ Started(i) /\ InOnePlace(i)
  BY DEF IInv
<1>f. \A j \in Ids \ {i} : /\ BodyOf(j)' = BodyOf(j)
                           /\ HandleOf(j)' = HandleOf(j)
                           /\ DeliveredOf(j)' = DeliveredOf(j)
  BY <1>0, OthersFramed
<1>1. CASE Start(i)
  <2>1. /\ BodyOf(i) = "none" /\ BodyOf(i)' = "running"
        /\ HandleOf(i) = "none" /\ HandleOf(i)' = "held"
        /\ DeliveredOf(i)' = DeliveredOf(i)
    BY <1>0, <1>1 DEF Start, OwnerGoes, WorkerGoes, BodyOf, HandleOf, DeliveredOf
  <2>2. Contract!Start(i)
    BY <1>f, <2>1 DEF Contract!Start, BodyOf, HandleOf, DeliveredOf
  <2> QED
    BY <2>2 DEF Contract!Next
<1>2. CASE BodyReturns(i) \/ BodyThrows(i)
  <2>1. /\ BodyOf(i) = "running" /\ BodyOf(i)' \in {"returned", "threw"}
        /\ HandleOf(i)' = HandleOf(i)
        /\ DeliveredOf(i)' = DeliveredOf(i)
    BY <1>0, <1>2 DEF BodyReturns, BodyThrows, WorkerGoes, BodyOf, HandleOf, DeliveredOf
  <2>2. PICK how \in {"returned", "threw"} : BodyOf(i)' = how
    BY <2>1
  <2>3. [j \in Ids |-> BodyOf(j)]' = [[j \in Ids |-> BodyOf(j)] EXCEPT ![i] = how]
    BY <1>f, <2>2
  <2>4. [j \in Ids |-> HandleOf(j)]' = [j \in Ids |-> HandleOf(j)]
    BY <1>f, <2>1
  <2>5. [j \in Ids |-> DeliveredOf(j)]' = [j \in Ids |-> DeliveredOf(j)]
    BY <1>f, <2>1
  <2>6. Contract!End(i)
    BY <2>1, <2>3, <2>4, <2>5 DEF Contract!End, BodyOf, HandleOf, DeliveredOf
  <2> QED
    BY <2>6 DEF Contract!Next
<1>3. CASE Join(i) \/ Drop(i)
  <2>1. /\ HandleOf(i) = "held" /\ HandleOf(i)' = "released"
        /\ BodyOf(i)' = BodyOf(i)
        /\ DeliveredOf(i)' = DeliveredOf(i)
    BY <1>0, <1>3 DEF Join, Drop, OwnerGoes, Started, Unstarted, BodyOf, HandleOf, DeliveredOf
  <2>2. Contract!Release(i)
    BY <1>f, <2>1 DEF Contract!Release, BodyOf, HandleOf, DeliveredOf
  <2> QED
    BY <2>2 DEF Contract!Next
<1>4. CASE (JoinReturns(i) /\ failure[i]) \/ WorkerReports(i) \/ OwnerReports(i)
  <2>1. /\ BodyOf(i) = "threw" /\ HandleOf(i) = "released"
        /\ DeliveredOf(i) = 0 /\ DeliveredOf(i)' = 1
        /\ BodyOf(i)' = BodyOf(i) /\ HandleOf(i)' = HandleOf(i)
    <3>1. CASE JoinReturns(i) /\ failure[i]
      BY <1>0, <3>1 DEF JoinReturns, OwnerGoes, Joinable, InOnePlace, BodyOf, HandleOf,
         DeliveredOf
    <3>2. CASE WorkerReports(i)
      BY <1>0, <3>2 DEF WorkerReports, WorkerGoes, InOnePlace, BodyOf, HandleOf, DeliveredOf
    <3>3. CASE OwnerReports(i)
      BY <1>0, <3>3 DEF OwnerReports, OwnerGoes, InOnePlace, BodyOf, HandleOf, DeliveredOf
    <3> QED
      BY <1>4, <3>1, <3>2, <3>3
  <2>2. Contract!Deliver(i)
    BY <1>f, <2>1, ZenonT(60) DEF Contract!Deliver, BodyOf, HandleOf, DeliveredOf
  <2> QED
    BY <2>2 DEF Contract!Next
<1>5. CASE JoinReturns(i) /\ ~failure[i]
  BY <1>0, <1>5 DEF JoinReturns, OwnerGoes, Contract!vars
<1>6. CASE Spawn(i) \/ Register(i) \/ StartFails(i) \/ DropBox(i)
  BY <1>0, <1>6 DEF Spawn, Register, StartFails, DropBox, OwnerGoes, Started, Unstarted,
     Contract!vars
<1>7. CASE BodyOverflows(i) \/ RecordFailure(i) \/ Terminate(i)
  BY <1>0, <1>7 DEF BodyOverflows, RecordFailure, Terminate, WorkerGoes, Contract!vars
<1>8. CASE InterruptJoin(i) \/ Detach(i) \/ TakeFailure(i)
  BY <1>0, <1>8 DEF InterruptJoin, Detach, TakeFailure, OwnerGoes, Contract!vars
<1>9. CASE SpawnThrows(i) \/ StartOverflows(i)
  BY <1>0, <1>9 DEF SpawnThrows, StartOverflows, OwnerGoes, Started, Unstarted, Contract!vars
<1> QED
  BY <1>1, <1>2, <1>3, <1>4, <1>5, <1>6, <1>7, <1>8, <1>9 DEF Step, Runs

\* Threads implements ThreadContract: each body runs at most once, its handle
\* is released once, and the throwable that ended it reaches join or
\* reportUncaughtFailure at most once, and only after the handle is released.
THEOREM Refinement == Spec => ImplementsContract
<1>1. Init => Contract!Init
  BY InitRefines
<1>2. IInv /\ [Next]_vars => [Contract!Next]_(Contract!vars)
  <2>1. ASSUME IInv, Next
        PROVE  Contract!Next \/ UNCHANGED Contract!vars
    <3>1. PICK i \in Ids : Step(i)
      BY <2>1 DEF Next, Step
    <3> QED
      BY <2>1, <3>1, StepRefines
  <2>2. ASSUME UNCHANGED vars
        PROVE  UNCHANGED Contract!vars
    BY <2>2 DEF vars, Contract!vars
  <2> QED
    BY <2>1, <2>2
<1> QED
  BY <1>1, <1>2, Inductive, PTL DEF Spec, ImplementsContract, Contract!Spec
=============================================================================

------------------------ MODULE IdentityFilterProofs ------------------------
(***************************************************************************)
(* Proofs about IdentityFilter, for any threads, keys, arrays and calls    *)
(* and each way of inserting: a lookup never misses an entry that was      *)
(* there, unless a rebuild overtook its insertion.                         *)
(***************************************************************************)
EXTENDS IdentityFilter, TLAPS

PCs == {"idle", "mark", "secondary", "put", "remark", "resecondary", "test", "cas", "scan",
        "publish", "drop", "reset", "release", "look", "look2", "missed", "hit", "writeback", "reput"}

TypeOK ==
    /\ protocol \in {"twice", "locked", "once"}
    /\ primary \in Arrays /\ secondary \in Arrays \cup {None} /\ arrays \in Nat
    /\ bits \in [Arrays -> SUBSET Keys]
    /\ pc \in [Threads -> PCs]
    /\ key \in [Threads -> Keys]
    /\ seen \in [Threads -> Arrays]
    /\ todo \in [Threads -> SUBSET Keys]

GhostTypes ==
    /\ overtaken \in [Threads -> BOOLEAN]
    /\ expects \in [Threads -> BOOLEAN]
    /\ committing \in [Threads -> BOOLEAN]

\* Between the compareAndSet and the release of rebuilding.
InRebuild == {"scan", "publish", "drop", "reset", "release"}

\* There is one rebuild at a time; until it is over its new array is secondary.
OneRebuild ==
    \A t \in Threads :
        /\ pc[t] \in InRebuild => rebuilding
        /\ pc[t] \in {"scan", "publish"} => secondary # None
        /\ \A u \in Threads : pc[t] \in InRebuild /\ pc[u] \in InRebuild => t = u

\* k is marked where lookups look, and will be in the array of the rebuild:
\* it is marked there, or its stripe has still to be scanned.
Covered(k) ==
    /\ k \in bits[primary]
    /\ \A r \in Threads :
          /\ pc[r] = "scan" => k \in bits[secondary] \cup todo[r]
          /\ pc[r] = "publish" => k \in bits[secondary]

SettledCovered ==
    map \subseteq Keys /\ settled \subseteq map /\ \A k \in settled \ raced : Covered(k)

\* An insertion that was not overtaken: between its two marks primary is
\* still the array it marked, and then its key is covered.
InsertionCovered(t) ==
    ~overtaken[t] =>
        /\ pc[t] \in {"secondary", "resecondary"} =>
              seen[t] = primary /\ key[t] \in bits[primary]
        /\ pc[t] = "put" => Covered(key[t])

\* A commit that was not overtaken puts back a key that is covered.
InCommit == {"writeback", "look", "look2", "missed", "hit", "reput"}
CommitCovered(t) ==
    committing[t] \/ pc[t] \in {"writeback", "reput"} =>
        /\ committing[t] /\ pc[t] \in InCommit
        /\ overtaken[t] \/ key[t] \in raced \/ Covered(key[t])

\* What a lookup expects is there and covered, so it finds it at once.
LookupCovered(t) ==
    expects[t] =>
        /\ pc[t] = "look" => key[t] \in map /\ Covered(key[t])
        /\ pc[t] \notin {"look2", "missed"}

IInv == /\ TypeOK /\ GhostTypes /\ OneRebuild /\ SettledCovered
        /\ \A t \in Threads : InsertionCovered(t) /\ CommitCovered(t) /\ LookupCovered(t)

-----------------------------------------------------------------------------
(* The steps, by what they do to the filter.                               *)

\* The winner of the compareAndSet.
Rebuilds(t) == StartRebuild(t) /\ ~rebuilding /\ arrays < MaxArrays

\* The steps that only mark, or leave the filter as it is.
Inserts(t) ==
    \/ \E k \in Keys : Insert(t, k)
    \/ Mark(t) \/ MarkEnds(t) \/ Put(t) \/ Remark(t) \/ RemarkEnds(t)
Looks(t) ==
    \/ \E k \in Keys : Lookup(t, k) \/ Commit(t, k)
    \/ LookPrimary(t) \/ LookSecondary(t) \/ Missed(t) \/ Use(t) \/ Remove(t)
    \/ WriteBack(t) \/ Reput(t)
Tests(t) ==
    Test(t) \/ (StartRebuild(t) /\ ~Rebuilds(t)) \/ ResetMarks(t) \/ ReleaseRebuild(t)

Step(t) ==
    \/ Inserts(t) \/ Looks(t) \/ Tests(t)
    \/ Rebuilds(t) \/ (\E k \in Keys : Scan(t, k)) \/ Publish(t) \/ DropSecondary(t)

\* Next is a step of one thread.
LEMMA StepCases == Next => \E t \in Threads : Step(t)
BY DEF Next, Step, Inserts, Looks, Tests

\* t goes on, by a step that is not part of a rebuild.
Moves(t) ==
    /\ pc[t] \notin {"scan", "publish", "drop"}
    /\ pc'[t] \in PCs \ {"scan", "publish", "drop"}
    /\ pc' = [pc EXCEPT ![t] = pc'[t]]

\* A step that only marks: no bit is cleared.
OnlyMarks(t) ==
    /\ UNCHANGED <<protocol, primary, secondary, arrays, todo>>
    /\ bits' \in [Arrays -> SUBSET Keys] /\ \A a \in Arrays : bits[a] \subseteq bits'[a]
    /\ Moves(t)

\* A step along an edge of the control flow.
LEMMA Moved ==
    ASSUME TypeOK, NEW t \in Threads, NEW from, NEW to, Goes(t, from, to),
           from \notin {"scan", "publish", "drop"}, to \in PCs \ {"scan", "publish", "drop"}
    PROVE  Moves(t) /\ pc[t] = from /\ pc'[t] = to /\ protocol' = protocol
BY DEF TypeOK, Goes, Moves

\* A key is marked in an array.
LEMMA Marked ==
    ASSUME TypeOK, NEW a \in Arrays, NEW k \in Keys, bits' = [bits EXCEPT ![a] = @ \cup {k}]
    PROVE  /\ bits' \in [Arrays -> SUBSET Keys] /\ k \in bits'[a]
           /\ \A b \in Arrays : bits[b] \subseteq bits'[b]
BY DEF TypeOK

\* markIdentityFilter, and all that is not part of a rebuild, only marks.
LEMMA MarksOnly ==
    ASSUME TypeOK, NEW t \in Threads, Inserts(t) \/ Looks(t) \/ Tests(t)
    PROVE  OnlyMarks(t)
<1>t. /\ primary \in Arrays /\ secondary \in Arrays \cup {None} /\ key[t] \in Keys
      /\ bits \in [Arrays -> SUBSET Keys]
  BY DEF TypeOK
<1>1. ASSUME MarkSecondary(t), UNCHANGED <<protocol, todo>>, Moves(t)
      PROVE  OnlyMarks(t)
  <2>1. CASE bits' = bits
    BY <1>1, <1>t, <2>1 DEF MarkSecondary, OnlyMarks
  <2>2. CASE bits' # bits
    <3>1. secondary \in Arrays /\ bits' = [bits EXCEPT ![secondary] = @ \cup {key[t]}]
      BY <1>1, <1>t, <2>2 DEF MarkSecondary
    <3> QED
      BY <1>1, <1>t, <3>1, Marked DEF MarkSecondary, OnlyMarks
  <2> QED
    BY <2>1, <2>2
<1>2. ASSUME NEW from \in {"mark", "remark"}, NEW to \in {"secondary", "resecondary"},
             MarkPrimary(t, from, to)
      PROVE  OnlyMarks(t)
  <2>1. Moves(t) /\ protocol' = protocol
    BY <1>2, Moved DEF MarkPrimary, PCs
  <2> QED
    BY <1>t, <1>2, <2>1, Marked DEF MarkPrimary, OnlyMarks
<1>3. CASE Mark(t) \/ Remark(t)
  BY <1>2, <1>3 DEF Mark, Remark
<1>4. CASE MarkEnds(t) \/ RemarkEnds(t)
  <2>1. Moves(t) /\ protocol' = protocol
    BY <1>4, Moved DEF MarkEnds, RemarkEnds, PCs
  <2>2. MarkSecondary(t) /\ todo' = todo
    BY <1>4 DEF MarkEnds, RemarkEnds, locals
  <2> QED
    BY <1>1, <2>1, <2>2
<1>s. ASSUME UNCHANGED <<protocol, primary, secondary, arrays, bits, todo>>, Moves(t)
      PROVE  OnlyMarks(t)
  BY <1>t, <1>s DEF OnlyMarks
<1>5. ASSUME NEW k \in Keys, Insert(t, k) \/ Lookup(t, k) \/ Commit(t, k)
      PROVE  OnlyMarks(t)
  <2>1. Moves(t) /\ protocol' = protocol
    BY <1>5, Moved DEF Insert, Lookup, Commit, Call, PCs
  <2>2. UNCHANGED <<primary, secondary, arrays, bits, todo>>
    BY <1>5 DEF Insert, Lookup, Commit, filter
  <2> QED
    BY <1>s, <2>1, <2>2
<1>6. CASE Put(t)
  <2>1. PICK to \in AfterPut : Goes(t, "put", to)
    BY <1>6 DEF Put
  <2>2. to \in {"remark", "test", "idle"}
    BY <2>1 DEF AfterPut, TypeOK
  <2>3. Moves(t) /\ protocol' = protocol
    BY <2>1, <2>2, Moved DEF PCs
  <2>4. UNCHANGED <<primary, secondary, arrays, bits, todo>>
    BY <1>6 DEF Put, filter, locals
  <2> QED
    BY <1>s, <2>3, <2>4
<1>7. CASE Tests(t)
  <2>1. Moves(t) /\ protocol' = protocol
    BY <1>7, Moved, ZenonT(60)
       DEF Tests, Rebuilds, Test, StartRebuild, ResetMarks, ReleaseRebuild, PCs
  <2>2. UNCHANGED <<primary, secondary, arrays, bits, todo>>
    BY <1>7, ZenonT(60)
       DEF Tests, Rebuilds, Test, StartRebuild, ResetMarks, ReleaseRebuild, filter, locals
  <2> QED
    BY <1>s, <2>1, <2>2
<1>8. CASE LookPrimary(t) \/ LookSecondary(t) \/ Missed(t) \/ Use(t) \/ Remove(t)
             \/ WriteBack(t) \/ Reput(t)
  <2>1. Moves(t) /\ protocol' = protocol
    BY <1>8, Moved, ZenonT(60)
       DEF LookPrimary, LookSecondary, Missed, Use, Remove, WriteBack, Reput, Resumes, PCs
  <2>2. UNCHANGED <<primary, secondary, arrays, bits, todo>>
    BY <1>8, ZenonT(60)
       DEF LookPrimary, LookSecondary, Missed, Use, Remove, WriteBack, Reput, filter, locals
  <2> QED
    BY <1>s, <2>1, <2>2
<1> QED
  BY <1>3, <1>4, <1>5, <1>6, <1>7, <1>8 DEF Inserts, Looks

\* What the steps of t do to the thread-local state.
LocalsTyped ==
    /\ key \in [Threads -> Keys] /\ seen \in [Threads -> Arrays]
    /\ GhostTypes

\* A thread changes its own variables only; it may overtake other insertions,
\* and what it removes nobody expects any more.
Framed(t) ==
    \A u \in Threads \ {t} :
        /\ key'[u] = key[u] /\ seen'[u] = seen[u] /\ committing'[u] = committing[u]
        /\ overtaken[u] => overtaken'[u]
        /\ expects'[u] => expects[u] /\ (key[u] \in map => key[u] \in map')

\* Every step keeps the types of the local variables, and the frame.
LEMMA LocalSteps ==
    ASSUME TypeOK, GhostTypes, NEW t \in Threads, Step(t)
    PROVE  LocalsTyped' /\ Framed(t)
<1> USE DEF LocalsTyped, GhostTypes, Framed
<1>t. /\ key \in [Threads -> Keys] /\ seen \in [Threads -> Arrays] /\ primary \in Arrays
      /\ overtaken \in [Threads -> BOOLEAN] /\ expects \in [Threads -> BOOLEAN]
      /\ committing \in [Threads -> BOOLEAN]
  BY DEF TypeOK
<1>0. ASSUME UNCHANGED <<key, seen, committing, overtaken, expects, map>>
      PROVE  LocalsTyped' /\ Framed(t)
  BY <1>t, <1>0
<1>1. ASSUME NEW k \in Keys, Insert(t, k)
      PROVE  LocalsTyped' /\ Framed(t)
  BY <1>t, <1>1 DEF Insert, Call
<1>2. ASSUME NEW k \in Keys, Lookup(t, k)
      PROVE  LocalsTyped' /\ Framed(t)
  BY <1>t, <1>2 DEF Lookup, Call, Expecting
<1>3. ASSUME NEW k \in Keys, Commit(t, k)
      PROVE  LocalsTyped' /\ Framed(t)
  BY <1>t, <1>3 DEF Commit, Call
<1>4. CASE Mark(t)
  BY <1>t, <1>4 DEF Mark, MarkPrimary
<1>5. CASE Remark(t)
  BY <1>t, <1>5 DEF Remark, MarkPrimary
<1>6. CASE Put(t) \/ RemarkEnds(t)
  BY <1>t, <1>6, ZenonT(60) DEF Put, RemarkEnds, locals
<1>7. CASE LookPrimary(t)
  BY <1>t, <1>7 DEF LookPrimary, ghosts
<1>8. CASE Remove(t)
  BY <1>t, <1>8, ZenonT(60) DEF Remove, locals
<1>9. CASE WriteBack(t)
  <2>1. CASE UNCHANGED <<locals, map, ghosts>>
    BY <1>0, <2>1 DEF locals, ghosts
  <2>2. CASE expects' = Expecting(t, key[t]) /\ UNCHANGED <<locals, map, overtaken>>
    BY <1>t, <2>2 DEF Expecting, locals
  <2> QED
    BY <1>9, <2>1, <2>2 DEF WriteBack
<1>10. CASE Reput(t)
  BY <1>t, <1>10 DEF Reput
<1>11. ASSUME NEW k \in Keys, Scan(t, k)
       PROVE  LocalsTyped' /\ Framed(t)
  BY <1>t, <1>11 DEF Scan, Overtakes
<1>12. CASE Publish(t)
  BY <1>t, <1>12 DEF Publish, Overtakes, locals
<1>13. CASE MarkEnds(t) \/ LookSecondary(t) \/ Missed(t) \/ Use(t) \/ Tests(t) \/ DropSecondary(t)
  <2>1. UNCHANGED <<key, seen, committing, overtaken, expects, map>>
    BY <1>13 DEF MarkEnds, LookSecondary, Missed, Use, Tests, Rebuilds, Test, StartRebuild,
       ResetMarks, ReleaseRebuild, DropSecondary, locals, ghosts
  <2> QED
    BY <1>0, <2>1, ZenonT(60)
<1>14. CASE Rebuilds(t)
  <2>1. UNCHANGED <<key, seen, committing, overtaken, expects, map>>
    BY <1>14 DEF Rebuilds, StartRebuild, ghosts
  <2> QED
    BY <1>0, <2>1
<1> QED
  BY <1>1, <1>2, <1>3, <1>4, <1>5, <1>6, <1>7, <1>8, <1>9, <1>10, <1>11, <1>12, <1>13, <1>14, ZenonT(60)
  DEF Step, Inserts, Looks

-----------------------------------------------------------------------------
(* Rebuilds.                                                               *)

\* The winner takes an array that nobody uses yet.
LEMMA RebuildBegins ==
    ASSUME TypeOK, NEW t \in Threads, Rebuilds(t)
    PROVE  /\ secondary' = arrays + 1 /\ arrays' = arrays + 1 /\ arrays + 1 \in Arrays
           /\ rebuilding' = TRUE /\ ~rebuilding
           /\ UNCHANGED <<protocol, primary, bits>>
           /\ todo' = [todo EXCEPT ![t] = Keys]
           /\ pc[t] = "cas" /\ pc' = [pc EXCEPT ![t] = "scan"]
BY FilterAssumption DEF TypeOK, Rebuilds, StartRebuild, Goes, Arrays

\* markLiveKeys puts a live key into the new array, and no other.
LEMMA ScanMarks ==
    ASSUME TypeOK, OneRebuild, NEW t \in Threads, NEW k \in Keys, Scan(t, k)
    PROVE  /\ UNCHANGED <<protocol, primary, secondary, arrays, rebuilding>>
           /\ secondary \in Arrays
           /\ bits' \in [Arrays -> SUBSET Keys] /\ \A a \in Arrays : bits[a] \subseteq bits'[a]
           /\ k \in map => k \in bits'[secondary]
           /\ todo' = [todo EXCEPT ![t] = todo[t] \ {k}]
           /\ pc[t] = "scan" /\ pc'[t] \in {"scan", "publish"} /\ pc' = [pc EXCEPT ![t] = pc'[t]]
           /\ pc'[t] = "publish" => todo[t] = {k}
<1>1. /\ pc[t] = "scan" /\ todo' = [todo EXCEPT ![t] = todo[t] \ {k}]
      /\ pc' = [pc EXCEPT ![t] = IF todo[t] = {k} THEN "publish" ELSE "scan"]
      /\ UNCHANGED <<protocol, primary, secondary, arrays, rebuilding>>
  BY DEF Scan, Goes
<1>2. /\ pc'[t] \in {"scan", "publish"} /\ pc' = [pc EXCEPT ![t] = pc'[t]]
      /\ pc'[t] = "publish" => todo[t] = {k}
  BY <1>1 DEF TypeOK
<1>3. secondary \in Arrays
  BY <1>1 DEF TypeOK, OneRebuild
<1>4. CASE k \in map
  <2>1. bits' = [bits EXCEPT ![secondary] = @ \cup {k}]
    BY <1>4 DEF Scan
  <2> QED
    BY <1>1, <1>2, <1>3, <2>1, Marked, ZenonT(60)
<1>5. CASE k \notin map
  <2>1. bits' = bits
    BY <1>5 DEF Scan
  <2> QED
    BY <1>1, <1>2, <1>3, <1>5, <2>1 DEF TypeOK
<1> QED
  BY <1>4, <1>5

\* Every step keeps the types.
LEMMA TypePreserved ==
    ASSUME TypeOK, GhostTypes, OneRebuild, NEW t \in Threads, Step(t)
    PROVE  TypeOK' /\ GhostTypes'
<1>1. LocalsTyped'
  BY LocalSteps
<1>2. ASSUME OnlyMarks(t) PROVE TypeOK'
  BY <1>1, <1>2 DEF OnlyMarks, Moves, TypeOK, LocalsTyped
<1>3. ASSUME Rebuilds(t) PROVE TypeOK'
  <2>1. pc' \in [Threads -> PCs] /\ todo' \in [Threads -> SUBSET Keys]
    <3>1. pc' = [pc EXCEPT ![t] = "scan"] /\ todo' = [todo EXCEPT ![t] = Keys]
      BY <1>3, RebuildBegins, ZenonT(60)
    <3>2. pc \in [Threads -> PCs] /\ todo \in [Threads -> SUBSET Keys] /\ "scan" \in PCs
      BY DEF TypeOK, PCs
    <3>3. Keys \in SUBSET Keys
      OBVIOUS
    <3> QED
      BY <3>1, <3>2, <3>3
  <2>2. secondary' \in Arrays /\ arrays' \in Nat
    <3>1. secondary' = arrays + 1 /\ arrays' = arrays + 1 /\ arrays + 1 \in Arrays
      BY <1>3, RebuildBegins, ZenonT(60)
    <3>2. arrays \in Nat
      BY DEF TypeOK
    <3> QED
      BY <3>1, <3>2
  <2>3. UNCHANGED <<protocol, primary, bits>>
    BY <1>3, RebuildBegins, ZenonT(60)
  <2> QED
    BY <1>1, <2>1, <2>2, <2>3 DEF TypeOK, LocalsTyped
<1>4. ASSUME NEW k \in Keys, Scan(t, k) PROVE TypeOK'
  BY <1>1, <1>4, ScanMarks DEF TypeOK, LocalsTyped, PCs
<1>5. CASE Publish(t)
  <2>1. secondary \in Arrays
    BY <1>5 DEF Publish, Goes, TypeOK, OneRebuild
  <2> QED
    BY <1>1, <1>5, <2>1 DEF Publish, Goes, TypeOK, LocalsTyped, PCs, locals
<1>6. CASE DropSecondary(t)
  BY <1>1, <1>6 DEF DropSecondary, Goes, TypeOK, LocalsTyped, PCs, locals
<1> QED
  BY <1>1, <1>2, <1>3, <1>4, <1>5, <1>6, MarksOnly DEF Step, LocalsTyped

\* rebuilding, taken by compareAndSet, lets one thread rebuild at a time.
LEMMA OneRebuildPreserved ==
    ASSUME TypeOK, OneRebuild, NEW t \in Threads, Step(t)
    PROVE  OneRebuild'
<1> USE DEF InRebuild
<1>t. pc \in [Threads -> PCs]
  BY DEF TypeOK
<1>1. ASSUME pc'[t] \in PCs, pc' = [pc EXCEPT ![t] = pc'[t]],
             rebuilding' = rebuilding, pc'[t] \in InRebuild => pc[t] \in InRebuild,
             pc'[t] \in {"scan", "publish"} => secondary' # None,
             \A u \in Threads \ {t} : pc[u] \in {"scan", "publish"} => secondary' # None
      PROVE  OneRebuild'
  BY <1>t, <1>1 DEF OneRebuild
<1>2. ASSUME OnlyMarks(t), rebuilding' = rebuilding, pc'[t] \in InRebuild => pc[t] \in InRebuild
      PROVE  OneRebuild'
  BY <1>1, <1>2 DEF OnlyMarks, Moves, OneRebuild
<1>3. CASE Inserts(t) \/ Looks(t)
  <2>1. rebuilding' = rebuilding
    BY <1>3, ZenonT(60) DEF Inserts, Looks, Insert, Mark, MarkPrimary, MarkEnds, MarkSecondary, Put, Remark,
       RemarkEnds, Lookup, Commit, LookPrimary, LookSecondary, Missed, Use, Remove, WriteBack,
       Reput, filter
  <2>2. pc'[t] \notin InRebuild
    <3>1. ASSUME NEW from, NEW to, Goes(t, from, to) PROVE pc'[t] = to
      BY <1>t, <3>1 DEF Goes
    <3>2. AfterPut \subseteq {"remark", "test", "idle"}
      BY ZenonT(60) DEF AfterPut, TypeOK
    <3>3. CASE Inserts(t)
      BY <3>1, <3>2, <3>3, ZenonT(60)
         DEF Inserts, Insert, Call, Mark, MarkPrimary, MarkEnds, Put, Remark, RemarkEnds
    <3>4. CASE Looks(t)
      BY <3>1, <3>4, ZenonT(60) DEF Looks, Lookup, Commit, Call, LookPrimary, LookSecondary, Missed, Use, Remove,
         WriteBack, Reput, Resumes
    <3> QED
      BY <1>3, <3>3, <3>4
  <2> QED
    BY <1>2, <1>3, <2>1, <2>2, MarksOnly, ZenonT(60)
<1>4. CASE Test(t) \/ ResetMarks(t) \/ (StartRebuild(t) /\ ~Rebuilds(t))
  <2>1. rebuilding' = rebuilding /\ (pc'[t] \in InRebuild => pc[t] \in InRebuild)
    BY <1>t, <1>4, ZenonT(60) DEF Test, ResetMarks, StartRebuild, Rebuilds, filter, Goes
  <2> QED
    BY <1>2, <1>4, <2>1, MarksOnly, ZenonT(60) DEF Tests
<1>5. CASE ReleaseRebuild(t)
  <2>1. pc[t] = "release" /\ pc' = [pc EXCEPT ![t] = "idle"] /\ secondary' = secondary
    BY <1>5 DEF ReleaseRebuild, Goes
  <2>2. \A u \in Threads : pc'[u] \notin InRebuild
    BY <1>t, <2>1 DEF OneRebuild
  <2> QED
    BY <2>2 DEF OneRebuild
<1>6. CASE Rebuilds(t)
  <2>1. /\ secondary' \in Arrays /\ rebuilding' = TRUE /\ ~rebuilding
        /\ pc' = [pc EXCEPT ![t] = "scan"]
    BY <1>6, RebuildBegins, ZenonT(60)
  <2>2. \A u \in Threads : pc[u] \notin InRebuild
    BY <2>1 DEF OneRebuild
  <2>3. \A u \in Threads : pc'[u] \in InRebuild => u = t
    BY <1>t, <2>1, <2>2
  <2> QED
    BY <2>1, <2>3, FilterAssumption DEF OneRebuild
<1>7. ASSUME NEW k \in Keys, Scan(t, k) PROVE OneRebuild'
  <2>1. /\ pc[t] = "scan" /\ pc'[t] \in {"scan", "publish"} /\ pc' = [pc EXCEPT ![t] = pc'[t]]
        /\ UNCHANGED <<secondary, rebuilding>>
    BY <1>7, ScanMarks
  <2> QED
    BY <1>1, <2>1, ZenonT(60) DEF OneRebuild, PCs
<1>8. CASE Publish(t)
  <2>1. /\ pc[t] = "publish" /\ pc' = [pc EXCEPT ![t] = "drop"]
        /\ UNCHANGED <<secondary, rebuilding>>
    BY <1>8 DEF Publish, Goes
  <2> QED
    BY <1>t, <1>1, <2>1 DEF OneRebuild, PCs
<1>9. CASE DropSecondary(t)
  <2>1. pc[t] = "drop" /\ pc' = [pc EXCEPT ![t] = "reset"] /\ rebuilding' = rebuilding
    BY <1>9 DEF DropSecondary, Goes
  <2>2. \A u \in Threads \ {t} : pc[u] \notin {"scan", "publish"}
    BY <2>1 DEF OneRebuild
  <2> QED
    BY <1>t, <1>1, <2>1, <2>2 DEF PCs
<1> QED
  BY <1>3, <1>4, <1>5, <1>6, <1>7, <1>8, <1>9 DEF Step, Tests

-----------------------------------------------------------------------------
(* What is covered stays covered.                                          *)

\* A covered key stays covered, unless the rebuild passes its stripe while
\* the key has no entry.
LEMMA CoveredStays ==
    ASSUME TypeOK, OneRebuild, NEW t \in Threads, Step(t), NEW k \in Keys, Covered(k),
           Scan(t, k) => k \in map
    PROVE  Covered(k)'
<1>t. /\ pc \in [Threads -> PCs] /\ primary \in Arrays /\ secondary \in Arrays \cup {None}
      /\ todo \in [Threads -> SUBSET Keys] /\ k \in bits[primary]
  BY DEF TypeOK, Covered
<1>s. \A r \in Threads : pc[r] \in {"scan", "publish"} => secondary \in Arrays
  BY <1>t DEF OneRebuild
<1>c. \A r \in Threads : /\ pc[r] = "scan" => k \in bits[secondary] \cup todo[r]
                         /\ pc[r] = "publish" => k \in bits[secondary]
  BY ZenonT(60) DEF Covered
<1>1. ASSUME OnlyMarks(t) PROVE Covered(k)'
  <2>1. /\ UNCHANGED <<primary, secondary, todo>>
        /\ \A a \in Arrays : bits[a] \subseteq bits'[a]
        /\ \A r \in Threads : pc'[r] \in {"scan", "publish"} => pc'[r] = pc[r]
    BY <1>t, <1>1, ZenonT(60) DEF OnlyMarks, Moves
  <2> QED
    BY <1>t, <1>s, <1>c, <2>1, ZenonT(60) DEF Covered
<1>2. CASE Rebuilds(t)
  <2>1. /\ UNCHANGED <<primary, bits>> /\ todo' = [todo EXCEPT ![t] = Keys]
        /\ pc' = [pc EXCEPT ![t] = "scan"] /\ ~rebuilding
    BY <1>2, RebuildBegins, ZenonT(60)
  <2>2. \A r \in Threads \ {t} : pc'[r] \notin {"scan", "publish"}
    BY <1>t, <2>1 DEF OneRebuild, InRebuild
  <2>3. pc'[t] = "scan" /\ todo'[t] = Keys
    BY <1>t, <2>1, ZenonT(60)
  <2> QED
    BY <1>t, <2>1, <2>2, <2>3 DEF Covered
<1>3. ASSUME NEW j \in Keys, Scan(t, j) PROVE Covered(k)'
  <2>1. /\ UNCHANGED <<primary, secondary>> /\ secondary \in Arrays
        /\ \A a \in Arrays : bits[a] \subseteq bits'[a]
        /\ j \in map => j \in bits'[secondary]
        /\ todo' = [todo EXCEPT ![t] = todo[t] \ {j}]
        /\ pc[t] = "scan" /\ pc'[t] \in {"scan", "publish"} /\ pc' = [pc EXCEPT ![t] = pc'[t]]
        /\ pc'[t] = "publish" => todo[t] = {j}
    BY <1>3, ScanMarks, ZenonT(60)
  <2>2. \A r \in Threads \ {t} : pc'[r] \notin {"scan", "publish"}
    BY <1>t, <2>1, ZenonT(60) DEF OneRebuild, InRebuild
  <2>3. k \in bits[secondary] \cup todo[t]
    BY <1>c, <2>1, ZenonT(60)
  <2>4. k \in bits'[secondary] \/ (k \in todo[t] /\ k # j)
    BY <1>3, <2>1, <2>3, ZenonT(60)
  <2>5. todo'[t] = todo[t] \ {j}
    BY <1>t, <2>1, ZenonT(60)
  <2>6. pc'[t] = "publish" => k \in bits'[secondary]
    BY <2>1, <2>4, ZenonT(60)
  <2> QED
    BY <1>t, <2>1, <2>2, <2>4, <2>5, <2>6 DEF Covered
<1>4. CASE Publish(t)
  <2>1. /\ pc[t] = "publish" /\ pc' = [pc EXCEPT ![t] = "drop"]
        /\ primary' = secondary /\ bits' = bits
    BY <1>4, ZenonT(60) DEF Publish, Goes
  <2>2. \A r \in Threads : pc'[r] \notin {"scan", "publish"}
    BY <1>t, <2>1, ZenonT(60) DEF OneRebuild, InRebuild
  <2> QED
    BY <1>c, <2>1, <2>2 DEF Covered
<1>5. CASE DropSecondary(t)
  <2>1. pc[t] = "drop" /\ pc' = [pc EXCEPT ![t] = "reset"] /\ UNCHANGED <<primary, bits>>
    BY <1>5, ZenonT(60) DEF DropSecondary, Goes
  <2>2. \A r \in Threads : pc'[r] \notin {"scan", "publish"}
    BY <1>t, <2>1, ZenonT(60) DEF OneRebuild, InRebuild
  <2> QED
    BY <1>t, <2>1, <2>2 DEF Covered
<1> QED
  BY <1>1, <1>2, <1>3, <1>4, <1>5, MarksOnly DEF Step

\* An insertion that was not overtaken, and has marked both arrays, covers
\* its key.
LEMMA SecondMarkCovers ==
    ASSUME TypeOK, OneRebuild, NEW t \in Threads, MarkSecondary(t), OnlyMarks(t),
           seen[t] = primary, key[t] \in bits[primary], NEW k \in Keys, k = key[t]
    PROVE  Covered(k)'
<1>1. /\ UNCHANGED <<primary, secondary>> /\ primary \in Arrays /\ key[t] \in Keys
      /\ bits \in [Arrays -> SUBSET Keys] /\ secondary \in Arrays \cup {None}
      /\ \A a \in Arrays : bits[a] \subseteq bits'[a]
  BY DEF OnlyMarks, TypeOK
<1>2. ASSUME NEW r \in Threads, pc'[r] \in {"scan", "publish"}
      PROVE  key[t] \in bits'[secondary]
  <2>1. pc[r] \in {"scan", "publish"}
    BY <1>2, ZenonT(60) DEF OnlyMarks, Moves, TypeOK
  <2>2. secondary \in Arrays /\ secondary # None
    BY <1>1, <2>1 DEF OneRebuild
  <2>3. CASE secondary = seen[t]
    BY <1>1, <2>2, <2>3
  <2>4. CASE secondary # seen[t]
    <3>1. bits' = [bits EXCEPT ![secondary] = @ \cup {key[t]}]
      BY <2>2, <2>4 DEF MarkSecondary
    <3> QED
      BY <1>1, <2>2, <3>1
  <2> QED
    BY <2>3, <2>4
<1>3. key[t] \in bits'[primary]
  BY <1>1, ZenonT(60)
<1> QED
  BY <1>1, <1>2, <1>3 DEF Covered

-----------------------------------------------------------------------------
(* The invariant is inductive.                                             *)

\* An insertion that ends, and was not overtaken, has covered its key.
LEMMA SettleCovers ==
    ASSUME IInv, NEW t \in Threads, Step(t), ~overtaken[t], NEW k \in Keys, k = key[t],
           (Put(t) /\ pc[t] = "put") \/ (RemarkEnds(t) /\ pc[t] = "resecondary")
    PROVE  Covered(k)'
<1>0. TypeOK /\ OneRebuild /\ InsertionCovered(t)
  BY DEF IInv
<1>1. CASE Put(t) /\ pc[t] = "put"
  <2>1. Covered(k)
    BY <1>0, <1>1, ZenonT(60) DEF InsertionCovered
  <2>2. ~Scan(t, k)
    BY <1>1 DEF Scan, Goes
  <2> QED
    BY <1>0, <2>1, <2>2, CoveredStays, ZenonT(60)
<1>2. CASE RemarkEnds(t) /\ pc[t] = "resecondary"
  <2>1. seen[t] = primary /\ key[t] \in bits[primary]
    BY <1>0, <1>2, ZenonT(60) DEF InsertionCovered
  <2>2. MarkSecondary(t)
    BY <1>2, ZenonT(60) DEF RemarkEnds
  <2>3. OnlyMarks(t)
    BY <1>0, <1>2, MarksOnly DEF Inserts
  <2> QED
    BY <1>0, <2>1, <2>2, <2>3, SecondMarkCovers
<1> QED
  BY <1>1, <1>2, ZenonT(60)

\* The steps that leave the map, settled and raced alone.
LEMMA MapFramed ==
    ASSUME NEW t \in Threads, Step(t), ~Put(t), ~RemarkEnds(t), ~Remove(t), ~Reput(t)
    PROVE  UNCHANGED <<map, settled, raced>>
<1>1. CASE Inserts(t)
  BY <1>1, ZenonT(60) DEF Inserts, Insert, Mark, MarkPrimary, MarkEnds, Remark, ghosts
<1>2. CASE Looks(t)
  BY <1>2, ZenonT(60)
     DEF Looks, Lookup, Commit, LookPrimary, LookSecondary, Missed, Use, WriteBack, ghosts
<1>3. CASE Tests(t) \/ Rebuilds(t)
  BY <1>3, ZenonT(60) DEF Tests, Rebuilds, Test, StartRebuild, ResetMarks, ReleaseRebuild, ghosts
<1>4. CASE Publish(t) \/ DropSecondary(t) \/ \E k \in Keys : Scan(t, k)
  BY <1>4, ZenonT(60) DEF Publish, DropSecondary, Scan, ghosts
<1> QED
  BY <1>1, <1>2, <1>3, <1>4, ZenonT(60) DEF Step

\* The end of an insertion.
LEMMA SettleSteps ==
    ASSUME NEW t \in Threads, Put(t) \/ RemarkEnds(t)
    PROVE  /\ (Put(t) /\ pc[t] = "put") \/ (RemarkEnds(t) /\ pc[t] = "resecondary")
           /\ key' = key /\ map \subseteq map' /\ map' \subseteq map \cup {key[t]}
           /\ Settle(t) \/ UNCHANGED <<settled, raced>>
BY DEF Put, RemarkEnds, Goes, locals

\* A key stops being raced only when it is covered.
LEMMA RacedUntilCovered ==
    ASSUME IInv, NEW t \in Threads, Step(t), NEW k \in Keys, k \in raced, k \notin raced'
    PROVE  Covered(k)'
<1>1. CASE Put(t) \/ RemarkEnds(t)
  <2>1. k = key[t] /\ ~overtaken[t]
    BY <1>1, SettleSteps, ZenonT(60) DEF Settle
  <2> QED
    BY <1>1, <2>1, SettleSteps, SettleCovers, ZenonT(60)
<1>2. CASE Remove(t) \/ Reput(t)
  BY <1>2, ZenonT(60) DEF Remove, Reput
<1> QED
  BY <1>1, <1>2, MapFramed, ZenonT(60)

\* Every settled key stays covered while it is not raced.
LEMMA SettledPreserved ==
    ASSUME IInv, NEW t \in Threads, Step(t)
    PROVE  SettledCovered'
<1>0. /\ TypeOK /\ OneRebuild /\ key[t] \in Keys /\ CommitCovered(t)
      /\ map \subseteq Keys /\ settled \subseteq map /\ \A k \in settled \ raced : Covered(k)
  BY DEF IInv, TypeOK, SettledCovered
<1>1. ASSUME NEW k \in settled \ raced PROVE Covered(k)'
  BY <1>0, <1>1, CoveredStays
<1>2. \A k \in settled : k \notin raced' => Covered(k)'
  BY <1>0, <1>1, RacedUntilCovered
<1>3. CASE Put(t) \/ RemarkEnds(t)
  <2>1. /\ key' = key /\ map \subseteq map' /\ map' \subseteq map \cup {key[t]}
        /\ Settle(t) \/ UNCHANGED <<settled, raced>>
    BY <1>3, SettleSteps, ZenonT(60)
  <2>2. settled' \subseteq map' /\ map' \subseteq Keys
    BY <1>0, <2>1, ZenonT(60) DEF Settle
  <2>3. ASSUME NEW k \in settled', k \notin raced', k \notin settled
        PROVE  Covered(k)'
    <3>1. k = key[t] /\ ~overtaken[t]
      BY <2>1, <2>3 DEF Settle
    <3> QED
      BY <1>0, <1>3, <3>1, SettleSteps, SettleCovers, ZenonT(60)
  <2> QED
    BY <1>2, <2>2, <2>3 DEF SettledCovered
<1>4. CASE Remove(t)
  <2>1. settled' \subseteq settled /\ settled' \subseteq map' /\ map' \subseteq Keys
    BY <1>0, <1>4, ZenonT(60) DEF Remove
  <2> QED
    BY <1>2, <2>1, ZenonT(60) DEF SettledCovered
<1>5. CASE Reput(t)
  <2>1. /\ map' = map \cup {key[t]} /\ settled' = settled \cup {key[t]}
        /\ raced' = IF overtaken[t] THEN raced \cup {key[t]} ELSE raced
        /\ ~Scan(t, key[t]) /\ pc[t] = "reput"
    BY <1>5, ZenonT(60) DEF Reput, Scan, Goes
  <2>2. ASSUME key[t] \notin raced' PROVE \A k \in Keys : k = key[t] => Covered(k)'
    <3>1. Covered(key[t])
      BY <1>0, <2>1, <2>2, ZenonT(60) DEF CommitCovered
    <3> QED
      BY <1>0, <2>1, <3>1, CoveredStays, ZenonT(60)
  <2> QED
    BY <1>0, <1>2, <2>1, <2>2, ZenonT(60) DEF SettledCovered
<1>6. CASE ~Put(t) /\ ~RemarkEnds(t) /\ ~Remove(t) /\ ~Reput(t)
  BY <1>0, <1>2, <1>6, MapFramed DEF SettledCovered
<1> QED
  BY <1>3, <1>4, <1>5, <1>6

\* The claims about the threads that do not move.
LEMMA OthersPreserved ==
    ASSUME IInv, NEW t \in Threads, Step(t), NEW u \in Threads, u # t
    PROVE  InsertionCovered(u)' /\ CommitCovered(u)' /\ LookupCovered(u)'
<1>0. /\ TypeOK /\ OneRebuild /\ key[u] \in Keys
      /\ InsertionCovered(u) /\ CommitCovered(u) /\ LookupCovered(u)
  BY ZenonT(60) DEF IInv, TypeOK
<1>1. /\ key'[u] = key[u] /\ seen'[u] = seen[u] /\ committing'[u] = committing[u]
      /\ overtaken[u] => overtaken'[u]
      /\ expects'[u] => expects[u] /\ (key[u] \in map => key[u] \in map')
  BY LocalSteps, ZenonT(60) DEF Framed, IInv
<1>2. pc'[u] = pc[u]
  <2>1. pc \in [Threads -> PCs]
    BY <1>0 DEF TypeOK
  <2>2. CASE OnlyMarks(t)
    BY <2>1, <2>2, ZenonT(60) DEF OnlyMarks, Moves
  <2>3. CASE Rebuilds(t) \/ Publish(t) \/ DropSecondary(t) \/ \E k \in Keys : Scan(t, k)
    BY <2>1, <2>3 DEF Rebuilds, StartRebuild, Publish, DropSecondary, Scan, Goes
  <2> QED
    BY <1>0, <2>2, <2>3, MarksOnly DEF Step
<1>3. PICK k \in Keys : k = key[u]
  BY <1>0
<1>4. Covered(k) => Covered(k)' \/ (Scan(t, k) /\ k \notin map)
  BY <1>0, CoveredStays, ZenonT(60)
<1>5. Scan(t, k) => (pc[u] = "put" \/ committing[u] => overtaken'[u])
  BY <1>3, ZenonT(60) DEF Scan, Overtakes
<1>6. InsertionCovered(u)'
  <2>1. SUFFICES ASSUME ~overtaken'[u]
                 PROVE  /\ pc[u] \in {"secondary", "resecondary"} =>
                              seen[u] = primary' /\ k \in bits'[primary']
                        /\ pc[u] = "put" => Covered(k)'
    BY <1>1, <1>2, <1>3, ZenonT(60) DEF InsertionCovered, Covered
  <2>2. ~overtaken[u]
    BY <1>1, <2>1, ZenonT(60)
  <2>3. pc[u] = "put" => Covered(k)'
    BY <1>0, <1>3, <1>4, <1>5, <2>1, <2>2, ZenonT(60) DEF InsertionCovered
  <2>4. ASSUME pc[u] \in {"secondary", "resecondary"}
        PROVE  seen[u] = primary' /\ k \in bits'[primary']
    <3>1. seen[u] = primary /\ k \in bits[primary] /\ primary \in Arrays
      BY <1>0, <1>3, <2>2, <2>4, ZenonT(60) DEF InsertionCovered, TypeOK
    <3>2. ~Publish(t)
      BY <2>1, <2>4, ZenonT(60) DEF Publish, Overtakes
    <3>3. CASE OnlyMarks(t)
      BY <3>1, <3>3, ZenonT(60) DEF OnlyMarks
    <3>4. CASE Rebuilds(t) \/ DropSecondary(t)
      BY <3>1, <3>4, ZenonT(60) DEF Rebuilds, StartRebuild, DropSecondary
    <3>5. ASSUME NEW j \in Keys, Scan(t, j)
          PROVE  primary' = primary /\ k \in bits'[primary]
      BY <1>0, <3>1, <3>5, ScanMarks, ZenonT(60)
    <3> QED
      BY <1>0, <3>1, <3>2, <3>3, <3>4, <3>5, MarksOnly, ZenonT(60) DEF Step
  <2> QED
    BY <2>3, <2>4, ZenonT(60)
<1>7. CommitCovered(u)'
  <2>1. SUFFICES ASSUME committing[u] \/ pc[u] \in {"writeback", "reput"}
                 PROVE  /\ committing[u] /\ pc[u] \in InCommit
                        /\ overtaken'[u] \/ k \in raced' \/ Covered(k)'
    BY <1>1, <1>2, <1>3, ZenonT(60) DEF CommitCovered, Covered
  <2>2. /\ committing[u] /\ pc[u] \in InCommit
        /\ overtaken[u] \/ k \in raced \/ Covered(k)
    BY <1>0, <1>3, <2>1, ZenonT(60) DEF CommitCovered
  <2>3. k \in raced => k \in raced' \/ Covered(k)'
    BY RacedUntilCovered, ZenonT(60)
  <2> QED
    BY <1>1, <1>4, <1>5, <2>2, <2>3, ZenonT(60)
<1>8. LookupCovered(u)'
  <2>1. SUFFICES ASSUME expects'[u]
                 PROVE  /\ pc[u] = "look" => k \in map' /\ Covered(k)'
                        /\ pc[u] \notin {"look2", "missed"}
    BY <1>1, <1>2, <1>3, ZenonT(60) DEF LookupCovered, Covered
  <2>2. /\ pc[u] = "look" => k \in map /\ Covered(k)
        /\ pc[u] \notin {"look2", "missed"}
    BY <1>0, <1>1, <1>3, <2>1, ZenonT(60) DEF LookupCovered
  <2> QED
    BY <1>1, <1>3, <1>4, <2>1, <2>2, ZenonT(60)
<1> QED
  BY <1>6, <1>7, <1>8

\* Where the steps of an insertion start and end.
LEMMA InsertsGo ==
    ASSUME pc \in [Threads -> PCs], NEW t \in Threads
    PROVE  /\ Mark(t) => pc[t] = "mark" /\ pc'[t] = "secondary"
           /\ MarkEnds(t) => pc[t] = "secondary" /\ pc'[t] = "put"
           /\ Put(t) => pc[t] = "put" /\ pc'[t] \in AfterPut
           /\ Remark(t) => pc[t] = "remark" /\ pc'[t] = "resecondary"
           /\ RemarkEnds(t) => pc[t] = "resecondary" /\ pc'[t] = "test"
           /\ (\A k \in Keys : Insert(t, k) => pc[t] = "idle" /\ pc'[t] = "mark")
<1>g. ASSUME NEW from, NEW to, Goes(t, from, to) PROVE pc[t] = from /\ pc'[t] = to
  BY <1>g, Zenon DEF Goes
<1>1. Mark(t) => pc[t] = "mark" /\ pc'[t] = "secondary"
  BY <1>g, Zenon DEF Mark, MarkPrimary
<1>2. MarkEnds(t) => pc[t] = "secondary" /\ pc'[t] = "put"
  BY <1>g, Zenon DEF MarkEnds
<1>3. Put(t) => pc[t] = "put" /\ pc'[t] \in AfterPut
  BY <1>g, Zenon DEF Put
<1>4. Remark(t) => pc[t] = "remark" /\ pc'[t] = "resecondary"
  BY <1>g, Zenon DEF Remark, MarkPrimary
<1>5. RemarkEnds(t) => pc[t] = "resecondary" /\ pc'[t] = "test"
  BY <1>g, Zenon DEF RemarkEnds
<1>6. (\A k \in Keys : Insert(t, k) => pc[t] = "idle" /\ pc'[t] = "mark")
  BY <1>g, Zenon DEF Insert, Call
<1> QED
  BY <1>1, <1>2, <1>3, <1>4, <1>5, <1>6, Zenon

\* Where the steps of a rebuild start and end.
LEMMA RebuildsGo ==
    ASSUME pc \in [Threads -> PCs], NEW t \in Threads
    PROVE  /\ Test(t) => pc[t] = "test" /\ pc'[t] \in {"cas", "idle"}
           /\ StartRebuild(t) => pc[t] = "cas" /\ pc'[t] \in {"scan", "idle"}
           /\ Publish(t) => pc[t] = "publish" /\ pc'[t] = "drop"
           /\ DropSecondary(t) => pc[t] = "drop" /\ pc'[t] = "reset"
           /\ ResetMarks(t) => pc[t] = "reset" /\ pc'[t] = "release"
           /\ ReleaseRebuild(t) => pc[t] = "release" /\ pc'[t] = "idle"
<1>g. ASSUME NEW from, NEW to, Goes(t, from, to) PROVE pc[t] = from /\ pc'[t] = to
  BY <1>g, Zenon DEF Goes
<1>1. Test(t) => pc[t] = "test" /\ pc'[t] \in {"cas", "idle"}
  BY <1>g, Zenon DEF Test
<1>2. StartRebuild(t) => pc[t] = "cas" /\ pc'[t] \in {"scan", "idle"}
  BY <1>g, Zenon DEF StartRebuild
<1>3. Publish(t) => pc[t] = "publish" /\ pc'[t] = "drop"
  BY <1>g, Zenon DEF Publish
<1>4. DropSecondary(t) => pc[t] = "drop" /\ pc'[t] = "reset"
  BY <1>g, Zenon DEF DropSecondary
<1>5. ResetMarks(t) => pc[t] = "reset" /\ pc'[t] = "release"
  BY <1>g, Zenon DEF ResetMarks
<1>6. ReleaseRebuild(t) => pc[t] = "release" /\ pc'[t] = "idle"
  BY <1>g, Zenon DEF ReleaseRebuild
<1> QED
  BY <1>1, <1>2, <1>3, <1>4, <1>5, <1>6, Zenon

\* Where the steps of a lookup and of a commit start and end.
LEMMA LooksGo ==
    ASSUME pc \in [Threads -> PCs], NEW t \in Threads
    PROVE  /\ LookPrimary(t) => pc[t] = "look" /\ pc'[t] \in {"hit", "look2"}
           /\ LookSecondary(t) => pc[t] = "look2" /\ pc'[t] \in {"hit", "missed"}
           /\ Missed(t) => pc[t] = "missed" /\ pc'[t] = Resumes(t)
           /\ Use(t) => pc[t] = "hit" /\ pc'[t] = "idle" /\ ~committing[t]
           /\ Remove(t) => pc[t] = "hit" /\ pc'[t] = Resumes(t)
           /\ WriteBack(t) => pc[t] = "writeback" /\ pc'[t] \in {"look", "reput"}
           /\ Reput(t) => pc[t] = "reput" /\ pc'[t] = "idle"
<1>g. ASSUME NEW from, NEW to, Goes(t, from, to) PROVE pc[t] = from /\ pc'[t] = to
  BY <1>g, Zenon DEF Goes
<1>1. LookPrimary(t) => pc[t] = "look" /\ pc'[t] \in {"hit", "look2"}
  BY <1>g, Zenon DEF LookPrimary
<1>2. LookSecondary(t) => pc[t] = "look2" /\ pc'[t] \in {"hit", "missed"}
  BY <1>g, Zenon DEF LookSecondary
<1>3. Missed(t) => pc[t] = "missed" /\ pc'[t] = Resumes(t)
  BY <1>g, Zenon DEF Missed
<1>4. Use(t) => pc[t] = "hit" /\ pc'[t] = "idle" /\ ~committing[t]
  BY <1>g, Zenon DEF Use
<1>5. Remove(t) => pc[t] = "hit" /\ pc'[t] = Resumes(t)
  BY <1>g, Zenon DEF Remove
<1>6. WriteBack(t) => pc[t] = "writeback" /\ pc'[t] \in {"look", "reput"}
  BY <1>g, Zenon DEF WriteBack
<1>7. Reput(t) => pc[t] = "reput" /\ pc'[t] = "idle"
  BY <1>g, Zenon DEF Reput
<1> QED
  BY <1>1, <1>2, <1>3, <1>4, <1>5, <1>6, <1>7, Zenon

\* Where the calls of lookups and commits, and the scan of a stripe, start and end.
LEMMA CallsGo ==
    ASSUME pc \in [Threads -> PCs], NEW t \in Threads, NEW k \in Keys
    PROVE  /\ Lookup(t, k) => pc[t] = "idle" /\ pc'[t] = "look"
           /\ Commit(t, k) => pc[t] = "idle" /\ pc'[t] = "writeback"
           /\ Scan(t, k) => pc[t] = "scan" /\ pc'[t] \in {"publish", "scan"}
<1>g. ASSUME NEW from, NEW to, Goes(t, from, to) PROVE pc[t] = from /\ pc'[t] = to
  BY <1>g, Zenon DEF Goes
<1>1. Lookup(t, k) => pc[t] = "idle" /\ pc'[t] = "look"
  BY <1>g, Zenon DEF Lookup, Call
<1>2. Commit(t, k) => pc[t] = "idle" /\ pc'[t] = "writeback"
  BY <1>g, Zenon DEF Commit, Call
<1>3. Scan(t, k) => pc[t] = "scan" /\ pc'[t] \in {"publish", "scan"}
  BY <1>g, Zenon DEF Scan
<1> QED
  BY <1>1, <1>2, <1>3, Zenon

\* The insertion in which t moves.
LEMMA InsertionPreserved ==
    ASSUME IInv, NEW t \in Threads, Step(t)
    PROVE  InsertionCovered(t)'
<1>0. /\ TypeOK /\ OneRebuild /\ key[t] \in Keys /\ primary \in Arrays /\ pc \in [Threads -> PCs]
      /\ InsertionCovered(t)
  BY DEF IInv, TypeOK
<1>1. ASSUME pc'[t] \notin {"secondary", "resecondary", "put"}
      PROVE  InsertionCovered(t)'
  BY <1>1 DEF InsertionCovered
<1>p. pc \in [Threads -> PCs]
  BY <1>0
<1>g. ASSUME NEW from, NEW to, Goes(t, from, to) PROVE pc[t] = from /\ pc'[t] = to
  BY <1>0, <1>g, ZenonT(60) DEF Goes
<1>2. ASSUME NEW from, NEW to \in {"secondary", "resecondary"}, MarkPrimary(t, from, to)
      PROVE  InsertionCovered(t)'
  <2>1. /\ pc'[t] = to /\ primary' = primary /\ key' = key /\ seen'[t] = primary
        /\ bits' = [bits EXCEPT ![primary] = @ \cup {key[t]}]
    BY <1>2, <1>g, ZenonT(60) DEF MarkPrimary, IInv, TypeOK
  <2>2. key[t] \in bits'[primary]
    BY <1>0, <2>1, Marked, ZenonT(60)
  <2> QED
    BY <2>1, <2>2, ZenonT(60) DEF InsertionCovered
<1>3. CASE Mark(t) \/ Remark(t)
  BY <1>2, <1>3 DEF Mark, Remark
<1>4. CASE MarkEnds(t)
  <2>1. pc[t] = "secondary" /\ pc'[t] = "put" /\ key' = key /\ overtaken' = overtaken
    BY <1>4, <1>g DEF MarkEnds, locals, ghosts
  <2>2. PICK k \in Keys : k = key[t]
    BY <1>0, ZenonT(60)
  <2>3. ASSUME ~overtaken[t] PROVE Covered(k)'
    <3>1. seen[t] = primary /\ key[t] \in bits[primary]
      BY <1>0, <2>1, <2>3 DEF InsertionCovered
    <3>2. OnlyMarks(t)
      BY <1>0, <1>4, MarksOnly DEF Inserts
    <3>3. MarkSecondary(t)
      BY <1>4, ZenonT(60) DEF MarkEnds
    <3> QED
      BY <1>0, <2>2, <3>1, <3>2, <3>3, SecondMarkCovers, ZenonT(60)
  <2> QED
    BY <2>1, <2>2, <2>3, ZenonT(60) DEF InsertionCovered, Covered
<1>5. ASSUME NEW k \in Keys, Insert(t, k) \/ Lookup(t, k) \/ Commit(t, k) \/ Scan(t, k)
      PROVE  InsertionCovered(t)'
  <2>1. pc'[t] \in {"mark", "look", "writeback", "publish", "scan"}
    BY <1>0, <1>5, InsertsGo, CallsGo, Zenon
  <2> QED
    BY <1>1, <2>1, Zenon
<1>6. CASE Put(t)
  <2>1. AfterPut \subseteq {"remark", "test", "idle"}
    BY <1>0 DEF AfterPut, TypeOK
  <2> QED
    BY <1>1, <1>6, <1>g, <2>1, ZenonT(60) DEF Put
<1>7. CASE RemarkEnds(t) \/ Tests(t) \/ Rebuilds(t) \/ Publish(t) \/ DropSecondary(t)
  <2>1. pc'[t] \in {"test", "cas", "idle", "release", "scan", "drop", "reset"}
    BY <1>7, <1>p, InsertsGo, RebuildsGo, Zenon DEF Tests, Rebuilds
  <2> QED
    BY <1>1, <2>1
<1>8. CASE LookPrimary(t) \/ LookSecondary(t) \/ Missed(t) \/ Use(t) \/ Remove(t)
             \/ WriteBack(t) \/ Reput(t)
  <2>1. pc'[t] \in {"hit", "look2", "missed", "reput", "idle", "look"}
    BY <1>8, <1>p, ZenonT(60)
       DEF LookPrimary, LookSecondary, Missed, Use, Remove, WriteBack, Reput, Resumes, Goes
  <2> QED
    BY <1>1, <2>1, ZenonT(60)
<1> QED
  BY <1>3, <1>4, <1>5, <1>6, <1>7, <1>8 DEF Step, Inserts, Looks

\* The commit in which t moves.
LEMMA CommitPreserved ==
    ASSUME IInv, NEW t \in Threads, Step(t)
    PROVE  CommitCovered(t)'
<1>0. /\ TypeOK /\ OneRebuild /\ key[t] \in Keys /\ pc \in [Threads -> PCs]
      /\ committing \in [Threads -> BOOLEAN] /\ CommitCovered(t)
      /\ settled \subseteq Keys /\ \A k \in settled \ raced : Covered(k)
  BY DEF IInv, TypeOK, GhostTypes, SettledCovered
<1>p. pc \in [Threads -> PCs]
  BY <1>0
<1>g. ASSUME NEW from, NEW to, Goes(t, from, to) PROVE pc[t] = from /\ pc'[t] = to
  BY <1>0, <1>g, ZenonT(60) DEF Goes
<1>1. ASSUME pc[t] \notin InCommit, pc'[t] \notin {"writeback", "reput"}, committing' = committing
      PROVE  CommitCovered(t)'
  BY <1>0, <1>1, ZenonT(60) DEF CommitCovered
<1>2. ASSUME UNCHANGED <<key, committing, overtaken, raced>>, pc[t] \in InCommit,
             committing[t] => pc'[t] \in InCommit,
             pc'[t] \in {"writeback", "reput"} => committing[t]
      PROVE  CommitCovered(t)'
  <2>1. PICK k \in Keys : k = key[t]
    BY <1>0, ZenonT(60)
  <2>2. ~Scan(t, k)
    BY <1>2, <1>g DEF Scan, InCommit
  <2>3. Covered(k) => Covered(k)'
    BY <1>0, <2>2, CoveredStays, ZenonT(60)
  <2> QED
    BY <1>0, <1>2, <2>1, <2>3, ZenonT(60) DEF CommitCovered, Covered
<1>3. CASE Inserts(t)
  <2>1. committing' = committing
    BY <1>3, ZenonT(60)
       DEF Inserts, Insert, Mark, MarkPrimary, MarkEnds, Put, Remark, RemarkEnds, locals
  <2>2. AfterPut \subseteq {"remark", "test", "idle"}
    BY <1>0, ZenonT(60) DEF AfterPut, TypeOK
  <2>3. pc[t] \notin InCommit /\ pc'[t] \notin {"writeback", "reput"}
    <3>1. /\ pc[t] \in {"mark", "secondary", "put", "remark", "resecondary", "idle"}
          /\ pc'[t] \in {"secondary", "put", "remark", "test", "idle", "resecondary", "mark"}
      BY <1>3, <1>p, <2>2, InsertsGo, Zenon DEF Inserts
    <3> QED
      BY <3>1, Zenon DEF InCommit
  <2> QED
    BY <1>1, <2>1, <2>3, ZenonT(60)
<1>4. CASE Tests(t) \/ Rebuilds(t) \/ Publish(t) \/ DropSecondary(t)
  <2>1. committing' = committing
    BY <1>4, ZenonT(60) DEF Tests, Rebuilds, Test, StartRebuild, ResetMarks, ReleaseRebuild, Publish,
       DropSecondary, locals
  <2>2. pc[t] \notin InCommit /\ pc'[t] \notin {"writeback", "reput"}
    BY <1>4, <1>p, ZenonT(60) DEF Tests, Rebuilds, Test, StartRebuild, ResetMarks, ReleaseRebuild, Publish,
       DropSecondary, InCommit, Goes
  <2> QED
    BY <1>1, <2>1, <2>2
<1>5. ASSUME NEW k \in Keys, Lookup(t, k) \/ Scan(t, k) PROVE CommitCovered(t)'
  <2>1. committing' = committing /\ pc[t] \notin InCommit /\ pc'[t] \notin {"writeback", "reput"}
    <3>1. committing' = committing
      BY <1>5, Zenon DEF Lookup, Scan
    <3>2. pc[t] \in {"idle", "scan"} /\ pc'[t] \in {"look", "publish", "scan"}
      BY <1>5, <1>p, CallsGo, Zenon
    <3> QED
      BY <3>1, <3>2, Zenon DEF InCommit
  <2> QED
    BY <1>1, <2>1, ZenonT(60)
<1>6. ASSUME NEW k \in Keys, Commit(t, k) PROVE CommitCovered(t)'
  <2>1. /\ pc[t] = "idle" /\ pc'[t] = "writeback" /\ key'[t] = k /\ committing'[t]
        /\ raced' = raced /\ k \in settled
    BY <1>0, <1>6, <1>g, ZenonT(60) DEF Commit, Call, IInv, TypeOK
  <2>2. ~Scan(t, k)
    BY <1>g, <2>1, ZenonT(60) DEF Scan
  <2>3. k \in raced' \/ Covered(k)'
    BY <1>0, <2>1, <2>2, CoveredStays, ZenonT(60)
  <2> QED
    BY <2>1, <2>3 DEF CommitCovered, Covered, InCommit
<1>7. CASE LookPrimary(t) \/ LookSecondary(t) \/ Missed(t) \/ Use(t) \/ Remove(t)
             \/ WriteBack(t)
  <2>1. UNCHANGED <<key, committing, overtaken, raced>>
    BY <1>7, ZenonT(60)
       DEF LookPrimary, LookSecondary, Missed, Use, Remove, WriteBack, locals, ghosts
  <2>2. pc[t] \in InCommit /\ (committing[t] => pc'[t] \in InCommit)
    BY <1>7, <1>g, ZenonT(60)
       DEF LookPrimary, LookSecondary, Missed, Use, Remove, WriteBack, Resumes, InCommit
  <2>3. pc'[t] \in {"writeback", "reput"} => committing[t]
    <3>1. CASE WriteBack(t)
      BY <1>0, <1>p, <3>1, LooksGo, Zenon DEF CommitCovered
    <3>2. CASE ~WriteBack(t)
      BY <1>7, <1>p, <3>2, LooksGo, Zenon DEF Resumes
    <3> QED
      BY <3>1, <3>2, Zenon
  <2> QED
    BY <1>2, <2>1, <2>2, <2>3, ZenonT(60)
<1>8. CASE Reput(t)
  <2>1. pc'[t] = "idle" /\ committing' = [committing EXCEPT ![t] = FALSE]
    BY <1>8, <1>p, LooksGo, Zenon DEF Reput
  <2>2. ~committing'[t]
    BY <1>0, <2>1, Zenon
  <2> QED
    BY <2>1, <2>2, Zenon DEF CommitCovered
<1> QED
  BY <1>3, <1>4, <1>5, <1>6, <1>7, <1>8, ZenonT(60) DEF Step, Looks

\* The lookup in which t moves.
LEMMA LookupPreserved ==
    ASSUME IInv, NEW t \in Threads, Step(t)
    PROVE  LookupCovered(t)'
<1>0. /\ TypeOK /\ OneRebuild /\ key[t] \in Keys /\ pc \in [Threads -> PCs]
      /\ expects \in [Threads -> BOOLEAN] /\ LookupCovered(t)
      /\ settled \subseteq map /\ map \subseteq Keys /\ \A k \in settled \ raced : Covered(k)
  BY DEF IInv, TypeOK, GhostTypes, SettledCovered
<1>p. pc \in [Threads -> PCs]
  BY <1>0
<1>g. ASSUME NEW from, NEW to, Goes(t, from, to) PROVE pc[t] = from /\ pc'[t] = to
  BY <1>0, <1>g, ZenonT(60) DEF Goes
<1>1. ASSUME pc'[t] \notin {"look", "look2", "missed"} PROVE LookupCovered(t)'
  BY <1>1, ZenonT(60) DEF LookupCovered
<1>2. ASSUME NEW k \in Keys, key'[t] = k, map' = map, expects'[t] = (k \in settled \ raced),
             pc[t] \in {"idle", "writeback"}, pc'[t] = "look"
      PROVE  LookupCovered(t)'
  <2>1. ~Scan(t, k)
    BY <1>2, <1>g DEF Scan
  <2>2. k \in settled \ raced => k \in map' /\ Covered(k)'
    BY <1>0, <1>2, <2>1, CoveredStays, ZenonT(60)
  <2> QED
    BY <1>2, <2>2, ZenonT(60) DEF LookupCovered, Covered
<1>3. ASSUME NEW k \in Keys, Lookup(t, k) PROVE LookupCovered(t)'
  <2>1. /\ key'[t] = k /\ map' = map /\ pc[t] = "idle" /\ pc'[t] = "look"
    BY <1>3, <1>g, ZenonT(60) DEF Lookup, Call, IInv, TypeOK
  <2>2. expects'[t] = (k \in settled \ raced)
    BY <1>0, <1>3 DEF Lookup, Expecting
  <2> QED
    BY <1>2, <2>1, <2>2, ZenonT(60)
<1>4. CASE WriteBack(t)
  <2>1. CASE pc'[t] = "reput"
    BY <1>1, <2>1, ZenonT(60)
  <2>2. CASE pc'[t] # "reput"
    <3>1. /\ Goes(t, "writeback", "look") /\ expects' = Expecting(t, key[t])
          /\ UNCHANGED <<map, locals>>
      BY <1>4, <1>g, <2>2, ZenonT(60) DEF WriteBack
    <3>2. PICK k \in Keys : k = key[t]
      BY <1>0, ZenonT(60)
    <3>3. /\ key'[t] = k /\ map' = map /\ pc[t] = "writeback" /\ pc'[t] = "look"
      BY <1>g, <3>1, <3>2 DEF locals
    <3>4. expects'[t] = (k \in settled \ raced)
      BY <1>0, <3>1, <3>2, ZenonT(60) DEF Expecting
    <3> QED
      BY <1>2, <3>3, <3>4, ZenonT(60)
  <2> QED
    BY <2>1, <2>2
<1>5. CASE LookPrimary(t)
  <2>1. pc[t] = "look" /\ expects' = expects
    BY <1>5, <1>g, ZenonT(60) DEF LookPrimary, ghosts
  <2>2. expects[t] => key[t] \in bits[primary]
    BY <1>0, <2>1, ZenonT(60) DEF LookupCovered, Covered
  <2>3. expects[t] => pc'[t] = "hit"
    BY <1>5, <1>g, <2>2, ZenonT(60) DEF LookPrimary
  <2> QED
    BY <2>1, <2>3, ZenonT(60) DEF LookupCovered
<1>6. CASE LookSecondary(t)
  <2>1. pc[t] = "look2" /\ pc'[t] \in {"hit", "missed"} /\ expects' = expects
    BY <1>6, <1>g, ZenonT(60) DEF LookSecondary, ghosts
  <2> QED
    BY <1>0, <2>1, ZenonT(60) DEF LookupCovered
<1>7. CASE Missed(t) \/ Use(t) \/ Remove(t) \/ Reput(t)
  <2>1. pc'[t] \in {"reput", "idle"}
    BY <1>7, <1>p, LooksGo, Zenon DEF Resumes
  <2> QED
    BY <1>1, <2>1, Zenon
<1>8. CASE Inserts(t)
  <2>1. AfterPut \subseteq {"remark", "test", "idle"}
    BY <1>0 DEF AfterPut, TypeOK
  <2>2. pc'[t] \in {"secondary", "put", "remark", "test", "idle", "resecondary", "mark"}
    BY <1>8, <1>p, <2>1, InsertsGo, Zenon DEF Inserts
  <2> QED
    BY <1>1, <2>2, Zenon
<1>9. CASE Tests(t) \/ Rebuilds(t) \/ Publish(t) \/ DropSecondary(t)
  <2>1. pc'[t] \in {"cas", "idle", "scan", "drop", "reset", "release"}
    BY <1>9, <1>p, RebuildsGo, Zenon DEF Tests, Rebuilds
  <2> QED
    BY <1>1, <2>1, Zenon
<1>10. ASSUME NEW k \in Keys, Commit(t, k) \/ Scan(t, k) PROVE LookupCovered(t)'
  <2>1. pc'[t] \in {"writeback", "publish", "scan"}
    BY <1>10, <1>p, ZenonT(60) DEF Commit, Scan, Call, Goes
  <2> QED
    BY <1>1, <2>1, ZenonT(60)
<1> QED
  BY <1>3, <1>4, <1>5, <1>6, <1>7, <1>8, <1>9, <1>10, ZenonT(60) DEF Step, Looks

\* The invariant holds of an empty map.
LEMMA InitIInv == Init => IInv
<1> SUFFICES ASSUME Init PROVE IInv
  BY ZenonT(60)
<1>1. TypeOK
  <2>1. (CHOOSE k \in Keys : TRUE) \in Keys /\ 1 \in Arrays
    BY FilterAssumption DEF Arrays
  <2> QED
    BY <2>1, ProtocolAssumption DEF Init, TypeOK, PCs
<1>2. GhostTypes
  BY ZenonT(60) DEF Init, GhostTypes
<1>3. OneRebuild /\ SettledCovered
  BY ZenonT(60) DEF Init, OneRebuild, InRebuild, SettledCovered
<1>4. \A t \in Threads : InsertionCovered(t) /\ CommitCovered(t) /\ LookupCovered(t)
  BY DEF Init, InsertionCovered, CommitCovered, LookupCovered
<1> QED
  BY <1>1, <1>2, <1>3, <1>4 DEF IInv

\* The invariant holds in every reachable state.
LEMMA Inductive == Spec => []IInv
<1>1. ASSUME IInv, UNCHANGED vars
      PROVE  IInv'
  <2>1. UNCHANGED <<protocol, primary, secondary, rebuilding, arrays, bits, map, pc, key, seen, todo,
                    committing, settled, overtaken, raced, expects>>
    BY <1>1, ZenonT(60) DEF vars, filter, locals, ghosts
  <2>2. TypeOK' /\ GhostTypes' /\ OneRebuild'
    BY <1>1, <2>1, ZenonT(60) DEF IInv, TypeOK, GhostTypes, OneRebuild
  <2>3. \A k : Covered(k)' <=> Covered(k)
    BY <2>1 DEF Covered
  <2>4. SettledCovered'
    BY <1>1, <2>1, <2>3, ZenonT(60) DEF IInv, SettledCovered
  <2>5. ASSUME NEW t \in Threads
        PROVE  InsertionCovered(t)' /\ CommitCovered(t)' /\ LookupCovered(t)'
    BY <1>1, <2>1, <2>3, ZenonT(60)
       DEF IInv, InsertionCovered, CommitCovered, LookupCovered, Covered
  <2> QED
    BY <2>2, <2>4, <2>5 DEF IInv
<1>2. ASSUME IInv, NEW t \in Threads, Step(t)
      PROVE  IInv'
  <2>1. TypeOK' /\ GhostTypes' /\ OneRebuild' /\ SettledCovered'
    BY <1>2, TypePreserved, OneRebuildPreserved, SettledPreserved DEF IInv
  <2>2. ASSUME NEW u \in Threads
        PROVE  InsertionCovered(u)' /\ CommitCovered(u)' /\ LookupCovered(u)'
    BY <1>2, OthersPreserved, InsertionPreserved, CommitPreserved, LookupPreserved
  <2> QED
    BY <2>1, <2>2 DEF IInv
<1>3. ASSUME IInv, Next
      PROVE  IInv'
  BY <1>2, <1>3, StepCases
<1> QED
  BY <1>1, <1>3, InitIInv, PTL DEF Spec

\* RebuildableIdentityFilter never hides an entry: a lookup that begins after
\* an insertion ended finds the key in primary, through any number of
\* concurrent rebuilds, unless a rebuild overtook that insertion or the entry
\* was removed.
THEOREM EntriesAreFound == Spec => []NoEntryMissed
<1>1. IInv => NoEntryMissed
  BY DEF IInv, LookupCovered, NoEntryMissed
<1> QED
  BY <1>1, Inductive, PTL
=============================================================================

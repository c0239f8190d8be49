--------------------------- MODULE IdentityFilter ---------------------------
(***************************************************************************)
(* RebuildableIdentityFilter (src/runtime/src/Pointer.java): the Bloom     *)
(* filter in front of a striped weak map keyed by allocation.  A lookup    *)
(* that misses the filter never takes the stripe lock, so an entry whose   *)
(* key is not in the filter is invisible.  When enough keys were marked a  *)
(* thread rebuilds the filter from the live keys, without stopping the     *)
(* threads that mark and look up.                                          *)
(*                                                                         *)
(* An array of filter bits is the set of keys whose bits are all set; a    *)
(* collision can only add keys to it, which no property here depends on.   *)
(* protocol says how the map in front of which the filter stands inserts:  *)
(*   "twice"   MEMORY_VIEWS: mark, put under the lock, mark again;         *)
(*   "locked"  MEMORY_VIEW_ORIGINS, STRUCTURAL_VIEWS: mark and put under   *)
(*             the stripe lock;                                            *)
(*   "once"    ENCODED_REFERENCES, ENCODED_POINTERS: mark, then put under  *)
(*             the lock.                                                   *)
(***************************************************************************)
EXTENDS Integers, FiniteSets

CONSTANTS
    Threads,       \* the threads of the program
    Keys,          \* allocations, each in a stripe of its own
    None,          \* the null reference
    Protocols,     \* the insertion protocols that are checked
    RebuildMarks,  \* rebuildMarks
    MaxArrays,     \* bound on the arrays ever allocated, the first included
    MaxCalls       \* bound on the calls of the program

Arrays == 1..MaxArrays

ASSUME ProtocolAssumption == Protocols \subseteq {"twice", "locked", "once"}
ASSUME FilterAssumption == MaxArrays \in Nat \ {0} /\ None \notin Arrays /\ Keys # {}

VARIABLES
    protocol,    \* how this filter's map inserts
    primary,     \* filter.primary
    secondary,   \* filter.secondary
    marks,       \* filter.marks
    rebuilding,  \* filter.rebuilding
    arrays,      \* how many arrays exist
    bits,        \* the keys marked in each array
    map,         \* the keys with an entry
    lock,        \* the thread that holds a key's stripe
    pc,          \* where each thread is
    key,         \* the key of its call
    seen,        \* the primary it read last
    added,       \* that primary did not have the key
    todo,        \* the stripes its rebuild has still to scan
    committing,  \* its call is commitMemoryView
    calls,       \* calls begun so far
    settled,     \* ghost: keys whose entry was there when an insertion ended
    overtaken,   \* ghost: a rebuild passed this insertion, see Overtakes
    raced,       \* ghost: keys whose last insertion was overtaken
    expects      \* ghost: the key was settled, and not raced, when the lookup began

filter == <<primary, secondary, marks, rebuilding, arrays, bits>>
locals == <<key, seen, added, todo, committing>>
ghosts == <<settled, overtaken, raced, expects>>
vars == <<protocol, filter, map, lock, pc, locals, calls, ghosts>>

Init ==
    /\ protocol \in Protocols
    /\ primary = 1
    /\ secondary = None
    /\ marks = 0
    /\ rebuilding = FALSE
    /\ arrays = 1
    /\ bits = [a \in Arrays |-> {}]
    /\ map = {}
    /\ lock = [k \in Keys |-> None]
    /\ pc = [t \in Threads |-> "idle"]
    /\ key = [t \in Threads |-> CHOOSE k \in Keys : TRUE]
    /\ seen = [t \in Threads |-> 1]
    /\ added = [t \in Threads |-> FALSE]
    /\ todo = [t \in Threads |-> {}]
    /\ committing = [t \in Threads |-> FALSE]
    /\ calls = 0
    /\ settled = {}
    /\ overtaken = [t \in Threads |-> FALSE]
    /\ raced = {}
    /\ expects = [t \in Threads |-> FALSE]

Goes(t, from, to) ==
    /\ pc[t] = from
    /\ pc' = [pc EXCEPT ![t] = to]
    /\ UNCHANGED protocol

\* A call of the program on allocation k.
Call(t, k, to) ==
    /\ calls < MaxCalls
    /\ calls' = calls + 1
    /\ Goes(t, "idle", to)
    /\ key' = [key EXCEPT ![t] = k]

-----------------------------------------------------------------------------
(* Insertion                                                               *)

Insert(t, k) ==
    /\ Call(t, k, "mark")
    /\ protocol = "locked" => lock[k] = None
    /\ lock' = IF protocol = "locked" THEN [lock EXCEPT ![k] = t] ELSE lock
    /\ overtaken' = [overtaken EXCEPT ![t] = FALSE]
    /\ UNCHANGED <<filter, map, seen, added, todo, committing, settled, raced, expects>>

\* The first half of markIdentityFilter: read primary, mark there.
MarkPrimary(t, from, to) ==
    /\ Goes(t, from, to)
    /\ seen' = [seen EXCEPT ![t] = primary]
    /\ added' = [added EXCEPT ![t] = key[t] \notin bits[primary]]
    /\ bits' = [bits EXCEPT ![primary] = @ \cup {key[t]}]
    /\ UNCHANGED <<primary, secondary, marks, rebuilding, arrays, map, lock, key, todo,
                   committing, calls, settled, raced, expects>>

\* Mutant: a rebuild in progress is not told of the key.
MarkPrimaryOnly(t) ==
    /\ marks' = IF added[t] THEN marks + 1 ELSE marks
    /\ UNCHANGED <<primary, secondary, rebuilding, arrays, bits>>

\* The second half: read secondary, mark there too if there is another array.
MarkSecondary(t) ==
    /\ bits' = IF secondary \in {None, seen[t]} THEN bits
               ELSE [bits EXCEPT ![secondary] = @ \cup {key[t]}]
    /\ marks' = IF added[t] THEN marks + 1 ELSE marks
    /\ UNCHANGED <<primary, secondary, rebuilding, arrays>>

Mark(t) == MarkPrimary(t, "mark", "secondary") /\ UNCHANGED overtaken

MarkEnds(t) ==
    /\ Goes(t, "secondary", "put")
    /\ MarkSecondary(t)
    /\ UNCHANGED <<map, lock, locals, calls, ghosts>>

\* An insertion of t's key ends: its entry must be found from here on.
Settle(t) ==
    /\ settled' = settled \cup ({key[t]} \cap map')
    /\ raced' = IF overtaken[t] THEN raced \cup {key[t]} ELSE raced \ {key[t]}

\* What follows the put: transferEncodedPointers has no maybeRebuild.
AfterPut == CASE protocol = "twice" -> {"remark"}
              [] protocol = "locked" -> {"test"}
              [] protocol = "once" -> {"test", "idle"}

\* The put, in the block synchronized on the stripe.
Put(t) ==
    /\ lock[key[t]] \in {None, t}
    /\ \E to \in AfterPut : Goes(t, "put", to)
    /\ map' = map \cup {key[t]}
    /\ lock' = [lock EXCEPT ![key[t]] = None]
    /\ IF pc'[t] = "remark" THEN UNCHANGED <<settled, raced>> ELSE Settle(t)
    /\ UNCHANGED <<filter, locals, calls, overtaken, expects>>

\* The second mark starts afresh: what a rebuild did before it is repaired.
Remark(t) ==
    /\ MarkPrimary(t, "remark", "resecondary")
    /\ overtaken' = [overtaken EXCEPT ![t] = FALSE]

RemarkEnds(t) ==
    /\ Goes(t, "resecondary", "test")
    /\ MarkSecondary(t)
    /\ UNCHANGED map
    /\ Settle(t)
    /\ UNCHANGED <<lock, locals, calls, overtaken, expects>>

-----------------------------------------------------------------------------
(* maybeRebuild...Filter                                                   *)

Test(t) ==
    /\ Goes(t, "test", IF marks >= RebuildMarks THEN "cas" ELSE "idle")
    /\ UNCHANGED <<filter, map, lock, locals, calls, ghosts>>

\* rebuilding.compareAndSet(0, 1); the winner makes a new array the secondary.
StartRebuild(t) ==
    IF ~rebuilding /\ arrays < MaxArrays
    THEN /\ Goes(t, "cas", "scan")
         /\ rebuilding' = TRUE
         /\ arrays' = arrays + 1
         /\ secondary' = arrays + 1
         /\ todo' = [todo EXCEPT ![t] = Keys]
         /\ UNCHANGED <<primary, marks, bits, map, lock, key, seen, added, committing,
                        calls, ghosts>>
    ELSE /\ Goes(t, "cas", "idle")
         /\ UNCHANGED <<filter, map, lock, locals, calls, ghosts>>

\* The insertions a rebuild passes while it does "scan" (of one stripe) or
\* "publish": an insertion between its mark and its put when its stripe is
\* scanned, a commit during which it is scanned, and a mark between its reads
\* of primary and secondary when the new primary is published.
Overtakes(step, k) ==
    [u \in Threads |->
        \/ overtaken[u]
        \/ step = "scan" /\ key[u] = k /\ (pc[u] = "put" \/ committing[u])
        \/ step = "publish" /\ pc[u] \in {"secondary", "resecondary"}]

\* markLiveKeys on one stripe, under its lock.
Scan(t, k) ==
    /\ k \in todo[t] /\ lock[k] = None
    /\ bits' = IF k \in map THEN [bits EXCEPT ![secondary] = @ \cup {k}] ELSE bits
    /\ todo' = [todo EXCEPT ![t] = @ \ {k}]
    /\ Goes(t, "scan", IF todo[t] = {k} THEN "publish" ELSE "scan")
    /\ overtaken' = Overtakes("scan", k)
    /\ UNCHANGED <<primary, secondary, marks, rebuilding, arrays, map, lock, key, seen,
                   added, committing, calls, settled, raced, expects>>

Publish(t) ==
    /\ Goes(t, "publish", "drop")
    /\ primary' = secondary
    /\ overtaken' = Overtakes("publish", key[t])
    /\ UNCHANGED <<secondary, marks, rebuilding, arrays, bits, map, lock, locals, calls,
                   settled, raced, expects>>

DropSecondary(t) ==
    /\ Goes(t, "drop", "reset")
    /\ secondary' = None
    /\ UNCHANGED <<primary, marks, rebuilding, arrays, bits, map, lock, locals, calls,
                   ghosts>>

ResetMarks(t) ==
    /\ Goes(t, "reset", "release")
    /\ marks' = 0
    /\ UNCHANGED <<primary, secondary, rebuilding, arrays, bits, map, lock, locals,
                   calls, ghosts>>

ReleaseRebuild(t) ==
    /\ Goes(t, "release", "idle")
    /\ rebuilding' = FALSE
    /\ UNCHANGED <<primary, secondary, marks, arrays, bits, map, lock, locals, calls,
                   ghosts>>

-----------------------------------------------------------------------------
(* Lookup, removal and commit                                              *)

Expecting(t, k) == [expects EXCEPT ![t] = k \in settled \ raced]

\* Any operation that reads or discards the entry of k.
Lookup(t, k) ==
    /\ Call(t, k, "look")
    /\ expects' = Expecting(t, k)
    /\ UNCHANGED <<filter, map, lock, seen, added, todo, committing, settled, overtaken,
                   raced>>

LookPrimary(t) ==
    /\ Goes(t, "look", IF key[t] \in bits[primary] THEN "hit" ELSE "look2")
    /\ seen' = [seen EXCEPT ![t] = primary]
    /\ UNCHANGED <<filter, map, lock, key, added, todo, committing, calls, ghosts>>

InSecondary(t) == secondary \notin {None, seen[t]} /\ key[t] \in bits[secondary]

LookSecondary(t) ==
    /\ Goes(t, "look2", IF InSecondary(t) THEN "hit" ELSE "missed")
    /\ UNCHANGED <<filter, map, lock, locals, calls, ghosts>>

\* Where a call goes when its filtered operation is over.
Resumes(t) == IF committing[t] THEN "reput" ELSE "idle"

\* The filter said no: the operation returns without a look at the stripe.
Missed(t) ==
    /\ Goes(t, "missed", Resumes(t))
    /\ UNCHANGED <<filter, map, lock, locals, calls, ghosts>>

\* Under the stripe lock the entry is used and stays ...
Use(t) ==
    /\ lock[key[t]] = None /\ ~committing[t]
    /\ Goes(t, "hit", "idle")
    /\ UNCHANGED <<filter, map, lock, locals, calls, ghosts>>

\* ... or is removed: nobody has to find it any more.
Remove(t) ==
    /\ lock[key[t]] = None
    /\ Goes(t, "hit", Resumes(t))
    /\ map' = map \ {key[t]}
    /\ settled' = settled \ {key[t]}
    /\ expects' = [u \in Threads |-> expects[u] /\ key[u] # key[t]]
    /\ UNCHANGED <<filter, lock, locals, calls, overtaken, raced>>

\* commitMemoryView of a view that is still in the map.
Commit(t, k) ==
    /\ protocol = "twice" /\ k \in settled
    /\ Call(t, k, "writeback")
    /\ committing' = [committing EXCEPT ![t] = TRUE]
    /\ overtaken' = [overtaken EXCEPT ![t] = FALSE]
    /\ UNCHANGED <<filter, map, lock, seen, added, todo, settled, raced, expects>>

\* writeBackMemoryView: a changed image is stored, and the store discards the
\* overlapping views; an unchanged one is not.
WriteBack(t) ==
    \/ /\ Goes(t, "writeback", "look")
       /\ expects' = Expecting(t, key[t])
       /\ UNCHANGED <<filter, map, lock, locals, calls, settled, overtaken, raced>>
    \/ /\ Goes(t, "writeback", "reput")
       /\ UNCHANGED <<filter, map, lock, locals, calls, ghosts>>

\* The view is put back, and not marked.
Reput(t) ==
    /\ lock[key[t]] = None
    /\ Goes(t, "reput", "idle")
    /\ map' = map \cup {key[t]}
    /\ settled' = settled \cup {key[t]}
    /\ raced' = IF overtaken[t] THEN raced \cup {key[t]} ELSE raced
    /\ committing' = [committing EXCEPT ![t] = FALSE]
    /\ UNCHANGED <<filter, lock, key, seen, added, todo, calls, overtaken, expects>>

-----------------------------------------------------------------------------
Next ==
    \E t \in Threads :
        \/ \E k \in Keys : Insert(t, k) \/ Lookup(t, k) \/ Commit(t, k) \/ Scan(t, k)
        \/ Mark(t) \/ MarkEnds(t) \/ Put(t) \/ Remark(t) \/ RemarkEnds(t)
        \/ Test(t) \/ StartRebuild(t) \/ Publish(t) \/ DropSecondary(t)
        \/ ResetMarks(t) \/ ReleaseRebuild(t)
        \/ LookPrimary(t) \/ LookSecondary(t) \/ Missed(t) \/ Use(t) \/ Remove(t)
        \/ WriteBack(t) \/ Reput(t)

Spec == Init /\ [][Next]_vars

-----------------------------------------------------------------------------
(* Properties                                                              *)

\* A lookup that starts after an insertion ended never misses the entry, if
\* no rebuild overtook that insertion and nobody removed the entry since: the
\* marks and the scan of the live keys together keep every settled key in
\* every array that becomes primary.
NoEntryMissed == \A t \in Threads : pc[t] = "missed" => ~expects[t]
=============================================================================

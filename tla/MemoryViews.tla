---------------------------- MODULE MemoryViews ----------------------------
(***************************************************************************)
(* Decoded memory views (src/runtime/src/Pointer.java).  Rust code that    *)
(* reads an aggregate out of byte storage gets a JVM object decoded from   *)
(* the bytes and mutates the object's fields; the bytes are brought up to  *)
(* date when somebody reads or writes them (flush) or when the view is     *)
(* committed.  Three things let an access skip the flush: the allocation's *)
(* hasMemoryView flag, a thread's cache of allocations without views, and  *)
(* the identity filter (module IdentityFilter; here it always says maybe). *)
(*                                                                         *)
(* One allocation, of Slots.  A view covers a set of slots.  The program   *)
(* is free of data races: a block of slots belongs to one thread at a time *)
(* and every range it touches lies in a block it owns.  A slot is what the *)
(* storage reads and writes as a whole, an element of an array.            *)
(***************************************************************************)
EXTENDS Integers, FiniteSets

CONSTANTS
    Threads,     \* the threads of the program
    Blocks,      \* disjoint sets of slots: what one thread owns as a whole
    Shapes,      \* the ranges decoded as one aggregate, each within a block
    MaxCalls     \* bound on the calls of the program

Slots == UNION Blocks

ASSUME ShapesAssumption ==
    /\ \A B, C \in Blocks : B # C => B \cap C = {}
    /\ \A v \in Shapes : v # {} /\ \E B \in Blocks : v \subseteq B

VARIABLES
    cell,     \* the allocation is a Cell, ReceiverCell or FieldCell, not an array
    bytes,    \* the allocation's storage
    present,  \* the views in MEMORY_VIEWS; exactly these have active set
    val,      \* MemoryViewState.value of each view
    orig,     \* MemoryViewState.originalImage of each view
    flag,     \* hasMemoryView
    epoch,    \* the allocation's entry of MEMORY_VIEW_EPOCHS
    absence,  \* each thread's entry of MEMORY_VIEW_ABSENCE: an epoch, or -1
    overtaken,\* ghost: the flag was lowered under a thread that had raised it
              \* and not yet published its view
    pc,       \* where each thread is
    op,       \* the call it is in
    rng,      \* the range of that call
    obs,      \* observedEpoch
    pend,     \* views it has still to write back
    owner,    \* who may touch a block
    calls,    \* calls begun so far
    truth     \* ghost: what the program last wrote to each slot

store == <<bytes, val, orig, truth>>
index == <<present, flag, epoch, absence, overtaken>>
frame == <<op, rng, obs, pend>>
vars == <<cell, store, index, frame, pc, owner, calls>>

Init ==
    /\ cell \in BOOLEAN
    /\ bytes = [s \in Slots |-> 0] /\ truth = bytes
    /\ val = [v \in Shapes |-> bytes] /\ orig = val
    /\ present = {}
    /\ flag = FALSE
    /\ epoch = 0
    /\ absence = [t \in Threads |-> -1]
    /\ overtaken = FALSE
    /\ pc = [t \in Threads |-> "idle"]
    /\ op = [t \in Threads |-> "load"]
    /\ rng = [t \in Threads |-> {}]
    /\ obs = [t \in Threads |-> 0]
    /\ pend = [t \in Threads |-> {}]
    /\ owner \in [Blocks -> Threads]
    /\ calls = 0

Goes(t, from, to) ==
    /\ pc[t] = from
    /\ pc' = [pc EXCEPT ![t] = to]
    /\ UNCHANGED cell

\* image, with the slots of S taken from other
Patch(image, other, S) == [s \in Slots |-> IF s \in S THEN other[s] ELSE image[s]]

Overlapping(S) == {v \in present : v \cap S # {}}

\* setcellHasMemoryView
SetFlag(present_) == flag' = IF cell THEN present_ ELSE flag

-----------------------------------------------------------------------------
(* Calls of the program                                                    *)

Owns(t, S) == \E B \in Blocks : S \subseteq B /\ owner[B] = t

Call(t, o, S, to) ==
    /\ calls < MaxCalls
    /\ calls' = calls + 1
    /\ Owns(t, S)
    /\ Goes(t, "idle", to)
    /\ op' = [op EXCEPT ![t] = o]
    /\ rng' = [rng EXCEPT ![t] = S]
    /\ UNCHANGED owner

\* A byte load, or a byte store through prepareMemoryWrite, of the slots S.
Access(t, o, S) ==
    /\ Call(t, o, S, "flag")
    /\ UNCHANGED <<store, index, obs, pend>>

\* decodedMemoryViewLocked: a cached view is returned, and the flag set again;
\* otherwise loadRange starts with a flush of what overlaps.
Decode(t, v) ==
    /\ Call(t, "decode", v, IF v \in present THEN "idle" ELSE "flag")
    /\ IF v \in present THEN SetFlag(TRUE) ELSE UNCHANGED flag
    /\ UNCHANGED <<store, present, epoch, absence, overtaken, obs, pend>>

\* A field of the decoded object is assigned.
Mutate(t, v, s) ==
    /\ pc[t] = "idle" /\ Owns(t, v) /\ v \in present /\ s \in v
    /\ calls < MaxCalls /\ calls' = calls + 1
    /\ val' = [val EXCEPT ![v][s] = 1 - truth[s]]
    /\ truth' = [truth EXCEPT ![s] = 1 - @]
    /\ UNCHANGED <<cell, bytes, orig, index, frame, pc, owner>>

\* commitMemoryViewLocked, up to its write-back.
Commit(t, v) ==
    /\ v \in present
    /\ Call(t, "commit", v, "writeback")
    /\ pend' = [pend EXCEPT ![t] = {v}]
    /\ UNCHANGED <<store, index, obs>>

\* Ownership of a block passes to another thread, synchronised by the program.
Transfer(B, u) ==
    /\ pc[owner[B]] = "idle" /\ u # owner[B]
    /\ owner' = [owner EXCEPT ![B] = u]
    /\ calls < MaxCalls /\ calls' = calls + 1
    /\ UNCHANGED <<cell, store, index, frame, pc>>

-----------------------------------------------------------------------------
(* flushMemoryViewsOverlapping and, with 2, discardMemoryViewsOverlapping  *)
(* called by the store of a write-back                                     *)

\* directCellHasNoMemoryViews
NoFlag == cell /\ ~flag

TestFlag(t) ==
    /\ \/ Goes(t, "flag", IF NoFlag THEN "act" ELSE "epoch")
       \/ Goes(t, "flag2", IF NoFlag THEN "writebytes" ELSE "epoch2")
    /\ UNCHANGED <<store, index, frame, owner, calls>>

TestEpoch(t) ==
    /\ \/ Goes(t, "epoch", IF absence[t] = epoch THEN "act" ELSE "locked")
       \/ Goes(t, "epoch2", IF absence[t] = epoch THEN "writebytes" ELSE "locked2")
    /\ obs' = [obs EXCEPT ![t] = epoch]
    /\ UNCHANGED <<store, index, op, rng, pend, owner, calls>>

\* What the cache of t holds after it found no views at all.
Remembered(t) == IF epoch = obs[t] THEN epoch ELSE absence[t]

\* removeOverlappingMemoryViews(S) under the stripe lock.
RemoveOverlapping(t, S) ==
    /\ present' = present \ Overlapping(S)
    /\ IF present = {}
       THEN SetFlag(FALSE) /\ absence' = [absence EXCEPT ![t] = Remembered(t)]
       ELSE IF present' = {}
            THEN SetFlag(FALSE) /\ absence' = [absence EXCEPT ![t] = epoch]
            ELSE UNCHANGED <<flag, absence>>
    /\ overtaken' = (overtaken \/ (cell /\ present' = {} /\ \E u \in Threads : pc[u] = "put"))
    /\ UNCHANGED epoch

FlushLocked(t) ==
    /\ Goes(t, "locked", IF Overlapping(rng[t]) = {} THEN "act" ELSE "writeback")
    /\ RemoveOverlapping(t, rng[t])
    /\ pend' = [pend EXCEPT ![t] = Overlapping(rng[t])]
    /\ UNCHANGED <<store, op, rng, obs, owner, calls>>

\* Where a call goes after its last write-back.
Resumes(t) == IF op[t] = "commit" THEN "readvance" ELSE "act"

\* Mutant: the image is compared with itself.
IsUnchanged(v) == TRUE

\* Arrays.equals(image, state.originalImage)
Unchanged(v) == \A s \in v : val[v][s] = orig[v][s]

\* writeBackMemoryView of an unchanged view; the others go on to their store.
WriteBack(t) ==
    /\ \E v \in pend[t] :
         IF Unchanged(v)
         THEN /\ Goes(t, "writeback", IF pend[t] = {v} THEN Resumes(t) ELSE "writeback")
              /\ pend' = [pend EXCEPT ![t] = @ \ {v}]
         ELSE /\ Goes(t, "writeback", "flag2")
              /\ UNCHANGED pend
    /\ UNCHANGED <<store, index, op, rng, obs, owner, calls>>

\* The view whose image is being stored: the code takes them in order.
Storing(t) == CHOOSE v \in pend[t] : ~Unchanged(v)

DiscardLocked(t) ==
    /\ Goes(t, "locked2", "writebytes")
    /\ RemoveOverlapping(t, Storing(t))
    /\ UNCHANGED <<store, frame, owner, calls>>

\* storeRange(image); state.originalImage = image
WriteBytes(t) ==
    LET v == Storing(t)
    IN /\ Goes(t, "writebytes", IF pend[t] = {v} THEN Resumes(t) ELSE "writeback")
       /\ bytes' = Patch(bytes, val[v], v)
       /\ orig' = [orig EXCEPT ![v] = val[v]]
       /\ pend' = [pend EXCEPT ![t] = @ \ {v}]
       /\ UNCHANGED <<val, truth, index, op, rng, obs, owner, calls>>

-----------------------------------------------------------------------------
(* What follows the flush                                                  *)

Load(t) ==
    /\ op[t] = "load"
    /\ Goes(t, "act", "idle")
    /\ UNCHANGED <<store, index, frame, owner, calls>>

Store(t) ==
    /\ op[t] = "store"
    /\ Goes(t, "act", "idle")
    /\ truth' = [s \in Slots |-> IF s \in rng[t] THEN 1 - truth[s] ELSE truth[s]]
    /\ bytes' = Patch(bytes, truth', rng[t])
    /\ UNCHANGED <<val, orig, index, frame, owner, calls>>

\* decodeAggregate: a new view with the bytes as its original image.
DecodeImage(t) ==
    /\ op[t] = "decode"
    /\ Goes(t, "act", "advance")
    /\ val' = [val EXCEPT ![rng[t]] = bytes]
    /\ orig' = [orig EXCEPT ![rng[t]] = bytes]
    /\ UNCHANGED <<bytes, truth, index, frame, owner, calls>>

\* Mutant: the epoch does not advance once the view is published.
AdvanceNothing == epoch

\* advanceMemoryViewEpoch
Advanced == epoch + 1

Advance(t) ==
    /\ Goes(t, "advance", "setflag")
    /\ epoch' = epoch + 1
    /\ UNCHANGED <<store, present, flag, absence, overtaken, frame, owner, calls>>

RaiseFlag(t) ==
    /\ Goes(t, "setflag", "put")
    /\ SetFlag(TRUE)
    /\ UNCHANGED <<store, present, epoch, absence, overtaken, frame, owner, calls>>

PutView(t) ==
    /\ Goes(t, "put", "advance2")
    /\ present' = present \cup {rng[t]}
    /\ UNCHANGED <<store, flag, epoch, absence, overtaken, frame, owner, calls>>

AdvanceAgain(t) ==
    /\ Goes(t, "advance2", "idle")
    /\ epoch' = Advanced
    /\ UNCHANGED <<store, present, flag, absence, overtaken, frame, owner, calls>>

\* The end of commitMemoryViewLocked: the view is put back, flag and all.
CommitAdvance(t) ==
    /\ \/ Goes(t, "readvance", "reput")
       \/ Goes(t, "readvance2", "idle")
    /\ epoch' = epoch + 1
    /\ UNCHANGED <<store, present, flag, absence, overtaken, frame, owner, calls>>

\* Mutant: the flag its own write-back may have cleared is not set again.
CommitPutUnflagged(t) ==
    /\ Goes(t, "reput", "readvance2")
    /\ present' = present \cup {rng[t]}
    /\ UNCHANGED <<store, flag, epoch, absence, overtaken, frame, owner, calls>>

CommitPut(t) ==
    /\ Goes(t, "reput", "readvance2")
    /\ present' = present \cup {rng[t]}
    /\ SetFlag(TRUE)
    /\ UNCHANGED <<store, epoch, absence, overtaken, frame, owner, calls>>

-----------------------------------------------------------------------------
Steps(t) ==
    \/ TestFlag(t) \/ TestEpoch(t) \/ FlushLocked(t) \/ WriteBack(t)
    \/ DiscardLocked(t) \/ WriteBytes(t)
    \/ Load(t) \/ Store(t) \/ DecodeImage(t)
    \/ Advance(t) \/ RaiseFlag(t) \/ PutView(t) \/ AdvanceAgain(t)
    \/ CommitAdvance(t) \/ CommitPut(t)

Next ==
    \/ \E t \in Threads :
          \/ \E o \in {"load", "store"}, B \in Blocks :
                \E S \in SUBSET B \ {{}} : Access(t, o, S)
          \/ \E v \in Shapes : Decode(t, v) \/ Commit(t, v) \/ \E s \in v : Mutate(t, v, s)
          \/ Steps(t)
    \/ \E B \in Blocks, u \in Threads : Transfer(B, u)

Spec == Init /\ [][Next]_vars

-----------------------------------------------------------------------------
(* Properties                                                              *)
(*                                                                         *)
(* Each is about allocations whose flag was never lowered under a thread   *)
(* between RaiseFlag and PutView: that can happen to a cell two threads    *)
(* use at once, and its view is then overlooked.  An array has no flag.    *)

\* When an access comes to its bytes they hold what the program wrote last,
\* through a decoded object or directly, by this thread or by an earlier owner.
ReadsSeeWrites ==
    ~overtaken =>
        \A t \in Threads : pc[t] = "act" /\ op[t] # "store"
            => \A s \in rng[t] : bytes[s] = truth[s]

\* A store never discards a mutation of another part of an overlapping view:
\* a slot outside every active or pending view is up to date in the bytes.
NoMutationLost ==
    ~overtaken =>
        \A B \in Blocks : pc[owner[B]] = "idle" =>
            \A s \in B :
                LET V == {v \in present : s \in v}
                IN IF V = {} THEN bytes[s] = truth[s] ELSE \A v \in V : val[v][s] = truth[s]

\* "Preserves mutations made through decoded aggregate objects before an
\* ordinary byte write replaces part of their storage": when a store comes to
\* its bytes, every decoded view it overlaps has been retired.
StoreFlushesFirst ==
    ~overtaken =>
        \A t \in Threads : pc[t] = "act" /\ op[t] = "store" => Overlapping(rng[t]) = {}
=============================================================================

------------------------- MODULE MemoryViewsProofs -------------------------
(***************************************************************************)
(* Proofs about MemoryViews, for any blocks, shapes, threads and calls:    *)
(* accesses see the last writes, no mutation of a decoded object is lost,  *)
(* and a store finds no view in its way.                                   *)
(*                                                                         *)
(* The argument.  What a thread works on lies in the slots it owns (Area), *)
(* and the areas of two threads are disjoint.  A view is Live from its     *)
(* decoding until its image is back in the bytes: in MEMORY_VIEWS, waiting *)
(* to be written back, or on its way into the table.  Live views never     *)
(* overlap; each holds the truth about its slots, and its original image   *)
(* is what the bytes hold; outside them the bytes hold the truth.  The     *)
(* shortcuts around the flush are right because a cell without the flag    *)
(* has no views (Flagged), and because a thread whose cache is as new as   *)
(* the epoch can only miss views that are being published (Absent), which  *)
(* lie in somebody else's area.  Flagged holds until a thread lowers the   *)
(* flag of a cell under one that is between raising it and publishing its  *)
(* view (overtaken); what is proved is proved of the states before that.   *)
(***************************************************************************)
EXTENDS MemoryViews, TLAPS

Writing == {"writeback", "flag2", "epoch2", "locked2", "writebytes"}
Keeping == {"advance", "setflag", "put", "readvance", "reput"}
Published == {"advance2", "readvance2"}
Finding == {"flag", "epoch", "locked", "act"}
PCs == {"idle"} \cup Writing \cup Keeping \cup Published \cup Finding
Ops == {"load", "store", "decode", "commit"}
Images == [Slots -> {0, 1}]

StoreTypes ==
    /\ bytes \in Images /\ truth \in Images
    /\ val \in [Shapes -> Images] /\ orig \in [Shapes -> Images]

IndexTypes ==
    /\ cell \in BOOLEAN /\ flag \in BOOLEAN
    /\ present \subseteq Shapes
    /\ epoch \in Nat
    /\ absence \in [Threads -> Int]
    /\ \A t \in Threads : absence[t] <= epoch

FrameTypes ==
    /\ pc \in [Threads -> PCs] /\ op \in [Threads -> Ops]
    /\ rng \in [Threads -> SUBSET Slots] /\ obs \in [Threads -> Nat]
    /\ pend \in [Threads -> SUBSET Shapes]
    /\ owner \in [Blocks -> Threads]

\* The slots t may touch.
Area(t) == {s \in Slots : \E B \in Blocks : s \in B /\ owner[B] = t}

\* The views t has taken out of the table or not put into it yet.
Kept(t) == pend[t] \cup IF pc[t] \in Keeping THEN {rng[t]} ELSE {}

Live == {v \in Shapes : v \in present \/ \E t \in Threads : v \in Kept(t)}

\* The call of t: its range, its pending views, the view it stores.
InCall(t) ==
    /\ pc[t] # "idle" => rng[t] \subseteq Area(t)
    /\ \A v \in pend[t] : v \subseteq Area(t)
    /\ pc[t] \notin Writing => pend[t] = {}
    /\ pc[t] \in Writing \ {"writeback"} => \E v \in pend[t] : ~Unchanged(v)
    /\ pc[t] # "idle" /\ op[t] \in {"decode", "commit"} => rng[t] \in Shapes
    /\ pc[t] \in Writing /\ op[t] = "commit" => pend[t] = {rng[t]}
    /\ pc[t] \in Finding => op[t] # "commit"
    /\ pc[t] \in Keeping \cup Published => op[t] \in {"decode", "commit"}

\* What a flush has found and taken out stays out until the call ends.
Retired(t) ==
    pc[t] \in Writing \cup {"act", "advance", "setflag", "put"} /\ op[t] # "commit"
        => Overlapping(rng[t]) = {}

\* hasMemoryView of a cell.
Flagged ==
    cell => /\ present # {} => flag
            /\ \A t \in Threads : pc[t] = "put" => flag

\* A cache as new as the epoch misses only views in the middle of publication.
Absent(t) ==
    absence[t] = epoch =>
        \A v \in present : \E u \in Threads : pc[u] \in Published /\ rng[u] = v

Disjoint == \A v, w \in Live : v # w => v \cap w = {}
Held(v) == \A s \in v : val[v][s] = truth[s] /\ orig[v][s] = bytes[s]
Fresh(s) == (\A v \in Live : s \notin v) => bytes[s] = truth[s]

IInv ==
    /\ StoreTypes /\ IndexTypes /\ FrameTypes
    /\ Flagged /\ Disjoint
    /\ \A v \in Live : Held(v)
    /\ \A s \in Slots : Fresh(s)
    /\ \A t \in Threads : InCall(t) /\ Retired(t) /\ Absent(t)

-----------------------------------------------------------------------------
(* The steps of one thread                                                 *)

Begins(t) ==
    \/ \E o \in {"load", "store"}, B \in Blocks : \E S \in SUBSET B : Access(t, o, S)
    \/ \E v \in Shapes : Decode(t, v) \/ Commit(t, v)

Mutates(t) == \E v \in Shapes : \E s \in v : Mutate(t, v, s)

Step(t) == Begins(t) \/ Mutates(t) \/ Steps(t)

Transfers == \E B \in Blocks, u \in Threads : Transfer(B, u)

\* Every step of the program is a step of one thread or a transfer.
LEMMA StepCases == Next => Transfers \/ \E t \in Threads : Step(t)
  BY DEF Next, Transfers, Step, Begins, Mutates

\* What a step of t does not touch.
Framed(t) ==
    /\ owner' = owner /\ cell' = cell
    /\ \A u \in Threads \ {t} :
          /\ pc'[u] = pc[u] /\ op'[u] = op[u] /\ rng'[u] = rng[u]
          /\ pend'[u] = pend[u] /\ absence'[u] = absence[u]

\* Shapes are sets of slots, and no slot is in two blocks.
LEMMA ShapeSlots ==
    /\ \A v \in Shapes : v \subseteq Slots /\ v # {}
    /\ \A B \in Blocks : B \subseteq Slots
    /\ \A B, C \in Blocks, s \in Slots : s \in B /\ s \in C => B = C
  BY ShapesAssumption DEF Slots

\* Two threads own different slots.
LEMMA AreasApart ==
    ASSUME NEW t, NEW u, t # u
    PROVE  Area(t) \cap Area(u) = {}
  BY ShapeSlots DEF Area

\* A shape one of whose slots t owns is t's as a whole.
LEMMA WholeShape ==
    ASSUME NEW t, NEW v \in Shapes, v \cap Area(t) # {}
    PROVE  v \subseteq Area(t)
<1>1. PICK s \in v : s \in Area(t)
  OBVIOUS
<1>2. PICK B \in Blocks : v \subseteq B
  BY ShapesAssumption
<1>3. owner[B] = t
  BY <1>1, <1>2, ShapeSlots DEF Area
<1> QED
  BY <1>2, <1>3, ShapeSlots DEF Area

\* Ranges a thread may touch lie in its area.
LEMMA OwnsArea ==
    ASSUME NEW t, NEW S, Owns(t, S)
    PROVE  S \subseteq Area(t) /\ S \subseteq Slots
  BY ShapeSlots DEF Owns, Area

\* The views t keeps lie in its area.
LEMMA KeptInArea ==
    ASSUME NEW t \in Threads, InCall(t), NEW v \in Kept(t)
    PROVE  v \subseteq Area(t)
  BY DEF InCall, Kept, Keeping

\* The view t is storing is one of its pending views.
LEMMA StoringPending ==
    ASSUME IInv, NEW t \in Threads, pc[t] \in Writing \ {"writeback"}
    PROVE  /\ Storing(t) \in pend[t] /\ Storing(t) \in Shapes
           /\ Storing(t) \subseteq Area(t) /\ Storing(t) \in Live
<1>1. \E v \in pend[t] : ~Unchanged(v)
  BY DEF IInv, InCall
<1>2. Storing(t) \in pend[t]
  BY <1>1 DEF Storing
<1> QED
  BY <1>2 DEF IInv, InCall, FrameTypes, Live, Kept

-----------------------------------------------------------------------------
(* Types and frames                                                        *)

\* The calls, one step at a time: what stays in type and what is untouched.
LEMMA BeginsFramed ==
    ASSUME IInv, NEW t \in Threads, Begins(t) \/ Mutates(t)
    PROVE  FrameTypes' /\ Framed(t)
<1>0. FrameTypes
  BY DEF IInv
<1>1. ASSUME NEW o \in Ops, NEW S, NEW to \in PCs, Call(t, o, S, to), absence' = absence,
             \/ pend' = pend /\ obs' = obs
             \/ obs' = obs /\ S \in Shapes /\ pend' = [pend EXCEPT ![t] = {S}]
      PROVE  FrameTypes' /\ Framed(t)
  <2>1. S \subseteq Slots
    BY <1>1, OwnsArea DEF Call
  <2> QED
    BY <1>0, <1>1, <2>1 DEF Call, Goes, FrameTypes, Framed
<1>2. ASSUME NEW o \in {"load", "store"}, NEW S, Access(t, o, S)
      PROVE  FrameTypes' /\ Framed(t)
  BY <1>1, <1>2 DEF Access, index, Ops, PCs, Finding
<1>3. ASSUME NEW v \in Shapes, Decode(t, v)
      PROVE  FrameTypes' /\ Framed(t)
  <2>1. PICK to \in PCs : Call(t, "decode", v, to)
    BY <1>3 DEF Decode, PCs, Finding
  <2> QED
    BY <1>1, <1>3, <2>1 DEF Decode, Ops
<1>4. ASSUME NEW v \in Shapes, Commit(t, v)
      PROVE  FrameTypes' /\ Framed(t)
  BY <1>1, <1>4, ZenonT(60) DEF Commit, index, Ops, PCs, Writing
<1>5. CASE Mutates(t)
  BY <1>0, <1>5 DEF Mutates, Mutate, frame, index, FrameTypes, Framed
<1> QED
  BY <1>2, <1>3, <1>4, <1>5 DEF Begins

\* The steps inside a call.
LEMMA StepsFramed ==
    ASSUME IInv, NEW t \in Threads, Steps(t)
    PROVE  FrameTypes' /\ Framed(t)
<1>0. FrameTypes /\ epoch \in Nat /\ absence \in [Threads -> Int] /\ present \subseteq Shapes
  BY DEF IInv, IndexTypes
<1> USE DEF PCs, Writing, Keeping, Published, Finding
<1>1. CASE TestFlag(t)
  BY <1>0, <1>1 DEF TestFlag, Goes, frame, index, FrameTypes, Framed
<1>2. CASE TestEpoch(t)
  BY <1>0, <1>2 DEF TestEpoch, Goes, index, FrameTypes, Framed
<1>3. CASE FlushLocked(t)
  BY <1>0, <1>3, ZenonT(60)
     DEF FlushLocked, RemoveOverlapping, Overlapping, Goes, FrameTypes, Framed
<1>4. CASE WriteBack(t)
  BY <1>0, <1>4 DEF WriteBack, Resumes, Goes, index, FrameTypes, Framed
<1>5. CASE DiscardLocked(t)
  BY <1>0, <1>5, ZenonT(60) DEF DiscardLocked, RemoveOverlapping, Goes, frame, FrameTypes, Framed
<1>6. CASE WriteBytes(t)
  BY <1>0, <1>6 DEF WriteBytes, Resumes, Goes, index, FrameTypes, Framed
<1>7. CASE Load(t) \/ Store(t) \/ DecodeImage(t)
  BY <1>0, <1>7 DEF Load, Store, DecodeImage, Goes, frame, index, FrameTypes, Framed
<1>8. ASSUME NEW from, NEW to \in PCs, Goes(t, from, to), UNCHANGED <<frame, owner, absence>>
      PROVE  FrameTypes' /\ Framed(t)
  BY <1>0, <1>8 DEF Goes, frame, FrameTypes, Framed
<1>9. CASE Advance(t) \/ RaiseFlag(t) \/ PutView(t) \/ AdvanceAgain(t)
  BY <1>8, <1>9, ZenonT(60) DEF Advance, RaiseFlag, PutView, AdvanceAgain
<1>10. CASE CommitAdvance(t) \/ CommitPut(t)
  BY <1>8, <1>10, ZenonT(60) DEF CommitAdvance, CommitPut
<1> QED
  BY <1>1, <1>2, <1>3, <1>4, <1>5, <1>6, <1>7, <1>9, <1>10 DEF Steps

\* A step of t leaves the calls of the others alone.
LEMMA StepFramed ==
    ASSUME IInv, NEW t \in Threads, Step(t)
    PROVE  FrameTypes' /\ Framed(t)
  BY BeginsFramed, StepsFramed DEF Step

\* Most steps inside a call leave bytes and views alone.
StoreSteps(t) == Mutates(t) \/ WriteBytes(t) \/ Store(t) \/ DecodeImage(t)

\* The steps that do not write, decode or mutate.
LEMMA OtherStepsKeepStore ==
    ASSUME NEW t \in Threads, Step(t), ~StoreSteps(t)
    PROVE  UNCHANGED <<bytes, val, orig, truth>>
<1>1. CASE Begins(t)
  BY <1>1, ZenonT(60) DEF Begins, Access, Decode, Commit, store
<1>2. CASE TestFlag(t) \/ TestEpoch(t) \/ FlushLocked(t) \/ WriteBack(t) \/ DiscardLocked(t) \/ Load(t)
  BY <1>2 DEF TestFlag, TestEpoch, FlushLocked, WriteBack, DiscardLocked, Load, store
<1>3. CASE Advance(t) \/ RaiseFlag(t) \/ PutView(t) \/ AdvanceAgain(t)
  BY <1>3, ZenonT(60) DEF Advance, RaiseFlag, PutView, AdvanceAgain, store
<1>4. CASE CommitAdvance(t) \/ CommitPut(t)
  BY <1>4, ZenonT(60) DEF CommitAdvance, CommitPut, store
<1> QED
  BY <1>1, <1>2, <1>3, <1>4 DEF Step, Steps, StoreSteps

\* The steps that write bytes, decode or mutate.
LEMMA WritesTyped ==
    ASSUME IInv, NEW t \in Threads, StoreSteps(t)
    PROVE  StoreTypes'
<1>0. StoreTypes /\ \A v \in Shapes : v \subseteq Slots
  BY ShapeSlots DEF IInv
<1>1. ASSUME NEW v \in Shapes, NEW s \in v, Mutate(t, v, s)
      PROVE  StoreTypes'
  <2>1. s \in Slots /\ 1 - truth[s] \in {0, 1} /\ val[v] \in Images
    BY <1>0 DEF StoreTypes, Images
  <2>2. truth' \in Images /\ val' = [val EXCEPT ![v] = [val[v] EXCEPT ![s] = 1 - truth[s]]]
    BY <1>0, <1>1, <2>1 DEF Mutate, StoreTypes, Images
  <2>3. [val[v] EXCEPT ![s] = 1 - truth[s]] \in Images
    BY <2>1 DEF Images
  <2> QED
    BY <1>0, <1>1, <2>2, <2>3 DEF Mutate, StoreTypes
<1>2. CASE WriteBytes(t)
  <2>1. pc[t] = "writebytes"
    BY <1>2 DEF WriteBytes, Goes
  <2>2. PICK v \in Shapes : v = Storing(t)
    BY <2>1, StoringPending DEF Writing
  <2>3. /\ bytes' = Patch(bytes, val[v], v) /\ orig' = [orig EXCEPT ![v] = val[v]]
        /\ val' = val /\ truth' = truth
    BY <1>2, <2>2 DEF WriteBytes
  <2>4. bytes' \in Images
    BY <1>0, <2>3, ZenonT(60) DEF Patch, StoreTypes, Images
  <2> QED
    BY <1>0, <2>3, <2>4 DEF StoreTypes
<1>3. CASE Store(t)
  <2>1. truth' \in Images
    BY <1>0, <1>3 DEF Store, StoreTypes, Images
  <2>2. bytes' \in Images
    BY <1>0, <1>3, <2>1, ZenonT(60) DEF Store, Patch, StoreTypes, Images
  <2> QED
    BY <1>0, <1>3, <2>1, <2>2, ZenonT(60) DEF Store, StoreTypes
<1>4. CASE DecodeImage(t)
  BY <1>0, <1>4, ZenonT(60) DEF DecodeImage, StoreTypes
<1> QED
  BY <1>1, <1>2, <1>3, <1>4 DEF StoreSteps, Mutates

\* Bytes, images and truth stay in type.
LEMMA StoreTyped ==
    ASSUME IInv, NEW t \in Threads, Step(t)
    PROVE  StoreTypes'
  BY WritesTyped, OtherStepsKeepStore DEF IInv, StoreTypes

\* How the table of views, the flag, the epoch and the caches may change.
Advances == epoch' = epoch + 1 /\ UNCHANGED <<present, flag, absence>>
Puts(t) ==
    /\ present' = present \cup {rng[t]} /\ UNCHANGED <<epoch, absence>>
    /\ flag' = flag \/ SetFlag(TRUE)
Raises == UNCHANGED <<present, epoch, absence>> /\ SetFlag(TRUE)

\* Which step changes them in which way.
LEMMA IndexSteps ==
    ASSUME NEW t \in Threads, Step(t)
    PROVE  \/ UNCHANGED <<present, flag, epoch, absence>>
           \/ Advances /\ (Advance(t) \/ AdvanceAgain(t) \/ CommitAdvance(t))
           \/ Raises /\ (RaiseFlag(t) \/ \E v \in present : Decode(t, v))
           \/ Puts(t) /\ (PutView(t) \/ (CommitPut(t) /\ SetFlag(TRUE)))
           \/ RemoveOverlapping(t, rng[t]) /\ FlushLocked(t)
           \/ RemoveOverlapping(t, Storing(t)) /\ DiscardLocked(t)
<1>0. ASSUME NEW v \in Shapes, Decode(t, v)
      PROVE  \/ UNCHANGED <<present, flag, epoch, absence>>
             \/ Raises /\ \E w \in present : Decode(t, w)
  <2>1. CASE v \in present
    <3>1. Raises
      BY <1>0, <2>1, ZenonT(60) DEF Decode, Raises
    <3> QED
      BY <1>0, <2>1, <3>1
  <2>2. CASE v \notin present
    BY <1>0, <2>2 DEF Decode
  <2> QED
    BY <2>1, <2>2
<1>1. CASE Begins(t) \/ Mutates(t)
  <2>1. \/ UNCHANGED <<present, flag, epoch, absence>>
        \/ \E v \in Shapes : Decode(t, v)
    BY <1>1 DEF Begins, Mutates, Mutate, Access, Commit, index
  <2> QED
    BY <1>0, <2>1, ZenonT(60)
<1>2. CASE TestFlag(t) \/ TestEpoch(t) \/ WriteBack(t) \/ WriteBytes(t)
  BY <1>2, ZenonT(60) DEF TestFlag, TestEpoch, WriteBack, WriteBytes, index
<1>3. CASE Load(t) \/ Store(t) \/ DecodeImage(t)
  BY <1>3, ZenonT(60) DEF Load, Store, DecodeImage, index
<1>4. CASE Advance(t) \/ AdvanceAgain(t) \/ CommitAdvance(t)
  BY <1>4, ZenonT(60) DEF Advance, AdvanceAgain, Advanced, CommitAdvance, Advances
<1>5. CASE RaiseFlag(t)
  BY <1>5, ZenonT(60) DEF RaiseFlag, Raises
<1>6. CASE PutView(t) \/ CommitPut(t)
  <2>1. PutView(t) => Puts(t)
    BY DEF PutView, Puts
  <2>2. CommitPut(t) => Puts(t) /\ SetFlag(TRUE)
    BY DEF CommitPut, Puts, SetFlag
  <2> QED
    BY <1>6, <2>1, <2>2, ZenonT(60)
<1>7. CASE FlushLocked(t) \/ DiscardLocked(t)
  BY <1>7, ZenonT(60) DEF FlushLocked, DiscardLocked
<1> QED
  BY <1>1, <1>2, <1>3, <1>4, <1>5, <1>6, <1>7, ZenonT(60) DEF Step, Steps

\* Where in a call the table of views changes.
LEMMA IndexPlaces ==
    ASSUME IInv, NEW t \in Threads
    PROVE  /\ PutView(t) => pc[t] = "put" /\ rng[t] \in Shapes
           /\ CommitPut(t) => pc[t] = "reput" /\ rng[t] \in Shapes
           /\ FlushLocked(t) => pc[t] = "locked" /\ rng[t] \subseteq Area(t)
           /\ DiscardLocked(t) => /\ pc[t] = "locked2" /\ Storing(t) \subseteq Area(t)
                                  /\ Storing(t) \in pend[t] /\ Storing(t) \in Live
<1>1. InCall(t)
  BY DEF IInv
<1>2. DiscardLocked(t) => pc[t] = "locked2"
  BY ZenonT(60) DEF DiscardLocked, Goes
<1>3. pc[t] = "locked2" => /\ Storing(t) \subseteq Area(t) /\ Storing(t) \in pend[t]
                           /\ Storing(t) \in Live
  BY StoringPending, ZenonT(60) DEF Writing
<1>4. FlushLocked(t) => pc[t] = "locked" /\ rng[t] \subseteq Area(t)
  BY <1>1, ZenonT(60) DEF FlushLocked, Goes, InCall
<1>5. pc[t] \in Keeping => rng[t] \in Shapes
  BY <1>1, ZenonT(60) DEF InCall, Keeping
<1>6. (PutView(t) => pc[t] = "put") /\ (CommitPut(t) => pc[t] = "reput")
  BY ZenonT(60) DEF PutView, CommitPut, Goes
<1> QED
  BY <1>2, <1>3, <1>4, <1>5, <1>6, ZenonT(60) DEF Keeping

\* Flag, epoch, table and caches stay in type, and no cache is ahead.
LEMMA IndexTyped ==
    ASSUME IInv, NEW t \in Threads, Step(t)
    PROVE  IndexTypes'
<1>0. IndexTypes /\ cell' = cell
  BY StepFramed, ZenonT(60) DEF IInv, Framed
<1>1. CASE UNCHANGED <<present, flag, epoch, absence>>
  BY <1>0, <1>1 DEF IndexTypes
<1>2. CASE Advances
  BY <1>0, <1>2 DEF IndexTypes, Advances
<1>3. CASE Raises
  BY <1>0, <1>3, ZenonT(60) DEF IndexTypes, Raises, SetFlag
<1>4. CASE Puts(t) /\ (PutView(t) \/ CommitPut(t))
  BY <1>0, <1>4, IndexPlaces, ZenonT(60) DEF IndexTypes, Puts, SetFlag
<1>5. ASSUME NEW S, RemoveOverlapping(t, S)
      PROVE  IndexTypes'
  <2>1. present' \subseteq Shapes /\ epoch' = epoch /\ flag' \in BOOLEAN
    BY <1>0, <1>5, ZenonT(60) DEF IndexTypes, RemoveOverlapping, SetFlag
  <2>2. absence' = absence \/ absence' = [absence EXCEPT ![t] = epoch]
    BY <1>0, <1>5, ZenonT(60) DEF IndexTypes, RemoveOverlapping, Remembered
  <2> QED
    BY <1>0, <2>1, <2>2 DEF IndexTypes
<1> QED
  BY <1>1, <1>2, <1>3, <1>4, <1>5, IndexSteps, ZenonT(60)

\* Views outside the area of t neither come nor go by a step of t.
LEMMA PresentFramed ==
    ASSUME IInv, NEW t \in Threads, Step(t), NEW v \in Shapes, ~(v \subseteq Area(t))
    PROVE  v \in present' <=> v \in present
<1>1. CASE UNCHANGED present
  BY <1>1, ZenonT(60)
<1>2. CASE Puts(t) /\ (PutView(t) \/ CommitPut(t))
  <2>1. rng[t] \subseteq Area(t)
    BY <1>2, IndexPlaces, ZenonT(60) DEF IInv, InCall
  <2> QED
    BY <1>2, <2>1, ZenonT(60) DEF Puts
<1>3. ASSUME NEW S, S \subseteq Area(t), RemoveOverlapping(t, S)
      PROVE  v \in present' <=> v \in present
  BY <1>3, WholeShape, ZenonT(60) DEF RemoveOverlapping, Overlapping
<1> QED
  BY <1>1, <1>2, <1>3, IndexSteps, IndexPlaces, ZenonT(60) DEF Advances, Raises

\* Nor do the bytes, images and truth of others change.
LEMMA StoreFramed ==
    ASSUME IInv, NEW t \in Threads, Step(t)
    PROVE  /\ \A s \in Slots \ Area(t) : bytes'[s] = bytes[s] /\ truth'[s] = truth[s]
           /\ \A v \in Shapes : ~(v \subseteq Area(t)) => val'[v] = val[v] /\ orig'[v] = orig[v]
<1>0. StoreTypes /\ InCall(t)
  BY ZenonT(60) DEF IInv
<1>1. CASE ~StoreSteps(t)
  BY <1>1, OtherStepsKeepStore, ZenonT(60)
<1>2. ASSUME NEW v \in Shapes, NEW s \in v, Mutate(t, v, s)
      PROVE  /\ \A r \in Slots \ Area(t) : bytes'[r] = bytes[r] /\ truth'[r] = truth[r]
             /\ \A w \in Shapes : ~(w \subseteq Area(t)) => val'[w] = val[w] /\ orig'[w] = orig[w]
  <2>1. v \subseteq Area(t)
    BY <1>2, OwnsArea, ZenonT(60) DEF Mutate
  <2> QED
    BY <1>0, <1>2, <2>1, ZenonT(60) DEF Mutate, StoreTypes, Images
<1>3. CASE WriteBytes(t)
  <2>1. pc[t] = "writebytes"
    BY <1>3 DEF WriteBytes, Goes
  <2>2. PICK v \in Shapes : v = Storing(t) /\ v \subseteq Area(t)
    BY <2>1, StoringPending, ZenonT(60) DEF Writing
  <2>3. /\ bytes' = Patch(bytes, val[v], v) /\ orig' = [orig EXCEPT ![v] = val[v]]
        /\ val' = val /\ truth' = truth
    BY <1>3, <2>2, ZenonT(60) DEF WriteBytes
  <2> QED
    BY <1>0, <2>2, <2>3, ZenonT(60) DEF Patch, StoreTypes, Images
<1>4. CASE Store(t)
  <2>1. rng[t] \subseteq Area(t)
    BY <1>0, <1>4, ZenonT(60) DEF Store, Goes, InCall
  <2> QED
    BY <1>0, <1>4, <2>1, ZenonT(60) DEF Store, Patch, StoreTypes, Images
<1>5. CASE DecodeImage(t)
  <2>1. rng[t] \subseteq Area(t) /\ UNCHANGED <<bytes, truth>>
    BY <1>0, <1>5, ZenonT(60) DEF DecodeImage, Goes, InCall
  <2> QED
    BY <1>0, <1>5, <2>1, ZenonT(60) DEF DecodeImage, StoreTypes
<1> QED
  BY <1>1, <1>2, <1>3, <1>4, <1>5, ZenonT(60) DEF StoreSteps, Mutates

-----------------------------------------------------------------------------
(* The views that are live                                                 *)

Mine(t) == present \cup Kept(t)

\* Only t's own part of the live views can change.
LEMMA LiveMoves ==
    ASSUME IInv, NEW t \in Threads, Step(t), NEW X, NEW Y,
           Mine(t) \subseteq Mine(t)' \cup X, Mine(t)' \subseteq Mine(t) \cup Y
    PROVE  Live \subseteq Live' \cup X /\ Live' \subseteq Live \cup Y
<1>1. \A u \in Threads \ {t} : Kept(u)' = Kept(u)
  BY StepFramed, ZenonT(60) DEF Framed, Kept
<1>2. ASSUME NEW v \in Live PROVE v \in Live' \cup X
  <2>1. v \in Shapes /\ (v \in Mine(t) \/ \E u \in Threads \ {t} : v \in Kept(u))
    BY <1>2, ZenonT(60) DEF Live, Mine
  <2>2. v \in Mine(t)' => v \in Live'
    BY <2>1, ZenonT(60) DEF Live, Mine
  <2>3. (\E u \in Threads \ {t} : v \in Kept(u)) => v \in Live'
    BY <1>1, <2>1, ZenonT(60) DEF Live
  <2> QED
    BY <2>1, <2>2, <2>3, ZenonT(60)
<1>3. ASSUME NEW v \in Live' PROVE v \in Live \cup Y
  <2>1. v \in Shapes /\ (v \in Mine(t)' \/ \E u \in Threads \ {t} : v \in Kept(u))
    BY <1>1, <1>3, ZenonT(60) DEF Live, Mine
  <2>2. v \in Mine(t) => v \in Live
    BY <2>1, ZenonT(60) DEF Live, Mine
  <2>3. (\E u \in Threads \ {t} : v \in Kept(u)) => v \in Live
    BY <2>1, ZenonT(60) DEF Live
  <2> QED
    BY <2>1, <2>2, <2>3, ZenonT(60)
<1> QED
  BY <1>2, <1>3, ZenonT(60)

\* A live view that meets another one is that one.
LEMMA MeetingIsSame ==
    ASSUME IInv, NEW v \in Live, NEW w \in present, v \cap w # {}
    PROVE  v = w
  BY ZenonT(60) DEF IInv, IndexTypes, Disjoint, Live

\* Calls begin and go on, tables change: the live views stay.
LEMMA MineStays ==
    ASSUME IInv, NEW t \in Threads, Step(t),
           ~WriteBack(t), ~WriteBytes(t), ~DecodeImage(t)
    PROVE  Mine(t)' = Mine(t)
<1>0. InCall(t) /\ FrameTypes
  BY ZenonT(60) DEF IInv
<1>1. ASSUME UNCHANGED <<present, rng, pend>>, pc[t] \in Keeping <=> pc'[t] \in Keeping
      PROVE  Mine(t)' = Mine(t)
  BY <1>1, ZenonT(60) DEF Mine, Kept
<1>2. ASSUME UNCHANGED <<present, pend>>, pc[t] \notin Keeping, pc'[t] \notin Keeping
      PROVE  Mine(t)' = Mine(t)
  BY <1>2, ZenonT(60) DEF Mine, Kept
<1>3. ASSUME NEW o, NEW S, Access(t, o, S)
      PROVE  Mine(t)' = Mine(t)
  BY <1>0, <1>2, <1>3, ZenonT(60) DEF Access, Call, Goes, index, FrameTypes, Keeping
<1>4. ASSUME NEW v \in Shapes, Decode(t, v)
      PROVE  Mine(t)' = Mine(t)
  BY <1>0, <1>2, <1>4, ZenonT(60) DEF Decode, Call, Goes, FrameTypes, Keeping
<1>5. ASSUME NEW v \in Shapes, Commit(t, v)
      PROVE  Mine(t)' = Mine(t)
  <2>1. /\ pc[t] = "idle" /\ pc'[t] = "writeback" /\ pend'[t] = {v}
        /\ v \in present /\ present' = present
    BY <1>0, <1>5, ZenonT(60) DEF Commit, Call, Goes, index, FrameTypes
  <2>2. pend[t] = {}
    BY <1>0, <2>1, ZenonT(60) DEF InCall, Writing
  <2> QED
    BY <2>1, <2>2, ZenonT(60) DEF Mine, Kept, Keeping
<1>6. CASE Mutates(t)
  BY <1>1, <1>6, ZenonT(60) DEF Mutates, Mutate, index, frame
<1>7. CASE TestFlag(t) \/ TestEpoch(t)
  <2>1. UNCHANGED <<present, pend>>
    BY <1>7, ZenonT(60) DEF TestFlag, TestEpoch, index, frame
  <2>2. pc[t] \notin Keeping /\ pc'[t] \notin Keeping
    BY <1>0, <1>7, ZenonT(60) DEF TestFlag, TestEpoch, Goes, FrameTypes, Keeping
  <2> QED
    BY <1>2, <2>1, <2>2, ZenonT(60)
<1>8. CASE FlushLocked(t)
  <2>1. /\ pc[t] = "locked" /\ pc'[t] \in {"act", "writeback"}
        /\ pend'[t] = Overlapping(rng[t]) /\ present' = present \ Overlapping(rng[t])
    BY <1>0, <1>8, ZenonT(60) DEF FlushLocked, Goes, RemoveOverlapping, FrameTypes
  <2>2. pend[t] = {} /\ Overlapping(rng[t]) \subseteq present
    BY <1>0, <2>1, ZenonT(60) DEF InCall, Writing, Overlapping
  <2> QED
    BY <2>1, <2>2, ZenonT(60) DEF Mine, Kept, Keeping
<1>9. CASE DiscardLocked(t)
  <2>1. /\ pc[t] = "locked2" /\ pc'[t] = "writebytes" /\ pend' = pend
        /\ present' = present \ Overlapping(Storing(t))
    BY <1>0, <1>9, ZenonT(60) DEF DiscardLocked, Goes, RemoveOverlapping, FrameTypes, frame
  <2>2. Storing(t) \in pend[t] /\ Storing(t) \in Live
    BY <1>9, IndexPlaces, ZenonT(60)
  <2>3. Overlapping(Storing(t)) \subseteq {Storing(t)}
    BY <2>2, MeetingIsSame, ZenonT(60) DEF Overlapping
  <2> QED
    BY <2>1, <2>2, <2>3, ZenonT(60) DEF Mine, Kept, Keeping
<1>10. CASE Load(t) \/ Store(t)
  BY <1>0, <1>2, <1>10, ZenonT(60) DEF Load, Store, Goes, index, frame, FrameTypes, Keeping
<1>11. CASE Advance(t) \/ RaiseFlag(t)
  BY <1>0, <1>1, <1>11, ZenonT(60) DEF Advance, RaiseFlag, Goes, frame, FrameTypes, Keeping
<1>12. CASE AdvanceAgain(t) \/ CommitAdvance(t)
  <2>1. UNCHANGED <<present, rng, pend>>
    BY <1>12, ZenonT(60) DEF AdvanceAgain, CommitAdvance, frame
  <2>2. pc[t] \in Keeping <=> pc'[t] \in Keeping
    BY <1>0, <1>12, ZenonT(60) DEF AdvanceAgain, CommitAdvance, Goes, FrameTypes, Keeping
  <2> QED
    BY <1>1, <2>1, <2>2, ZenonT(60)
<1>13. CASE PutView(t) \/ CommitPut(t)
  <2>1. /\ pc[t] \in {"put", "reput"} /\ pc'[t] \in {"advance2", "readvance2"}
        /\ UNCHANGED <<rng, pend>> /\ present' = present \cup {rng[t]}
    BY <1>0, <1>13, ZenonT(60) DEF PutView, CommitPut, Goes, frame, FrameTypes
  <2> QED
    BY <2>1, ZenonT(60) DEF Mine, Kept, Keeping
<1> QED
  BY <1>3, <1>4, <1>5, <1>6, <1>7, <1>8, <1>9, <1>10, <1>11, <1>12, <1>13, ZenonT(60)
  DEF Step, Steps, Begins

\* A view that was written back is dropped, unless a commit keeps it.
LEMMA MineDropped ==
    ASSUME IInv, NEW t \in Threads, NEW v \in pend[t], pc[t] \in Writing,
           UNCHANGED <<present, rng>>, pend'[t] = pend[t] \ {v},
           pc'[t] = IF pend[t] = {v} THEN Resumes(t) ELSE "writeback"
    PROVE  Mine(t) \subseteq Mine(t)' \cup {v} /\ Mine(t)' \subseteq Mine(t)
<1>1. Kept(t) = pend[t]
  BY ZenonT(60) DEF Kept, Writing, Keeping
<1>2. CASE pc'[t] = "readvance"
  <2>1. op[t] = "commit" /\ pend[t] = {v}
    BY <1>2, ZenonT(60) DEF Resumes
  <2>2. rng[t] = v
    BY <2>1, ZenonT(60) DEF IInv, InCall
  <2> QED
    BY <1>1, <1>2, <2>1, <2>2, ZenonT(60) DEF Mine, Kept, Keeping
<1>3. CASE pc'[t] # "readvance"
  <2>1. pc'[t] \notin Keeping
    BY <1>3, ZenonT(60) DEF Resumes, Keeping
  <2> QED
    BY <1>1, <2>1, ZenonT(60) DEF Mine, Kept
<1> QED
  BY <1>2, <1>3, ZenonT(60)

\* What an access that comes to its bytes touches is in no live view.
LEMMA ActClean ==
    ASSUME IInv, NEW t \in Threads, pc[t] = "act", NEW v \in Live
    PROVE  v \cap rng[t] = {} /\ rng[t] \subseteq Area(t)
<1>1. InCall(t) /\ Retired(t)
  BY ZenonT(60) DEF IInv
<1>2. rng[t] \subseteq Area(t) /\ op[t] # "commit" /\ Kept(t) = {}
  BY <1>1, ZenonT(60) DEF InCall, Finding, Kept, Keeping, Writing
<1>3. CASE v \in present
  BY <1>1, <1>2, <1>3, ZenonT(60) DEF Retired, Overlapping
<1>4. ASSUME NEW u \in Threads, v \in Kept(u)
      PROVE  v \cap rng[t] = {}
  <2>1. u # t /\ v \subseteq Area(u)
    BY <1>2, <1>4, KeptInArea, ZenonT(60) DEF IInv
  <2> QED
    BY <1>2, <2>1, AreasApart, ZenonT(60)
<1> QED
  BY <1>2, <1>3, <1>4, ZenonT(60) DEF Live

-----------------------------------------------------------------------------
(* Bytes, images and the truth                                             *)

Exact == Disjoint /\ (\A v \in Live : Held(v)) /\ (\A s \in Slots : Fresh(s))

\* The claims about the store, when the store does not change.
LEMMA ExactWhenUnchanged ==
    ASSUME Exact, UNCHANGED <<bytes, val, orig, truth>>, Live' \subseteq Live,
           \A s \in Slots : bytes[s] = truth[s] \/ \A v \in Live : s \in v => v \in Live'
    PROVE  Exact'
<1>1. Disjoint'
  BY ZenonT(60) DEF Exact, Disjoint
<1>2. \A v \in Live' : Held(v)'
  BY ZenonT(60) DEF Exact, Held
<1>3. ASSUME NEW s \in Slots PROVE Fresh(s)'
  BY <1>3, ZenonT(60) DEF Exact, Fresh
<1> QED
  BY <1>1, <1>2, <1>3, ZenonT(60) DEF Exact

\* writeBackMemoryView of a view that was not mutated: its bytes are right.
LEMMA ExactAfterWriteBack ==
    ASSUME IInv, NEW t \in Threads, WriteBack(t)
    PROVE  Exact'
<1>0. Exact /\ FrameTypes /\ StoreTypes /\ Step(t)
  BY ZenonT(60) DEF IInv, Exact, Step, Steps
<1>1. UNCHANGED <<bytes, val, orig, truth, present, rng>> /\ pc[t] = "writeback"
  BY ZenonT(60) DEF WriteBack, store, index, Goes
<1>2. PICK v \in pend[t] :
        IF Unchanged(v)
        THEN /\ Goes(t, "writeback", IF pend[t] = {v} THEN Resumes(t) ELSE "writeback")
             /\ pend' = [pend EXCEPT ![t] = @ \ {v}]
        ELSE Goes(t, "writeback", "flag2") /\ UNCHANGED pend
  BY ZenonT(60) DEF WriteBack
<1>3. v \in Live /\ v \in Shapes
  BY <1>0, ZenonT(60) DEF FrameTypes, Live, Kept
<1>4. CASE Unchanged(v)
  <2>1. /\ pc'[t] = IF pend[t] = {v} THEN Resumes(t) ELSE "writeback"
        /\ pend'[t] = pend[t] \ {v}
    BY <1>0, <1>2, <1>4, ZenonT(60) DEF Goes, FrameTypes
  <2>2. Mine(t) \subseteq Mine(t)' \cup {v} /\ Mine(t)' \subseteq Mine(t) \cup {}
    BY <1>1, <2>1, MineDropped, ZenonT(60) DEF Writing
  <2>3. Live \subseteq Live' \cup {v} /\ Live' \subseteq Live \cup {}
    BY <1>0, <2>2, LiveMoves, ZenonT(60)
  <2>4. \A s \in v : bytes[s] = truth[s]
    BY <1>0, <1>3, <1>4, ZenonT(60) DEF Exact, Held, Unchanged
  <2>5. \A s \in Slots : bytes[s] = truth[s] \/ \A w \in Live : s \in w => w \in Live'
    BY <2>3, <2>4, ZenonT(60)
  <2> QED
    BY <1>0, <1>1, <2>3, <2>5, ExactWhenUnchanged, ZenonT(60)
<1>5. CASE ~Unchanged(v)
  <2>1. pc'[t] = "flag2" /\ pend' = pend
    BY <1>0, <1>2, <1>5, ZenonT(60) DEF Goes, FrameTypes
  <2>2. Mine(t) \subseteq Mine(t)' \cup {} /\ Mine(t)' \subseteq Mine(t) \cup {}
    BY <1>1, <2>1, ZenonT(60) DEF Mine, Kept, Keeping
  <2>3. Live \subseteq Live' \cup {} /\ Live' \subseteq Live \cup {}
    BY <1>0, <2>2, LiveMoves, ZenonT(60)
  <2> QED
    BY <1>0, <1>1, <2>3, ExactWhenUnchanged, ZenonT(60)
<1> QED
  BY <1>4, <1>5, ZenonT(60)

\* storeRange of a mutated image: the bytes get what the object held.
LEMMA ExactAfterWriteBytes ==
    ASSUME IInv, NEW t \in Threads, WriteBytes(t)
    PROVE  Exact'
<1>0. Exact /\ FrameTypes /\ StoreTypes /\ Step(t)
  BY ZenonT(60) DEF IInv, Exact, Step, Steps
<1>1. pc[t] = "writebytes" /\ UNCHANGED <<val, truth, present, rng>>
  BY ZenonT(60) DEF WriteBytes, index, Goes
<1>2. PICK v \in Shapes : v = Storing(t) /\ v \in pend[t] /\ v \in Live
  BY <1>1, StoringPending, ZenonT(60) DEF Writing
<1>3. /\ bytes' = Patch(bytes, val[v], v) /\ orig' = [orig EXCEPT ![v] = val[v]]
      /\ pc'[t] = IF pend[t] = {v} THEN Resumes(t) ELSE "writeback"
      /\ pend'[t] = pend[t] \ {v}
  BY <1>0, <1>2, ZenonT(60) DEF WriteBytes, Goes, FrameTypes
<1>4. Mine(t) \subseteq Mine(t)' \cup {v} /\ Mine(t)' \subseteq Mine(t) \cup {}
  BY <1>1, <1>2, <1>3, MineDropped, ZenonT(60) DEF Writing
<1>5. Live \subseteq Live' \cup {v} /\ Live' \subseteq Live \cup {}
  BY <1>0, <1>4, LiveMoves, ZenonT(60)
<1>6. v \subseteq Slots /\ \A s \in v : bytes'[s] = truth[s] /\ val[v][s] = truth[s]
  BY <1>0, <1>2, <1>3, ShapeSlots, ZenonT(60) DEF Patch, Exact, Held
<1>7. \A s \in Slots \ v : bytes'[s] = bytes[s]
  BY <1>3, ZenonT(60) DEF Patch
<1>8. Disjoint'
  BY <1>0, <1>5, ZenonT(60) DEF Exact, Disjoint
<1>9. ASSUME NEW w \in Live' PROVE Held(w)'
  <2>1. w \in Live /\ w \in Shapes /\ w \subseteq Slots /\ Held(w)
    BY <1>0, <1>5, <1>9, ShapeSlots, ZenonT(60) DEF Live, Exact
  <2>2. CASE w = v
    BY <1>0, <1>1, <1>3, <1>6, <2>2, ZenonT(60) DEF Held, StoreTypes
  <2>3. CASE w # v
    <3>1. w \cap v = {}
      BY <1>0, <1>2, <2>1, <2>3, ZenonT(60) DEF Exact, Disjoint
    <3>2. orig'[w] = orig[w]
      BY <1>0, <1>3, <2>1, <2>3, ZenonT(60) DEF StoreTypes
    <3> QED
      BY <1>1, <1>7, <2>1, <3>1, <3>2, ZenonT(60) DEF Held
  <2> QED
    BY <2>2, <2>3, ZenonT(60)
<1>10. ASSUME NEW s \in Slots PROVE Fresh(s)'
  <2>1. CASE s \in v
    BY <1>1, <1>6, <2>1, ZenonT(60) DEF Fresh
  <2>2. CASE s \notin v
    <3>1. (\A w \in Live' : s \notin w) => \A w \in Live : s \notin w
      BY <1>5, <2>2, ZenonT(60)
    <3> QED
      BY <1>0, <1>1, <1>7, <2>2, <3>1, ZenonT(60) DEF Exact, Fresh
  <2> QED
    BY <2>1, <2>2, ZenonT(60)
<1> QED
  BY <1>8, <1>9, <1>10, ZenonT(60) DEF Exact

\* A field of a decoded object is assigned: only its view covers the slot.
LEMMA ExactAfterMutate ==
    ASSUME IInv, NEW t \in Threads, NEW v \in Shapes, NEW s \in v, Mutate(t, v, s)
    PROVE  Exact'
<1>0. Exact /\ StoreTypes /\ Step(t) /\ v \subseteq Slots
  BY ShapeSlots, ZenonT(60) DEF IInv, Exact, Step, Mutates
<1>1. /\ v \in present /\ UNCHANGED <<bytes, orig, present, rng, pend, pc>>
      /\ val' = [val EXCEPT ![v] = [val[v] EXCEPT ![s] = 1 - truth[s]]]
      /\ truth' = [truth EXCEPT ![s] = 1 - truth[s]]
  BY ZenonT(60) DEF Mutate, index, frame
<1>2. Live' = Live /\ v \in Live
  BY <1>1, ZenonT(60) DEF Live, Kept
<1>3. /\ truth'[s] = 1 - truth[s] /\ val'[v][s] = 1 - truth[s]
      /\ \A r \in Slots \ {s} : truth'[r] = truth[r] /\ val'[v][r] = val[v][r]
      /\ \A w \in Shapes \ {v} : val'[w] = val[w]
  BY <1>0, <1>1, ZenonT(60) DEF StoreTypes, Images
<1>4. Disjoint'
  BY <1>0, <1>2, ZenonT(60) DEF Exact, Disjoint
<1>5. ASSUME NEW w \in Live' PROVE Held(w)'
  <2>1. w \in Live /\ w \in Shapes /\ w \subseteq Slots /\ Held(w)
    BY <1>0, <1>2, <1>5, ShapeSlots, ZenonT(60) DEF Live, Exact
  <2>2. CASE w = v
    BY <1>1, <1>3, <2>1, <2>2 DEF Held
  <2>3. CASE w # v
    <3>1. s \notin w
      BY <1>0, <1>2, <2>1, <2>3, ZenonT(60) DEF Exact, Disjoint
    <3> QED
      BY <1>1, <1>3, <2>1, <2>3, <3>1, ZenonT(60) DEF Held
  <2> QED
    BY <2>2, <2>3, ZenonT(60)
<1>6. ASSUME NEW r \in Slots PROVE Fresh(r)'
  <2>1. CASE r = s
    BY <1>2, <2>1, ZenonT(60) DEF Fresh
  <2>2. CASE r # s
    BY <1>0, <1>1, <1>2, <1>3, <2>2, ZenonT(60) DEF Exact, Fresh
  <2> QED
    BY <2>1, <2>2, ZenonT(60)
<1> QED
  BY <1>4, <1>5, <1>6, ZenonT(60) DEF Exact

\* A byte store: no live view is in its range.
LEMMA ExactAfterStore ==
    ASSUME IInv, NEW t \in Threads, Store(t)
    PROVE  Exact'
<1>0. Exact /\ StoreTypes /\ Step(t)
  BY ZenonT(60) DEF IInv, Exact, Step, Steps
<1>1. pc[t] = "act" /\ UNCHANGED <<val, orig>>
  BY ZenonT(60) DEF Store, Goes
<1>2. \A s \in rng[t] : s \in Slots => bytes'[s] = truth'[s]
  BY ZenonT(60) DEF Store, Patch
<1>3. \A s \in Slots \ rng[t] : bytes'[s] = bytes[s] /\ truth'[s] = truth[s]
  BY ZenonT(60) DEF Store, Patch
<1>4. Live' = Live
  <2>1. ~WriteBack(t) /\ ~WriteBytes(t) /\ ~DecodeImage(t)
    BY <1>1, ZenonT(60) DEF WriteBack, WriteBytes, DecodeImage, Goes, Store
  <2>2. Mine(t) \subseteq Mine(t)' \cup {} /\ Mine(t)' \subseteq Mine(t) \cup {}
    BY <1>0, <2>1, MineStays, ZenonT(60)
  <2> QED
    BY <1>0, <2>2, LiveMoves
<1>5. Disjoint'
  BY <1>0, <1>4, ZenonT(60) DEF Exact, Disjoint
<1>6. ASSUME NEW w \in Live' PROVE Held(w)'
  <2>1. w \in Live /\ w \subseteq Slots /\ Held(w) /\ w \cap rng[t] = {}
    BY <1>0, <1>1, <1>4, <1>6, ShapeSlots, ActClean, ZenonT(60) DEF Live, Exact
  <2> QED
    BY <1>1, <1>3, <2>1, ZenonT(60) DEF Held
<1>7. ASSUME NEW s \in Slots PROVE Fresh(s)'
  <2>1. CASE s \in rng[t]
    BY <1>2, <2>1, ZenonT(60) DEF Fresh
  <2>2. CASE s \notin rng[t]
    BY <1>0, <1>3, <1>4, <2>2, ZenonT(60) DEF Exact, Fresh
  <2> QED
    BY <2>1, <2>2, ZenonT(60)
<1> QED
  BY <1>5, <1>6, <1>7, ZenonT(60) DEF Exact

\* decodeAggregate: the new view is decoded from right bytes.
LEMMA ExactAfterDecode ==
    ASSUME IInv, NEW t \in Threads, DecodeImage(t)
    PROVE  Exact'
<1>0. Exact /\ FrameTypes /\ StoreTypes /\ Step(t) /\ InCall(t)
  BY ZenonT(60) DEF IInv, Exact, Step, Steps
<1>1. /\ pc[t] = "act" /\ pc'[t] = "advance" /\ op[t] = "decode"
      /\ UNCHANGED <<bytes, truth, present, rng, pend>>
  BY <1>0, ZenonT(60) DEF DecodeImage, Goes, index, frame, FrameTypes
<1>2. PICK v \in Shapes : v = rng[t]
  BY <1>0, <1>1, ZenonT(60) DEF InCall
<1>3. v \subseteq Slots /\ \A w \in Live : w \cap v = {}
  BY <1>1, <1>2, ShapeSlots, ActClean, ZenonT(60)
<1>4. /\ val'[v] = bytes /\ orig'[v] = bytes
      /\ \A w \in Shapes \ {v} : val'[w] = val[w] /\ orig'[w] = orig[w]
  BY <1>0, <1>2, ZenonT(60) DEF DecodeImage, StoreTypes
<1>5. Live \subseteq Live' \cup {} /\ Live' \subseteq Live \cup {v}
  <2>1. Mine(t) \subseteq Mine(t)' \cup {} /\ Mine(t)' \subseteq Mine(t) \cup {v}
    BY <1>1, <1>2, ZenonT(60) DEF Mine, Kept, Keeping
  <2> QED
    BY <1>0, <2>1, LiveMoves, ZenonT(60)
<1>6. Disjoint'
  BY <1>0, <1>3, <1>5 DEF Exact, Disjoint
<1>7. \A s \in v : bytes[s] = truth[s]
  BY <1>0, <1>3 DEF Exact, Fresh
<1>8. ASSUME NEW w \in Live' PROVE Held(w)'
  <2>1. CASE w = v
    BY <1>1, <1>4, <1>7, <2>1, ZenonT(60) DEF Held
  <2>2. CASE w # v
    <3>1. w \in Live /\ w \in Shapes /\ Held(w)
      BY <1>0, <1>5, <1>8, <2>2, ZenonT(60) DEF Live, Exact
    <3> QED
      BY <1>1, <1>4, <2>2, <3>1, ZenonT(60) DEF Held
  <2> QED
    BY <2>1, <2>2
<1>9. ASSUME NEW s \in Slots PROVE Fresh(s)'
  BY <1>0, <1>1, <1>5, <1>7, ZenonT(60) DEF Exact, Fresh
<1> QED
  BY <1>6, <1>8, <1>9 DEF Exact

\* No step makes bytes, images and truth disagree.
LEMMA ExactPreserved ==
    ASSUME IInv, NEW t \in Threads, Step(t)
    PROVE  Exact'
<1>1. CASE WriteBack(t)
  BY <1>1, ExactAfterWriteBack, ZenonT(60)
<1>2. CASE StoreSteps(t)
  BY <1>2, ExactAfterWriteBytes, ExactAfterMutate, ExactAfterStore, ExactAfterDecode, ZenonT(60)
  DEF StoreSteps, Mutates
<1>3. CASE ~WriteBack(t) /\ ~StoreSteps(t)
  <2>1. Mine(t) \subseteq Mine(t)' \cup {} /\ Mine(t)' \subseteq Mine(t) \cup {}
    BY <1>3, MineStays, ZenonT(60) DEF StoreSteps
  <2>2. Live \subseteq Live' \cup {} /\ Live' \subseteq Live \cup {}
    BY <2>1, LiveMoves, ZenonT(60)
  <2>3. UNCHANGED <<bytes, val, orig, truth>> /\ Exact
    BY <1>3, OtherStepsKeepStore, ZenonT(60) DEF IInv, Exact
  <2> QED
    BY <2>2, <2>3, ExactWhenUnchanged, ZenonT(60)
<1> QED
  BY <1>1, <1>2, <1>3, ZenonT(60)

-----------------------------------------------------------------------------
(* The calls                                                               *)

\* The calls of the threads that do not move.
LEMMA OthersInCall ==
    ASSUME IInv, NEW t \in Threads, Step(t), NEW u \in Threads, u # t
    PROVE  InCall(u)' /\ Retired(u)'
<1>0. InCall(u) /\ Retired(u) /\ FrameTypes /\ IndexTypes /\ IndexTypes'
  BY IndexTyped, ZenonT(60) DEF IInv
<1>1. /\ owner' = owner /\ pc'[u] = pc[u] /\ op'[u] = op[u] /\ rng'[u] = rng[u]
      /\ pend'[u] = pend[u]
  BY StepFramed, ZenonT(60) DEF Framed
<1>2. Area(u)' = Area(u)
  BY <1>1, ZenonT(60) DEF Area
<1>3. ASSUME NEW v \in Shapes, v \cap Area(u) # {} PROVE ~(v \subseteq Area(t))
  BY <1>3, AreasApart, ZenonT(60)
<1>4. ASSUME NEW v \in pend[u] PROVE Unchanged(v)' <=> Unchanged(v)
  <2>1. v \in Shapes /\ v # {} /\ v \subseteq Area(u)
    BY <1>0, ShapeSlots, ZenonT(60) DEF FrameTypes, InCall
  <2>2. val'[v] = val[v] /\ orig'[v] = orig[v]
    BY <1>3, <2>1, StoreFramed, ZenonT(60)
  <2> QED
    BY <2>2, ZenonT(60) DEF Unchanged
<1>5. InCall(u)'
  BY <1>0, <1>1, <1>2, <1>4, ZenonT(60) DEF InCall
<1>6. Retired(u)'
  <2>1. SUFFICES ASSUME pc[u] \in Writing \cup {"act", "advance", "setflag", "put"}, op[u] # "commit",
                        NEW v \in present', v \cap rng[u] # {}
                 PROVE  FALSE
    BY <1>1, ZenonT(60) DEF Retired, Overlapping
  <2>2. v \in Shapes /\ rng[u] \subseteq Area(u)
    BY <1>0, <2>1, ZenonT(60) DEF IndexTypes, InCall, Writing
  <2>3. v \in present
    BY <1>3, <2>1, <2>2, PresentFramed, ZenonT(60)
  <2> QED
    BY <1>0, <2>1, <2>3, ZenonT(60) DEF Retired, Overlapping
<1> QED
  BY <1>5, <1>6, ZenonT(60)

\* A thread whose range overlaps no view of another thread's publication.
LEMMA SkipIsSafe ==
    ASSUME IInv, NEW t \in Threads, pc[t] \in {"flag", "epoch"},
           NoFlag \/ absence[t] = epoch
    PROVE  Overlapping(rng[t]) = {}
<1>1. SUFFICES ASSUME NEW v \in present, v \cap rng[t] # {} PROVE FALSE
  BY ZenonT(60) DEF Overlapping
<1>2. ~NoFlag
  BY <1>1, ZenonT(60) DEF NoFlag, IInv, Flagged
<1>3. PICK u \in Threads : pc[u] \in Published /\ rng[u] = v
  BY <1>1, <1>2, ZenonT(60) DEF IInv, Absent
<1>4. u # t /\ rng[u] \subseteq Area(u) /\ rng[t] \subseteq Area(t)
  BY <1>3, ZenonT(60) DEF IInv, InCall, Published
<1> QED
  BY <1>1, <1>3, <1>4, AreasApart, ZenonT(60)

\* A new call of t.
LEMMA BeginsInCall ==
    ASSUME IInv, NEW t \in Threads, Begins(t) \/ Mutates(t)
    PROVE  InCall(t)' /\ Retired(t)'
<1>0. InCall(t) /\ FrameTypes /\ Area(t)' = Area(t) /\ owner' = owner
  BY BeginsFramed, ZenonT(60) DEF IInv, Framed, Area
<1>1. ASSUME NEW o, NEW S, NEW to, Call(t, o, S, to)
      PROVE  /\ pc[t] = "idle" /\ pc'[t] = to /\ op'[t] = o /\ rng'[t] = S
             /\ S \subseteq Area(t)' /\ pend[t] = {}
  <2>1. S \subseteq Area(t)
    BY <1>1, OwnsArea, ZenonT(60) DEF Call
  <2> QED
    BY <1>0, <1>1, <2>1, ZenonT(60) DEF Call, Goes, FrameTypes, InCall, Writing
<1>2. ASSUME NEW o \in {"load", "store"}, NEW S, Access(t, o, S)
      PROVE  InCall(t)' /\ Retired(t)'
  <2>1. /\ pc'[t] = "flag" /\ op'[t] = o /\ rng'[t] \subseteq Area(t)' /\ pend'[t] = {}
    BY <1>1, <1>2, ZenonT(60) DEF Access
  <2> QED
    BY <2>1, ZenonT(60) DEF InCall, Retired, Writing, Keeping, Published, Finding
<1>3. ASSUME NEW v \in Shapes, Decode(t, v)
      PROVE  InCall(t)' /\ Retired(t)'
  <2>1. PICK to \in {"flag", "idle"} : Call(t, "decode", v, to) /\ pend' = pend
    BY <1>3, ZenonT(60) DEF Decode
  <2>2. /\ pc'[t] \in {"flag", "idle"} /\ op'[t] = "decode" /\ rng'[t] = v
        /\ v \subseteq Area(t)' /\ pend'[t] = {}
    BY <1>1, <2>1, ZenonT(60)
  <2> QED
    BY <2>2, ZenonT(60) DEF InCall, Retired, Writing, Keeping, Published, Finding
<1>4. ASSUME NEW v \in Shapes, Commit(t, v)
      PROVE  InCall(t)' /\ Retired(t)'
  <2>1. /\ pc'[t] = "writeback" /\ op'[t] = "commit" /\ rng'[t] = v
        /\ v \subseteq Area(t)' /\ pend'[t] = {v}
    BY <1>0, <1>1, <1>4 DEF Commit, FrameTypes
  <2> QED
    BY <2>1, ZenonT(60) DEF InCall, Retired, Writing, Keeping, Published, Finding
<1>5. CASE Mutates(t)
  <2>1. pc'[t] = "idle" /\ pend'[t] = {}
    BY <1>0, <1>5, ZenonT(60) DEF Mutates, Mutate, frame, InCall, Writing
  <2> QED
    BY <2>1, ZenonT(60) DEF InCall, Retired, Writing, Keeping, Published, Finding
<1> QED
  BY <1>2, <1>3, <1>4, <1>5, ZenonT(60) DEF Begins

\* The flush of t: it skips, or takes out what overlaps.
LEMMA FlushInCall ==
    ASSUME IInv, NEW t \in Threads, TestFlag(t) \/ TestEpoch(t) \/ FlushLocked(t)
    PROVE  InCall(t)' /\ Retired(t)'
<1>0. /\ InCall(t) /\ Retired(t) /\ FrameTypes /\ IndexTypes /\ Step(t)
      /\ Area(t)' = Area(t) /\ owner' = owner
  BY StepFramed, ZenonT(60) DEF IInv, Framed, Area, Step, Steps
<1>1. ASSUME UNCHANGED <<rng, pend, op, val, orig, present>>
      PROVE  /\ \A v : Unchanged(v)' <=> Unchanged(v)
             /\ Overlapping(rng[t])' = Overlapping(rng[t])
  BY <1>1, ZenonT(60) DEF Unchanged, Overlapping
<1>2. CASE TestFlag(t) \/ TestEpoch(t)
  <2>1. UNCHANGED <<rng, pend, op, val, orig, present>>
    BY <1>2, ZenonT(60) DEF TestFlag, TestEpoch, store, index, frame
  <2>2. \/ pc[t] \in {"flag", "epoch"} /\ pc'[t] \in {"epoch", "locked"}
        \/ /\ pc[t] \in {"flag", "epoch"} /\ pc'[t] = "act"
           /\ NoFlag \/ absence[t] = epoch
        \/ pc[t] \in Writing \ {"writeback"} /\ pc'[t] \in Writing \ {"writeback"}
    BY <1>0, <1>2, ZenonT(60) DEF TestFlag, TestEpoch, Goes, FrameTypes, Writing
  <2>3. pc'[t] = "act" => Overlapping(rng[t]) = {}
    BY <2>2, SkipIsSafe, ZenonT(60) DEF Writing
  <2>4. Retired(t)'
    BY <1>0, <1>1, <2>1, <2>2, <2>3, ZenonT(60) DEF Retired, Writing
  <2>5. CASE pc[t] \in {"flag", "epoch"} /\ pc'[t] \in {"epoch", "locked", "act"}
    BY <1>0, <2>1, <2>4, <2>5, ZenonT(60) DEF InCall, Writing, Keeping, Published, Finding
  <2>6. CASE pc[t] \in Writing \ {"writeback"} /\ pc'[t] \in Writing \ {"writeback"}
    BY <1>0, <1>1, <2>1, <2>4, <2>6, ZenonT(60) DEF InCall, Writing, Keeping, Published, Finding
  <2> QED
    BY <2>2, <2>4, <2>5, <2>6, ZenonT(60)
<1>3. CASE FlushLocked(t)
  <2>1. /\ pc[t] = "locked" /\ UNCHANGED <<rng, op>>
        /\ pend'[t] = Overlapping(rng[t]) /\ present' = present \ Overlapping(rng[t])
        /\ pc'[t] = IF Overlapping(rng[t]) = {} THEN "act" ELSE "writeback"
    BY <1>0, <1>3, ZenonT(60) DEF FlushLocked, Goes, RemoveOverlapping, FrameTypes
  <2>2. rng[t] \subseteq Area(t) /\ op[t] # "commit"
    BY <1>0, <2>1, ZenonT(60) DEF InCall, Finding
  <2>3. \A v \in Overlapping(rng[t]) : v \subseteq Area(t)
    BY <1>0, <2>2, WholeShape, ZenonT(60) DEF Overlapping, IndexTypes
  <2>4. Overlapping(rng[t])' = {}
    BY <2>1, ZenonT(60) DEF Overlapping
  <2> QED
    BY <1>0, <2>1, <2>2, <2>3, <2>4, ZenonT(60)
       DEF InCall, Retired, Writing, Keeping, Published, Finding
<1> QED
  BY <1>2, <1>3, ZenonT(60)

\* A view that was written back leaves the pending ones.
LEMMA DroppedInCall ==
    ASSUME IInv, NEW t \in Threads, NEW v \in pend[t], pc[t] \in Writing, owner' = owner,
           UNCHANGED <<present, rng, op>>, pend'[t] = pend[t] \ {v},
           pc'[t] = IF pend[t] = {v} THEN Resumes(t) ELSE "writeback"
    PROVE  InCall(t)' /\ Retired(t)'
<1>0. InCall(t) /\ Retired(t) /\ Area(t)' = Area(t) /\ Overlapping(rng[t])' = Overlapping(rng[t])
  BY ZenonT(60) DEF IInv, Area, Overlapping
<1>1. rng[t] \subseteq Area(t) /\ \A w \in pend[t] : w \subseteq Area(t)
  BY <1>0, ZenonT(60) DEF InCall, Writing
<1>2. CASE op[t] = "commit"
  <2>1. pc'[t] = "readvance" /\ pend'[t] = {} /\ rng[t] \in Shapes
    BY <1>0, <1>2, ZenonT(60) DEF InCall, Resumes, Writing
  <2> QED
    BY <1>0, <1>1, <1>2, <2>1, ZenonT(60) DEF InCall, Retired, Writing, Keeping, Published, Finding
<1>3. CASE op[t] # "commit"
  <2>1. /\ pc'[t] \in {"act", "writeback"}
        /\ pc'[t] = "act" => pend'[t] = {}
        /\ op[t] = "decode" => rng[t] \in Shapes
    BY <1>0, <1>3, ZenonT(60) DEF InCall, Resumes, Writing
  <2>2. Overlapping(rng[t]) = {}
    BY <1>0, <1>3, ZenonT(60) DEF Retired
  <2> QED
    BY <1>0, <1>1, <1>3, <2>1, <2>2, ZenonT(60)
       DEF InCall, Retired, Writing, Keeping, Published, Finding
<1> QED
  BY <1>2, <1>3, ZenonT(60)

\* The write-backs of t.
LEMMA WriteInCall ==
    ASSUME IInv, NEW t \in Threads, WriteBack(t) \/ DiscardLocked(t) \/ WriteBytes(t)
    PROVE  InCall(t)' /\ Retired(t)'
<1>0. /\ InCall(t) /\ Retired(t) /\ FrameTypes /\ Step(t)
      /\ Area(t)' = Area(t) /\ owner' = owner
  BY StepFramed, ZenonT(60) DEF IInv, Framed, Area, Step, Steps
<1>1. CASE WriteBack(t)
  <2>1. UNCHANGED <<val, orig, present, rng, op>> /\ pc[t] = "writeback"
    BY <1>1, ZenonT(60) DEF WriteBack, store, index, Goes
  <2>2. PICK v \in pend[t] :
          IF Unchanged(v)
          THEN /\ Goes(t, "writeback", IF pend[t] = {v} THEN Resumes(t) ELSE "writeback")
               /\ pend' = [pend EXCEPT ![t] = @ \ {v}]
          ELSE Goes(t, "writeback", "flag2") /\ UNCHANGED pend
    BY <1>1, ZenonT(60) DEF WriteBack
  <2>3. CASE Unchanged(v)
    <3>1. /\ pc'[t] = IF pend[t] = {v} THEN Resumes(t) ELSE "writeback"
          /\ pend'[t] = pend[t] \ {v}
      BY <1>0, <2>2, <2>3, ZenonT(60) DEF Goes, FrameTypes
    <3> QED
      BY <1>0, <2>1, <3>1, DroppedInCall, ZenonT(60) DEF Writing
  <2>4. CASE ~Unchanged(v)
    <3>1. pc'[t] = "flag2" /\ pend' = pend
      BY <1>0, <2>2, <2>4, ZenonT(60) DEF Goes, FrameTypes
    <3>2. ~Unchanged(v)' /\ Overlapping(rng[t])' = Overlapping(rng[t])
      BY <2>1, <2>4, ZenonT(60) DEF Unchanged, Overlapping
    <3>3. InCall(t)'
      BY <1>0, <2>1, <3>1, <3>2, ZenonT(60) DEF InCall, Writing, Keeping, Published, Finding
    <3>4. Retired(t)'
      BY <1>0, <2>1, <3>1, <3>2, ZenonT(60) DEF Retired, Writing
    <3> QED
      BY <3>3, <3>4, ZenonT(60)
  <2> QED
    BY <2>3, <2>4, ZenonT(60)
<1>2. CASE DiscardLocked(t)
  <2>1. /\ pc[t] = "locked2" /\ pc'[t] = "writebytes" /\ UNCHANGED <<val, orig, rng, op, pend>>
        /\ present' \subseteq present
    BY <1>0, <1>2, ZenonT(60) DEF DiscardLocked, RemoveOverlapping, Goes, store, frame, FrameTypes
  <2>2. PICK v \in pend[t] : ~Unchanged(v)
    BY <1>0, <2>1, ZenonT(60) DEF InCall, Writing
  <2>3. ~Unchanged(v)' /\ Overlapping(rng[t])' \subseteq Overlapping(rng[t])
    BY <2>1, <2>2, ZenonT(60) DEF Unchanged, Overlapping
  <2>4. InCall(t)'
    BY <1>0, <2>1, <2>2, <2>3, ZenonT(60) DEF InCall, Writing, Keeping, Published, Finding
  <2>5. Retired(t)'
    BY <1>0, <2>1, <2>3, ZenonT(60) DEF Retired, Writing
  <2> QED
    BY <2>4, <2>5, ZenonT(60)
<1>3. CASE WriteBytes(t)
  <2>1. pc[t] = "writebytes" /\ UNCHANGED <<present, rng, op>>
    BY <1>3, ZenonT(60) DEF WriteBytes, index, Goes
  <2>2. PICK v \in pend[t] : v = Storing(t)
    BY <2>1, StoringPending, ZenonT(60) DEF Writing
  <2>3. /\ pc'[t] = IF pend[t] = {v} THEN Resumes(t) ELSE "writeback"
        /\ pend'[t] = pend[t] \ {v}
    BY <1>0, <1>3, <2>2, ZenonT(60) DEF WriteBytes, Goes, FrameTypes
  <2> QED
    BY <1>0, <2>1, <2>3, DroppedInCall, ZenonT(60) DEF Writing
<1> QED
  BY <1>1, <1>2, <1>3, ZenonT(60)

\* The end of a call of t, and the publication of its view.
LEMMA EndInCall ==
    ASSUME IInv, NEW t \in Threads,
           \/ Load(t) \/ Store(t) \/ DecodeImage(t) \/ Advance(t) \/ RaiseFlag(t)
           \/ PutView(t) \/ AdvanceAgain(t) \/ CommitAdvance(t) \/ CommitPut(t)
    PROVE  InCall(t)' /\ Retired(t)'
<1>0. /\ InCall(t) /\ Retired(t) /\ FrameTypes /\ Step(t)
      /\ Area(t)' = Area(t) /\ owner' = owner
  BY StepFramed, ZenonT(60) DEF IInv, Framed, Area, Step, Steps
<1>1. UNCHANGED <<rng, op, pend>>
  BY ZenonT(60) DEF Load, Store, DecodeImage, Advance, RaiseFlag, PutView, AdvanceAgain, CommitAdvance,
         CommitPut, frame
<1>2. CASE Load(t) \/ Store(t) \/ AdvanceAgain(t)
  <2>1. pc[t] \in {"act", "advance2"} /\ pc'[t] = "idle"
    BY <1>0, <1>2, ZenonT(60) DEF Load, Store, AdvanceAgain, Goes, FrameTypes
  <2> QED
    BY <1>0, <1>1, <2>1, ZenonT(60) DEF InCall, Retired, Writing, Keeping, Published, Finding
<1>3. CASE DecodeImage(t) \/ Advance(t) \/ RaiseFlag(t)
  <2>1. /\ pc[t] \in {"act", "advance", "setflag"} /\ pc'[t] \in {"advance", "setflag", "put"}
        /\ pc[t] = "act" => op[t] = "decode"
        /\ present' = present
    BY <1>0, <1>3, ZenonT(60) DEF DecodeImage, Advance, RaiseFlag, Goes, FrameTypes, index
  <2>2. Overlapping(rng[t])' = Overlapping(rng[t])
    BY <1>1, <2>1, ZenonT(60) DEF Overlapping
  <2>3. Retired(t)'
    BY <1>0, <1>1, <2>1, <2>2, ZenonT(60) DEF Retired
  <2>4. InCall(t)'
    BY <1>0, <1>1, <2>1, ZenonT(60) DEF InCall, Writing, Keeping, Published, Finding
  <2> QED
    BY <2>3, <2>4, ZenonT(60)
<1>4. CASE PutView(t) \/ CommitAdvance(t) \/ CommitPut(t)
  <2>1. /\ pc[t] \in {"put", "readvance", "readvance2", "reput"}
        /\ pc'[t] \in {"advance2", "reput", "idle", "readvance2"}
    BY <1>0, <1>4, ZenonT(60) DEF PutView, CommitAdvance, CommitPut, Goes, FrameTypes
  <2> QED
    BY <1>0, <1>1, <2>1, ZenonT(60) DEF InCall, Retired, Writing, Keeping, Published, Finding
<1> QED
  BY <1>2, <1>3, <1>4, ZenonT(60)

\* Every thread is where its call put it.
LEMMA InCallPreserved ==
    ASSUME IInv, NEW t \in Threads, Step(t), NEW u \in Threads
    PROVE  InCall(u)' /\ Retired(u)'
<1>1. InCall(t)' /\ Retired(t)'
  BY BeginsInCall, FlushInCall, WriteInCall, EndInCall, ZenonT(60) DEF Step, Steps
<1> QED
  BY <1>1, OthersInCall

-----------------------------------------------------------------------------
(* The shortcuts around the flush                                          *)

\* A view stays in the middle of its publication until the epoch advances.
LEMMA PublicationStays ==
    ASSUME IInv, NEW t \in Threads, Step(t), epoch' = epoch,
           NEW u \in Threads, pc[u] \in Published
    PROVE  pc'[u] \in Published /\ rng'[u] = rng[u]
<1>0. epoch \in Nat /\ FrameTypes
  BY ZenonT(60) DEF IInv, IndexTypes
<1>1. ASSUME u = t PROVE FALSE
  <2> USE DEF Published
  <2>1. ~Begins(t)
    BY <1>1, ZenonT(60) DEF Begins, Access, Decode, Commit, Call, Goes
  <2>2. ~Mutates(t)
    BY <1>1, ZenonT(60) DEF Mutates, Mutate
  <2>3. ~AdvanceAgain(t) /\ ~CommitAdvance(t)
    BY <1>0 DEF AdvanceAgain, Advanced, CommitAdvance
  <2>4. /\ ~TestFlag(t) /\ ~TestEpoch(t) /\ ~FlushLocked(t) /\ ~WriteBack(t)
        /\ ~DiscardLocked(t) /\ ~WriteBytes(t)
    BY <1>1, ZenonT(60)
       DEF TestFlag, TestEpoch, FlushLocked, WriteBack, DiscardLocked, WriteBytes, Goes
  <2>5. /\ ~Load(t) /\ ~Store(t) /\ ~DecodeImage(t) /\ ~Advance(t) /\ ~RaiseFlag(t)
        /\ ~PutView(t) /\ ~CommitPut(t)
    BY <1>1, ZenonT(60) DEF Load, Store, DecodeImage, Advance, RaiseFlag, PutView, CommitPut, Goes
  <2> QED
    BY <2>1, <2>2, <2>3, <2>4, <2>5, ZenonT(60) DEF Step, Steps
<1> QED
  BY <1>1, StepFramed, ZenonT(60) DEF Framed

\* MEMORY_VIEW_ABSENCE: no step lets a cache miss a view that is published.
LEMMA AbsentPreserved ==
    ASSUME IInv, NEW t \in Threads, Step(t), NEW u \in Threads
    PROVE  Absent(u)'
<1>0. /\ Absent(u) /\ IndexTypes /\ FrameTypes /\ FrameTypes'
      /\ u # t => absence'[u] = absence[u]
  BY StepFramed, ZenonT(60) DEF IInv, Framed
<1>1. ASSUME epoch' = epoch, absence'[u] = absence[u], present' \subseteq present
      PROVE  Absent(u)'
  <2>1. SUFFICES ASSUME absence[u] = epoch, NEW v \in present'
                 PROVE  \E w \in Threads : pc'[w] \in Published /\ rng'[w] = v
    BY <1>1, ZenonT(60) DEF Absent
  <2>2. PICK w \in Threads : pc[w] \in Published /\ rng[w] = v
    BY <1>0, <1>1, <2>1, ZenonT(60) DEF Absent
  <2> QED
    BY <1>1, <2>2, PublicationStays, ZenonT(60)
<1>2. CASE Advances
  <2>1. absence'[u] <= epoch /\ epoch' = epoch + 1 /\ epoch \in Nat /\ absence'[u] \in Int
    BY <1>0, <1>2, ZenonT(60) DEF Advances, IndexTypes
  <2>2. absence'[u] # epoch'
    BY <2>1
  <2> QED
    BY <2>2, ZenonT(60) DEF Absent
<1>3. CASE Puts(t) /\ (PutView(t) \/ CommitPut(t))
  <2>1. /\ epoch' = epoch /\ absence' = absence /\ present' = present \cup {rng[t]}
        /\ pc'[t] \in Published /\ rng'[t] = rng[t]
    BY <1>0, <1>3, ZenonT(60) DEF Puts, PutView, CommitPut, Goes, frame, FrameTypes, Published
  <2>2. SUFFICES ASSUME absence[u] = epoch, NEW v \in present
                 PROVE  \E w \in Threads : pc'[w] \in Published /\ rng'[w] = v
    BY <2>1, ZenonT(60) DEF Absent
  <2>3. PICK w \in Threads : pc[w] \in Published /\ rng[w] = v
    BY <1>0, <2>2, ZenonT(60) DEF Absent
  <2> QED
    BY <2>1, <2>3, PublicationStays, ZenonT(60)
<1>4. ASSUME NEW S, RemoveOverlapping(t, S) PROVE Absent(u)'
  <2>1. epoch' = epoch /\ present' \subseteq present
    BY <1>4, ZenonT(60) DEF RemoveOverlapping
  <2>2. present' = {} \/ absence'[u] = absence[u]
    BY <1>0, <1>4, ZenonT(60) DEF RemoveOverlapping
  <2>3. CASE present' = {}
    BY <2>3, ZenonT(60) DEF Absent
  <2> QED
    BY <1>1, <2>1, <2>2, <2>3, ZenonT(60)
<1> QED
  BY <1>1, <1>2, <1>3, <1>4, IndexSteps, ZenonT(60) DEF Raises

\* hasMemoryView of a cell stays set as long as the cell has views.
LEMMA FlaggedPreserved ==
    ASSUME IInv, NEW t \in Threads, Step(t), ~overtaken'
    PROVE  Flagged'
<1>0. /\ Flagged /\ IndexTypes /\ FrameTypes /\ cell' = cell /\ owner' = owner
      /\ \A u \in Threads \ {t} : pc'[u] = pc[u]
  BY StepFramed, ZenonT(60) DEF IInv, Framed
<1>1. SUFFICES ASSUME cell
               PROVE  /\ present' # {} => flag'
                      /\ pc'[t] = "put" => flag'
                      /\ \A u \in Threads \ {t} : pc[u] = "put" => flag'
  BY <1>0, ZenonT(60) DEF Flagged
<1>2. ASSUME SetFlag(TRUE) PROVE flag'
  BY <1>1, <1>2, ZenonT(60) DEF SetFlag
<1>3. present' # {} => flag'
  <2>1. CASE UNCHANGED <<present, flag>>
    BY <1>0, <1>1, <2>1, ZenonT(60) DEF Flagged
  <2>2. CASE Puts(t) /\ PutView(t)
    <3>1. flag
      BY <1>0, <1>1, <2>2, IndexPlaces, ZenonT(60) DEF Flagged
    <3> QED
      BY <1>2, <2>2, <3>1, ZenonT(60) DEF Puts
  <2>3. ASSUME NEW S, RemoveOverlapping(t, S), present' # {} PROVE flag'
    <3>1. present # {} /\ flag' = flag
      BY <2>3, ZenonT(60) DEF RemoveOverlapping
    <3> QED
      BY <1>0, <1>1, <3>1, ZenonT(60) DEF Flagged
  <2> QED
    BY <1>2, <2>1, <2>2, <2>3, IndexSteps, ZenonT(60) DEF Advances, Raises
<1>4. ASSUME pc'[t] = "put" PROVE flag'
  <2>1. RaiseFlag(t)
    <3> USE <1>0, <1>4 DEF Goes, FrameTypes
    <3>1. ~Begins(t)
      BY ZenonT(60) DEF Begins, Access, Decode, Commit, Call
    <3>2. ~Mutates(t)
      <4>1. pc[t] = "idle" /\ pc' = pc => pc'[t] # "put"
        BY ZenonT(60)
      <4> QED
        BY <4>1, ZenonT(60) DEF Mutates, Mutate
    <3>3. /\ ~TestFlag(t) /\ ~TestEpoch(t) /\ ~FlushLocked(t) /\ ~DiscardLocked(t)
      BY ZenonT(60) DEF TestFlag, TestEpoch, FlushLocked, DiscardLocked
    <3>4. ~WriteBack(t) /\ ~WriteBytes(t)
      BY ZenonT(60) DEF WriteBack, WriteBytes, Resumes
    <3>5. /\ ~Load(t) /\ ~Store(t) /\ ~DecodeImage(t) /\ ~Advance(t) /\ ~AdvanceAgain(t)
          /\ ~PutView(t) /\ ~CommitAdvance(t) /\ ~CommitPut(t)
      BY ZenonT(60)
         DEF Load, Store, DecodeImage, Advance, AdvanceAgain, PutView, CommitAdvance, CommitPut
    <3> QED
      BY <3>1, <3>2, <3>3, <3>4, <3>5, ZenonT(60) DEF Step, Steps
  <2> QED
    BY <1>2, <2>1 DEF RaiseFlag
<1>5. ASSUME NEW u \in Threads \ {t}, pc[u] = "put" PROVE flag'
  <2>1. flag /\ u \in Threads
    BY <1>0, <1>1, <1>5, ZenonT(60) DEF Flagged
  <2>2. ASSUME NEW S, RemoveOverlapping(t, S) PROVE flag'
    <3>1. present' # {}
      BY <1>1, <1>5, <2>1, <2>2, ZenonT(60) DEF RemoveOverlapping
    <3> QED
      BY <2>1, <2>2, <3>1, ZenonT(60) DEF RemoveOverlapping
  <2> QED
    BY <1>2, <2>1, <2>2, IndexSteps, ZenonT(60) DEF Advances, Raises, Puts
<1> QED
  BY <1>3, <1>4, <1>5, ZenonT(60)

-----------------------------------------------------------------------------
(* The invariant and the theorems                                          *)

\* Another owner for a block that is at rest.
LEMMA TransferKeeps ==
    ASSUME IInv, NEW B \in Blocks, NEW u \in Threads, Transfer(B, u)
    PROVE  IInv'
<1>0. /\ UNCHANGED <<cell, bytes, val, orig, truth, present, flag, epoch, absence>>
      /\ UNCHANGED <<op, rng, obs, pend, pc>>
      /\ pc[owner[B]] = "idle" /\ owner' = [owner EXCEPT ![B] = u]
  BY ZenonT(60) DEF Transfer, store, index, frame
<1>1. StoreTypes' /\ IndexTypes' /\ FrameTypes'
  BY <1>0, ZenonT(60) DEF IInv, StoreTypes, IndexTypes, FrameTypes
<1>2. Flagged'
  BY <1>0, ZenonT(60) DEF IInv, Flagged, FrameTypes
<1>3. Live' = Live
  BY <1>0, ZenonT(60) DEF Live, Kept
<1>4. Disjoint' /\ (\A v \in Live' : Held(v)') /\ (\A s \in Slots : Fresh(s)')
  BY <1>0, <1>3 DEF IInv, Disjoint, Held, Fresh
<1>5. ASSUME NEW t \in Threads PROVE InCall(t)' /\ Retired(t)' /\ Absent(t)'
  <2>1. InCall(t) /\ Retired(t) /\ Absent(t) /\ owner \in [Blocks -> Threads]
    BY ZenonT(60) DEF IInv, FrameTypes
  <2>2. \A v : Unchanged(v)' <=> Unchanged(v)
    BY <1>0, ZenonT(60) DEF Unchanged
  <2>3. t # owner[B] => Area(t) \subseteq Area(t)'
    BY <1>0, <2>1, ZenonT(60) DEF Area
  <2>4. InCall(t)'
    <3>1. CASE t = owner[B]
      BY <1>0, <2>1, <3>1, ZenonT(60) DEF InCall, Writing, Keeping, Published, Finding
    <3>2. CASE t # owner[B]
      BY <1>0, <2>1, <2>2, <2>3, <3>2, ZenonT(60) DEF InCall
    <3> QED
      BY <3>1, <3>2, ZenonT(60)
  <2>5. Retired(t)'
    BY <1>0, <2>1, ZenonT(60) DEF Retired, Overlapping
  <2>6. Absent(t)'
    BY <1>0, <2>1, ZenonT(60) DEF Absent
  <2> QED
    BY <2>4, <2>5, <2>6
<1> QED
  BY <1>1, <1>2, <1>4, <1>5, ZenonT(60) DEF IInv

\* No view has been decoded when the allocation is made.
LEMMA InitIInv == Init => IInv
<1> SUFFICES ASSUME Init PROVE IInv
  BY ZenonT(60)
<1> USE DEF Init
<1>1. StoreTypes /\ IndexTypes
  <2>1. bytes \in Images
    BY ZenonT(60) DEF Images
  <2>2. StoreTypes
    BY <2>1, ZenonT(60) DEF StoreTypes
  <2>3. /\ absence \in [Threads -> Int] /\ epoch = 0
        /\ \A t \in Threads : absence[t] = -1
    OBVIOUS
  <2>4. \A t \in Threads : absence[t] <= epoch
    BY <2>3
  <2>5. cell \in BOOLEAN /\ flag \in BOOLEAN /\ present \subseteq Shapes
    BY ZenonT(60)
  <2>6. IndexTypes
    BY <2>3, <2>4, <2>5 DEF IndexTypes
  <2> QED
    BY <2>2, <2>6, ZenonT(60)
<1>2. FrameTypes /\ \A t \in Threads : pc[t] = "idle" /\ pend[t] = {}
  BY ZenonT(60) DEF FrameTypes, PCs, Ops
<1>3. Live = {}
  BY <1>2, ZenonT(60) DEF Live, Kept, Keeping
<1>4. Flagged
  BY <1>2, ZenonT(60) DEF Flagged
<1>5. Disjoint /\ (\A v \in Live : Held(v)) /\ (\A s \in Slots : Fresh(s))
  BY <1>3, ZenonT(60) DEF Disjoint, Fresh
<1>6. \A t \in Threads : InCall(t) /\ Retired(t) /\ Absent(t)
  BY <1>2, ZenonT(60) DEF InCall, Retired, Absent, Overlapping, Writing, Keeping, Published, Finding
<1> QED
  BY <1>1, <1>2, <1>4, <1>5, <1>6, ZenonT(60) DEF IInv

\* A flag lowered too early is never forgotten.
LEMMA OvertakenStays ==
    ASSUME [Next]_vars, overtaken
    PROVE  overtaken'
<1>1. CASE UNCHANGED vars
  BY <1>1, ZenonT(60) DEF vars, index
<1>2. CASE Transfers
  BY <1>2, ZenonT(60) DEF Transfers, Transfer, index
<1>3. ASSUME NEW t \in Threads, Begins(t) \/ Mutates(t) PROVE overtaken'
  BY <1>3, ZenonT(60) DEF Begins, Mutates, Access, Decode, Commit, Mutate, Call, index
<1>4. ASSUME NEW t \in Threads, Steps(t) PROVE overtaken'
  <2>1. TestFlag(t) \/ TestEpoch(t) \/ WriteBack(t) \/ WriteBytes(t) => overtaken' = overtaken
    BY ZenonT(60) DEF TestFlag, TestEpoch, WriteBack, WriteBytes, index
  <2>2. FlushLocked(t) \/ DiscardLocked(t) => overtaken'
    BY ZenonT(60) DEF FlushLocked, DiscardLocked, RemoveOverlapping
  <2>3. Load(t) \/ Store(t) \/ DecodeImage(t) \/ Advance(t) \/ RaiseFlag(t) => overtaken' = overtaken
    BY ZenonT(60) DEF Load, Store, DecodeImage, Advance, RaiseFlag, index
  <2>4. PutView(t) \/ AdvanceAgain(t) \/ CommitAdvance(t) \/ CommitPut(t) => overtaken' = overtaken
    BY ZenonT(60) DEF PutView, AdvanceAgain, CommitAdvance, CommitPut, index
  <2> QED
    BY <1>4, <2>1, <2>2, <2>3, <2>4, ZenonT(60) DEF Steps
<1> QED
  BY <1>1, <1>2, <1>3, <1>4, StepCases, ZenonT(60) DEF Step

\* Every step that overtakes no publication keeps the invariant.
LEMMA NextIInv ==
    ASSUME IInv, [Next]_vars, ~overtaken'
    PROVE  IInv'
<1>1. ASSUME NEW t \in Threads, Step(t) PROVE IInv'
  <2>1. StoreTypes' /\ IndexTypes' /\ FrameTypes' /\ Flagged'
    BY <1>1, StoreTyped, IndexTyped, StepFramed, FlaggedPreserved, ZenonT(60)
  <2>2. Exact'
    BY <1>1, ExactPreserved, ZenonT(60)
  <2>3. \A u \in Threads : InCall(u)' /\ Retired(u)' /\ Absent(u)'
    BY <1>1, InCallPreserved, AbsentPreserved, ZenonT(60)
  <2> QED
    BY <2>1, <2>2, <2>3, ZenonT(60) DEF IInv, Exact
<1>2. CASE UNCHANGED vars
  <2>1. /\ UNCHANGED <<cell, bytes, val, orig, truth, present, flag, epoch, absence>>
        /\ UNCHANGED <<op, rng, obs, pend, pc, owner>>
    BY <1>2, ZenonT(60) DEF vars, store, index, frame
  <2>2. StoreTypes' /\ IndexTypes' /\ FrameTypes' /\ Flagged'
    BY <2>1, ZenonT(60) DEF IInv, StoreTypes, IndexTypes, FrameTypes, Flagged
  <2>3. Live' = Live
    BY <2>1, ZenonT(60) DEF Live, Kept
  <2>4. Disjoint' /\ (\A v \in Live' : Held(v)') /\ (\A s \in Slots : Fresh(s)')
    BY <2>1, <2>3 DEF IInv, Disjoint, Held, Fresh
  <2>5. \A v : Unchanged(v)' <=> Unchanged(v)
    BY <2>1, ZenonT(60) DEF Unchanged
  <2>6. \A t \in Threads : InCall(t)'
    BY <2>1, <2>5 DEF IInv, InCall, Area
  <2>7. \A t \in Threads : Retired(t)' /\ Absent(t)'
    BY <2>1, ZenonT(60) DEF IInv, Retired, Absent, Overlapping
  <2> QED
    BY <2>2, <2>4, <2>6, <2>7, ZenonT(60) DEF IInv
<1> QED
  BY <1>1, <1>2, StepCases, TransferKeeps, ZenonT(60) DEF Transfers

\* The invariant holds as long as no publication was overtaken.
LEMMA Inductive == Spec => [](~overtaken => IInv)
<1>1. Init => (~overtaken => IInv)
  BY InitIInv, ZenonT(60)
<1>2. (~overtaken => IInv) /\ [Next]_vars => (~overtaken' => IInv')
  BY NextIInv, OvertakenStays, ZenonT(60)
<1> QED
  BY <1>1, <1>2, PTL DEF Spec

\* The invariant says what an access finds in its range.
LEMMA AccessesSee == (~overtaken => IInv) => ReadsSeeWrites /\ StoreFlushesFirst
<1> SUFFICES ASSUME IInv PROVE ReadsSeeWrites /\ StoreFlushesFirst
  BY ZenonT(60) DEF ReadsSeeWrites, StoreFlushesFirst
<1>1. ASSUME NEW t \in Threads, pc[t] = "act", NEW s \in rng[t]
      PROVE  bytes[s] = truth[s]
  <2>1. s \in Slots
    BY ZenonT(60) DEF IInv, FrameTypes
  <2>2. \A v \in Live : s \notin v
    BY <1>1, ActClean, ZenonT(60)
  <2> QED
    BY <2>1, <2>2, ZenonT(60) DEF IInv, Fresh
<1>2. ASSUME NEW t \in Threads, pc[t] = "act", op[t] = "store"
      PROVE  Overlapping(rng[t]) = {}
  BY <1>2, ZenonT(60) DEF IInv, Retired
<1> QED
  BY <1>1, <1>2, ZenonT(60) DEF ReadsSeeWrites, StoreFlushesFirst

\* The invariant says what a block at rest holds.
LEMMA RestHolds == (~overtaken => IInv) => NoMutationLost
<1> SUFFICES ASSUME IInv, NEW B \in Blocks, pc[owner[B]] = "idle", NEW s \in B
             PROVE  /\ (\A v \in present : s \notin v) => bytes[s] = truth[s]
                    /\ \A v \in present : s \in v => val[v][s] = truth[s]
  BY ZenonT(60) DEF NoMutationLost
<1>0. s \in Slots /\ owner[B] \in Threads
  BY ShapeSlots, ZenonT(60) DEF IInv, FrameTypes
<1>1. \A v \in present : s \in v => val[v][s] = truth[s]
  BY ZenonT(60) DEF IInv, IndexTypes, Live, Held
<1>2. ASSUME NEW u \in Threads, NEW v \in Kept(u), s \in v PROVE FALSE
  <2>1. s \in Area(u)
    BY <1>2, KeptInArea, ZenonT(60) DEF IInv
  <2>2. u = owner[B]
    BY <1>0, <2>1, ShapeSlots, ZenonT(60) DEF Area
  <2> QED
    BY <1>2, <2>2, ZenonT(60) DEF IInv, InCall, Kept, Keeping, Writing
<1>3. (\A v \in present : s \notin v) => \A v \in Live : s \notin v
  BY <1>2 DEF Live
<1> QED
  BY <1>0, <1>1, <1>3, ZenonT(60) DEF IInv, Fresh

\* Any number of threads, on an array or a cell, handing blocks to each other
\* or working side by side: as long as no thread lowered hasMemoryView of a cell
\* between another's raising it (Pointer.java:3778) and publishing its view,
\* every access finds in its range what was last written, through a decoded
\* object or directly.  flushMemoryViewsOverlapping, with its shortcuts, leaves
\* no view behind whose image is newer than the bytes.
THEOREM AccessesSeeWrites == Spec => []ReadsSeeWrites
  BY Inductive, AccessesSee, PTL

\* Under the same condition, whatever accesses, decodings, commits and transfers
\* of ownership there were, what the program last wrote to a slot is in the view
\* that covers it or, when none does, in the bytes.
THEOREM MutationsAreKept == Spec => []NoMutationLost
  BY Inductive, RestHolds, PTL

\* prepareMemoryWrite, under the same condition: no view overlaps a store that
\* comes to its bytes.
THEOREM StoresFindNoView == Spec => []StoreFlushesFirst
  BY Inductive, AccessesSee, PTL
=============================================================================

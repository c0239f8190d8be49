---------------------------- MODULE PanicProofs ----------------------------
(***************************************************************************)
(* Proofs about Panic, for every drop code that DropCodeAssumption allows  *)
(* and every bound: ACTIVE_PANIC follows the panics in flight, destructors *)
(* run in Rust's order, and only the listed places leave any out.          *)
(***************************************************************************)
EXTENDS Panic, SequenceTheorems, TLAPS

-----------------------------------------------------------------------------
(* Frames and stacks                                                       *)

DropCode == {"list", "shim", "safe", "runtime"}
Codes == DropCode \cup {"user", "catch", "assert"}

Frames == [code : Codes, todo : Todos, pending : Nat, ending : BOOLEAN, due : Seq(STRING)]

StackType == stack \in Seq(Frames)

\* Two frames that differ in the destructors due at most.
SameWork(f, g) ==
    /\ f.code = g.code /\ f.todo = g.todo
    /\ f.pending = g.pending /\ f.ending = g.ending

\* A frame's fields have their types.
LEMMA FrameFields ==
  ASSUME NEW f \in Frames
  PROVE  /\ f.code \in Codes /\ f.todo \in Todos /\ f.pending \in Nat
         /\ f.ending \in BOOLEAN /\ f.due \in Seq(STRING)
BY DEF Frames

\* A frame starts without a pending throwable, with its values not yet dropped.
LEMMA NewFrame ==
  ASSUME NEW work, NEW due \in Seq(STRING), work.code \in Codes, work.todo \in Todos
  PROVE  /\ Frame(work, due) \in Frames
         /\ Frame(work, due).code = work.code /\ Frame(work, due).todo = work.todo
         /\ Frame(work, due).pending = None /\ Frame(work, due).ending = FALSE
         /\ Frame(work, due).due = due
BY DEF Frame, Frames, None

\* The frame of a function that owns values of a list of types.
LEMMA NewBody ==
  ASSUME NEW types \in Owned \cup Nested \cup {<<>>}
  PROVE  /\ Body(types) \in Frames
         /\ Body(types).code = "user" /\ Body(types).pending = None
         /\ Body(types).ending = FALSE
         /\ Body(types).due = DropsOf(Body(types).todo)
<1> DEFINE todo == GlueSteps(types)
           work == [code |-> "user", todo |-> todo]
<1>1. todo \in Todos
  BY DropCodeAssumption
<1>2. DropsOf(todo) \in Seq(STRING)
  BY <1>1, DropCodeAssumption
<1>3. work.code = "user" /\ work.todo = todo
  OBVIOUS
<1>4. "user" \in Codes
  BY DEF Codes
<1>5. Body(types) = Frame(work, DropsOf(todo))
  BY DEF Body
<1> DEFINE b == Frame(work, DropsOf(todo))
<1> HIDE DEF work, todo
<1>6. /\ b \in Frames /\ b.code = work.code /\ b.todo = work.todo
      /\ b.pending = None /\ b.ending = FALSE /\ b.due = DropsOf(todo)
  BY <1>1, <1>2, <1>3, <1>4, NewFrame, ZenonT(60)
<1> HIDE DEF b
<1>7. /\ b \in Frames /\ b.code = "user" /\ b.pending = None /\ b.ending = FALSE
      /\ b.due = DropsOf(b.todo)
  BY <1>3, <1>6
<1> QED
  BY <1>5, <1>7, Zenon DEF b

\* The frame of a catch_unwind owns nothing.
LEMMA NewCatching ==
  /\ Catching \in Frames /\ Catching.code = "catch" /\ Catching.todo = <<>>
  /\ Catching.pending = None /\ Catching.ending = FALSE /\ Catching.due = <<>>
<1> DEFINE work == [code |-> "catch", todo |-> <<>>]
<1>1. work.code = "catch" /\ work.todo = <<>>
  OBVIOUS
<1>2. "catch" \in Codes /\ <<>> \in Todos /\ <<>> \in Seq(STRING)
  BY DropCodeAssumption DEF Codes
<1>3. Catching = Frame(work, <<>>)
  BY DEF Catching
<1> HIDE DEF work
<1> QED
  BY <1>1, <1>2, <1>3, NewFrame, ZenonT(60)

\* A frame pushed onto a stack.
LEMMA Pushed ==
  ASSUME NEW s \in Seq(Frames), NEW f \in Frames
  PROVE  /\ Append(s, f) \in Seq(Frames)
         /\ Len(Append(s, f)) = Len(s) + 1
         /\ \A i \in 1 .. Len(s) : Append(s, f)[i] = s[i]
         /\ Append(s, f)[Len(s) + 1] = f
BY AppendProperties

\* The innermost frame, and the stack without it.
LEMMA Popped ==
  ASSUME StackType, stack # <<>>
  PROVE  /\ Len(stack) \in Nat \ {0} /\ Top \in Frames
         /\ Below \in Seq(Frames) /\ Len(Below) = Len(stack) - 1
         /\ \A i \in 1 .. Len(stack) - 1 : Below[i] = stack[i]
<1>1. Len(stack) \in Nat \ {0}
  BY EmptySeq DEF StackType
<1>2. \A i \in 1 .. Len(stack) : stack[i] \in Frames
  BY ElementOfSeq DEF StackType
<1>3. \A i \in 1 .. Len(stack) - 1 : stack[i] \in Frames
  BY <1>1, <1>2
<1>4. /\ SubSeq(stack, 1, Len(stack) - 1) \in Seq(Frames)
      /\ Len(SubSeq(stack, 1, Len(stack) - 1)) =
             IF 1 <= Len(stack) - 1 THEN Len(stack) - 1 - 1 + 1 ELSE 0
      /\ \A i \in 1 .. Len(stack) - 1 - 1 + 1 :
            SubSeq(stack, 1, Len(stack) - 1)[i] = stack[1 + i - 1]
  BY <1>1, <1>3, SubSeqProperties
<1>5. Len(Below) = Len(stack) - 1
  <2> DEFINE b == SubSeq(stack, 1, Len(stack) - 1)
             n == Len(stack)
  <2>1. Len(b) = (IF 1 <= n - 1 THEN n - 1 - 1 + 1 ELSE 0) /\ n \in Nat \ {0}
    BY <1>1, <1>4
  <2>2. Below = b
    BY DEF Below
  <2> HIDE DEF b, n
  <2>3. Len(b) = n - 1
    BY <2>1
  <2> QED
    BY <2>2, <2>3 DEF n
<1>6. ASSUME NEW i \in 1 .. Len(stack) - 1
      PROVE  Below[i] = stack[i]
  <2>1. i \in 1 .. Len(stack) - 1 - 1 + 1 /\ 1 + i - 1 = i
    BY <1>1
  <2> QED
    BY <1>4, <2>1 DEF Below
<1> QED
  BY <1>1, <1>2, <1>4, <1>5, <1>6 DEF Below, Top

\* The innermost frame is changed.
LEMMA TopReplaced ==
  ASSUME StackType, stack # <<>>, NEW f \in Frames
  PROVE  /\ Append(Below, f) \in Seq(Frames)
         /\ Len(Append(Below, f)) = Len(stack)
         /\ \A i \in 1 .. Len(stack) - 1 : Append(Below, f)[i] = stack[i]
         /\ Append(Below, f)[Len(stack)] = f
BY Popped, Pushed

\* The rest of a sequence of destructors.
LEMMA RestDue ==
  ASSUME NEW due \in Seq(STRING), NEW names \in Seq(STRING)
  PROVE  SubSeq(due, Len(names) + 1, Len(due)) \in Seq(STRING)
<1>1. Len(due) \in Nat /\ Len(names) \in Nat
  BY LenProperties
<1>2. \A i \in Len(names) + 1 .. Len(due) : due[i] \in STRING
  BY <1>1, ElementOfSeq
<1> QED
  BY <1>1, <1>2, SubSeqProperties

\* Settling destructors changes what is due to one function, and nothing else.
LEMMA SettledFrames ==
  ASSUME NEW s \in Seq(Frames), NEW names \in Seq(STRING)
  PROVE  /\ Settled(s, names) \in Seq(Frames)
         /\ Len(Settled(s, names)) = Len(s)
         /\ \A i \in 1 .. Len(s) :
               /\ SameWork(Settled(s, names)[i], s[i])
               /\ Settled(s, names)[i].due =
                     IF i = FunctionOf(s) THEN SubSeq(s[i].due, Len(names) + 1, Len(s[i].due))
                     ELSE s[i].due
<1> DEFINE n == Len(s)
           Rest(f) == [f EXCEPT !.due = SubSeq(f.due, Len(names) + 1, Len(f.due))]
           t == Settled(s, names)
<1>1. /\ n \in Nat /\ s \in [1 .. n -> Frames] /\ DOMAIN s = 1 .. n
  BY LenProperties
<1>2. t = [i \in 1 .. n |-> IF i = FunctionOf(s) THEN Rest(s[i]) ELSE s[i]]
  BY <1>1, ZenonT(60) DEF Settled
<1>3. ASSUME NEW f \in Frames
      PROVE  /\ Rest(f) \in Frames /\ SameWork(Rest(f), f)
             /\ Rest(f).due = SubSeq(f.due, Len(names) + 1, Len(f.due))
  <2>1. SubSeq(f.due, Len(names) + 1, Len(f.due)) \in Seq(STRING)
    BY FrameFields, RestDue
  <2> QED
    BY <2>1, ZenonT(60) DEF Frames, SameWork
<1> HIDE DEF Rest
<1>4. \A i \in 1 .. n : (IF i = FunctionOf(s) THEN Rest(s[i]) ELSE s[i]) \in Frames
  BY <1>1, <1>3
<1>5. t \in Seq(Frames) /\ Len(t) = n
  BY <1>1, <1>2, <1>4
<1>6. ASSUME NEW i \in 1 .. n
      PROVE  /\ SameWork(t[i], s[i])
             /\ t[i].due = IF i = FunctionOf(s)
                           THEN SubSeq(s[i].due, Len(names) + 1, Len(s[i].due)) ELSE s[i].due
  <2>1. t[i] = IF i = FunctionOf(s) THEN Rest(s[i]) ELSE s[i]
    BY <1>2
  <2>2. s[i] \in Frames
    BY <1>1
  <2> HIDE DEF t
  <2>3. CASE i = FunctionOf(s)
    BY <1>3, <2>1, <2>2, <2>3, Zenon
  <2>4. CASE i # FunctionOf(s)
    BY <2>1, <2>4, Zenon DEF SameWork
  <2> QED
    BY <2>3, <2>4
<1> QED
  BY <1>5, <1>6


-----------------------------------------------------------------------------
(* What the actions do to the stack                                        *)

\* What DropCodeAssumption says of the first call of a list.
LEMMA CallFacts ==
  ASSUME NEW todo \in Todos, todo # <<>>
  PROVE  /\ Tail(todo) \in Todos /\ <<Head(todo)>> \in Todos
         /\ DropsOf(todo) = DropsOf(<<Head(todo)>>) \o DropsOf(Tail(todo))
         /\ Head(todo).call # "own" =>
               /\ CodeOf(Head(todo)).todo \in Todos
               /\ CodeOf(Head(todo)).code \in DropCode
               /\ \/ DropsOf(CodeOf(Head(todo)).todo) = DropsOf(<<Head(todo)>>)
                  \/ LeavesOut(Head(todo)) /\ KindOf(Head(todo)) = "closure"
BY DropCodeAssumption, Zenon DEF DropCode

\* A frame left with work undone is popped; below it only what is due changes.
LEMMA AbandonStack ==
  ASSUME StackType, stack # <<>>, Abandon
  PROVE  /\ stack' \in Seq(Frames) /\ Len(stack') = Len(stack) - 1
         /\ \A i \in 1 .. Len(stack) - 1 : SameWork(stack'[i], stack[i])
<1> DEFINE lost == DropsOf(Top.todo)
<1>1. lost \in Seq(STRING)
  BY Popped, FrameFields, DropCodeAssumption
<1>2. stack' = Below \/ stack' = Settled(Below, lost)
  BY DEF Abandon
<1>3. CASE stack' = Below
  BY <1>3, Popped DEF SameWork
<1>4. CASE stack' = Settled(Below, lost)
  <2> HIDE DEF lost
  <2>1. Below \in Seq(Frames) /\ Len(Below) = Len(stack) - 1
    BY Popped
  <2>2. /\ stack' \in Seq(Frames) /\ Len(stack') = Len(Below)
        /\ \A i \in 1 .. Len(Below) : SameWork(stack'[i], Below[i])
    BY <1>1, <1>4, <2>1, SettledFrames, ZenonT(60)
  <2> QED
    BY <2>1, <2>2, Popped
<1> QED
  BY <1>2, <1>3, <1>4

\* The first call of the innermost frame has been made.
LEMMA CallMade ==
  ASSUME StackType, stack # <<>>, Top.todo # <<>>
  PROVE  LET f == [Top EXCEPT !.todo = Tail(@), !.ending = TRUE] IN
         /\ f \in Frames /\ f.code = Top.code /\ f.todo = Tail(Top.todo)
         /\ f.pending = Top.pending /\ f.ending = TRUE /\ f.due = Top.due
<1>1. Top \in Frames
  BY Popped
<1>2. Tail(Top.todo) \in Todos
  BY <1>1, FrameFields, CallFacts, ZenonT(60)
<1>3. ASSUME NEW f \in Frames, NEW rest \in Todos
      PROVE  LET g == [f EXCEPT !.todo = rest, !.ending = TRUE] IN
             /\ g \in Frames /\ g.code = f.code /\ g.todo = rest
             /\ g.pending = f.pending /\ g.ending = TRUE /\ g.due = f.due
  BY <1>3, ZenonT(60) DEF Frames
<1>4. [Top EXCEPT !.todo = Tail(@), !.ending = TRUE] =
      [Top EXCEPT !.todo = Tail(Top.todo), !.ending = TRUE]
  BY <1>1 DEF Frames
<1> QED
  BY <1>1, <1>2, <1>3, <1>4, Zenon

\* A call of drop code is made: its frame, or that of Drop::drop, comes on top.
LEMMA DropNextStack ==
  ASSUME StackType, DropNext
  PROVE  /\ stack' \in Seq(Frames) /\ Len(stack') = Len(stack) + 1
         /\ \A i \in 1 .. Len(stack) - 1 : SameWork(stack'[i], stack[i])
         /\ stack'[Len(stack)].code = Top.code
         /\ stack'[Len(stack)].todo = Tail(Top.todo)
         /\ stack'[Len(stack)].pending = Top.pending
         /\ stack'[Len(stack)].ending = TRUE
         /\ stack'[Len(stack) + 1].pending = None
         /\ stack'[Len(stack) + 1].code # "assert"
<1> DEFINE call == Head(Top.todo)
           names == DropsOf(<<call>>)
           f == [Top EXCEPT !.todo = Tail(@), !.ending = TRUE]
           frames == Append(Below, f)
           lost == IF LeavesOut(call) THEN names ELSE <<>>
           n == Len(stack)
<1>1. stack # <<>> /\ Top.todo # <<>>
  BY DEF DropNext, Running
<1>2. /\ n \in Nat \ {0} /\ Top \in Frames /\ Top.todo \in Todos
  BY <1>1, Popped, FrameFields
<1>3. /\ <<call>> \in Todos
      /\ call.call # "own" => CodeOf(call).todo \in Todos /\ CodeOf(call).code \in Codes
      /\ call.call # "own" => CodeOf(call).code \in DropCode
  BY <1>1, <1>2, CallFacts, Zenon DEF Codes
<1>4. names \in Seq(STRING) /\ lost \in Seq(STRING) /\ <<>> \in Seq(STRING)
  BY <1>3, DropCodeAssumption
<1>5. /\ f \in Frames /\ f.code = Top.code /\ f.todo = Tail(Top.todo)
      /\ f.pending = Top.pending /\ f.ending = TRUE
  BY <1>1, CallMade
<1>6. PICK settled \in Seq(STRING), g \in Frames :
        stack' = Append(Settled(frames, settled), g) /\ g.pending = None /\ g.code # "assert"
  <2>1. CASE call.call = "own"
    <3>1. stack' = Append(Settled(frames, names), Body(<<>>))
      BY <2>1 DEF DropNext
    <3>2. /\ Body(<<>>) \in Frames /\ Body(<<>>).pending = None
          /\ Body(<<>>).code # "assert"
      BY NewBody, ZenonT(60)
    <3> QED
      BY <1>4, <3>1, <3>2, Zenon
  <2>2. CASE call.call # "own"
    <3>1. stack' = Append(Settled(frames, lost), Frame(CodeOf(call), <<>>))
      BY <2>2 DEF DropNext
    <3>2. /\ Frame(CodeOf(call), <<>>) \in Frames /\ Frame(CodeOf(call), <<>>).pending = None
          /\ Frame(CodeOf(call), <<>>).code = CodeOf(call).code
      BY <1>3, <1>4, <2>2, NewFrame, Zenon
    <3>3. Frame(CodeOf(call), <<>>).code # "assert"
      BY <1>3, <2>2, <3>2, Zenon DEF DropCode
    <3> QED
      BY <1>4, <3>1, <3>2, <3>3, Zenon
  <2> QED
    BY <2>1, <2>2
<1> HIDE DEF f
<1>7. /\ frames \in Seq(Frames) /\ Len(frames) = n
      /\ \A i \in 1 .. n - 1 : frames[i] = stack[i]
      /\ frames[n] = f
  BY <1>1, <1>5, TopReplaced
<1> DEFINE t == Settled(frames, settled)
<1> HIDE DEF frames
<1>8. /\ t \in Seq(Frames) /\ Len(t) = n
      /\ \A i \in 1 .. n : SameWork(t[i], frames[i])
  BY <1>7, SettledFrames
<1> HIDE DEF t
<1>9. stack' = Append(t, g) /\ g.pending = None /\ g.code # "assert"
  BY <1>6, Zenon DEF t, frames
<1>10. /\ stack' \in Seq(Frames) /\ Len(stack') = n + 1
       /\ \A i \in 1 .. n : stack'[i] = t[i]
       /\ stack'[n + 1] = g
  BY <1>8, <1>9, Pushed
<1>11. /\ \A i \in 1 .. n - 1 : SameWork(stack'[i], stack[i])
       /\ SameWork(stack'[n], f)
  BY <1>2, <1>7, <1>8, <1>10
<1> HIDE DEF n
<1>12. /\ stack'[n].code = Top.code /\ stack'[n].todo = Tail(Top.todo)
       /\ stack'[n].pending = Top.pending /\ stack'[n].ending = TRUE
       /\ stack'[n + 1].pending = None /\ stack'[n + 1].code # "assert"
  BY <1>5, <1>9, <1>10, <1>11, Zenon DEF SameWork
<1> QED
  BY <1>10, <1>11, <1>12, ZenonT(60) DEF n


-----------------------------------------------------------------------------
(* ACTIVE_PANIC                                                            *)

ThrowType ==
    /\ thrown \in Nat /\ rust \in SUBSET (1 .. thrown)
    /\ flying \in 0 .. thrown
    /\ active \in {None} \cup rust

\* A throwable is put off by one frame at most, and not while it flies; only
\* frames whose code is over and that have a handler put one off.
Waits(s, p) == \E i \in 1 .. Len(s) : s[i].pending = p
PendingIn(s, fly, last) ==
    \A i \in 1 .. Len(s) :
        /\ s[i].pending \in 0 .. last
        /\ s[i].pending # None =>
              /\ s[i].code \in Protected /\ s[i].ending
              /\ s[i].pending # fly
              /\ \A j \in 1 .. Len(s) : j # i => s[j].pending # s[i].pending
PendingInv == PendingIn(stack, flying, thrown)

\* ActiveWhileUnwinding, panic by panic.
ActiveView ==
    /\ halted \/ \A p \in rust : p = flying \/ Waits(stack, p) => p = active
    /\ active # None => active \in replaced \/ active = flying \/ Waits(stack, active)

PanicInv == StackType /\ ThrowType /\ PendingInv /\ ActiveView

\* The throwables that a stack puts off.
LEMMA PendingSet ==
  ASSUME NEW s \in Seq(Frames), NEW p
  PROVE  p \in {s[i].pending : i \in DOMAIN s} <=> \E i \in 1 .. Len(s) : s[i].pending = p
<1>1. DOMAIN s = 1 .. Len(s)
  BY LenProperties
<1> QED
  BY <1>1

\* A frame that puts nothing off comes on top.
LEMMA PushPending ==
  ASSUME NEW s \in Seq(Frames), NEW t \in Seq(Frames), NEW fly, NEW last,
         PendingIn(s, fly, last), last \in Nat, Len(t) = Len(s) + 1,
         \A i \in 1 .. Len(s) : /\ t[i].pending = s[i].pending /\ t[i].code = s[i].code
                                /\ s[i].ending => t[i].ending,
         t[Len(s) + 1].pending = None
  PROVE  /\ PendingIn(t, fly, last)
         /\ \A p : p # None => (Waits(t, p) <=> Waits(s, p))
<1> DEFINE n == Len(s)
<1>1. n \in Nat /\ Len(t) = n + 1
  BY LenProperties
<1>2. t[n + 1].pending = None
  OBVIOUS
<1>3. ASSUME NEW i \in 1 .. n + 1
      PROVE  i = n + 1 \/ i \in 1 .. n
  BY <1>1
<1>4. ASSUME NEW i \in 1 .. n
      PROVE  i \in 1 .. n + 1
  BY <1>1
<1>5. ASSUME NEW i \in 1 .. n
      PROVE  /\ t[i].pending = s[i].pending /\ t[i].code = s[i].code
             /\ s[i].ending => t[i].ending
             /\ s[i].pending \in 0 .. last
             /\ s[i].pending # None =>
                   /\ s[i].code \in Protected /\ s[i].ending
                   /\ s[i].pending # fly
                   /\ \A j \in 1 .. n : j # i => s[j].pending # s[i].pending
  BY DEF PendingIn
<1>6. None \in 0 .. last
  BY DEF None
<1> HIDE DEF n
<1>7. \A i \in 1 .. n + 1 :
        /\ t[i].pending \in 0 .. last
        /\ t[i].pending # None =>
              /\ t[i].code \in Protected /\ t[i].ending
              /\ t[i].pending # fly
              /\ \A j \in 1 .. n + 1 : j # i => t[j].pending # t[i].pending
  <2> SUFFICES ASSUME NEW i \in 1 .. n + 1
               PROVE  /\ t[i].pending \in 0 .. last
                      /\ t[i].pending # None =>
                            /\ t[i].code \in Protected /\ t[i].ending
                            /\ t[i].pending # fly
                            /\ \A j \in 1 .. n + 1 : j # i => t[j].pending # t[i].pending
    OBVIOUS
  <2>1. CASE i = n + 1
    BY <1>2, <1>6, <2>1, Zenon
  <2>2. CASE i \in 1 .. n
    <3>1. ASSUME t[i].pending # None, NEW j \in 1 .. n + 1, j # i
          PROVE  t[j].pending # t[i].pending
      <4>1. CASE j = n + 1
        BY <1>2, <3>1, <4>1, Zenon
      <4>2. CASE j \in 1 .. n
        BY <1>5, <2>2, <3>1, <4>2, ZenonT(60)
      <4> QED
        BY <1>3, <4>1, <4>2
    <3> QED
      BY <1>5, <2>2, <3>1, Zenon
  <2> QED
    BY <1>3, <2>1, <2>2
<1>8. ASSUME NEW p, p # None
      PROVE  (\E i \in 1 .. n + 1 : t[i].pending = p) <=> (\E i \in 1 .. n : s[i].pending = p)
  <2>1. ASSUME NEW i \in 1 .. n + 1, t[i].pending = p
        PROVE  \E j \in 1 .. n : s[j].pending = p
    <3>1. i \in 1 .. n
      BY <1>2, <1>3, <1>8, <2>1, Zenon
    <3> QED
      BY <1>5, <2>1, <3>1, Zenon
  <2>2. ASSUME NEW i \in 1 .. n, s[i].pending = p
        PROVE  \E j \in 1 .. n + 1 : t[j].pending = p
    BY <1>4, <1>5, <2>2, Zenon
  <2> QED
    BY <2>1, <2>2, Zenon
<1>9. PendingIn(t, fly, last)
  BY <1>1, <1>7, Zenon DEF PendingIn
<1>10. \A p : p # None => (Waits(t, p) <=> Waits(s, p))
  BY <1>1, <1>8, Zenon DEF Waits, n
<1> QED
  BY <1>9, <1>10

\* The innermost frame goes, and with it what it puts off.
LEMMA PopPending ==
  ASSUME NEW s \in Seq(Frames), NEW t \in Seq(Frames), NEW fly, NEW last,
         PendingIn(s, fly, last), Len(s) \in Nat \ {0}, Len(t) = Len(s) - 1,
         \A i \in 1 .. Len(s) - 1 : SameWork(t[i], s[i])
  PROVE  /\ PendingIn(t, fly, last)
         /\ \A p : Waits(s, p) <=> Waits(t, p) \/ p = s[Len(s)].pending
         /\ PendingIn(t, s[Len(s)].pending, last)
         /\ s[Len(s)].pending # None => ~Waits(t, s[Len(s)].pending)
         /\ s[Len(s)].pending \in 0 .. last
<1> DEFINE n == Len(s)
           m == n - 1
<1>1. n \in 1 .. n /\ n \notin 1 .. m /\ Len(t) = m
  OBVIOUS
<1>2. ASSUME NEW i \in 1 .. m
      PROVE  i \in 1 .. n
  OBVIOUS
<1>3. ASSUME NEW i \in 1 .. n
      PROVE  i = n \/ i \in 1 .. m
  OBVIOUS
<1>4. ASSUME NEW i \in 1 .. n
      PROVE  /\ s[i].pending \in 0 .. last
             /\ s[i].pending # None =>
                   /\ s[i].code \in Protected /\ s[i].ending
                   /\ s[i].pending # fly
                   /\ \A j \in 1 .. n : j # i => s[j].pending # s[i].pending
  BY DEF PendingIn
<1>5. ASSUME NEW i \in 1 .. m
      PROVE  /\ t[i].pending = s[i].pending /\ t[i].code = s[i].code
             /\ t[i].ending = s[i].ending
  BY ZenonT(60) DEF SameWork
<1> HIDE DEF n, m
<1>6. ASSUME NEW i \in 1 .. m
      PROVE  /\ t[i].pending \in 0 .. last
             /\ t[i].pending # None =>
                   /\ t[i].code \in Protected /\ t[i].ending
                   /\ t[i].pending # fly /\ t[i].pending # s[n].pending
                   /\ \A j \in 1 .. m : j # i => t[j].pending # t[i].pending
  <2>1. t[i].pending # None => t[i].pending # s[n].pending
    <3>1. i # n /\ i \in 1 .. n
      BY <1>1, <1>2, Zenon
    <3>2. s[i].pending # None => s[n].pending # s[i].pending
      BY <1>1, <1>4, <3>1
    <3> QED
      BY <1>5, <3>2, Zenon
  <2>2. ASSUME t[i].pending # None, NEW j \in 1 .. m, j # i
        PROVE  t[j].pending # t[i].pending
    BY <1>2, <1>4, <1>5, <2>2, ZenonT(60)
  <2> QED
    BY <1>2, <1>4, <1>5, <2>1, <2>2, Zenon
<1>7. ASSUME NEW p
      PROVE  (\E i \in 1 .. n : s[i].pending = p) <=>
                (\E i \in 1 .. m : t[i].pending = p) \/ p = s[n].pending
  BY <1>1, <1>2, <1>3, <1>5, Zenon
<1>8. s[n].pending # None => ~\E i \in 1 .. m : t[i].pending = s[n].pending
  BY <1>6, Zenon
<1>9. s[n].pending \in 0 .. last
  BY <1>1, <1>4
<1>10. PendingIn(t, fly, last) /\ PendingIn(t, s[n].pending, last)
  BY <1>1, <1>6, Zenon DEF PendingIn
<1>11. \A p : Waits(s, p) <=> Waits(t, p) \/ p = s[n].pending
  BY <1>1, <1>7, Zenon DEF Waits, n
<1>12. s[n].pending # None => ~Waits(t, s[n].pending)
  BY <1>1, <1>8, Zenon DEF Waits
<1> QED
  BY <1>9, <1>10, <1>11, <1>12 DEF n

\* The innermost frame, which puts nothing off, comes to put off what flies.
PutsOff(s, t, fly) ==
    LET n == Len(s) IN
    /\ n \in Nat \ {0} /\ Len(t) = n /\ \A i \in 1 .. n - 1 : t[i] = s[i]
    /\ s[n].pending = None /\ t[n].pending = fly /\ t[n].ending = TRUE /\ t[n].code \in Protected

\* Then the throwable that flew is the one more that waits.
LEMMA PutOffPending ==
  ASSUME NEW s \in Seq(Frames), NEW t \in Seq(Frames), NEW last \in Nat, NEW fly \in 1 .. last,
         PendingIn(s, fly, last), PutsOff(s, t, fly)
  PROVE  /\ PendingIn(t, None, last)
         /\ \A p : p # None => (Waits(t, p) <=> Waits(s, p) \/ p = fly)
<1> DEFINE n == Len(s)
           m == n - 1
<1>1. n \in 1 .. n /\ n \notin 1 .. m /\ Len(t) = n
  BY DEF PutsOff
<1>2. ASSUME NEW i \in 1 .. m
      PROVE  i \in 1 .. n
  BY DEF PutsOff
<1>3. ASSUME NEW i \in 1 .. n
      PROVE  i = n \/ i \in 1 .. m
  BY DEF PutsOff
<1>4. ASSUME NEW i \in 1 .. n
      PROVE  /\ s[i].pending \in 0 .. last
             /\ s[i].pending # None =>
                   /\ s[i].code \in Protected /\ s[i].ending
                   /\ s[i].pending # fly
                   /\ \A j \in 1 .. n : j # i => s[j].pending # s[i].pending
  BY DEF PendingIn
<1>0. fly \in 0 .. last /\ fly # None
  BY DEF None
<1>5. /\ s[n].pending = None /\ t[n].pending = fly /\ t[n].ending = TRUE /\ t[n].code \in Protected
      /\ \A i \in 1 .. m : t[i] = s[i]
  BY DEF PutsOff
<1> HIDE DEF n, m
<1>6. ASSUME NEW i \in 1 .. n
      PROVE  /\ t[i].pending \in 0 .. last
             /\ t[i].pending # None =>
                   /\ t[i].code \in Protected /\ t[i].ending
                   /\ \A j \in 1 .. n : j # i => t[j].pending # t[i].pending
  <2>1. CASE i = n
    <3>1. ASSUME NEW j \in 1 .. n, j # i
          PROVE  t[j].pending # t[i].pending
      BY <1>0, <1>2, <1>3, <1>4, <1>5, <2>1, <3>1, Zenon
    <3> QED
      BY <1>0, <1>5, <2>1, <3>1, Zenon
  <2>2. CASE i \in 1 .. m
    <3>1. ASSUME t[i].pending # None, NEW j \in 1 .. n, j # i
          PROVE  t[j].pending # t[i].pending
      <4>1. CASE j = n
        BY <1>0, <1>2, <1>4, <1>5, <2>2, <3>1, <4>1, Zenon
      <4>2. CASE j \in 1 .. m
        BY <1>2, <1>4, <1>5, <2>2, <3>1, <4>2, Zenon
      <4> QED
        BY <1>3, <4>1, <4>2
    <3> QED
      BY <1>2, <1>4, <1>5, <2>2, <3>1, Zenon
  <2> QED
    BY <1>3, <2>1, <2>2
<1>7. ASSUME NEW p, p # None
      PROVE  (\E i \in 1 .. n : t[i].pending = p) <=>
                (\E i \in 1 .. n : s[i].pending = p) \/ p = fly
  BY <1>1, <1>2, <1>3, <1>5, <1>7, Zenon
<1>8. PendingIn(t, None, last)
  BY <1>1, <1>6, Zenon DEF PendingIn
<1> QED
  BY <1>1, <1>7, <1>8, Zenon DEF Waits, n

\* Frames that put off the same throwables, while a new one is thrown.
LEMMA ThrowPending ==
  ASSUME NEW s \in Seq(Frames), NEW t \in Seq(Frames), NEW last \in Nat,
         PendingIn(s, None, last), Len(t) = Len(s),
         \A i \in 1 .. Len(s) : /\ t[i].pending = s[i].pending
                                /\ s[i].pending # None => t[i].code = s[i].code
                                /\ t[i].ending = s[i].ending
  PROVE  /\ PendingIn(t, last + 1, last + 1) /\ ~Waits(t, last + 1)
         /\ \A p : Waits(t, p) <=> Waits(s, p)
<1> DEFINE n == Len(s)
<1>1. ASSUME NEW i \in 1 .. n
      PROVE  /\ t[i].pending \in 0 .. last + 1 /\ t[i].pending # last + 1
             /\ t[i].pending # None =>
                   /\ t[i].code \in Protected /\ t[i].ending
                   /\ \A j \in 1 .. n : j # i => t[j].pending # t[i].pending
  <2>1. s[i].pending \in 0 .. last
    BY DEF PendingIn
  <2>2. s[i].pending # None =>
           /\ s[i].code \in Protected /\ s[i].ending
           /\ \A j \in 1 .. n : j # i => s[j].pending # s[i].pending
    BY DEF PendingIn
  <2> HIDE DEF n
  <2>3. t[i].pending = s[i].pending
    BY DEF n
  <2> QED
    BY <2>1, <2>2, <2>3 DEF n
<1> QED
  BY <1>1, ZenonT(60) DEF PendingIn, Waits

\* The initial state has no throwable.
LEMMA PanicInit == Init => PanicInv
<1> SUFFICES ASSUME Init PROVE PanicInv
  OBVIOUS
<1>1. /\ stack = <<Catching>> /\ thrown = 0 /\ rust = {} /\ flying = None /\ active = None
  BY DEF Init
<1>2. stack \in Seq(Frames) /\ Len(stack) = 1 /\ stack[1].pending = None
  BY <1>1, NewCatching
<1> QED
  BY <1>1, <1>2 DEF PanicInv, StackType, ThrowType, PendingInv, PendingIn, ActiveView, Waits, None

\* Every step keeps the invariant.
LEMMA PanicStep == PanicInv /\ [Next]_vars => PanicInv'
<1> SUFFICES ASSUME PanicInv, [Next]_vars PROVE PanicInv'
  OBVIOUS
<1> DEFINE n == Len(stack)
<1>t. StackType /\ ThrowType /\ PendingInv /\ ActiveView
  BY DEF PanicInv
<1>0. n \in Nat
  BY <1>t, LenProperties DEF StackType
<1>top. stack # <<>> =>
          /\ n \in Nat \ {0} /\ Top \in Frames /\ Top = stack[n]
          /\ Below \in Seq(Frames) /\ Len(Below) = n - 1
          /\ \A i \in 1 .. n - 1 : Below[i] = stack[i]
  BY <1>t, Popped DEF Top
<1> USE DEF None
<1>1. CASE Enter
  <2>1. PICK f \in Frames : stack' = Append(stack, f) /\ f.pending = None
    <3>1. CASE stack' = Append(stack, Catching)
      BY <3>1, NewCatching
    <3>2. CASE \E types \in Owned \cup Nested : stack' = Append(stack, Body(types))
      BY <3>2, NewBody, ZenonT(60)
    <3> QED
      BY <1>1, <3>1, <3>2 DEF Enter
  <2>2. /\ stack' \in Seq(Frames) /\ Len(stack') = n + 1
        /\ \A i \in 1 .. n : stack'[i] = stack[i]
        /\ stack'[n + 1].pending = None
    BY <1>t, <2>1, Pushed DEF StackType
  <2>3. UNCHANGED <<flying, active, thrown, rust, halted, replaced>>
    BY <1>1 DEF Enter
  <2>p. PendingIn(stack', flying, thrown) /\ \A p : p # None => (Waits(stack', p) <=> Waits(stack, p))
    BY <1>t, <2>2, PushPending, ZenonT(60) DEF PendingInv, StackType, ThrowType
  <2>4. PendingInv'
    BY <2>3, <2>p DEF PendingInv
  <2>5. ActiveView'
    BY <1>t, <2>3, <2>p DEF ActiveView, ThrowType
  <2> QED
    BY <1>t, <2>2, <2>3, <2>4, <2>5 DEF PanicInv, StackType, ThrowType
<1>2. CASE RaisePanic
  <2>1. /\ flying = None /\ thrown' = thrown + 1 /\ rust' = rust \cup {thrown + 1}
        /\ RaiseTracked(thrown + 1) /\ UNCHANGED <<stack, replaced>>
    BY <1>2 DEF RaisePanic, InUserCode, Running
  <2>2. ThrowType' /\ flying' = thrown + 1
    BY <1>t, <2>1 DEF ThrowType, RaiseTracked
  <2>p. PendingIn(stack, thrown + 1, thrown + 1) /\ ~Waits(stack, thrown + 1)
    BY <1>t, <2>1, ThrowPending DEF PendingInv, StackType, ThrowType
  <2>3. PendingInv'
    BY <2>1, <2>2, <2>p DEF PendingInv
  <2>4. ActiveView'
    <3>1. CASE active # None
      BY <1>t, <2>1, <3>1 DEF ActiveView, RaiseTracked
    <3>2. CASE active = None
      BY <1>t, <2>1, <2>p, <3>2 DEF ActiveView, ThrowType, RaiseTracked
    <3> QED
      BY <3>1, <3>2
  <2> QED
    BY <1>t, <2>1, <2>2, <2>3, <2>4 DEF PanicInv, StackType
<1>3. CASE FailAssert
  <2>1. /\ flying = None /\ thrown' = thrown + 1 /\ rust' = rust \cup {thrown + 1}
        /\ RaiseTracked(thrown + 1) /\ UNCHANGED replaced
        /\ stack # <<>> /\ ~Top.ending
        /\ stack' = Append(Below, [Top EXCEPT !.code = "assert"])
    BY <1>3 DEF FailAssert, InUserCode, Running
  <2> DEFINE f == [Top EXCEPT !.code = "assert"]
  <2>2. f \in Frames /\ f.pending = Top.pending /\ f.ending = Top.ending
    BY <1>top, <2>1, ZenonT(60) DEF Frames, Codes
  <2> HIDE DEF f
  <2>3. /\ stack' \in Seq(Frames) /\ Len(stack') = n
        /\ \A i \in 1 .. n - 1 : stack'[i] = stack[i]
        /\ stack'[n].pending = stack[n].pending /\ stack'[n].ending = stack[n].ending
    BY <1>t, <1>top, <2>1, <2>2, TopReplaced DEF f
  <2>4. stack[n].pending = None
    BY <1>t, <1>top, <2>1 DEF PendingInv, PendingIn
  <2>5. ThrowType' /\ flying' = thrown + 1
    BY <1>t, <2>1 DEF ThrowType, RaiseTracked
  <2>6. \A i \in 1 .. n : /\ stack'[i].pending = stack[i].pending
                          /\ stack[i].pending # None => stack'[i].code = stack[i].code
                          /\ stack'[i].ending = stack[i].ending
    <3> SUFFICES ASSUME NEW i \in 1 .. n
                 PROVE  /\ stack'[i].pending = stack[i].pending
                        /\ stack[i].pending # None => stack'[i].code = stack[i].code
                        /\ stack'[i].ending = stack[i].ending
      OBVIOUS
    <3>1. i = n \/ i \in 1 .. n - 1
      BY <1>0
    <3> QED
      BY <2>3, <2>4, <3>1, ZenonT(60)
  <2>p. /\ PendingIn(stack', thrown + 1, thrown + 1) /\ ~Waits(stack', thrown + 1)
        /\ \A p : Waits(stack', p) <=> Waits(stack, p)
    BY <1>t, <2>1, <2>3, <2>6, ThrowPending, ZenonT(60) DEF PendingInv, StackType, ThrowType
  <2>7. PendingInv'
    BY <2>1, <2>5, <2>p DEF PendingInv
  <2>8. ActiveView'
    <3>1. CASE active # None
      BY <1>t, <2>1, <2>p, <3>1 DEF ActiveView, RaiseTracked
    <3>2. CASE active = None
      BY <1>t, <2>1, <2>p, <3>2 DEF ActiveView, ThrowType, RaiseTracked
    <3> QED
      BY <3>1, <3>2
  <2> QED
    BY <2>3, <2>5, <2>7, <2>8, ZenonT(60) DEF PanicInv, StackType
<1>4. CASE ThrowForeign
  <2>1. /\ flying = None /\ thrown' = thrown + 1 /\ flying' = thrown + 1
        /\ UNCHANGED <<stack, active, rust, halted, replaced>>
    BY <1>4 DEF ThrowForeign, InUserCode, Running
  <2>2. ThrowType'
    BY <1>t, <2>1 DEF ThrowType
  <2>p. PendingIn(stack, thrown + 1, thrown + 1)
    BY <1>t, <2>1, ThrowPending, ZenonT(60) DEF PendingInv, StackType, ThrowType
  <2>3. PendingInv'
    BY <2>1, <2>p, ZenonT(60) DEF PendingInv
  <2>4. ActiveView'
    BY <1>t, <2>1 DEF ActiveView, ThrowType
  <2> QED
    BY <1>t, <2>1, <2>2, <2>3, <2>4, ZenonT(60) DEF PanicInv, StackType
<1>5. CASE DropNext
  <2>1. /\ stack # <<>> /\ UNCHANGED <<flying, active, thrown, rust, halted, replaced>>
    BY <1>5, ZenonT(60) DEF DropNext, Running
  <2>2. /\ stack' \in Seq(Frames) /\ Len(stack') = n + 1
        /\ \A i \in 1 .. n - 1 : SameWork(stack'[i], stack[i])
        /\ stack'[n].code = stack[n].code /\ stack'[n].pending = stack[n].pending
        /\ stack'[n].ending = TRUE /\ stack'[n + 1].pending = None
    BY <1>t, <1>5, <1>top, <2>1, DropNextStack, ZenonT(60)
  <2>3. \A i \in 1 .. n : /\ stack'[i].pending = stack[i].pending
                          /\ stack'[i].code = stack[i].code
                          /\ stack[i].ending => stack'[i].ending
    <3> SUFFICES ASSUME NEW i \in 1 .. n
                 PROVE  /\ stack'[i].pending = stack[i].pending
                        /\ stack'[i].code = stack[i].code
                        /\ stack[i].ending => stack'[i].ending
      BY ZenonT(60)
    <3>1. i = n \/ i \in 1 .. n - 1
      BY <1>0
    <3> QED
      BY <2>2, <3>1, ZenonT(60) DEF SameWork
  <2>p. PendingIn(stack', flying, thrown) /\ \A p : p # None => (Waits(stack', p) <=> Waits(stack, p))
    BY <1>t, <2>2, <2>3, PushPending, ZenonT(60) DEF PendingInv, StackType, ThrowType
  <2>4. PendingInv'
    BY <2>1, <2>p DEF PendingInv
  <2>5. ActiveView'
    BY <1>t, <2>1, <2>p DEF ActiveView, ThrowType
  <2> QED
    BY <1>t, <2>1, <2>2, <2>4, <2>5, ZenonT(60) DEF PanicInv, StackType, ThrowType
<1>6. CASE Leave
  <2>1. /\ stack # <<>> /\ flying = None /\ flying' = Top.pending /\ stack' = Below
        /\ UNCHANGED <<active, thrown, rust, halted, replaced>>
    BY <1>6 DEF Leave, Running
  <2>2. /\ stack' \in Seq(Frames) /\ Len(stack') = n - 1 /\ flying' = stack[n].pending
        /\ \A i \in 1 .. n - 1 : stack'[i] = stack[i]
        /\ n \in Nat \ {0}
    BY <1>top, <2>1, ZenonT(60)
  <2>p. /\ PendingIn(stack', flying, thrown) /\ PendingIn(stack', stack[n].pending, thrown)
        /\ \A p : Waits(stack, p) <=> Waits(stack', p) \/ p = stack[n].pending
        /\ stack[n].pending # None => ~Waits(stack', stack[n].pending)
        /\ stack[n].pending \in 0 .. thrown
    BY <1>t, <2>2, PopPending, ZenonT(60) DEF PendingInv, StackType, SameWork
  <2> HIDE DEF n
  <2>3. ThrowType'
    BY <1>t, <2>1, <2>2, <2>p DEF ThrowType
  <2>4. PendingInv'
    BY <2>1, <2>2, <2>p, ZenonT(60) DEF PendingInv
  <2>5. ActiveView'
    BY <1>t, <2>1, <2>2, <2>p, ZenonT(60) DEF ActiveView, ThrowType
  <2> QED
    BY <2>2, <2>3, <2>4, <2>5, ZenonT(60) DEF PanicInv, StackType
<1>7. CASE PassThrough
  <2>1. /\ stack # <<>> /\ flying # None /\ Abandon /\ Top.code \in Unprotected
        /\ UNCHANGED <<flying, active, thrown, rust, halted, replaced>>
    BY <1>7, ZenonT(60) DEF PassThrough, Unwinding
  <2>2. /\ stack' \in Seq(Frames) /\ Len(stack') = n - 1
        /\ \A i \in 1 .. n - 1 : SameWork(stack'[i], stack[i])
        /\ n \in Nat \ {0}
    BY <1>t, <1>top, <2>1, AbandonStack, ZenonT(60)
  <2>3. stack[n].pending = None
    BY <1>t, <1>top, <2>1 DEF PendingInv, PendingIn, Protected, Unprotected
  <2>p. /\ PendingIn(stack', flying, thrown) /\ PendingIn(stack', stack[n].pending, thrown)
        /\ \A p : Waits(stack, p) <=> Waits(stack', p) \/ p = stack[n].pending
        /\ stack[n].pending # None => ~Waits(stack', stack[n].pending)
        /\ stack[n].pending \in 0 .. thrown
    BY <1>t, <2>2, PopPending, ZenonT(60) DEF PendingInv, StackType, SameWork
  <2> HIDE DEF n
  <2>4. PendingInv'
    BY <2>1, <2>p, ZenonT(60) DEF PendingInv
  <2>5. ActiveView'
    BY <1>t, <2>1, <2>3, <2>p, ZenonT(60) DEF ActiveView, ThrowType
  <2> QED
    BY <1>t, <2>1, <2>2, <2>4, <2>5, ZenonT(60) DEF PanicInv, StackType, ThrowType
<1>8. CASE Cleanup
  <2>1. /\ stack # <<>> /\ flying # None /\ Top.code \in Protected /\ Top.pending = None
        /\ stack' = Append(Below, [Top EXCEPT !.pending = flying, !.ending = TRUE])
        /\ flying' = None /\ UNCHANGED <<active, thrown, rust, halted, replaced>>
    BY <1>8 DEF Cleanup, Unwinding
  <2> DEFINE f == [Top EXCEPT !.pending = flying, !.ending = TRUE]
  <2>2. f \in Frames /\ f.pending = flying /\ f.ending = TRUE /\ f.code = Top.code
    <3>1. flying \in Nat
      BY <1>t DEF ThrowType
    <3>2. ASSUME NEW g \in Frames, NEW p \in Nat
          PROVE  LET h == [g EXCEPT !.pending = p, !.ending = TRUE] IN
                 h \in Frames /\ h.pending = p /\ h.ending = TRUE /\ h.code = g.code
      BY <3>2, ZenonT(60) DEF Frames
    <3> QED
      BY <1>top, <2>1, <3>1, <3>2, Zenon
  <2> HIDE DEF f
  <2>3. /\ stack' \in Seq(Frames) /\ Len(stack') = n
        /\ \A i \in 1 .. n - 1 : stack'[i] = stack[i]
        /\ stack'[n] = f /\ n \in Nat \ {0}
    BY <1>t, <1>top, <2>1, <2>2, TopReplaced DEF f
  <2>p. /\ PendingIn(stack', None, thrown)
        /\ \A p : p # None => (Waits(stack', p) <=> Waits(stack, p) \/ p = flying)
    <3>1. /\ stack[n].pending = None /\ stack'[n].pending = flying /\ stack'[n].ending = TRUE
          /\ stack'[n].code \in Protected
      BY <1>top, <2>1, <2>2, <2>3, ZenonT(60)
    <3>2. flying \in 1 .. thrown /\ thrown \in Nat /\ stack \in Seq(Frames)
      BY <1>t, <2>1 DEF ThrowType, StackType
    <3> QED
      <4>1. PendingIn(stack, flying, thrown)
        BY <1>t DEF PendingInv
      <4>2. PutsOff(stack, stack', flying) /\ stack' \in Seq(Frames)
        BY <2>3, <3>1, ZenonT(60) DEF PutsOff
      <4> QED
        BY <3>2, <4>1, <4>2, PutOffPending
  <2> HIDE DEF n
  <2>4. PendingInv'
    BY <2>1, <2>p, ZenonT(60) DEF PendingInv
  <2>5. ActiveView'
    BY <1>t, <2>1, <2>p DEF ActiveView, ThrowType
  <2> QED
    BY <1>t, <2>1, <2>3, <2>4, <2>5 DEF PanicInv, StackType, ThrowType
<1>9. CASE SecondFailure
  <2>1. /\ stack # <<>> /\ flying # None /\ Top.pending # None /\ ~halted
        /\ UNCHANGED <<flying, active, thrown, rust>>
    BY <1>9, ZenonT(60) DEF SecondFailure, Unwinding
  <2>2. CASE Terminates
    <3>1. halted' = TRUE /\ UNCHANGED <<stack, replaced>>
      BY <1>9, <2>2, ZenonT(60) DEF SecondFailure
    <3>2. PendingInv'
      BY <1>t, <2>1, <3>1, ZenonT(60) DEF PendingInv
    <3>3. ActiveView'
      BY <1>t, <2>1, <3>1, ZenonT(60) DEF ActiveView
    <3> QED
      BY <1>t, <2>1, <3>1, <3>2, <3>3, ZenonT(60) DEF PanicInv, StackType, ThrowType
  <2>3. CASE ~Terminates
    <3>1. /\ Abandon /\ UNCHANGED halted
          /\ replaced' = replaced \cup ({Top.pending} \cap rust)
      BY <1>9, <2>3, ZenonT(60) DEF SecondFailure
    <3>2. /\ stack' \in Seq(Frames) /\ Len(stack') = n - 1
          /\ \A i \in 1 .. n - 1 : SameWork(stack'[i], stack[i])
          /\ n \in Nat \ {0} /\ Top = stack[n]
      BY <1>t, <1>top, <2>1, <3>1, AbandonStack, ZenonT(60)
    <3>p. /\ PendingIn(stack', flying, thrown) /\ PendingIn(stack', stack[n].pending, thrown)
          /\ \A p : Waits(stack, p) <=> Waits(stack', p) \/ p = stack[n].pending
          /\ stack[n].pending # None => ~Waits(stack', stack[n].pending)
          /\ stack[n].pending \in 0 .. thrown
      BY <1>t, <3>2, PopPending, ZenonT(60) DEF PendingInv, StackType, SameWork
    <3> HIDE DEF n
    <3>3. PendingInv'
      BY <2>1, <3>p, ZenonT(60) DEF PendingInv
    <3>4. ActiveView'
      BY <1>t, <2>1, <3>1, <3>2, <3>p, ZenonT(60) DEF ActiveView, ThrowType
    <3> QED
      BY <1>t, <2>1, <3>2, <3>3, <3>4, ZenonT(60) DEF PanicInv, StackType, ThrowType
  <2> QED
    BY <2>2, <2>3, ZenonT(60)
<1>10. CASE Catch
  <2>1. /\ stack # <<>> /\ flying # None /\ ~halted /\ Top.code = "catch" /\ stack' = Below
        /\ flying' = None /\ UNCHANGED <<thrown, rust, halted, replaced>>
        /\ CatchFunction(flying)
    BY <1>10, ZenonT(60) DEF Catch, Unwinding
  <2>2. /\ stack' \in Seq(Frames) /\ Len(stack') = n - 1
        /\ \A i \in 1 .. n - 1 : stack'[i] = stack[i]
        /\ n \in Nat \ {0}
    BY <1>top, <2>1, ZenonT(60)
  <2>3. stack[n].pending = None
    BY <1>t, <1>top, <2>1 DEF PendingInv, PendingIn, Protected
  <2>4. IF flying \in rust THEN active' = None ELSE active' = active
    <3>1. flying \in rust => active = flying
      BY <1>t, <2>1, ZenonT(60) DEF ActiveView
    <3> QED
      BY <2>1, <3>1, ZenonT(60) DEF CatchFunction, TakePayload
  <2>p. /\ PendingIn(stack', flying, thrown) /\ PendingIn(stack', stack[n].pending, thrown)
        /\ \A p : Waits(stack, p) <=> Waits(stack', p) \/ p = stack[n].pending
        /\ stack[n].pending # None => ~Waits(stack', stack[n].pending)
        /\ stack[n].pending \in 0 .. thrown
    BY <1>t, <2>2, PopPending, ZenonT(60) DEF PendingInv, StackType, SameWork
  <2> HIDE DEF n
  <2>5. PendingInv'
    <3>1. PendingIn(stack', None, thrown)
      BY <2>3, <2>p, ZenonT(60)
    <3> QED
      BY <2>1, <3>1, ZenonT(60) DEF PendingInv
  <2>6. ThrowType'
    BY <1>t, <2>1, <2>4 DEF ThrowType
  <2>7. ActiveView'
    <3>1. CASE flying \in rust
      <4>1. ~Waits(stack', flying)
        BY <2>1, <2>p DEF PendingIn, Waits
      <4>2. \A p \in rust : ~Waits(stack', p)
        BY <1>t, <2>1, <2>p, <3>1, <4>1 DEF ActiveView
      <4> QED
        BY <1>t, <2>1, <2>4, <3>1, <4>2, ZenonT(60) DEF ActiveView, ThrowType
    <3>2. CASE flying \notin rust
      BY <1>t, <2>1, <2>3, <2>4, <2>p, <3>2, ZenonT(60) DEF ActiveView, ThrowType
    <3> QED
      BY <3>1, <3>2
  <2> QED
    BY <2>2, <2>5, <2>6, <2>7, ZenonT(60) DEF PanicInv, StackType
<1>11. CASE Rethrow
  <2>1. /\ stack # <<>> /\ Top.code = "catch" /\ stack' = Below
        /\ UNCHANGED <<flying, active, thrown, rust, halted, replaced>>
    BY <1>11, ZenonT(60) DEF Rethrow, Unwinding
  <2>2. /\ stack' \in Seq(Frames) /\ Len(stack') = n - 1
        /\ \A i \in 1 .. n - 1 : stack'[i] = stack[i]
        /\ n \in Nat \ {0}
    BY <1>top, <2>1, ZenonT(60)
  <2>3. stack[n].pending = None
    BY <1>t, <1>top, <2>1 DEF PendingInv, PendingIn, Protected
  <2>p. /\ PendingIn(stack', flying, thrown)
        /\ \A p : Waits(stack, p) <=> Waits(stack', p) \/ p = stack[n].pending
    BY <1>t, <2>2, PopPending, ZenonT(60) DEF PendingInv, StackType, SameWork
  <2> HIDE DEF n
  <2>4. PendingInv'
    BY <2>1, <2>p, ZenonT(60) DEF PendingInv
  <2>5. ActiveView'
    BY <1>t, <2>1, <2>3, <2>p, ZenonT(60) DEF ActiveView, ThrowType
  <2> QED
    BY <1>t, <2>1, <2>2, <2>4, <2>5, ZenonT(60) DEF PanicInv, StackType, ThrowType
<1>12. CASE Overflow
  <2>1. halted' = TRUE /\ UNCHANGED <<stack, flying, active, thrown, rust, replaced>>
    BY <1>12, ZenonT(60) DEF Overflow
  <2> QED
    BY <1>t, <2>1 DEF PanicInv, StackType, ThrowType, PendingInv, ActiveView
<1>13. CASE UNCHANGED vars
  BY <1>13, <1>t DEF vars, PanicInv, StackType, ThrowType, PendingInv, ActiveView
<1> QED
  BY <1>1, <1>2, <1>3, <1>4, <1>5, <1>6, <1>7, <1>8, <1>9, <1>10, <1>11, <1>12, <1>13, ZenonT(60)
     DEF Next

\* The invariant holds in every state.
LEMMA PanicInvariant == Spec => []PanicInv
BY PanicInit, PanicStep, PTL DEF Spec

\* raiseTracked, takePayload and the handlers keep ACTIVE_PANIC in step with the
\* panics in flight, for any nesting of functions, destructors and catch_unwinds.
THEOREM ActivePanicFollowsUnwinding == Spec => []ActiveWhileUnwinding
<1>1. PanicInv => ActiveWhileUnwinding
  <2> SUFFICES ASSUME PanicInv PROVE ActiveWhileUnwinding
    OBVIOUS
  <2>1. stack \in Seq(Frames) /\ ThrowType /\ ActiveView
    BY DEF PanicInv, StackType
  <2>2. \A p : p \in {stack[i].pending : i \in DOMAIN stack} <=> Waits(stack, p)
    BY <2>1, PendingSet DEF Waits
  <2>3. \A p : p \in InFlight <=> p \in rust /\ (p = flying \/ Waits(stack, p))
    BY <2>2, Zenon DEF InFlight
  <2>4. active # None => active \in rust
    BY <2>1 DEF ThrowType
  <2> QED
    BY <2>1, <2>3, <2>4 DEF ActiveWhileUnwinding, ActiveView
<1> QED
  BY <1>1, PanicInvariant, PTL


-----------------------------------------------------------------------------
(* Destructors left out                                                    *)

\* A foreign exception has been thrown.
Foreign == \E p \in 1 .. thrown : p \notin rust

SkippedInv ==
    /\ skipped \subseteq {"list", "closure", "assert", "user", "shim", "safe"}
    /\ skipped \cap {"user", "shim", "safe"} # {} => Foreign

\* A call of drop code passes over destructors only for a closure.
LEMMA OnlyClosuresLeftOut ==
  ASSUME StackType, DropNext
  PROVE  skipped' = skipped \/ skipped' = skipped \cup {"closure"}
<1> DEFINE call == Head(Top.todo)
           lost == IF LeavesOut(call) THEN DropsOf(<<call>>) ELSE <<>>
<1>1. Top.todo \in Todos /\ Top.todo # <<>>
  BY Popped, FrameFields DEF DropNext, Running
<1>2. CASE call.call = "own"
  BY <1>2 DEF DropNext
<1>3. CASE call.call # "own"
  <2>1. skipped' = IF lost = <<>> THEN skipped ELSE skipped \cup {KindOf(call)}
    BY <1>3 DEF DropNext
  <2>2. \/ DropsOf(CodeOf(call).todo) = DropsOf(<<call>>)
        \/ LeavesOut(call) /\ KindOf(call) = "closure"
    BY <1>1, <1>3, CallFacts, ZenonT(60)
  <2>3. LeavesOut(call) => DropsOf(CodeOf(call).todo) = <<>>
    BY DropCodeAssumption DEF LeavesOut, NoCode
  <2> QED
    BY <2>1, <2>2, <2>3
<1> QED
  BY <1>2, <1>3, ZenonT(60)

\* Every step keeps it.
LEMMA SkippedStep == PanicInv /\ SkippedInv /\ [Next]_vars => SkippedInv'
<1> SUFFICES ASSUME PanicInv, SkippedInv, [Next]_vars PROVE SkippedInv'
  OBVIOUS
<1>t. StackType /\ ThrowType
  BY DEF PanicInv
<1>1. CASE Enter \/ Leave \/ Cleanup \/ Catch \/ Rethrow \/ Overflow \/ UNCHANGED vars
  <2>1. UNCHANGED <<thrown, rust, skipped>>
    BY <1>1, ZenonT(60) DEF Enter, Leave, Cleanup, Catch, Rethrow, Overflow, vars
  <2> QED
    BY <2>1, ZenonT(60) DEF SkippedInv, Foreign
<1>2. CASE RaisePanic \/ FailAssert
  <2>1. thrown' = thrown + 1 /\ rust' = rust \cup {thrown + 1} /\ UNCHANGED skipped
    BY <1>2 DEF RaisePanic, FailAssert
  <2> QED
    BY <1>t, <2>1 DEF SkippedInv, Foreign, ThrowType
<1>3. CASE ThrowForeign
  <2>1. thrown' = thrown + 1 /\ UNCHANGED <<rust, skipped>>
    BY <1>3 DEF ThrowForeign
  <2> QED
    BY <1>t, <2>1 DEF SkippedInv, Foreign, ThrowType
<1>4. CASE DropNext
  <2>1. skipped' = skipped \/ skipped' = skipped \cup {"closure"}
    BY <1>t, <1>4, OnlyClosuresLeftOut
  <2>2. UNCHANGED <<thrown, rust>>
    BY <1>4 DEF DropNext
  <2> QED
    BY <2>1, <2>2, ZenonT(60) DEF SkippedInv, Foreign
<1>5. CASE PassThrough
  <2>1. /\ skipped' = skipped \/ skipped' = skipped \cup {Top.code}
        /\ Top.code \in {"list", "assert"} /\ UNCHANGED <<thrown, rust>>
    BY <1>5 DEF PassThrough, Abandon, Unprotected
  <2> QED
    BY <2>1, ZenonT(60) DEF SkippedInv, Foreign
<1>6. CASE SecondFailure
  <2>1. UNCHANGED <<thrown, rust>>
    BY <1>6 DEF SecondFailure
  <2>2. CASE Terminates
    BY <1>6, <2>1, <2>2, ZenonT(60) DEF SecondFailure, SkippedInv, Foreign
  <2>3. CASE ~Terminates
    <3>1. /\ skipped' = skipped \/ skipped' = skipped \cup {Top.code}
          /\ Top.code \in {"user", "shim", "safe"}
      BY <1>6, <2>3 DEF SecondFailure, Abandon, Protected, Terminates
    <3>2. stack # <<>> /\ ~halted /\ flying # None /\ Top.pending # None
      BY <1>6 DEF SecondFailure, Unwinding
    <3>3. /\ Top.pending \in 0 .. thrown /\ Top.pending # flying
          /\ Top.pending \in rust => Top.pending = active
      <4>1. Len(stack) \in Nat \ {0} /\ Top = stack[Len(stack)]
        BY <1>t, <3>2, Popped DEF Top
      <4>2. Len(stack) \in 1 .. Len(stack)
        BY <4>1
      <4>3. PendingIn(stack, flying, thrown) /\ ActiveView
        BY DEF PanicInv, PendingInv
      <4>4. Top.pending \in 0 .. thrown /\ Top.pending # flying
        BY <3>2, <4>1, <4>2, <4>3, ZenonT(60) DEF PendingIn
      <4>5. Waits(stack, Top.pending)
        BY <4>1, <4>2, ZenonT(60) DEF Waits
      <4> QED
        BY <3>2, <4>3, <4>4, <4>5, ZenonT(60) DEF ActiveView
    <3>4. flying \in rust => flying = active
      BY <3>2, ZenonT(60) DEF PanicInv, ActiveView
    <3>5. \E p \in {flying, Top.pending} : p \notin rust
      BY <3>3, <3>4, ZenonT(60)
    <3>6. Foreign
      BY <1>t, <3>2, <3>3, <3>5 DEF Foreign, ThrowType, None
    <3> QED
      BY <2>1, <3>1, <3>6, ZenonT(60) DEF SkippedInv, Foreign
  <2> QED
    BY <2>2, <2>3
<1> QED
  BY <1>1, <1>2, <1>3, <1>4, <1>5, <1>6 DEF Next

\* No destructor is left out but in the places DropsComplete lists, and by a
\* cleanup only after a foreign exception.
THEOREM OnlyListedDropsLeftOut == Spec => []DropsComplete
<1>1. Init => SkippedInv
  BY DEF Init, SkippedInv
<1>2. PanicInv /\ SkippedInv => DropsComplete
  BY ZenonT(60) DEF SkippedInv, DropsComplete, Foreign
<1> QED
  BY <1>1, <1>2, SkippedStep, PanicInvariant, PTL DEF Spec


-----------------------------------------------------------------------------
(* The order of destructors                                                *)

OwnCode == DropCode \cup {"user"}

\* owed[i]: the destructors that frame i and the frames of drop code it runs in
\* stand for, down to the function root[i] whose values they drop.
OwedAt(s, owed, root, i) ==
    /\ s[i].code \in OwnCode =>
          /\ owed[i] \in Seq(STRING) /\ root[i] \in 1 .. i /\ s[root[i]].code = "user"
          /\ \A j \in root[i] + 1 .. i : s[j].code \in DropCode
    /\ s[i].code = "user" => owed[i] = DropsOf(s[i].todo)
    /\ s[i].code \in DropCode =>
          /\ i > 1 /\ s[i - 1].code \in OwnCode /\ root[i] = root[i - 1]
          /\ owed[i] = DropsOf(s[i].todo) \o owed[i - 1] /\ s[i].due = <<>>
    /\ s[i].code = "catch" => s[i].todo = <<>> /\ s[i].due = <<>>
Owed(s, owed, root) == \A i \in 1 .. Len(s) : OwedAt(s, owed, root, i)

\* What is due to a function is what its frames stand for; to the innermost one
\* the destructors of more come first.
OwesMore(s, owed, root, more) ==
    /\ Owed(s, owed, root)
    /\ \A i \in 1 .. Len(s) - 1 :
          s[i].code \in OwnCode /\ s[i + 1].code \notin DropCode => s[root[i]].due = owed[i]
    /\ Len(s) > 0 /\ s[Len(s)].code \in OwnCode => s[root[Len(s)]].due = more \o owed[Len(s)]

\* The block of a failed assertion is left before anything else happens.
AssertInv ==
    \A i \in 1 .. Len(stack) : stack[i].code = "assert" => i = Len(stack) /\ flying # None

Ordered(s) == \E owed, root : OwesMore(s, owed, root, <<>>)

OrderInv == Ordered(stack) /\ AssertInv /\ astray = FALSE

\* Sequences of names are joined in any order.
LEMMA NamesAssociative ==
  ASSUME NEW a \in Seq(STRING), NEW b \in Seq(STRING), NEW c \in Seq(STRING)
  PROVE  (a \o b) \o c = a \o (b \o c)
BY ConcatAssociative

\* The first part of a sequence, and what comes after it.
LEMMA FrontAndRest ==
  ASSUME NEW a \in Seq(STRING), NEW b \in Seq(STRING)
  PROVE  /\ Len(a) <= Len(a \o b) /\ SubSeq(a \o b, 1, Len(a)) = a
         /\ SubSeq(a \o b, Len(a) + 1, Len(a \o b)) = b
<1> DEFINE c == a \o b
           m == Len(a)
           n == Len(b)
<1>1. m \in Nat /\ n \in Nat
  BY LenProperties
<1>2. /\ c \in Seq(STRING) /\ Len(c) = m + n
      /\ \A i \in 1 .. m + n : c[i] = IF i <= m THEN a[i] ELSE b[i - m]
  BY ConcatProperties
<1> HIDE DEF c
<1>3. \A i \in 1 .. m + n : c[i] \in STRING
  BY <1>2, ElementOfSeq
<1> DEFINE d == SubSeq(c, 1, m)
           e == SubSeq(c, m + 1, m + n)
<1>4. d = a
  <2>1. \A i \in 1 .. m : c[i] \in STRING
    BY <1>1, <1>3
  <2>2. /\ d \in Seq(STRING) /\ Len(d) = (IF 1 <= m THEN m - 1 + 1 ELSE 0)
        /\ \A i \in 1 .. m - 1 + 1 : d[i] = c[1 + i - 1]
    BY <1>1, <2>1, SubSeqProperties
  <2> HIDE DEF d, m, n
  <2>3. Len(d) = m
    BY <1>1, <2>2
  <2>4. ASSUME NEW i \in 1 .. m
        PROVE  d[i] = a[i]
    <3>1. i \in 1 .. m - 1 + 1 /\ 1 + i - 1 = i /\ i \in 1 .. m + n /\ i <= m
      BY <1>1
    <3> QED
      BY <1>2, <2>2, <3>1
  <2> QED
    BY <2>2, <2>3, <2>4, SeqEqual DEF m
<1>5. e = b
  <2>1. \A i \in m + 1 .. m + n : c[i] \in STRING
    BY <1>1, <1>3
  <2>2. /\ e \in Seq(STRING)
        /\ Len(e) = (IF m + 1 <= m + n THEN m + n - (m + 1) + 1 ELSE 0)
        /\ \A i \in 1 .. m + n - (m + 1) + 1 : e[i] = c[m + 1 + i - 1]
    BY <1>1, <2>1, SubSeqProperties
  <2> HIDE DEF e, m, n
  <2>3. Len(e) = n
    BY <1>1, <2>2
  <2>4. ASSUME NEW i \in 1 .. n
        PROVE  e[i] = b[i]
    <3>1. /\ i \in 1 .. m + n - (m + 1) + 1 /\ m + 1 + i - 1 = m + i
          /\ m + i \in 1 .. m + n /\ ~(m + i <= m) /\ (m + i) - m = i
      BY <1>1
    <3>2. c[m + i] = b[i]
      BY <1>2, <3>1, ZenonT(60)
    <3> QED
      BY <2>2, <3>1, <3>2
  <2> QED
    BY <2>2, <2>3, <2>4, SeqEqual DEF n
<1> QED
  BY <1>1, <1>2, <1>4, <1>5 DEF c

\* The function that drop code belongs to.
LEMMA FunctionFound ==
  ASSUME NEW s \in Seq(Frames), NEW o, NEW r, Owed(s, o, r), Len(s) > 0,
         s[Len(s)].code \in OwnCode
  PROVE  /\ FunctionOf(s) = r[Len(s)] /\ r[Len(s)] \in 1 .. Len(s)
         /\ s[r[Len(s)]].code = "user"
         /\ \A j \in r[Len(s)] + 1 .. Len(s) : s[j].code \in DropCode
         /\ o[Len(s)] \in Seq(STRING)
<1> DEFINE n == Len(s)
           k == r[n]
<1>1. n \in Nat /\ DOMAIN s = 1 .. n /\ n \in 1 .. n
  BY LenProperties
<1>2. /\ k \in 1 .. n /\ s[k].code = "user" /\ o[n] \in Seq(STRING)
      /\ \A j \in k + 1 .. n : s[j].code \in DropCode
  BY <1>1, ZenonT(60) DEF Owed, OwedAt
<1> HIDE DEF k, n
<1> DEFINE Innermost(i) == s[i].code = "user" /\ \A j \in i + 1 .. n : s[j].code # "user"
<1>3. \A c \in DropCode : c # "user"
  BY DEF DropCode
<1>4. Innermost(k)
  BY <1>2, <1>3, Zenon
<1>5. ASSUME NEW i \in 1 .. n, Innermost(i)
      PROVE  i = k
  <2>1. ~(i < k)
    BY <1>1, <1>2, <1>5
  <2>2. ~(k < i)
    <3>1. k < i => i \in k + 1 .. n
      BY <1>1, <1>2
    <3> QED
      BY <1>2, <1>3, <1>5, <3>1
  <2> QED
    BY <1>1, <1>2, <2>1, <2>2
<1>6. FunctionOf(s) = CHOOSE i \in 1 .. n : Innermost(i)
  BY <1>1 DEF FunctionOf, n
<1> HIDE DEF Innermost
<1>7. FunctionOf(s) = k
  BY <1>2, <1>4, <1>5, <1>6
<1> QED
  BY <1>2, <1>7 DEF k, n


\* The outer m frames of two stacks do the same work for the same functions.
SameOwing(s, o, r, t, p, q, m) ==
    \A i \in 1 .. m :
        /\ OwedAt(s, o, r, i)
        /\ t[i].code = s[i].code /\ t[i].todo = s[i].todo
        /\ s[i].code # "user" => t[i].due = s[i].due
        /\ p[i] = o[i] /\ q[i] = r[i]

\* Then they owe the same.
LEMMA KeepOwed ==
  ASSUME NEW s, NEW o, NEW r, NEW t, NEW p, NEW q, NEW m \in Nat,
         SameOwing(s, o, r, t, p, q, m)
  PROVE  \A i \in 1 .. m : OwedAt(t, p, q, i)
<1> SUFFICES ASSUME NEW i \in 1 .. m
             PROVE  OwedAt(t, p, q, i)
  OBVIOUS
<1>1. OwedAt(s, o, r, i)
  BY Zenon DEF SameOwing
<1>2. \A j \in 1 .. m : /\ t[j].code = s[j].code /\ t[j].todo = s[j].todo
                        /\ s[j].code # "user" => t[j].due = s[j].due
                        /\ p[j] = o[j] /\ q[j] = r[j]
  BY Zenon DEF SameOwing
<1>3. CASE s[i].code \in OwnCode
  <2>1. /\ o[i] \in Seq(STRING) /\ r[i] \in 1 .. i /\ s[r[i]].code = "user"
        /\ \A j \in r[i] + 1 .. i : s[j].code \in DropCode
    BY <1>1, <1>3, ZenonT(60) DEF OwedAt
  <2>2. r[i] \in 1 .. m /\ \A j \in r[i] + 1 .. i : j \in 1 .. m
    BY <2>1
  <2>3. /\ p[i] \in Seq(STRING) /\ q[i] \in 1 .. i /\ t[q[i]].code = "user"
        /\ \A j \in q[i] + 1 .. i : t[j].code \in DropCode
    BY <1>2, <2>1, <2>2, Zenon
  <2>4. s[i].code = "user" => p[i] = DropsOf(t[i].todo)
    BY <1>1, <1>2, Zenon DEF OwedAt
  <2>5. ASSUME s[i].code \in DropCode
        PROVE  /\ i > 1 /\ t[i - 1].code \in OwnCode /\ q[i] = q[i - 1]
               /\ p[i] = DropsOf(t[i].todo) \o p[i - 1] /\ t[i].due = <<>>
    <3>1. /\ i > 1 /\ s[i - 1].code \in OwnCode /\ r[i] = r[i - 1]
          /\ o[i] = DropsOf(s[i].todo) \o o[i - 1] /\ s[i].due = <<>>
      BY <1>1, <2>5, ZenonT(60) DEF OwedAt
    <3>2. i - 1 \in 1 .. m
      BY ONLY <3>1, i \in 1 .. m, m \in Nat
    <3>3. s[i].code # "user"
      BY ONLY <2>5 DEF DropCode
    <3> QED
      BY <1>2, <3>1, <3>2, <3>3, Zenon
  <2>6. s[i].code # "catch"
    BY <1>3 DEF OwnCode, DropCode
  <2> QED
    BY <1>2, <2>3, <2>4, <2>5, <2>6, Zenon DEF OwedAt
<1>4. CASE s[i].code \notin OwnCode
  <2>1. t[i].code = s[i].code /\ t[i].todo = s[i].todo /\ t[i].due = s[i].due
    BY <1>2, <1>4 DEF OwnCode
  <2> QED
    BY <1>1, <1>4, <2>1, ZenonT(60) DEF OwedAt, OwnCode
<1> QED
  BY <1>3, <1>4

\* What is due after the settled destructors are gone.
LEMMA SettledOwed ==
  ASSUME NEW s \in Seq(Frames), NEW o, NEW r, NEW y \in Seq(STRING), NEW z \in Seq(STRING),
         OwesMore(s, o, r, y \o z), Len(s) > 0, s[Len(s)].code \in OwnCode
  PROVE  ComesNext(s, y) /\ OwesMore(Settled(s, y), o, r, z)
<1> DEFINE n == Len(s)
           k == r[n]
           t == Settled(s, y)
<1>1. n \in Nat /\ n \in 1 .. n
  BY LenProperties
<1>2. /\ FunctionOf(s) = k /\ k \in 1 .. n /\ s[k].code = "user" /\ o[n] \in Seq(STRING)
      /\ \A j \in k + 1 .. n : s[j].code \in DropCode
  BY FunctionFound, ZenonT(60) DEF OwesMore
<1>3. s[k].due = y \o (z \o o[n]) /\ z \o o[n] \in Seq(STRING)
  <2>1. s[k].due = (y \o z) \o o[n]
    BY ZenonT(60) DEF OwesMore
  <2>2. z \o o[n] \in Seq(STRING) /\ (y \o z) \o o[n] = y \o (z \o o[n])
    <3> DEFINE u == o[n]
    <3>1. u \in Seq(STRING)
      BY <1>2
    <3> HIDE DEF u
    <3>2. z \o u \in Seq(STRING)
      BY <3>1, ConcatProperties
    <3>3. (y \o z) \o u = y \o (z \o u)
      BY <3>1, NamesAssociative, Zenon
    <3> QED
      BY <3>2, <3>3 DEF u
  <2> QED
    BY <2>1, <2>2, ZenonT(60)
<1> DEFINE w == z \o o[n]
<1>4. /\ Len(y) <= Len(s[k].due) /\ SubSeq(s[k].due, 1, Len(y)) = y
      /\ SubSeq(s[k].due, Len(y) + 1, Len(s[k].due)) = w
  <2> HIDE DEF w, k
  <2>1. s[k].due = y \o w /\ w \in Seq(STRING)
    BY <1>3 DEF w
  <2> QED
    BY <2>1, FrontAndRest
<1>5. ComesNext(s, y)
  BY <1>2, <1>4 DEF ComesNext
<1>6. /\ t \in Seq(Frames) /\ Len(t) = n
      /\ \A i \in 1 .. n : /\ SameWork(t[i], s[i])
                           /\ t[i].due = IF i = k THEN SubSeq(s[i].due, Len(y) + 1, Len(s[i].due))
                                         ELSE s[i].due
  <2>1. /\ t \in Seq(Frames) /\ Len(t) = Len(s)
        /\ \A i \in 1 .. Len(s) :
              /\ SameWork(t[i], s[i])
              /\ t[i].due = IF i = FunctionOf(s)
                            THEN SubSeq(s[i].due, Len(y) + 1, Len(s[i].due)) ELSE s[i].due
    BY SettledFrames, Zenon
  <2> HIDE DEF t, k
  <2> QED
    BY <1>2, <2>1, Zenon
<1>7. \A i \in 1 .. n : /\ t[i].code = s[i].code /\ t[i].todo = s[i].todo
                        /\ t[i].due = IF i = k THEN w ELSE s[i].due
  BY <1>4, <1>6, ZenonT(60) DEF SameWork
<1> HIDE DEF t, w, k, n
<1>8. Owed(t, o, r)
  <2>1. \A i \in 1 .. n : OwedAt(s, o, r, i)
    BY DEF OwesMore, Owed, n
  <2>2. \A i \in 1 .. n : /\ t[i].code = s[i].code /\ t[i].todo = s[i].todo
                          /\ s[i].code # "user" => t[i].due = s[i].due
    BY <1>2, <1>7, Zenon
  <2>0. SameOwing(s, o, r, t, o, r, n)
    BY <2>1, <2>2, Zenon DEF SameOwing
  <2>3. \A i \in 1 .. n : OwedAt(t, o, r, i)
    BY <1>1, <2>0, KeepOwed, Zenon
  <2> QED
    BY <1>6, <2>3 DEF Owed
<1>9. ASSUME NEW i \in 1 .. n - 1, t[i].code \in OwnCode, t[i + 1].code \notin DropCode
      PROVE  t[r[i]].due = o[i]
  <2>1. i \in 1 .. n /\ i + 1 \in 1 .. n
    BY <1>1
  <2>2. s[i].code \in OwnCode /\ s[i + 1].code \notin DropCode
    BY <1>7, <1>9, <2>1, ZenonT(60)
  <2>3. r[i] \in 1 .. i /\ s[r[i]].due = o[i]
    BY <2>1, <2>2, ZenonT(60) DEF OwesMore, Owed, OwedAt, n
  <2>4. r[i] # k
    <3>1. k <= i => i + 1 \in k + 1 .. n
      BY <1>1, <1>2
    <3> QED
      BY <1>1, <1>2, <2>2, <2>3, <3>1
  <2>5. r[i] \in 1 .. n
    BY <1>1, <2>3
  <2> QED
    BY <1>7, <2>3, <2>4, <2>5
<1>10. t[r[n]].due = z \o o[n]
  BY <1>2, <1>7, ZenonT(60) DEF k, w
<1>11. OwesMore(t, o, r, z)
  BY <1>6, <1>8, <1>9, <1>10, ZenonT(60) DEF OwesMore
<1> QED
  BY <1>5, <1>11 DEF t

\* The outer m frames of two stacks agree, and so does what they owe.
Agree(s, o, r, t, p, q, m) ==
    /\ m \in Nat /\ m <= Len(s)
    /\ \A i \in 1 .. m : t[i] = s[i] /\ p[i] = o[i] /\ q[i] = r[i]

\* The outer m frames owe what they should, to the functions of the first stack.
OuterOwed(s, r, t, p, q, m) ==
    /\ \A i \in 1 .. m : OwedAt(t, p, q, i)
    /\ \A i \in 1 .. m : s[i].code \in OwnCode =>
          q[i] \in 1 .. i /\ p[i] \in Seq(STRING) /\ t[q[i]].due = s[r[i]].due
    /\ \A i \in 1 .. m - 1 :
          t[i].code \in OwnCode /\ t[i + 1].code \notin DropCode => t[q[i]].due = p[i]

\* The inner frames are changed, or more are pushed: the outer ones owe the same.
LEMMA OwedBelow ==
  ASSUME NEW s \in Seq(Frames), NEW o, NEW r, NEW more, OwesMore(s, o, r, more),
         NEW t, NEW p, NEW q, NEW m, Agree(s, o, r, t, p, q, m)
  PROVE  OuterOwed(s, r, t, p, q, m)
<1> DEFINE n == Len(s)
<1>0. m \in Nat /\ m <= Len(s)
  BY Zenon DEF Agree
<1>1. n \in Nat /\ m <= n
  BY <1>0, LenProperties
<1>2. /\ \A i \in 1 .. n : OwedAt(s, o, r, i)
      /\ \A i \in 1 .. n - 1 :
            s[i].code \in OwnCode /\ s[i + 1].code \notin DropCode => s[r[i]].due = o[i]
  BY DEF OwesMore, Owed
<1> HIDE DEF n
<1>3. \A i \in 1 .. m : i \in 1 .. n
  BY ONLY <1>0, <1>1
<1>4. \A i \in 1 .. m : OwedAt(t, p, q, i)
  <2>1. \A i \in 1 .. m : OwedAt(s, o, r, i)
    BY <1>2, <1>3, Zenon
  <2>2. \A i \in 1 .. m : /\ t[i].code = s[i].code /\ t[i].todo = s[i].todo
                          /\ s[i].code # "user" => t[i].due = s[i].due
                          /\ p[i] = o[i] /\ q[i] = r[i]
    BY Zenon DEF Agree
  <2>3. SameOwing(s, o, r, t, p, q, m)
    BY <2>1, <2>2, Zenon DEF SameOwing
  <2> QED
    BY <1>0, <2>3, KeepOwed, Zenon
<1>5. ASSUME NEW i \in 1 .. m, s[i].code \in OwnCode
      PROVE  q[i] \in 1 .. i /\ p[i] \in Seq(STRING) /\ t[q[i]].due = s[r[i]].due
  <2>1. r[i] \in 1 .. i /\ o[i] \in Seq(STRING)
    BY <1>2, <1>3, <1>5, Zenon DEF OwedAt
  <2>2. r[i] \in 1 .. m
    BY ONLY <2>1, <1>0, i \in 1 .. m
  <2> QED
    BY <2>1, <2>2, Zenon DEF Agree
<1>6. ASSUME NEW i \in 1 .. m - 1, t[i].code \in OwnCode, t[i + 1].code \notin DropCode
      PROVE  t[q[i]].due = p[i]
  <2>1. i \in 1 .. m /\ i + 1 \in 1 .. m /\ i \in 1 .. n - 1
    BY ONLY <1>0, <1>1, i \in 1 .. m - 1
  <2>2. t[i] = s[i] /\ t[i + 1] = s[i + 1] /\ p[i] = o[i]
    BY <2>1, Zenon DEF Agree
  <2>3. s[i].code \in OwnCode /\ s[i + 1].code \notin DropCode
    BY <1>6, <2>2, Zenon
  <2> QED
    BY <1>2, <1>5, <2>1, <2>2, <2>3, Zenon
<1> QED
  BY <1>4, <1>5, <1>6, Zenon DEF OuterOwed

\* The innermost frame is gone.
LEMMA PoppedOwed ==
  ASSUME NEW s \in Seq(Frames), NEW t \in Seq(Frames), NEW o, NEW r,
         OwesMore(s, o, r, <<>>), Len(s) > 0, Len(t) = Len(s) - 1,
         \A i \in 1 .. Len(s) - 1 : t[i] = s[i]
  PROVE  /\ s[Len(s)].code \notin DropCode => OwesMore(t, o, r, <<>>)
         /\ s[Len(s)].code \in DropCode =>
               /\ OwesMore(t, o, r, DropsOf(s[Len(s)].todo))
               /\ Len(t) > 0 /\ t[Len(t)].code \in OwnCode
<1> DEFINE n == Len(s)
           m == n - 1
<1>1. n \in Nat /\ m \in Nat /\ Len(t) = m /\ m <= n
  BY LenProperties
<1>a. Agree(s, o, r, t, o, r, m)
  BY <1>1, Zenon DEF Agree
<1>b. /\ OwedAt(s, o, r, n)
      /\ \A i \in 1 .. n - 1 :
            s[i].code \in OwnCode /\ s[i + 1].code \notin DropCode => s[r[i]].due = o[i]
      /\ s[n].code \in OwnCode => s[r[n]].due = <<>> \o o[n]
  BY <1>1 DEF OwesMore, Owed
<1>c. \A i \in 1 .. m : t[i] = s[i]
  OBVIOUS
<1>2. /\ \A i \in 1 .. m : OwedAt(t, o, r, i)
      /\ \A i \in 1 .. m : s[i].code \in OwnCode =>
            r[i] \in 1 .. i /\ o[i] \in Seq(STRING) /\ t[r[i]].due = s[r[i]].due
      /\ \A i \in 1 .. m - 1 :
            t[i].code \in OwnCode /\ t[i + 1].code \notin DropCode => t[r[i]].due = o[i]
  <2> HIDE DEF m
  <2>1. OuterOwed(s, r, t, o, r, m)
    BY <1>a, OwedBelow, Zenon
  <2> QED
    BY <2>1, Zenon DEF OuterOwed
<1>d. m + 1 = n /\ n - 1 = m /\ (m > 0 => m \in 1 .. m) /\ (n > 1 => m > 0)
  BY <1>1
<1> HIDE DEF m, n
<1>3. ASSUME NEW more, m > 0 /\ t[m].code \in OwnCode => t[r[m]].due = more \o o[m]
      PROVE  OwesMore(t, o, r, more)
  BY <1>1, <1>2, <1>3, Zenon DEF OwesMore, Owed
<1>4. CASE s[n].code \notin DropCode
  <2>1. ASSUME m > 0, t[m].code \in OwnCode
        PROVE  t[r[m]].due = <<>> \o o[m]
    <3>1. m \in 1 .. m /\ m + 1 = n /\ s[m].code \in OwnCode
      BY <1>c, <1>d, <2>1, Zenon
    <3>2. s[r[m]].due = o[m]
      BY <1>4, <1>b, <1>d, <3>1, Zenon
    <3>3. t[r[m]].due = o[m] /\ o[m] \in Seq(STRING)
      BY <1>2, <3>1, <3>2, Zenon
    <3> QED
      BY <3>3, ConcatEmptySeq, Zenon
  <2> QED
    BY <1>3, <1>4, <2>1, Zenon DEF n
<1>5. CASE s[n].code \in DropCode
  <2>1. s[n].code \in OwnCode
    BY <1>5 DEF OwnCode
  <2>2. /\ n > 1 /\ s[n - 1].code \in OwnCode /\ r[n] = r[n - 1]
        /\ o[n] = DropsOf(s[n].todo) \o o[n - 1] /\ o[n] \in Seq(STRING)
    BY <1>5, <1>b, <2>1, Zenon DEF OwedAt
  <2>3. /\ s[m].code \in OwnCode /\ r[n] = r[m] /\ m > 0 /\ m \in 1 .. m
        /\ o[n] = DropsOf(s[n].todo) \o o[m]
    BY <1>d, <2>2, Zenon
  <2>4. s[r[n]].due = o[n]
    BY <1>b, <2>1, <2>2, ConcatEmptySeq, Zenon
  <2>5. t[m].code \in OwnCode
    BY <1>c, <2>3, Zenon
  <2>6. t[r[m]].due = DropsOf(s[n].todo) \o o[m]
    BY <1>2, <2>3, <2>4, Zenon
  <2> QED
    BY <1>1, <1>3, <1>5, <2>3, <2>5, <2>6, Zenon DEF n
<1> QED
  BY <1>4, <1>5

\* The innermost frame is changed.
LEMMA TopOwed ==
  ASSUME NEW s \in Seq(Frames), NEW t \in Seq(Frames), NEW o, NEW r, NEW p, NEW q, NEW more,
         NEW n \in Nat \ {0}, Len(s) = n, Len(t) = n,
         OwesMore(s, o, r, <<>>), Agree(s, o, r, t, p, q, n - 1), OwedAt(t, p, q, n),
         t[n].code \in DropCode <=> s[n].code \in DropCode,
         t[n].code \in OwnCode => t[q[n]].due = more \o p[n]
  PROVE  OwesMore(t, p, q, more)
<1> DEFINE m == n - 1
<1>1. m \in Nat /\ m <= Len(s) /\ m + 1 = n
  OBVIOUS
<1>2. /\ \A i \in 1 .. m : OwedAt(t, p, q, i)
      /\ \A i \in 1 .. m : s[i].code \in OwnCode => t[q[i]].due = s[r[i]].due
      /\ \A i \in 1 .. m - 1 :
            t[i].code \in OwnCode /\ t[i + 1].code \notin DropCode => t[q[i]].due = p[i]
  <2>1. Agree(s, o, r, t, p, q, m)
    OBVIOUS
  <2> HIDE DEF m
  <2>2. OuterOwed(s, r, t, p, q, m)
    BY <2>1, OwedBelow, Zenon
  <2> QED
    BY <2>2, Zenon DEF OuterOwed
<1>3. /\ \A i \in 1 .. n : i \in 1 .. m \/ i = n
      /\ \A i \in 1 .. n - 1 : i \in 1 .. m /\ (i \in 1 .. m - 1 \/ i + 1 = n)
  OBVIOUS
<1>4. \A i \in 1 .. n - 1 :
         s[i].code \in OwnCode /\ s[i + 1].code \notin DropCode => s[r[i]].due = o[i]
  BY Zenon DEF OwesMore
<1>5. \A i \in 1 .. m : t[i] = s[i] /\ p[i] = o[i]
  BY Zenon DEF Agree
<1> HIDE DEF m
<1>6. Owed(t, p, q)
  BY <1>2, <1>3, Zenon DEF Owed
<1>7. ASSUME NEW i \in 1 .. n - 1, t[i].code \in OwnCode, t[i + 1].code \notin DropCode
      PROVE  t[q[i]].due = p[i]
  <2>1. CASE i \in 1 .. m - 1
    BY <1>2, <1>7, <2>1, Zenon
  <2>2. CASE i + 1 = n
    <3>1. i \in 1 .. m /\ s[i].code \in OwnCode /\ s[i + 1].code \notin DropCode
      BY <1>3, <1>5, <1>7, <2>2, Zenon
    <3> QED
      BY <1>2, <1>4, <1>5, <3>1, Zenon
  <2> QED
    BY <1>3, <2>1, <2>2, Zenon
<1> QED
  BY <1>6, <1>7, Zenon DEF OwesMore

\* A frame is pushed.
LEMMA PushedOwed ==
  ASSUME NEW s \in Seq(Frames), NEW t \in Seq(Frames), NEW o, NEW r, NEW p, NEW q, NEW more,
         NEW n \in Nat, Len(s) = n, Len(t) = n + 1,
         OwesMore(s, o, r, more), Agree(s, o, r, t, p, q, n), OwedAt(t, p, q, n + 1),
         t[n + 1].code \in DropCode \/ more = <<>>,
         t[n + 1].code \in OwnCode => t[q[n + 1]].due = <<>> \o p[n + 1]
  PROVE  OwesMore(t, p, q, <<>>)
<1>1. /\ \A i \in 1 .. n : OwedAt(t, p, q, i)
      /\ \A i \in 1 .. n : s[i].code \in OwnCode =>
            p[i] \in Seq(STRING) /\ t[q[i]].due = s[r[i]].due
      /\ \A i \in 1 .. n - 1 :
            t[i].code \in OwnCode /\ t[i + 1].code \notin DropCode => t[q[i]].due = p[i]
  <2>1. OuterOwed(s, r, t, p, q, n)
    BY OwedBelow, Zenon
  <2> QED
    BY <2>1, Zenon DEF OuterOwed
<1>2. /\ \A i \in 1 .. n + 1 : i \in 1 .. n \/ i = n + 1
      /\ \A i \in 1 .. n : i \in 1 .. n - 1 \/ i = n
      /\ n + 1 - 1 = n /\ \A i \in 1 .. n : i = n => n > 0
  OBVIOUS
<1>3. n > 0 /\ s[n].code \in OwnCode => s[r[n]].due = more \o o[n]
  BY Zenon DEF OwesMore
<1>4. \A i \in 1 .. n : t[i] = s[i] /\ p[i] = o[i]
  BY Zenon DEF Agree
<1>5. Owed(t, p, q)
  BY <1>1, <1>2, Zenon DEF Owed
<1>6. ASSUME NEW i \in 1 .. n, t[i].code \in OwnCode, t[i + 1].code \notin DropCode
      PROVE  t[q[i]].due = p[i]
  <2>1. CASE i \in 1 .. n - 1
    BY <1>1, <1>6, <2>1, Zenon
  <2>2. CASE i = n
    <3>1. s[n].code \in OwnCode /\ more = <<>> /\ n > 0
      BY <1>2, <1>4, <1>6, <2>2, Zenon
    <3>2. t[q[n]].due = <<>> \o p[n] /\ p[n] \in Seq(STRING)
      BY <1>1, <1>3, <1>4, <2>2, <3>1, Zenon
    <3> QED
      BY <2>2, <3>2, ConcatEmptySeq, Zenon
  <2> QED
    BY <1>2, <2>1, <2>2, Zenon
<1>7. Len(t) - 1 = n
  OBVIOUS
<1> QED
  BY <1>5, <1>6, <1>7, Zenon DEF OwesMore


\* What is due to the function of frame n, the innermost one.
DueTo(s, o, r, more, n) ==
    /\ OwedAt(s, o, r, n) /\ o[n] \in Seq(STRING)
    /\ r[n] \in 1 .. n /\ s[r[n]].due = more \o o[n]
    /\ s[n].code \in DropCode =>
          n - 1 \in 1 .. n /\ s[n - 1].code \in OwnCode /\ o[n - 1] \in Seq(STRING)

\* OwesMore says it.
LEMMA TopDue ==
  ASSUME NEW s \in Seq(Frames), NEW o, NEW r, NEW more, NEW n \in Nat \ {0}, Len(s) = n,
         OwesMore(s, o, r, more), s[n].code \in OwnCode
  PROVE  DueTo(s, o, r, more, n)
<1>1. n \in 1 .. n /\ n > 0
  OBVIOUS
<1>2. \A i \in 1 .. n : OwedAt(s, o, r, i)
  BY Zenon DEF OwesMore, Owed
<1>3. OwedAt(s, o, r, n)
  BY <1>1, <1>2, Zenon
<1>4. s[r[n]].due = more \o o[n]
  BY <1>1, Zenon DEF OwesMore
<1>5. r[n] \in 1 .. n /\ o[n] \in Seq(STRING)
  BY <1>3, Zenon DEF OwedAt
<1>6. ASSUME s[n].code \in DropCode
      PROVE  n - 1 \in 1 .. n /\ s[n - 1].code \in OwnCode /\ o[n - 1] \in Seq(STRING)
  <2>1. n > 1 /\ s[n - 1].code \in OwnCode
    BY <1>3, <1>6, Zenon DEF OwedAt
  <2>2. n - 1 \in 1 .. n
    BY ONLY <2>1, n \in Nat \ {0}
  <2> QED
    BY <1>2, <2>1, <2>2, Zenon DEF OwedAt
<1> QED
  BY <1>3, <1>4, <1>5, <1>6, Zenon DEF DueTo

\* The innermost frame has made its first call, which stands for c.
LEMMA CalledOwed ==
  ASSUME NEW s \in Seq(Frames), NEW t \in Seq(Frames), NEW o, NEW r,
         NEW n \in Nat \ {0}, Len(s) = n, Len(t) = n, \A i \in 1 .. n - 1 : t[i] = s[i],
         OwesMore(s, o, r, <<>>), s[n].code \in OwnCode,
         t[n].code = s[n].code, t[n].due = s[n].due,
         NEW c \in Seq(STRING), DropsOf(t[n].todo) \in Seq(STRING),
         DropsOf(s[n].todo) = c \o DropsOf(t[n].todo)
  PROVE  \E p : OwesMore(t, p, r, c)
<1> DEFINE d == DropsOf(t[n].todo)
           last == IF s[n].code = "user" THEN d ELSE d \o o[n - 1]
           p == [i \in 1 .. n |-> IF i = n THEN last ELSE o[i]]
<1>1. /\ OwedAt(s, o, r, n) /\ o[n] \in Seq(STRING)
      /\ r[n] \in 1 .. n /\ s[r[n]].due = <<>> \o o[n]
      /\ s[n].code \in DropCode =>
            n - 1 \in 1 .. n /\ s[n - 1].code \in OwnCode /\ o[n - 1] \in Seq(STRING)
  <2>1. DueTo(s, o, r, <<>>, n)
    BY TopDue, Zenon
  <2> QED
    BY <2>1, Zenon DEF DueTo
<1>2. o[n] = c \o last
  <2>1. CASE s[n].code = "user"
    <3>1. o[n] = DropsOf(s[n].todo)
      BY <1>1, <2>1, Zenon DEF OwedAt
    <3> QED
      BY <2>1, <3>1, Zenon
  <2>2. CASE s[n].code \in DropCode
    <3>1. o[n] = (c \o d) \o o[n - 1]
      BY <1>1, <2>2, Zenon DEF OwedAt
    <3>2. s[n].code # "user"
      BY ONLY <2>2 DEF DropCode
    <3>3. (c \o d) \o o[n - 1] = c \o (d \o o[n - 1])
      <4> DEFINE e == o[n - 1]
      <4>1. d \in Seq(STRING) /\ e \in Seq(STRING)
        BY <1>1, <2>2, Zenon
      <4> HIDE DEF d, e
      <4>2. (c \o d) \o e = c \o (d \o e)
        BY <4>1, c \in Seq(STRING), NamesAssociative, Zenon
      <4> QED
        BY <4>2, Zenon DEF e
    <3> QED
      BY <3>1, <3>2, <3>3, Zenon
  <2> QED
    BY <2>1, <2>2, Zenon DEF OwnCode
<1>3. last \in Seq(STRING)
  <2>1. CASE s[n].code = "user"
    BY <2>1, Zenon
  <2>2. CASE s[n].code \in DropCode
    <3> DEFINE e == o[n - 1]
    <3>1. d \in Seq(STRING) /\ e \in Seq(STRING)
      BY <1>1, <2>2, Zenon
    <3>2. s[n].code # "user"
      BY ONLY <2>2 DEF DropCode
    <3> HIDE DEF d, e
    <3>3. d \o e \in Seq(STRING)
      BY <3>1, ConcatProperties, ZenonT(60)
    <3> QED
      BY <3>2, <3>3, Zenon DEF e
  <2> QED
    BY <2>1, <2>2, Zenon DEF OwnCode
<1>4. n \in 1 .. n /\ \A i \in 1 .. n - 1 : i \in 1 .. n /\ i # n
  OBVIOUS
<1>5. p[n] = last /\ \A i \in 1 .. n - 1 : p[i] = o[i]
  BY <1>4, Zenon
<1>6. n - 1 \in Nat /\ n - 1 <= Len(s) /\ \A i \in 1 .. n : i \in 1 .. n - 1 \/ i = n
  OBVIOUS
<1> HIDE DEF p
<1>7. Agree(s, o, r, t, p, r, n - 1)
  BY <1>5, <1>6, Zenon DEF Agree
<1>8. OwedAt(t, p, r, n)
  <2>1. \A j \in 1 .. n : t[j].code = s[j].code
    BY <1>6, Zenon
  <2>2. /\ r[n] \in 1 .. n /\ s[r[n]].code = "user"
        /\ \A j \in r[n] + 1 .. n : s[j].code \in DropCode
    BY <1>1, Zenon DEF OwedAt
  <2>3. \A j \in r[n] + 1 .. n : j \in 1 .. n
    BY ONLY <2>2, n \in Nat \ {0}
  <2>4. /\ t[r[n]].code = "user"
        /\ \A j \in r[n] + 1 .. n : t[j].code \in DropCode
    BY <2>1, <2>2, <2>3, Zenon
  <2>5. s[n].code = "user" => p[n] = DropsOf(t[n].todo)
    BY <1>5, Zenon
  <2>6. ASSUME s[n].code \in DropCode
        PROVE  /\ n > 1 /\ t[n - 1].code \in OwnCode /\ r[n] = r[n - 1]
               /\ p[n] = DropsOf(t[n].todo) \o p[n - 1] /\ t[n].due = <<>>
    <3>1. n > 1 /\ s[n - 1].code \in OwnCode /\ r[n] = r[n - 1] /\ s[n].due = <<>>
      BY <1>1, <2>6, Zenon DEF OwedAt
    <3>2. n - 1 \in 1 .. n - 1
      BY ONLY <3>1, n \in Nat \ {0}
    <3>3. s[n].code # "user"
      BY ONLY <2>6 DEF DropCode
    <3> QED
      BY <1>5, <3>1, <3>2, <3>3, Zenon
  <2>7. s[n].code # "catch"
    BY ONLY s[n].code \in OwnCode DEF OwnCode, DropCode
  <2> HIDE DEF last
  <2> QED
    BY <1>3, <1>5, <2>2, <2>4, <2>5, <2>6, <2>7, Zenon DEF OwedAt
<1>9. t[r[n]].due = c \o p[n]
  <2>1. t[r[n]].due = s[r[n]].due
    BY <1>1, <1>6, Zenon
  <2>2. s[r[n]].due = o[n]
    BY <1>1, ConcatEmptySeq, Zenon
  <2> QED
    BY <1>2, <1>5, <2>1, <2>2, Zenon
<1>10. OwesMore(t, p, r, c)
  BY <1>7, <1>8, <1>9, TopOwed, Zenon
<1> QED
  BY <1>10, Zenon


\* The innermost frame keeps its work.
LEMMA SameOwed ==
  ASSUME NEW s \in Seq(Frames), NEW t \in Seq(Frames), NEW o, NEW r,
         NEW n \in Nat \ {0}, Len(s) = n, Len(t) = n, \A i \in 1 .. n - 1 : t[i] = s[i],
         OwesMore(s, o, r, <<>>),
         t[n].code = s[n].code, t[n].todo = s[n].todo, t[n].due = s[n].due
  PROVE  OwesMore(t, o, r, <<>>)
<1>1. /\ n - 1 \in Nat /\ n - 1 <= Len(s) /\ n \in Nat /\ n \in 1 .. n /\ n > 0
      /\ \A i \in 1 .. n : i \in 1 .. n - 1 \/ i = n
  OBVIOUS
<1>2. Agree(s, o, r, t, o, r, n - 1)
  BY <1>1, Zenon DEF Agree
<1>3. \A i \in 1 .. n : t[i].code = s[i].code /\ t[i].todo = s[i].todo /\ t[i].due = s[i].due
  BY <1>1, Zenon
<1>4. SameOwing(s, o, r, t, o, r, n)
  BY <1>3, Zenon DEF SameOwing, OwesMore, Owed
<1>5. OwedAt(t, o, r, n)
  BY <1>1, <1>4, KeepOwed, Zenon
<1>6. ASSUME t[n].code \in OwnCode
      PROVE  t[r[n]].due = <<>> \o o[n]
  <2>1. r[n] \in 1 .. n /\ s[r[n]].due = <<>> \o o[n]
    <3>1. s[n].code \in OwnCode
      BY <1>6, Zenon
    <3>2. DueTo(s, o, r, <<>>, n)
      BY <3>1, TopDue, Zenon
    <3> QED
      BY <3>2, Zenon DEF DueTo
  <2> QED
    BY <1>3, <2>1, Zenon
<1> QED
  BY <1>2, <1>5, <1>6, TopOwed, Zenon

\* An assertion fails in the innermost frame, a function.
LEMMA AssertOwed ==
  ASSUME NEW s \in Seq(Frames), NEW t \in Seq(Frames), NEW o, NEW r,
         NEW n \in Nat \ {0}, Len(s) = n, Len(t) = n, \A i \in 1 .. n - 1 : t[i] = s[i],
         OwesMore(s, o, r, <<>>), s[n].code = "user", t[n].code = "assert"
  PROVE  OwesMore(t, o, r, <<>>)
<1>1. n - 1 \in Nat /\ n - 1 <= Len(s)
  OBVIOUS
<1>2. Agree(s, o, r, t, o, r, n - 1)
  BY <1>1, Zenon DEF Agree
<1>3. "assert" \notin OwnCode /\ "assert" \notin DropCode /\ "user" \notin DropCode
  BY ONLY DEF OwnCode, DropCode
<1>4. "assert" # "user" /\ "assert" # "catch"
  OBVIOUS
<1>5. OwedAt(t, o, r, n)
  BY <1>3, <1>4, Zenon DEF OwedAt
<1>6. (t[n].code \in DropCode <=> s[n].code \in DropCode) /\ t[n].code \notin OwnCode
  BY <1>3, Zenon
<1> QED
  BY <1>2, <1>5, <1>6, TopOwed, Zenon

\* A function is called.
LEMMA FunctionOwed ==
  ASSUME NEW s \in Seq(Frames), NEW t \in Seq(Frames), NEW o, NEW r,
         NEW n \in Nat, Len(s) = n, Len(t) = n + 1, \A i \in 1 .. n : t[i] = s[i],
         OwesMore(s, o, r, <<>>), t[n + 1].code = "user",
         DropsOf(t[n + 1].todo) \in Seq(STRING), t[n + 1].due = DropsOf(t[n + 1].todo)
  PROVE  \E p, q : OwesMore(t, p, q, <<>>)
<1> DEFINE d == DropsOf(t[n + 1].todo)
           p == [i \in 1 .. n + 1 |-> IF i = n + 1 THEN d ELSE o[i]]
           q == [i \in 1 .. n + 1 |-> IF i = n + 1 THEN n + 1 ELSE r[i]]
<1>1. /\ n + 1 \in 1 .. n + 1 /\ n <= Len(s) /\ (n + 1) + 1 .. n + 1 = {}
      /\ \A i \in 1 .. n : i \in 1 .. n + 1 /\ i # n + 1
  OBVIOUS
<1>2. p[n + 1] = d /\ q[n + 1] = n + 1 /\ \A i \in 1 .. n : p[i] = o[i] /\ q[i] = r[i]
  BY <1>1, Zenon
<1> HIDE DEF p, q
<1>3. Agree(s, o, r, t, p, q, n)
  BY <1>1, <1>2, Zenon DEF Agree
<1>4. "user" \notin DropCode /\ "user" # "catch"
  BY DEF DropCode
<1>5. OwedAt(t, p, q, n + 1)
  BY <1>1, <1>2, <1>4, Zenon DEF OwedAt
<1>6. t[q[n + 1]].due = <<>> \o p[n + 1]
  BY <1>2, ConcatEmptySeq, Zenon
<1>7. OwesMore(t, p, q, <<>>)
  BY <1>3, <1>5, <1>6, PushedOwed, Zenon
<1> QED
  BY <1>7, Zenon

\* catch_unwind is called.
LEMMA CatchOwed ==
  ASSUME NEW s \in Seq(Frames), NEW t \in Seq(Frames), NEW o, NEW r,
         NEW n \in Nat, Len(s) = n, Len(t) = n + 1, \A i \in 1 .. n : t[i] = s[i],
         OwesMore(s, o, r, <<>>), t[n + 1].code = "catch",
         t[n + 1].todo = <<>>, t[n + 1].due = <<>>
  PROVE  OwesMore(t, o, r, <<>>)
<1>1. n <= Len(s)
  OBVIOUS
<1>2. Agree(s, o, r, t, o, r, n)
  BY <1>1, Zenon DEF Agree
<1>3. "catch" \notin OwnCode /\ "catch" \notin DropCode /\ "catch" # "user"
  BY DEF OwnCode, DropCode
<1>4. OwedAt(t, o, r, n + 1)
  BY <1>3, Zenon DEF OwedAt
<1>5. t[n + 1].code \notin OwnCode
  BY <1>3, Zenon
<1> QED
  BY <1>2, <1>4, <1>5, PushedOwed, Zenon

\* Stack t is stack s and a frame of drop code that stands for what comes first.
DropCalled(s, o, r, more, t, n) ==
    /\ OwesMore(s, o, r, more) /\ s[n].code \in OwnCode
    /\ Len(s) = n /\ Len(t) = n + 1 /\ \A i \in 1 .. n : t[i] = s[i]
    /\ t[n + 1].code \in DropCode /\ t[n + 1].due = <<>> /\ DropsOf(t[n + 1].todo) = more

\* Drop code is called.
LEMMA DropOwed ==
  ASSUME NEW s \in Seq(Frames), NEW t \in Seq(Frames), NEW o, NEW r, NEW more \in Seq(STRING),
         NEW n \in Nat \ {0}, DropCalled(s, o, r, more, t, n)
  PROVE  \E p, q : OwesMore(t, p, q, <<>>)
<1> USE DEF DropCalled
<1> DEFINE d == more \o o[n]
           p == [i \in 1 .. n + 1 |-> IF i = n + 1 THEN d ELSE o[i]]
           q == [i \in 1 .. n + 1 |-> IF i = n + 1 THEN r[n] ELSE r[i]]
<1>1. /\ OwedAt(s, o, r, n) /\ o[n] \in Seq(STRING)
      /\ r[n] \in 1 .. n /\ s[r[n]].due = d
  <2>1. DueTo(s, o, r, more, n)
    BY TopDue, Zenon
  <2> QED
    BY <2>1, Zenon DEF DueTo
<1>2. d \in Seq(STRING)
  <2> DEFINE e == o[n]
  <2>1. e \in Seq(STRING)
    BY <1>1, Zenon
  <2> HIDE DEF e
  <2>2. more \o e \in Seq(STRING)
    BY ONLY <2>1, more \in Seq(STRING), ConcatProperties, ZenonT(60)
  <2> QED
    BY <2>2, Zenon DEF e
<1>3. /\ n + 1 \in 1 .. n + 1 /\ n <= Len(s) /\ n + 1 > 1 /\ (n + 1) - 1 = n /\ n \in 1 .. n
      /\ \A i \in 1 .. n : i \in 1 .. n + 1 /\ i # n + 1
      /\ n \in Nat
  OBVIOUS
<1>4. p[n + 1] = d /\ q[n + 1] = r[n] /\ \A i \in 1 .. n : p[i] = o[i] /\ q[i] = r[i]
  BY <1>3, Zenon
<1> HIDE DEF p, q
<1>5. Agree(s, o, r, t, p, q, n)
  BY <1>3, <1>4, Zenon DEF Agree
<1>6. /\ t[n].code \in OwnCode /\ q[n + 1] = q[n] /\ p[n] = o[n] /\ t[q[n + 1]].due = d
  BY <1>1, <1>3, <1>4, Zenon
<1>7. /\ r[n] \in 1 .. n + 1 /\ t[r[n]].code = "user"
      /\ \A j \in r[n] + 1 .. n + 1 : t[j].code \in DropCode
  <2>1. /\ s[r[n]].code = "user"
        /\ \A j \in r[n] + 1 .. n : s[j].code \in DropCode
    BY <1>1, Zenon DEF OwedAt
  <2>2. ASSUME NEW k \in 1 .. n
        PROVE  \A j \in k + 1 .. n + 1 : j = n + 1 \/ (j \in k + 1 .. n /\ j \in 1 .. n)
    BY ONLY n \in Nat \ {0}, k \in 1 .. n
  <2> QED
    BY <1>1, <1>3, <2>1, <2>2, Zenon
<1>8. t[n + 1].code # "user" /\ t[n + 1].code # "catch"
  BY ONLY t[n + 1].code \in DropCode, ZenonT(60) DEF DropCode
<1> HIDE DEF d
<1>9. p[n + 1] = DropsOf(t[n + 1].todo) \o p[n]
  BY <1>4, <1>6, Zenon DEF d
<1>10. OwedAt(t, p, q, n + 1)
  <2>1. /\ t[(n + 1) - 1].code \in OwnCode /\ q[n + 1] = q[(n + 1) - 1]
        /\ p[n + 1] = DropsOf(t[n + 1].todo) \o p[(n + 1) - 1]
    BY <1>3, <1>6, <1>9, Zenon
  <2>2. /\ p[n + 1] \in Seq(STRING) /\ q[n + 1] \in 1 .. n + 1 /\ t[q[n + 1]].code = "user"
        /\ \A j \in q[n + 1] + 1 .. n + 1 : t[j].code \in DropCode
    BY <1>2, <1>4, <1>7, Zenon
  <2>3. /\ t[n + 1].code = "user" => p[n + 1] = DropsOf(t[n + 1].todo)
        /\ t[n + 1].code = "catch" => t[n + 1].todo = <<>> /\ t[n + 1].due = <<>>
    BY <1>8, Zenon
  <2>4. /\ n + 1 > 1 /\ t[(n + 1) - 1].code \in OwnCode /\ q[n + 1] = q[(n + 1) - 1]
        /\ p[n + 1] = DropsOf(t[n + 1].todo) \o p[(n + 1) - 1] /\ t[n + 1].due = <<>>
    BY <1>3, <2>1, Zenon
  <2> QED
    BY <2>2, <2>3, <2>4, Zenon DEF OwedAt
<1>11. t[q[n + 1]].due = <<>> \o p[n + 1]
  BY <1>2, <1>4, <1>6, ConcatEmptySeq, Zenon
<1>12. OwesMore(t, p, q, <<>>)
  <2>1. n \in Nat /\ (t[n + 1].code \in DropCode \/ more = <<>>)
    BY <1>3, Zenon
  <2>2. t[n + 1].code \in OwnCode => t[q[n + 1]].due = <<>> \o p[n + 1]
    BY <1>11, Zenon
  <2> QED
    BY <1>5, <1>10, <2>1, <2>2, PushedOwed, SMT
<1> QED
  BY <1>12, Zenon


\* The innermost frame of a stack that is not empty.
LEMMA TopFrame ==
  ASSUME StackType, stack # <<>>
  PROVE  /\ Len(stack) \in Nat \ {0} /\ Top = stack[Len(stack)] /\ Top \in Frames
         /\ Top.code \in Codes /\ Top.todo \in Todos /\ Top.due \in Seq(STRING)
         /\ DropsOf(Top.todo) \in Seq(STRING)
<1>1. Top.todo \in Todos => DropsOf(Top.todo) \in Seq(STRING)
  BY DropCodeAssumption, Zenon
<1>2. Top.code \in Codes /\ Top.todo \in Todos /\ Top.due \in Seq(STRING)
  BY Popped, FrameFields, Zenon
<1> QED
  BY <1>1, <1>2, Popped, Zenon DEF Top

\* Enter keeps the order.
LEMMA EnterOrdered ==
  ASSUME StackType, Ordered(stack), Enter
  PROVE  Ordered(stack')
<1> DEFINE n == Len(stack)
<1>0. stack \in Seq(Frames) /\ n \in Nat
  BY LenProperties DEF StackType
<1>1. PICK o, r : OwesMore(stack, o, r, <<>>)
  BY Zenon DEF Ordered
<1>2. ASSUME NEW f \in Frames, stack' = Append(stack, f)
      PROVE  /\ stack' \in Seq(Frames) /\ Len(stack') = n + 1
             /\ \A i \in 1 .. n : stack'[i] = stack[i]
             /\ stack'[n + 1] = f
  BY <1>0, <1>2, Pushed, Zenon
<1> HIDE DEF n
<1>3. CASE stack' = Append(stack, Catching)
  <2>1. Catching \in Frames /\ Catching.code = "catch" /\ Catching.todo = <<>> /\ Catching.due = <<>>
    BY NewCatching, Zenon
  <2>2. /\ stack' \in Seq(Frames) /\ Len(stack') = n + 1
        /\ \A i \in 1 .. n : stack'[i] = stack[i]
        /\ stack'[n + 1] = Catching
    BY <1>2, <1>3, <2>1, Zenon
  <2>3. stack'[n + 1].code = "catch" /\ stack'[n + 1].todo = <<>> /\ stack'[n + 1].due = <<>>
    BY <2>1, <2>2, Zenon
  <2>4. OwesMore(stack', o, r, <<>>)
    BY <1>0, <1>1, <2>2, <2>3, CatchOwed, Zenon DEF n
  <2> QED
    BY <2>4, Zenon DEF Ordered
<1>4. ASSUME NEW types \in Owned \cup Nested, stack' = Append(stack, Body(types))
      PROVE  Ordered(stack')
  <2> DEFINE f == Body(types)
  <2>1. f \in Frames /\ f.code = "user" /\ f.due = DropsOf(f.todo)
    BY NewBody, Zenon
  <2>2. DropsOf(f.todo) \in Seq(STRING)
    BY <2>1, FrameFields, Zenon
  <2> HIDE DEF f
  <2>3. /\ stack' \in Seq(Frames) /\ Len(stack') = n + 1
        /\ \A i \in 1 .. n : stack'[i] = stack[i]
        /\ stack'[n + 1] = f
    BY <1>2, <1>4, <2>1, Zenon DEF f
  <2>4. /\ stack'[n + 1].code = "user" /\ DropsOf(stack'[n + 1].todo) \in Seq(STRING)
        /\ stack'[n + 1].due = DropsOf(stack'[n + 1].todo)
    BY <2>1, <2>2, <2>3, Zenon
  <2>5. \E p, q : OwesMore(stack', p, q, <<>>)
    BY <1>0, <1>1, <2>3, <2>4, FunctionOwed, Zenon DEF n
  <2> QED
    BY <2>5, Zenon DEF Ordered
<1>5. \/ stack' = Append(stack, Catching)
      \/ \E types \in Owned \cup Nested : stack' = Append(stack, Body(types))
  BY Zenon DEF Enter
<1> QED
  BY <1>3, <1>4, <1>5, Zenon

\* So does leaving a frame that owes nothing, or is no drop code.
LEMMA PopOrdered ==
  ASSUME StackType, stack # <<>>, Ordered(stack), stack' = Below,
         Top.code \in DropCode => DropsOf(Top.todo) = <<>>
  PROVE  Ordered(stack')
<1> DEFINE n == Len(stack)
<1>1. PICK o, r : OwesMore(stack, o, r, <<>>)
  BY Zenon DEF Ordered
<1>2. /\ n \in Nat \ {0} /\ stack \in Seq(Frames) /\ stack' \in Seq(Frames)
      /\ Len(stack') = n - 1 /\ \A i \in 1 .. n - 1 : stack'[i] = stack[i]
  BY Popped, Zenon DEF StackType
<1>3. n > 0 /\ Top = stack[n]
  BY <1>2 DEF Top
<1>4. /\ stack[n].code \notin DropCode => OwesMore(stack', o, r, <<>>)
      /\ stack[n].code \in DropCode => OwesMore(stack', o, r, DropsOf(stack[n].todo))
  <2> HIDE DEF n
  <2> QED
    BY <1>1, <1>2, <1>3, PoppedOwed, Zenon DEF n
<1>5. OwesMore(stack', o, r, <<>>)
  BY <1>3, <1>4, Zenon
<1> QED
  BY <1>5, Zenon DEF Ordered

\* And a frame left with work undone.
LEMMA AbandonOrdered ==
  ASSUME StackType, stack # <<>>, Ordered(stack), Abandon,
         Top.code = "catch" => Top.todo = <<>>
  PROVE  Ordered(stack')
<1> DEFINE lost == DropsOf(Top.todo)
           n == Len(stack)
<1>1. CASE lost = <<>> \/ Top.code \in {"user", "assert"}
  <2>1. stack' = Below
    BY <1>1, Zenon DEF Abandon
  <2>2. Top.code \in DropCode => lost = <<>>
    BY <1>1 DEF DropCode
  <2> QED
    BY <2>1, <2>2, PopOrdered, Zenon
<1>2. CASE lost # <<>> /\ Top.code \notin {"user", "assert"}
  <2>1. stack' = Settled(Below, lost)
    BY <1>2, Zenon DEF Abandon
  <2>2. Top.code \in DropCode
    <3>1. DropsOf(<<>>) = <<>>
      BY DropCodeAssumption, Zenon
    <3>2. Top.code # "catch"
      BY <1>2, <3>1, Zenon
    <3>3. Top.code \in Codes
      BY TopFrame, Zenon
    <3> QED
      BY <1>2, <3>2, <3>3, Zenon DEF Codes
  <2>3. PICK o, r : OwesMore(stack, o, r, <<>>)
    BY Zenon DEF Ordered
  <2>4. /\ n \in Nat \ {0} /\ stack \in Seq(Frames) /\ Below \in Seq(Frames)
        /\ Len(Below) = n - 1 /\ \A i \in 1 .. n - 1 : Below[i] = stack[i]
    BY Popped, Zenon DEF StackType
  <2>5. n > 0 /\ Top = stack[n]
    BY <2>4 DEF Top
  <2> HIDE DEF n
  <2>6. /\ OwesMore(Below, o, r, DropsOf(stack[n].todo))
        /\ Len(Below) > 0 /\ Below[Len(Below)].code \in OwnCode
    BY <2>2, <2>3, <2>4, <2>5, PoppedOwed, Zenon DEF n
  <2>7. lost \in Seq(STRING)
    BY TopFrame, Zenon
  <2>8. lost \o <<>> = lost /\ <<>> \in Seq(STRING)
    <3> HIDE DEF lost
    <3> QED
      BY <2>7, ConcatEmptySeq
  <2>9. OwesMore(Below, o, r, lost \o <<>>)
    BY <2>5, <2>6, <2>8, Zenon
  <2> HIDE DEF lost
  <2>10. OwesMore(Settled(Below, lost), o, r, <<>>)
    BY <2>4, <2>6, <2>7, <2>8, <2>9, SettledOwed, Zenon
  <2> QED
    BY <2>1, <2>10, Zenon DEF Ordered
<1> QED
  BY <1>1, <1>2


\* A failed assertion and the start of a cleanup change the innermost frame only.
LEMMA ChangeOrdered ==
  ASSUME StackType, flying \in Nat, Ordered(stack), FailAssert \/ Cleanup
  PROVE  Ordered(stack')
<1> DEFINE n == Len(stack)
<1>0. stack # <<>>
  BY Zenon DEF FailAssert, Cleanup, InUserCode, Running, Unwinding
<1>1. PICK o, r : OwesMore(stack, o, r, <<>>)
  BY Zenon DEF Ordered
<1>2. n \in Nat \ {0} /\ stack \in Seq(Frames) /\ Top = stack[n] /\ Top \in Frames
  BY <1>0, TopFrame, Zenon DEF StackType
<1>3. ASSUME NEW f \in Frames, stack' = Append(Below, f)
      PROVE  /\ stack' \in Seq(Frames) /\ Len(stack') = n
             /\ \A i \in 1 .. n - 1 : stack'[i] = stack[i]
             /\ stack'[n] = f
  BY <1>0, <1>3, TopReplaced, Zenon
<1> HIDE DEF n
<1>4. CASE FailAssert
  <2> DEFINE f == [Top EXCEPT !.code = "assert"]
  <2>1. stack' = Append(Below, f) /\ stack[n].code = "user"
    BY <1>2, <1>4, Zenon DEF FailAssert
  <2>2. f \in Frames /\ f.code = "assert"
    BY <1>2, Zenon DEF Frames, Codes
  <2> HIDE DEF f
  <2>3. /\ stack' \in Seq(Frames) /\ Len(stack') = n
        /\ \A i \in 1 .. n - 1 : stack'[i] = stack[i]
        /\ stack'[n].code = "assert"
    BY <1>3, <2>1, <2>2, Zenon
  <2>4. OwesMore(stack', o, r, <<>>)
    BY <1>1, <1>2, <2>1, <2>3, AssertOwed, Zenon DEF n
  <2> QED
    BY <2>4, Zenon DEF Ordered
<1>5. CASE Cleanup
  <2> DEFINE f == [Top EXCEPT !.pending = flying, !.ending = TRUE]
  <2>1. stack' = Append(Below, f)
    BY <1>5, Zenon DEF Cleanup
  <2>2. f \in Frames /\ f.code = Top.code /\ f.todo = Top.todo /\ f.due = Top.due
    BY <1>2, Zenon DEF Frames
  <2> HIDE DEF f
  <2>3. /\ stack' \in Seq(Frames) /\ Len(stack') = n
        /\ \A i \in 1 .. n - 1 : stack'[i] = stack[i]
        /\ stack'[n] = f
    BY <1>3, <2>1, <2>2, Zenon
  <2>4. /\ stack'[n].code = stack[n].code /\ stack'[n].todo = stack[n].todo
        /\ stack'[n].due = stack[n].due
    BY <1>2, <2>2, <2>3, Zenon
  <2>5. OwesMore(stack', o, r, <<>>)
    BY <1>1, <1>2, <2>3, <2>4, SameOwed, Zenon DEF n
  <2> QED
    BY <2>5, Zenon DEF Ordered
<1> QED
  BY <1>4, <1>5

\* A call of drop code: the type's own destructor comes in its turn, and the
\* rest stands for what the call stood for, unless it is settled.
LEMMA DropOrdered ==
  ASSUME StackType, Ordered(stack), astray = FALSE, DropNext, Top.code \in OwnCode
  PROVE  Ordered(stack') /\ astray' = FALSE
<1> DEFINE n == Len(stack)
           call == Head(Top.todo)
           names == DropsOf(<<call>>)
           f == [Top EXCEPT !.todo = Tail(@), !.ending = TRUE]
           frames == Append(Below, f)
           lost == IF LeavesOut(call) THEN names ELSE <<>>
<1>0. stack # <<>> /\ Top.todo # <<>>
  BY Zenon DEF DropNext, Running
<1>1. PICK o, r : OwesMore(stack, o, r, <<>>)
  BY Zenon DEF Ordered
<1>2. /\ n \in Nat \ {0} /\ stack \in Seq(Frames) /\ Top = stack[n] /\ Top \in Frames
      /\ Top.todo \in Todos
  BY <1>0, TopFrame, Zenon DEF StackType
<1>3. /\ Tail(Top.todo) \in Todos /\ <<call>> \in Todos
      /\ DropsOf(Top.todo) = names \o DropsOf(Tail(Top.todo))
      /\ call.call # "own" =>
            /\ CodeOf(call).todo \in Todos /\ CodeOf(call).code \in DropCode
            /\ \/ DropsOf(CodeOf(call).todo) = names
               \/ LeavesOut(call) /\ KindOf(call) = "closure"
  BY <1>0, <1>2, CallFacts, Zenon
<1>4. /\ names \in Seq(STRING) /\ DropsOf(Tail(Top.todo)) \in Seq(STRING)
      /\ <<>> \in Todos /\ DropsOf(<<>>) = <<>> /\ <<>> \in Seq(STRING)
  <2>1. /\ \A todo \in Todos : DropsOf(todo) \in Seq(STRING)
        /\ <<>> \in Todos /\ DropsOf(<<>>) = <<>>
    BY DropCodeAssumption, Zenon
  <2> QED
    BY <1>3, <2>1, Zenon
<1>5. f \in Frames /\ f.code = Top.code /\ f.todo = Tail(Top.todo) /\ f.due = Top.due
  BY <1>0, CallMade, Zenon
<1> HIDE DEF f
<1>6. /\ frames \in Seq(Frames) /\ Len(frames) = n
      /\ \A i \in 1 .. n - 1 : frames[i] = stack[i]
      /\ frames[n] = f
  BY <1>0, <1>5, TopReplaced, Zenon
<1> HIDE DEF frames
<1>7. PICK p : OwesMore(frames, p, r, names)
  <2>1. /\ stack[n].code \in OwnCode /\ frames[n].code = stack[n].code
        /\ frames[n].due = stack[n].due /\ DropsOf(frames[n].todo) \in Seq(STRING)
        /\ DropsOf(stack[n].todo) = names \o DropsOf(frames[n].todo)
    BY <1>2, <1>3, <1>4, <1>5, <1>6, Zenon
  <2> HIDE DEF n, names
  <2> QED
    BY <1>1, <1>2, <1>4, <1>6, <2>1, CalledOwed, Zenon DEF n
<1>8. frames[n].code \in OwnCode /\ Len(frames) > 0 /\ frames[Len(frames)].code \in OwnCode
  <2>1. frames[n].code \in OwnCode
    BY <1>5, <1>6, Zenon
  <2>2. Len(frames) > 0
    BY <1>2, <1>6
  <2> QED
    BY <1>6, <2>1, <2>2, Zenon
<1> HIDE DEF names, n, call
<1>9. /\ names \o <<>> = names /\ <<>> \o names = names
  BY ONLY <1>4, ConcatEmptySeq
<1>10. /\ ComesNext(frames, names) /\ OwesMore(Settled(frames, names), p, r, <<>>)
  <2>1. OwesMore(frames, p, r, names \o <<>>)
    BY <1>7, <1>9, Zenon
  <2> QED
    BY <1>4, <1>6, <1>8, <2>1, SettledOwed, Zenon
<1>11. OwesMore(Settled(frames, <<>>), p, r, names)
  <2>1. OwesMore(frames, p, r, <<>> \o names)
    BY <1>7, <1>9, Zenon
  <2> QED
    BY <1>4, <1>6, <1>8, <2>1, SettledOwed, Zenon
<1>12. ASSUME NEW y \in Seq(STRING)
       PROVE  /\ Settled(frames, y) \in Seq(Frames) /\ Len(Settled(frames, y)) = n
              /\ Settled(frames, y)[n].code \in OwnCode
  <2>1. /\ Settled(frames, y) \in Seq(Frames) /\ Len(Settled(frames, y)) = Len(frames)
        /\ \A i \in 1 .. Len(frames) : SameWork(Settled(frames, y)[i], frames[i])
    BY <1>6, SettledFrames, Zenon
  <2>2. n \in 1 .. Len(frames)
    BY <1>2, <1>6
  <2>3. Settled(frames, y)[n].code = frames[n].code
    BY <2>1, <2>2, Zenon DEF SameWork
  <2> QED
    BY <1>6, <1>8, <2>1, <2>3, Zenon
<1>13. ASSUME NEW s \in Seq(Frames), NEW g \in Frames, Len(s) = n, stack' = Append(s, g)
       PROVE  /\ stack' \in Seq(Frames) /\ Len(stack') = n + 1
              /\ \A i \in 1 .. n : stack'[i] = s[i]
              /\ stack'[n + 1] = g
  BY <1>13, Pushed, Zenon
<1>14. CASE call.call = "own"
  <2>1. /\ astray' = (astray \/ ~ComesNext(frames, names))
        /\ stack' = Append(Settled(frames, names), Body(<<>>))
    BY <1>14, Zenon DEF DropNext, frames, f, names, call
  <2> DEFINE g == Body(<<>>)
             s == Settled(frames, names)
  <2>2. g \in Frames /\ g.code = "user" /\ g.due = DropsOf(g.todo)
    BY NewBody, Zenon
  <2>3. DropsOf(g.todo) \in Seq(STRING)
    BY <2>2, FrameFields, Zenon
  <2>4. s \in Seq(Frames) /\ Len(s) = n /\ OwesMore(s, p, r, <<>>)
    BY <1>4, <1>10, <1>12, Zenon
  <2> HIDE DEF g, s
  <2>5. /\ stack' \in Seq(Frames) /\ Len(stack') = n + 1
        /\ \A i \in 1 .. n : stack'[i] = s[i]
        /\ stack'[n + 1] = g
    BY <1>13, <2>1, <2>2, <2>4, Zenon DEF g, s
  <2>6. /\ stack'[n + 1].code = "user" /\ DropsOf(stack'[n + 1].todo) \in Seq(STRING)
        /\ stack'[n + 1].due = DropsOf(stack'[n + 1].todo) /\ n \in Nat
    BY <1>2, <2>2, <2>3, <2>5, Zenon
  <2>7. \E u, q : OwesMore(stack', u, q, <<>>)
    BY <2>4, <2>5, <2>6, FunctionOwed, Zenon
  <2>8. astray' = FALSE
    BY <1>10, <2>1, Zenon
  <2> QED
    BY <2>7, <2>8, Zenon DEF Ordered
<1>15. CASE call.call # "own"
  <2> DEFINE g == Frame(CodeOf(call), <<>>)
             s == Settled(frames, lost)
             more == DropsOf(g.todo)
  <2>1. /\ stack' = Append(s, g) /\ astray' = FALSE
    BY <1>15, Zenon DEF DropNext, frames, f, names, call
  <2>2. /\ g \in Frames /\ g.code \in DropCode /\ g.todo = CodeOf(call).todo /\ g.due = <<>>
    <3>1. CodeOf(call).code \in Codes /\ CodeOf(call).code \in DropCode
      BY <1>3, <1>15, Zenon DEF Codes
    <3> QED
      BY <1>3, <1>4, <1>15, <3>1, NewFrame, Zenon
  <2> HIDE DEF g
  <2>3. more \in Seq(STRING) /\ OwesMore(s, p, r, more)
    <3>1. CASE LeavesOut(call)
      <4>1. lost = names
        BY <3>1, Zenon
      <4>2. more = <<>>
        <5>1. CodeOf(call).todo = <<>>
          BY <3>1 DEF LeavesOut, NoCode
        <5> QED
          BY <1>4, <2>2, <5>1, Zenon
      <4> QED
        BY <1>4, <1>10, <4>1, <4>2, Zenon
    <3>2. CASE ~LeavesOut(call)
      <4>1. lost = <<>>
        BY <3>2, Zenon
      <4>2. more = names
        BY <1>3, <1>15, <2>2, <3>2, Zenon
      <4> QED
        BY <1>4, <1>11, <4>1, <4>2, Zenon
    <3> QED
      BY <3>1, <3>2
  <2>4. lost \in Seq(STRING)
    BY <1>4, Zenon
  <2>5. s \in Seq(Frames) /\ Len(s) = n /\ s[n].code \in OwnCode
    BY <1>12, <2>4, Zenon
  <2> HIDE DEF s
  <2>6. /\ stack' \in Seq(Frames) /\ Len(stack') = n + 1
        /\ \A i \in 1 .. n : stack'[i] = s[i]
        /\ stack'[n + 1] = g
    BY <1>13, <2>1, <2>2, <2>5, Zenon
  <2>7. /\ stack'[n + 1].code \in DropCode /\ stack'[n + 1].due = <<>>
        /\ DropsOf(stack'[n + 1].todo) = more
    BY <2>2, <2>6, Zenon
  <2> HIDE DEF more
  <2>8. \E u, q : OwesMore(stack', u, q, <<>>)
    <3>1. n \in Nat \ {0}
      BY <1>2, Zenon
    <3>2. DropCalled(s, p, r, more, stack', n)
      BY <2>3, <2>5, <2>6, <2>7, Zenon DEF DropCalled
    <3> QED
      BY <2>3, <2>5, <2>6, <3>1, <3>2, DropOwed, Zenon
  <2> QED
    BY <2>1, <2>8, Zenon DEF Ordered
<1> QED
  BY <1>14, <1>15, Zenon


\* A frame that returns owes nothing.
LEMMA LeaveOrdered ==
  ASSUME StackType, Ordered(stack), astray = FALSE, Leave, Top.code # "assert"
  PROVE  Ordered(stack') /\ astray' = FALSE
<1> DEFINE n == Len(stack)
<1>0. stack # <<>> /\ Top.todo = <<>> /\ stack' = Below /\ astray' = (astray \/ Top.due # <<>>)
  BY Zenon DEF Leave, Running
<1>1. PICK o, r : OwesMore(stack, o, r, <<>>)
  BY Zenon DEF Ordered
<1>2. /\ n \in Nat \ {0} /\ stack \in Seq(Frames) /\ Top = stack[n] /\ Top.code \in Codes
  BY <1>0, TopFrame, Zenon DEF StackType
<1>3. DropsOf(<<>>) = <<>> /\ <<>> \in Seq(STRING)
  <2>1. DropsOf(<<>>) = <<>> /\ <<>> \in Todos /\ \A todo \in Todos : DropsOf(todo) \in Seq(STRING)
    BY DropCodeAssumption, Zenon
  <2> QED
    BY <2>1, Zenon
<1>4. OwedAt(stack, o, r, n)
  <2>1. n \in 1 .. n
    BY <1>2
  <2> QED
    BY <1>1, <2>1, Zenon DEF OwesMore, Owed
<1>5. ASSUME Top.code = "user"
      PROVE  Top.due = <<>>
  <2>1. Top.code \in OwnCode /\ Top.code \notin DropCode
    BY <1>5 DEF OwnCode, DropCode
  <2>2. DueTo(stack, o, r, <<>>, n)
    <3> HIDE DEF n
    <3> QED
      BY <1>1, <1>2, <2>1, TopDue, Zenon DEF n
  <2>3. r[n] \in 1 .. n /\ stack[r[n]].due = <<>> \o o[n]
    BY <2>2, Zenon DEF DueTo
  <2>4. o[n] = <<>> /\ \A j \in r[n] + 1 .. n : stack[j].code \in DropCode
    BY <1>0, <1>2, <1>3, <1>4, <1>5, <2>1, Zenon DEF OwedAt
  <2>5. r[n] = n
    <3>1. \A k \in 1 .. n : n \in k + 1 .. n \/ k = n
      BY <1>2
    <3> QED
      BY <1>2, <2>1, <2>3, <2>4, <3>1, Zenon
  <2>6. <<>> \o <<>> = <<>>
    BY <1>3, ConcatEmptySeq, Zenon
  <2> QED
    BY <1>2, <2>3, <2>4, <2>5, <2>6, Zenon
<1>6. Top.code \in DropCode \/ Top.code = "catch" => Top.due = <<>>
  BY <1>2, <1>4, Zenon DEF OwedAt
<1>7. Top.due = <<>>
  BY <1>2, <1>5, <1>6, Zenon DEF Codes
<1>8. Ordered(stack')
  BY <1>0, <1>3, PopOrdered, Zenon
<1> QED
  BY <1>0, <1>7, <1>8, Zenon

\* A catch_unwind has no drops of its own.
LEMMA CatchHasNoWork ==
  ASSUME StackType, stack # <<>>, Ordered(stack), Top.code = "catch"
  PROVE  Top.todo = <<>>
<1>1. PICK o, r : OwesMore(stack, o, r, <<>>)
  BY Zenon DEF Ordered
<1>2. Len(stack) \in Nat \ {0} /\ Top = stack[Len(stack)]
  BY TopFrame, Zenon
<1>3. Len(stack) \in 1 .. Len(stack)
  BY <1>2
<1>4. OwedAt(stack, o, r, Len(stack))
  BY <1>1, <1>3, Zenon DEF OwesMore, Owed
<1> QED
  BY <1>2, <1>4, Zenon DEF OwedAt

NoAssert(s) == \A i \in 1 .. Len(s) : s[i].code # "assert"

\* Only the innermost frame can be the block of a failed assertion, while its
\* panic unwinds.
LEMMA NoAsserts ==
  ASSUME StackType, AssertInv, stack # <<>>
  PROVE  /\ \A i \in 1 .. Len(stack) - 1 : stack[i].code # "assert"
         /\ flying = None \/ Top.code # "assert" => NoAssert(stack)
<1>1. Len(stack) \in Nat \ {0} /\ Top = stack[Len(stack)]
  BY TopFrame, Zenon
<1>2. \A i \in 1 .. Len(stack) - 1 : i \in 1 .. Len(stack) /\ i # Len(stack)
  BY <1>1
<1> QED
  BY <1>1, <1>2, Zenon DEF AssertInv, NoAssert

\* Every step keeps AssertInv.
LEMMA AssertStep ==
  ASSUME StackType, ThrowType, AssertInv, Next
  PROVE  AssertInv'
<1> DEFINE n == Len(stack)
<1>0. NoAssert(stack') => AssertInv'
  BY Zenon DEF NoAssert, AssertInv
<1>n. n \in Nat /\ stack \in Seq(Frames)
  BY LenProperties DEF StackType
<1>p. ASSUME stack # <<>>, stack' = Below PROVE NoAssert(stack')
  <2>1. Len(stack') = n - 1 /\ \A i \in 1 .. n - 1 : stack'[i] = stack[i]
    BY <1>p, Popped, Zenon
  <2> QED
    BY <1>p, <2>1, NoAsserts, Zenon DEF NoAssert
<1>a. ASSUME stack # <<>>, Abandon PROVE NoAssert(stack')
  <2>1. Len(stack') = n - 1 /\ \A i \in 1 .. n - 1 : SameWork(stack'[i], stack[i])
    BY <1>a, AbandonStack, Zenon
  <2> QED
    BY <1>a, <2>1, NoAsserts, Zenon DEF NoAssert, SameWork
<1>1. CASE Enter
  <2>1. NoAssert(stack)
    BY <1>1, NoAsserts, Zenon DEF Enter, InUserCode, Running
  <2>2. PICK f \in Frames : stack' = Append(stack, f) /\ f.code \in {"user", "catch"}
    <3>1. CASE stack' = Append(stack, Catching)
      BY <3>1, NewCatching, Zenon
    <3>2. CASE \E types \in Owned \cup Nested : stack' = Append(stack, Body(types))
      BY <3>2, NewBody, Zenon
    <3> QED
      BY <1>1, <3>1, <3>2, Zenon DEF Enter
  <2>3. /\ Len(stack') = n + 1 /\ stack'[n + 1] = f
        /\ \A i \in 1 .. n : stack'[i] = stack[i]
    BY <1>n, <2>2, Pushed, Zenon
  <2>4. f.code # "assert"
    BY <2>2
  <2>5. \A i \in 1 .. n + 1 : i \in 1 .. n \/ i = n + 1
    BY <1>n
  <2>6. NoAssert(stack')
    BY <2>1, <2>3, <2>4, <2>5, Zenon DEF NoAssert
  <2> QED
    BY <1>0, <2>6, Zenon
<1>2. CASE RaisePanic \/ ThrowForeign
  <2>1. stack' = stack /\ stack # <<>> /\ flying = None
    BY <1>2, Zenon DEF RaisePanic, ThrowForeign, InUserCode, Running
  <2>2. NoAssert(stack)
    BY <2>1, NoAsserts, Zenon
  <2> QED
    BY <1>0, <2>1, <2>2, Zenon
<1>3. CASE FailAssert
  <2> DEFINE f == [Top EXCEPT !.code = "assert"]
  <2>1. stack # <<>> /\ stack' = Append(Below, f)
    BY <1>3, Zenon DEF FailAssert, InUserCode, Running
  <2>2. flying' # None
    <3>1. flying' = thrown + 1
      BY <1>3 DEF FailAssert, RaiseTracked
    <3> QED
      BY <3>1 DEF ThrowType, None
  <2>3. f \in Frames
    <3>1. Top \in Frames
      BY <2>1, TopFrame, Zenon
    <3> QED
      BY <3>1 DEF Frames, Codes
  <2> HIDE DEF f
  <2>4. /\ Len(stack') = n /\ \A i \in 1 .. n - 1 : stack'[i] = stack[i]
    BY <2>1, <2>3, TopReplaced, Zenon
  <2>5. \A i \in 1 .. n : i \in 1 .. n - 1 \/ i = n
    BY <1>n
  <2> QED
    BY <2>1, <2>2, <2>4, <2>5, NoAsserts, Zenon DEF AssertInv
<1>4. CASE DropNext
  <2>1. stack # <<>> /\ flying = None
    BY <1>4, Zenon DEF DropNext, Running
  <2>2. NoAssert(stack)
    BY <2>1, NoAsserts, Zenon
  <2>3. /\ Len(stack') = n + 1 /\ \A i \in 1 .. n - 1 : SameWork(stack'[i], stack[i])
        /\ stack'[n].code = Top.code /\ stack'[n + 1].code # "assert"
    BY <1>4, DropNextStack, Zenon
  <2>4. \A i \in 1 .. n + 1 : i \in 1 .. n - 1 \/ i = n \/ i = n + 1
    BY <1>n
  <2>5. Top = stack[n] /\ n \in 1 .. n /\ \A i \in 1 .. n - 1 : i \in 1 .. n
    BY <1>n, <2>1, TopFrame
  <2>6. NoAssert(stack')
    BY <2>2, <2>3, <2>4, <2>5, ZenonT(60) DEF NoAssert, SameWork
  <2> QED
    BY <1>0, <2>6, Zenon
<1>5. CASE Leave \/ Catch \/ Rethrow
  BY <1>0, <1>5, <1>p, Zenon DEF Leave, Catch, Rethrow, Running, Unwinding
<1>6. CASE PassThrough
  BY <1>0, <1>6, <1>a, Zenon DEF PassThrough, Unwinding
<1>7. CASE Cleanup
  <2> DEFINE f == [Top EXCEPT !.pending = flying, !.ending = TRUE]
  <2>1. stack # <<>> /\ stack' = Append(Below, f) /\ Top.code \in Protected
    BY <1>7, Zenon DEF Cleanup, Unwinding
  <2>2. f \in Frames /\ f.code = Top.code
    <3>1. Top \in Frames
      BY <2>1, TopFrame, Zenon
    <3>2. flying \in Nat
      BY DEF ThrowType
    <3> QED
      BY <3>1, <3>2, Zenon DEF Frames
  <2>3. f.code # "assert"
    BY <2>1, <2>2 DEF Protected
  <2> HIDE DEF f
  <2>4. /\ Len(stack') = n /\ \A i \in 1 .. n - 1 : stack'[i] = stack[i]
        /\ stack'[n] = f
    BY <2>1, <2>2, TopReplaced, Zenon
  <2>5. \A i \in 1 .. n : i \in 1 .. n - 1 \/ i = n
    BY <1>n
  <2>6. NoAssert(stack')
    BY <2>1, <2>3, <2>4, <2>5, NoAsserts, Zenon DEF NoAssert
  <2> QED
    BY <1>0, <2>6, Zenon
<1>8. CASE SecondFailure
  <2>1. stack # <<>> /\ Top.code \in Protected /\ (stack' = stack \/ Abandon)
    BY <1>8, Zenon DEF SecondFailure, Unwinding
  <2>2. NoAssert(stack)
    <3>1. Top.code # "assert"
      BY <2>1 DEF Protected
    <3> QED
      BY <2>1, <3>1, NoAsserts, Zenon
  <2> QED
    BY <1>0, <1>a, <2>1, <2>2, Zenon
<1>9. CASE Overflow
  <2>1. stack' = stack /\ flying' = flying
    BY <1>9, Zenon DEF Overflow
  <2> QED
    BY <2>1, Zenon DEF AssertInv
<1> QED
  BY <1>1, <1>2, <1>3, <1>4, <1>5, <1>6, <1>7, <1>8, <1>9, Zenon DEF Next


\* At first there is a catch_unwind and nothing is owed.
LEMMA OrderInit == Init => OrderInv
<1> SUFFICES ASSUME Init PROVE OrderInv
  OBVIOUS
<1> DEFINE s == <<Catching>>
<1>1. stack = s /\ astray = FALSE
  BY Zenon DEF Init
<1>2. Len(s) = 1 /\ s[1] = Catching /\ (\A i \in 1 .. 1 : i = 1) /\ 1 .. 1 - 1 = {}
  OBVIOUS
<1>3. Catching.code = "catch" /\ Catching.todo = <<>> /\ Catching.due = <<>>
  BY NewCatching, Zenon
<1>4. "catch" \notin OwnCode /\ "catch" \notin DropCode /\ "catch" # "user" /\ "catch" # "assert"
  BY DEF OwnCode, DropCode
<1> HIDE DEF s
<1>5. OwedAt(s, 0, 0, 1)
  BY <1>2, <1>3, <1>4, Zenon DEF OwedAt
<1>6. Owed(s, 0, 0)
  BY <1>2, <1>5, Zenon DEF Owed
<1>7. OwesMore(s, 0, 0, <<>>)
  BY <1>2, <1>3, <1>4, <1>6, Zenon DEF OwesMore
<1>8. AssertInv
  BY <1>1, <1>2, <1>3, <1>4, Zenon DEF AssertInv
<1> QED
  BY <1>1, <1>7, <1>8, Zenon DEF OrderInv, Ordered

\* Every step keeps the order.
LEMMA OrderStep == PanicInv /\ OrderInv /\ [Next]_vars => OrderInv'
<1> SUFFICES ASSUME PanicInv, OrderInv, [Next]_vars PROVE OrderInv'
  OBVIOUS
<1>t. StackType /\ ThrowType /\ flying \in Nat
  BY DEF PanicInv, ThrowType
<1>o. Ordered(stack) /\ AssertInv /\ astray = FALSE
  BY Zenon DEF OrderInv
<1>q. Ordered(stack') /\ AssertInv' /\ astray' = FALSE => OrderInv'
  BY Zenon DEF OrderInv, Ordered, OwesMore, Owed, OwedAt
<1>n. ASSUME stack # <<>>, flying = None
      PROVE  Top.code # "assert"
  <2>1. Len(stack) \in Nat \ {0} /\ Top = stack[Len(stack)]
    BY <1>t, <1>n, TopFrame, Zenon
  <2>2. Len(stack) \in 1 .. Len(stack)
    BY <2>1
  <2> QED
    BY <1>o, <1>n, <2>1, <2>2, Zenon DEF AssertInv
<1>1. CASE Next
  <2>a. AssertInv'
    BY <1>t, <1>o, <1>1, AssertStep, Zenon
  <2>1. CASE Enter
    <3>1. Ordered(stack')
      BY <1>t, <1>o, <2>1, EnterOrdered, Zenon
    <3>2. astray' = astray
      BY <2>1, Zenon DEF Enter
    <3> QED
      BY <1>o, <1>q, <2>a, <3>1, <3>2, Zenon
  <2>2. CASE RaisePanic \/ ThrowForeign \/ Overflow
    <3>1. stack' = stack /\ astray' = astray
      BY <2>2, Zenon DEF RaisePanic, ThrowForeign, Overflow
    <3> QED
      BY <1>o, <1>q, <2>a, <3>1, Zenon
  <2>3. CASE FailAssert \/ Cleanup
    <3>1. Ordered(stack')
      BY <1>t, <1>o, <2>3, ChangeOrdered, Zenon
    <3>2. astray' = astray
      BY <2>3, Zenon DEF FailAssert, Cleanup
    <3> QED
      BY <1>o, <1>q, <2>a, <3>1, <3>2, Zenon
  <2>4. CASE DropNext
    <3>1. stack # <<>> /\ flying = None /\ Top.todo # <<>>
      BY <2>4, Zenon DEF DropNext, Running
    <3>2. Top.code # "assert" /\ Top.code # "catch" /\ Top.code \in Codes
      BY <1>t, <1>o, <1>n, <3>1, CatchHasNoWork, TopFrame, Zenon
    <3>3. Top.code \in OwnCode
      BY <3>2, Zenon DEF OwnCode, Codes
    <3> QED
      BY <1>t, <1>o, <1>q, <2>4, <2>a, <3>3, DropOrdered, Zenon
  <2>5. CASE Leave
    <3>1. Top.code # "assert"
      BY <1>n, <2>5, Zenon DEF Leave, Running
    <3> QED
      BY <1>t, <1>o, <1>q, <2>5, <2>a, <3>1, LeaveOrdered, Zenon
  <2>6. CASE PassThrough \/ SecondFailure
    <3>1. stack # <<>> /\ astray' = astray /\ (Abandon \/ stack' = stack)
      BY <2>6, Zenon DEF PassThrough, SecondFailure, Unwinding
    <3>2. Ordered(stack')
      <4>1. CASE Abandon
        BY <1>t, <1>o, <3>1, <4>1, CatchHasNoWork, AbandonOrdered, Zenon
      <4>2. CASE stack' = stack
        BY <1>o, <4>2, Zenon
      <4> QED
        BY <3>1, <4>1, <4>2, Zenon
    <3> QED
      BY <1>o, <1>q, <2>a, <3>1, <3>2, Zenon
  <2>7. CASE Catch \/ Rethrow
    <3>1. stack # <<>> /\ stack' = Below /\ astray' = astray /\ Top.code = "catch"
      BY <2>7, Zenon DEF Catch, Rethrow, Unwinding
    <3>2. Top.code \notin DropCode
      BY <3>1 DEF DropCode
    <3>3. Ordered(stack')
      BY <1>t, <1>o, <3>1, <3>2, PopOrdered, Zenon
    <3> QED
      BY <1>o, <1>q, <2>a, <3>1, <3>3, Zenon
  <2> QED
    BY <1>1, <2>1, <2>2, <2>3, <2>4, <2>5, <2>6, <2>7, Zenon DEF Next
<1>2. CASE UNCHANGED vars
  <2>1. stack' = stack /\ flying' = flying /\ astray' = astray
    BY <1>2, Zenon DEF vars
  <2>2. AssertInv'
    BY <1>o, <2>1, Zenon DEF AssertInv
  <2> QED
    BY <1>o, <1>q, <2>1, <2>2, Zenon
<1> QED
  BY <1>1, <1>2, Zenon

\* The destructors of a function's values run in Rust's order and are all done
\* with when it is left, whatever panics or foreign exceptions they throw and
\* however the calls nest: unwinding resumes the drops where they failed.
THEOREM DestructorsInRustOrder == Spec => []DropsInRustOrder
<1>1. OrderInv => DropsInRustOrder
  BY DEF OrderInv, DropsInRustOrder
<1> QED
  BY <1>1, OrderInit, OrderStep, PanicInvariant, PTL DEF Spec

=============================================================================

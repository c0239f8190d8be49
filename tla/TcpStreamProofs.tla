-------------------------- MODULE TcpStreamProofs --------------------------
(***************************************************************************)
(* Proofs about TcpStream, for any number of threads, bytes, clones and    *)
(* calls: what reads and peeks return, when the end is reported, and how   *)
(* long the channel stays open.                                            *)
(***************************************************************************)
EXTENDS TcpStream, SequenceTheorems, FiniteSetTheorems, TLAPS

PCs == {"idle", "lock", "peekbuffer", "channel", "nothing", "wait"}
Calls == [op : Ops, length : 1 .. MaxLength, budget : BOOLEAN]
Results ==
    [op : Ops \cup {"none"}, kind : {"none", "data", "eof", "wouldblock", "timeout", "error"},
     bytes : Seq(Nat), at : Nat]

DataTypes ==
    /\ arrived \in 0 .. Total /\ ended \in BOOLEAN
    /\ taken \in 0 .. arrived /\ peeked \in Seq(Nat) /\ got \in Seq(Nat)
    /\ result \in [Threads -> Results]
FlagTypes ==
    /\ inputShut \in BOOLEAN /\ open \in BOOLEAN
    /\ nonblocking \in BOOLEAN /\ timed \in BOOLEAN
    /\ handles \in [Threads -> Nat]
CallTypes ==
    /\ lock \in Threads \cup {NoThread}
    /\ pc \in [Threads -> PCs]
    /\ call \in [Threads -> Calls]
    /\ calls \in Nat

TypeOK == DataTypes /\ FlagTypes /\ CallTypes

\* The bytes out of the channel are the ones reads returned, then the peeked.
Accounted ==
    /\ Len(got) + Len(peeked) = taken
    /\ \A i \in 1 .. Len(got) : got[i] = i
    /\ \A i \in 1 .. Len(peeked) : peeked[i] = Len(got) + i

\* A thread past the monitor of readLock holds it; inside readTcp it has seen
\* the peeked bytes used up, and nobody has peeked since.
Guarded ==
    \A t \in Threads :
        /\ pc[t] \in {"peekbuffer", "channel", "nothing", "wait"} => lock = t
        /\ pc[t] \in {"channel", "nothing", "wait"} => peeked = <<>>

\* What a peek returned was, and stays, at that place of the stream.
Shown ==
    \A t \in Threads :
        LET r == result[t]
        IN  r.op = "peek" => /\ r.at + Len(r.bytes) <= arrived
                             /\ \A i \in 1 .. Len(r.bytes) : r.bytes[i] = r.at + i

\* One pair for each Rust handle: references counts them.
Clones == {c \in Threads \X (Nat \ {0}) : c[2] <= handles[c[1]]}

ReferencesExact ==
    /\ IsFiniteSet(Clones) /\ references = Cardinality(Clones)
    /\ open <=> references # 0
    /\ \A t \in Threads : pc[t] # "idle" => handles[t] > 0

IInv == TypeOK /\ Accounted /\ Guarded /\ Shown /\ EndIsTheEnd /\ ReferencesExact

-----------------------------------------------------------------------------
(* Sequences of bytes.                                                     *)

\* The Min of a pair is the smaller one.
LEMMA MinOfTwo ==
    ASSUME NEW a \in Int, NEW b \in Int
    PROVE  Min({a, b}) = IF a <= b THEN a ELSE b
<1>1. ASSUME NEW c \in {a, b}, \A y \in {a, b} : c =< y
      PROVE  c = IF a <= b THEN a ELSE b
  BY <1>1
<1>2. \E c \in {a, b} : \A y \in {a, b} : c =< y
  OBVIOUS
<1> QED
  BY <1>1, <1>2, ZenonT(60) DEF Min

\* Prefix and Rest divide a sequence in two.
LEMMA Divided ==
    ASSUME NEW s \in Seq(Nat), NEW n \in Nat
    PROVE  LET p == Prefix(s, n)
               r == Rest(s, Len(p))
           IN  /\ p \in Seq(Nat) /\ r \in Seq(Nat)
               /\ Len(p) <= Len(s) /\ Len(r) = Len(s) - Len(p)
               /\ \A i \in 1 .. Len(p) : p[i] = s[i]
               /\ \A i \in 1 .. Len(r) : r[i] = s[Len(p) + i]
<1> DEFINE m == Min({n, Len(s)})
           p == Prefix(s, n)
           r == Rest(s, Len(p))
<1>1. Len(s) \in Nat /\ \A i \in 1 .. Len(s) : s[i] \in Nat
  BY LenProperties, ElementOfSeq
<1>2. m \in Nat /\ m <= Len(s)
  BY <1>1, MinOfTwo
<1>3. /\ p \in Seq(Nat) /\ Len(p) = m
      /\ \A i \in 1 .. m : p[i] = s[i]
  <2> HIDE DEF m
  <2>1. \A i \in 1 .. m : s[i] \in Nat
    BY <1>1, <1>2
  <2>2. /\ SubSeq(s, 1, m) \in Seq(Nat)
        /\ Len(SubSeq(s, 1, m)) = IF 1 <= m THEN m - 1 + 1 ELSE 0
        /\ \A i \in 1 .. m - 1 + 1 : SubSeq(s, 1, m)[i] = s[1 + i - 1]
    BY <1>2, <2>1, SubSeqProperties
  <2>3. p = SubSeq(s, 1, m)
    BY DEF Prefix, m
  <2> HIDE DEF p
  <2> QED
    BY <1>2, <2>2, <2>3
<1>4. /\ r \in Seq(Nat) /\ Len(r) = Len(s) - m
      /\ \A i \in 1 .. Len(s) - m : r[i] = s[m + i]
  <2> HIDE DEF m
  <2> DEFINE k == m + 1
             e == Len(s)
  <2>1. k \in Int /\ e \in Int /\ \A i \in k .. e : s[i] \in Nat
    BY <1>1, <1>2
  <2>2. r = SubSeq(s, k, e)
    BY <1>3 DEF Rest
  <2> HIDE DEF k, e, r
  <2>3. /\ SubSeq(s, k, e) \in Seq(Nat)
        /\ Len(SubSeq(s, k, e)) = IF k <= e THEN e - k + 1 ELSE 0
        /\ \A i \in 1 .. e - k + 1 : SubSeq(s, k, e)[i] = s[k + i - 1]
    BY <2>1, SubSeqProperties
  <2>4. e - k + 1 = Len(s) - m /\ \A i \in Int : k + i - 1 = m + i
    BY <1>1, <1>2 DEF k, e
  <2>5. Len(r) = Len(s) - m
    BY <1>1, <1>2, <2>2, <2>3 DEF k, e
  <2>6. ASSUME NEW i \in 1 .. Len(s) - m
        PROVE  r[i] = s[m + i]
    <3>1. i \in 1 .. e - k + 1 /\ k + i - 1 = m + i
      BY <2>4
    <3> QED
      BY <2>2, <2>3, <3>1, ZenonT(60)
  <2> QED
    BY <2>2, <2>3, <2>5, <2>6, ZenonT(60)
<1> QED
  BY <1>2, <1>3, <1>4, ZenonT(60)

\* What channel.read takes out of the stream.
LEMMA StreamPart ==
    ASSUME NEW m \in Nat, NEW n \in Nat, m + n <= Total
    PROVE  LET b == SubSeq(Stream, m + 1, m + n)
           IN  /\ b \in Seq(Nat) /\ Len(b) = n
               /\ \A i \in 1 .. n : b[i] = m + i
<1> USE StreamAssumption
<1>1. \A i \in m + 1 .. m + n : Stream[i] = i /\ Stream[i] \in Nat
  BY DEF Stream
<1>2. /\ SubSeq(Stream, m + 1, m + n) \in Seq(Nat)
      /\ Len(SubSeq(Stream, m + 1, m + n)) =
            IF m + 1 <= m + n THEN (m + n) - (m + 1) + 1 ELSE 0
      /\ \A i \in 1 .. (m + n) - (m + 1) + 1 :
            SubSeq(Stream, m + 1, m + n)[i] = Stream[(m + 1) + i - 1]
  BY <1>1, SubSeqProperties
<1> QED
  BY <1>1, <1>2

\* The bytes 1, 2, .. followed by the next ones.
LEMMA Extended ==
    ASSUME NEW g \in Seq(Nat), NEW b \in Seq(Nat),
           \A i \in 1 .. Len(g) : g[i] = i,
           \A i \in 1 .. Len(b) : b[i] = Len(g) + i
    PROVE  /\ g \o b \in Seq(Nat) /\ Len(g \o b) = Len(g) + Len(b)
           /\ \A i \in 1 .. Len(g \o b) : (g \o b)[i] = i
<1>1. Len(g) \in Nat /\ Len(b) \in Nat
  BY LenProperties
<1>2. /\ g \o b \in Seq(Nat) /\ Len(g \o b) = Len(g) + Len(b)
      /\ \A i \in 1 .. Len(g) + Len(b) :
            (g \o b)[i] = IF i <= Len(g) THEN g[i] ELSE b[i - Len(g)]
  BY ConcatProperties
<1> QED
  BY <1>1, <1>2

-----------------------------------------------------------------------------
(* What a call returns.                                                    *)

\* The call of t returns with the bytes that follow those the reads returned
\* so far, and leaves the bytes after them in the peek buffer.
Answered(t, kind, bytes) ==
    /\ Return(t, kind, bytes) /\ pc[t] \in {"peekbuffer", "channel", "nothing", "wait"}
    /\ kind \in {"data", "eof", "wouldblock", "timeout", "error"}
    /\ bytes \in Seq(Nat) /\ peeked' \in Seq(Nat) /\ taken' \in 0 .. arrived
    /\ \A i \in 1 .. Len(bytes) : bytes[i] = Len(got) + i
    /\ Len(got) + Len(bytes) <= taken'
    /\ kind = "eof" => inputShut \/ (ended /\ Len(got) = arrived)
    /\ LET n == IF call[t].op = "read" THEN Len(got) + Len(bytes) ELSE Len(got)
       IN  /\ Len(peeked') = taken' - n
           /\ \A i \in 1 .. Len(peeked') : peeked'[i] = n + i

\* The part of the invariant about one call.
LEMMA InCall ==
    ASSUME IInv, NEW t \in Threads
    PROVE  /\ call[t] \in Calls /\ call[t].op \in Ops /\ call[t].length \in Nat
           /\ Len(got) \in Nat /\ Len(peeked) \in Nat
           /\ pc[t] \in {"channel", "nothing", "wait"} => peeked = <<>> /\ taken = Len(got)
<1>1. /\ call[t] \in Calls /\ Len(got) \in Nat /\ Len(peeked) \in Nat
      /\ Len(got) + Len(peeked) = taken
  BY LenProperties DEF IInv, TypeOK, DataTypes, CallTypes, Accounted
<1>2. pc[t] \in {"channel", "nothing", "wait"} => peeked = <<>>
  BY DEF IInv, Guarded
<1>3. Len(<<>>) = 0
  BY EmptySeq
<1> QED
  BY <1>1, <1>2, <1>3, StreamAssumption DEF Calls

\* copyPeeked answers with the bytes that come next.
LEMMA CopyAnswers ==
    ASSUME IInv, NEW t \in Threads, CopyPeeked(t)
    PROVE  \E bytes : Answered(t, "data", bytes)
<1> DEFINE bytes == Prefix(peeked, call[t].length)
           rest == Rest(peeked, Len(bytes))
<1>1. call[t].length \in Nat /\ Len(got) \in Nat /\ Len(peeked) \in Nat
  BY InCall
<1>2. peeked \in Seq(Nat) /\ taken \in 0 .. arrived /\ arrived \in Nat
  BY StreamAssumption DEF IInv, TypeOK, DataTypes
<1>3. /\ bytes \in Seq(Nat) /\ rest \in Seq(Nat)
      /\ Len(bytes) <= Len(peeked) /\ Len(rest) = Len(peeked) - Len(bytes)
      /\ \A i \in 1 .. Len(bytes) : bytes[i] = peeked[i]
      /\ \A i \in 1 .. Len(rest) : rest[i] = peeked[Len(bytes) + i]
  BY <1>1, <1>2, Divided, ZenonT(60)
<1>4. /\ Return(t, "data", bytes) /\ taken' = taken
      /\ peeked' = IF call[t].op = "read" THEN rest ELSE peeked
  BY DEF CopyPeeked, Kept
<1>p. pc[t] \in {"peekbuffer", "channel", "nothing", "wait"}
  BY DEF CopyPeeked
<1> HIDE DEF bytes, rest
<1>5. Len(bytes) \in Nat /\ Len(rest) \in Nat
  BY <1>3, LenProperties
<1>6. /\ Len(got) + Len(peeked) = taken
      /\ \A i \in 1 .. Len(peeked) : peeked[i] = Len(got) + i
  BY DEF IInv, Accounted
<1>7. \A i \in 1 .. Len(bytes) : bytes[i] = Len(got) + i
  BY <1>1, <1>3, <1>5, <1>6
<1>8. ASSUME NEW i \in 1 .. Len(rest)
      PROVE  rest[i] = Len(got) + Len(bytes) + i
  <2>1. Len(bytes) + i \in 1 .. Len(peeked)
    BY <1>1, <1>3, <1>5
  <2>2. peeked[Len(bytes) + i] = Len(got) + (Len(bytes) + i)
    BY <1>6, <2>1, ZenonT(60)
  <2>3. rest[i] = peeked[Len(bytes) + i]
    BY <1>3, ZenonT(60)
  <2>4. i \in Nat
    BY <1>5
  <2>5. \A a, b, c \in Nat : a + (b + c) = a + b + c
    OBVIOUS
  <2> QED
    BY ONLY <1>1, <1>5, <2>2, <2>3, <2>4, <2>5
<1>9. Answered(t, "data", bytes)
  <2>1. CASE call[t].op = "read"
    <3>1. peeked' = rest
      BY <1>4, <2>1, ZenonT(60)
    <3>2. /\ taken' \in 0 .. arrived /\ Len(got) + Len(bytes) <= taken'
          /\ Len(rest) = taken' - (Len(got) + Len(bytes))
      BY <1>1, <1>2, <1>3, <1>4, <1>5, <1>6
    <3> QED
      BY <1>3, <1>4, <1>p, <1>7, <1>8, <2>1, <3>1, <3>2, ZenonT(60) DEF Answered
  <2>2. CASE call[t].op # "read"
    BY <1>1, <1>2, <1>3, <1>4, <1>5, <1>6, <1>7, <1>8, <1>p, <2>2 DEF Answered
  <2> QED
    BY <2>1, <2>2, ZenonT(60)
<1> QED
  BY <1>9

\* So does a channel.read that returns some.
LEMMA ReadAnswers ==
    ASSUME IInv, NEW t \in Threads, ReadChannel(t)
    PROVE  \E bytes : Answered(t, "data", bytes)
<1>1. /\ call[t].op \in Ops /\ call[t].length \in Nat /\ Len(got) \in Nat
      /\ peeked = <<>> /\ taken = Len(got)
  BY InCall, ZenonT(60) DEF ReadChannel
<1>2. arrived \in Nat /\ taken \in Nat /\ taken <= arrived /\ arrived <= Total /\ Total \in Nat
  BY StreamAssumption DEF IInv, TypeOK, DataTypes
<1>3. PICK n \in 1 .. Min({call[t].length, arrived - taken}) :
        LET bytes == SubSeq(Stream, taken + 1, taken + n)
        IN  /\ taken' = taken + n
            /\ peeked' = Buffered(t, bytes)
            /\ Return(t, "data", bytes)
  BY DEF ReadChannel
<1>4. n \in Nat /\ taken + n <= arrived /\ taken + n <= Total
  <2> DEFINE a == call[t].length
             b == arrived - taken
             m == Min({a, b})
  <2>1. a \in Int /\ b \in Int
    BY <1>1, <1>2
  <2>2. n \in 1 .. m
    BY <1>3, ZenonT(60)
  <2>3. m = IF a <= b THEN a ELSE b
    BY <2>1, MinOfTwo, ZenonT(60)
  <2>4. m \in Int /\ m <= b
    BY ONLY <2>1, <2>3
  <2> HIDE DEF m
  <2> QED
    BY ONLY <1>2, <2>2, <2>4
<1> DEFINE bytes == SubSeq(Stream, taken + 1, taken + n)
<1>5. /\ bytes \in Seq(Nat) /\ Len(bytes) = n
      /\ \A i \in 1 .. n : bytes[i] = taken + i
  BY <1>2, <1>4, StreamPart, ZenonT(60)
<1>6. /\ taken' = taken + n /\ Return(t, "data", bytes)
      /\ peeked' = IF call[t].op = "peek" THEN bytes ELSE <<>>
  BY <1>1, <1>3 DEF Buffered
<1>p. pc[t] \in {"peekbuffer", "channel", "nothing", "wait"}
  BY DEF ReadChannel
<1> HIDE DEF bytes
<1>7. Answered(t, "data", bytes)
  <2>1. CASE call[t].op = "read"
    <3>1. peeked' = <<>>
      BY <1>6, <2>1, ZenonT(60)
    <3>2. <<>> \in Seq(Nat) /\ Len(<<>>) = 0
      BY EmptySeq, ZenonT(60)
    <3> QED
      BY <1>1, <1>2, <1>4, <1>5, <1>6, <1>p, <2>1, <3>1, <3>2 DEF Answered
  <2>2. CASE call[t].op = "peek"
    BY <1>1, <1>2, <1>4, <1>5, <1>6, <1>p, <2>2 DEF Answered
  <2> QED
    BY <1>1, <2>1, <2>2, ZenonT(60) DEF Ops
<1> QED
  BY <1>7, ZenonT(60)

\* The steps that return without a byte.
LEMMA EmptyAnswers ==
    ASSUME IInv, NEW t \in Threads, NEW kind \in {"eof", "wouldblock", "timeout", "error"},
           pc[t] \in {"channel", "nothing", "wait"},
           kind = "eof" => AtEnd,
           Return(t, kind, <<>>), UNCHANGED state
    PROVE  Answered(t, kind, <<>>)
<1>1. peeked = <<>> /\ taken = Len(got) /\ Len(got) \in Nat
  BY InCall, ZenonT(60)
<1>2. arrived \in Nat /\ taken \in 0 .. arrived
  BY StreamAssumption DEF IInv, TypeOK, DataTypes
<1>3. <<>> \in Seq(Nat) /\ Len(<<>>) = 0
  BY EmptySeq, ZenonT(60)
<1>4. taken' = taken /\ peeked' = <<>>
  BY <1>1, ZenonT(60) DEF state
<1> QED
  BY <1>1, <1>2, <1>3, <1>4 DEF Answered, AtEnd

Answers(t) == \E kind, bytes : Answered(t, kind, bytes)

\* A step of t that is not a return leaves the data alone.
Silent == UNCHANGED <<taken, peeked, got, result, arrived, ended>>

\* What a thread does outside of a call, and in one before it returns.
Moves(t) ==
    \/ Start(t) \/ Lock(t) \/ EnterReadTcp(t) \/ ReadNothing(t) \/ Ready(t)
    \/ (Block(t) /\ ~nonblocking)
Sets(t) ==
    \/ \E u \in Threads : Duplicate(t, u)
    \/ Close(t) \/ SetNonblocking(t) \/ SetTimeout(t) \/ Shutdown(t)

\* Every step is a return, another step of a thread, or the peer's.
LEMMA StepCases ==
    ASSUME IInv, Next
    PROVE  \/ \E t \in Threads : Answers(t) \/ Moves(t) \/ Sets(t)
           \/ PeerSends \/ PeerCloses
<1>1. ASSUME NEW t \in Threads, CopyPeeked(t) \/ ReadChannel(t)
      PROVE  Answers(t)
  BY <1>1, CopyAnswers, ReadAnswers, ZenonT(60) DEF Answers
<1>2. ASSUME NEW t \in Threads, ReadEnd(t)
      PROVE  Answers(t)
  <2>1. Answered(t, "eof", <<>>)
    BY <1>2, EmptyAnswers, ZenonT(60) DEF ReadEnd
  <2> QED
    BY <2>1, ZenonT(60) DEF Answers
<1>3. ASSUME NEW t \in Threads, TimeOut(t)
      PROVE  Answers(t)
  <2>1. Answered(t, "timeout", <<>>)
    BY <1>3, EmptyAnswers, ZenonT(60) DEF TimeOut
  <2> QED
    BY <2>1, ZenonT(60) DEF Answers
<1>4. ASSUME NEW t \in Threads, Block(t), nonblocking
      PROVE  Answers(t)
  <2>1. Answered(t, "wouldblock", <<>>)
    BY <1>4, EmptyAnswers, ZenonT(60) DEF Block
  <2> QED
    BY <2>1, ZenonT(60) DEF Answers
<1>5. ASSUME NEW t \in Threads, ReadFails(t)
      PROVE  Answers(t)
  <2>1. Answered(t, "error", <<>>)
    BY <1>5, EmptyAnswers, ZenonT(60) DEF ReadFails
  <2> QED
    BY <2>1, ZenonT(60) DEF Answers
<1> QED
  BY <1>1, <1>2, <1>3, <1>4, <1>5, ZenonT(60) DEF Next, Progress, Moves, Sets

\* The other steps of a thread leave the bytes and the results alone.
LEMMA MovesAreSilent ==
    ASSUME NEW t \in Threads, Moves(t) \/ Sets(t)
    PROVE  Silent
BY DEF Silent, Moves, Sets, Start, Lock, EnterReadTcp, ReadNothing, Ready, Block, Duplicate,
   Close, SetNonblocking, SetTimeout, Shutdown, network, state

-----------------------------------------------------------------------------
(* The invariant is inductive.                                             *)

\* The invariant holds of a stream just connected.
LEMMA InitIInv == Init => IInv
<1> SUFFICES ASSUME Init PROVE IInv
  BY ZenonT(60)
<1> USE StreamAssumption
<1>e. <<>> \in Seq(Nat) /\ Len(<<>>) = 0
  BY EmptySeq, ZenonT(60)
<1>u. PICK u \in Threads : handles = [t \in Threads |-> IF t = u THEN 1 ELSE 0]
  BY DEF Init
<1>1. TypeOK
  <2>1. [op |-> "none", kind |-> "none", bytes |-> <<>>, at |-> 0] \in Results
    BY <1>e, ZenonT(60) DEF Results
  <2>2. DataTypes
    <3>1. result \in [Threads -> Results]
      BY <2>1, ZenonT(60) DEF Init
    <3>2. arrived = 0 /\ ended = FALSE /\ taken = 0 /\ peeked = <<>> /\ got = <<>>
      BY DEF Init
    <3>3. peeked \in Seq(Nat) /\ got \in Seq(Nat)
      BY <1>e, <3>2, ZenonT(60)
    <3>4. arrived \in 0 .. Total /\ taken \in 0 .. arrived
      BY <3>2
    <3>5. ended \in BOOLEAN
      BY <3>2, ZenonT(60)
    <3> QED
      BY <3>1, <3>3, <3>4, <3>5, ZenonT(60) DEF DataTypes
  <2>3. FlagTypes
    <3>1. handles \in [Threads -> Nat]
      BY <1>u
    <3> QED
      BY <3>1, ZenonT(60) DEF Init, FlagTypes
  <2>4. NoCall \in Calls
    BY DEF NoCall, Calls, Ops
  <2>5. CallTypes
    BY <2>4, ZenonT(60) DEF Init, CallTypes, PCs
  <2> QED
    BY <2>2, <2>3, <2>5, ZenonT(60) DEF TypeOK
<1>2. Accounted /\ Guarded
  BY <1>e DEF Init, Accounted, Guarded
<1>3. Shown /\ EndIsTheEnd
  BY <1>e, ZenonT(60) DEF Init, Shown, EndIsTheEnd
<1>4. ReferencesExact
  <2>1. \A t \in Threads : handles[t] = IF t = u THEN 1 ELSE 0
    BY <1>u, ZenonT(60)
  <2>2. ASSUME NEW c PROVE c \in Clones <=> c = <<u, 1>>
    <3>1. c \in Clones => c = <<u, 1>>
      BY <2>1 DEF Clones
    <3>2. <<u, 1>> \in Clones
      BY <2>1 DEF Clones
    <3> QED
      BY <3>1, <3>2, ZenonT(60)
  <2>3. Clones = {<<u, 1>>}
    BY <2>2, ZenonT(60)
  <2>4. IsFiniteSet(Clones) /\ Cardinality(Clones) = 1
    BY <2>3, FS_Singleton, ZenonT(60)
  <2> QED
    BY <2>4 DEF Init, ReferencesExact
<1> QED
  BY <1>1, <1>2, <1>3, <1>4, ZenonT(60) DEF IInv

\* Every step keeps the types.
LEMMA TypePreserved ==
    ASSUME IInv, Next
    PROVE  TypeOK'
<1> USE StreamAssumption
<1>0. DataTypes /\ FlagTypes /\ CallTypes
  BY DEF IInv, TypeOK
<1>1. ASSUME NEW t \in Threads, Answers(t)
      PROVE  TypeOK'
  <2>1. PICK kind, bytes : Answered(t, kind, bytes)
    BY <1>1, ZenonT(60) DEF Answers
  <2>2. [op |-> call[t].op, kind |-> kind, bytes |-> bytes, at |-> Len(got)] \in Results
    BY <1>0, <2>1, LenProperties, ZenonT(60) DEF DataTypes, CallTypes, Answered, Results, Calls
  <2>3. got' \in Seq(Nat)
    BY <1>0, <2>1, ConcatProperties, ZenonT(60) DEF DataTypes, Answered, Return
  <2>4. result' \in [Threads -> Results]
    BY <1>0, <2>1, <2>2, ZenonT(60) DEF DataTypes, Answered, Return, Returned
  <2>5. CallTypes'
    BY <1>0, <2>1, ZenonT(60) DEF Answered, Return, CallTypes, PCs
  <2>6. FlagTypes'
    BY <1>0, <2>1, ZenonT(60) DEF Answered, Return, FlagTypes, config
  <2>7. DataTypes'
    BY <1>0, <2>1, <2>3, <2>4, ZenonT(60) DEF DataTypes, Answered, Return, network
  <2> QED
    BY <2>5, <2>6, <2>7, ZenonT(60) DEF TypeOK
<1>2. ASSUME NEW t \in Threads, Moves(t)
      PROVE  TypeOK'
  <2>1. DataTypes'
    BY <1>0, <1>2, MovesAreSilent, ZenonT(60) DEF Silent, DataTypes
  <2>2. UNCHANGED config
    BY <1>2, ZenonT(60) DEF Moves, Start, Lock, EnterReadTcp, ReadNothing, Ready, Block
  <2>3. FlagTypes'
    BY <1>0, <2>2, ZenonT(60) DEF FlagTypes, config
  <2>4. ASSUME Start(t)
        PROVE  CallTypes'
    <3>1. PICK op \in Ops, n \in 1 .. MaxLength :
             call' = [call EXCEPT ![t] = [op |-> op, length |-> n, budget |-> FALSE]]
      BY <2>4, ZenonT(60) DEF Start
    <3>2. [op |-> op, length |-> n, budget |-> FALSE] \in Calls
      BY DEF Calls
    <3>3. call' \in [Threads -> Calls]
      BY <1>0, <3>1, <3>2 DEF CallTypes
    <3> QED
      BY <1>0, <2>4, <3>3 DEF CallTypes, Start, Begin, PCs
  <2>5. ASSUME EnterReadTcp(t)
        PROVE  CallTypes'
    <3>1. [call[t] EXCEPT !.budget = timed] \in Calls
      BY <1>0, ZenonT(60) DEF Calls, CallTypes, FlagTypes
    <3>2. call' = [call EXCEPT ![t] = [call[t] EXCEPT !.budget = timed]]
      BY <2>5, ZenonT(60) DEF EnterReadTcp
    <3>3. call' \in [Threads -> Calls]
      BY <1>0, <3>1, <3>2, ZenonT(60) DEF CallTypes
    <3> QED
      BY <1>0, <2>5, <3>3, ZenonT(60) DEF CallTypes, EnterReadTcp, PCs
  <2>6. ASSUME Lock(t)
        PROVE  CallTypes'
    BY <1>0, <2>6, ZenonT(60) DEF CallTypes, Lock, PCs
  <2>7. ASSUME ReadNothing(t)
        PROVE  CallTypes'
    BY <1>0, <2>7, ZenonT(60) DEF CallTypes, ReadNothing, PCs
  <2>8. ASSUME Ready(t)
        PROVE  CallTypes'
    BY <1>0, <2>8, ZenonT(60) DEF CallTypes, Ready, PCs
  <2>9. ASSUME Block(t) /\ ~nonblocking
        PROVE  CallTypes'
    BY <1>0, <2>9, ZenonT(60) DEF CallTypes, Block, PCs
  <2>10. CallTypes'
    BY <1>2, <2>4, <2>5, <2>6, <2>7, <2>8, <2>9, ZenonT(60) DEF Moves
  <2> QED
    BY <2>1, <2>3, <2>10, ZenonT(60) DEF TypeOK
<1>3. ASSUME NEW t \in Threads, Sets(t)
      PROVE  TypeOK'
  <2>1. DataTypes'
    BY <1>0, <1>3, MovesAreSilent, ZenonT(60) DEF Silent, DataTypes
  <2>2. UNCHANGED <<pc, call, lock>> /\ Begin(t)
    BY <1>3, ZenonT(60) DEF Sets, Duplicate, Close, SetNonblocking, SetTimeout, Shutdown
  <2>3. CallTypes'
    BY <1>0, <2>2 DEF Begin, CallTypes
  <2>4. ASSUME NEW u \in Threads, Duplicate(t, u)
        PROVE  FlagTypes'
    BY <1>0, <2>4 DEF FlagTypes, Duplicate
  <2>5. ASSUME Close(t)
        PROVE  FlagTypes'
    <3>1. handles[t] \in Nat /\ handles[t] > 0
      BY <1>0, <2>2, ZenonT(60) DEF Begin, FlagTypes
    <3>2. handles' \in [Threads -> Nat]
      BY <1>0, <2>5, <3>1 DEF FlagTypes, Close
    <3>3. open' \in BOOLEAN
      BY <2>5, ZenonT(60) DEF Close
    <3> QED
      BY <1>0, <2>5, <3>2, <3>3, ZenonT(60) DEF FlagTypes, Close
  <2>6. ASSUME SetNonblocking(t) \/ SetTimeout(t) \/ Shutdown(t)
        PROVE  FlagTypes'
    BY <1>0, <2>6, ZenonT(60) DEF FlagTypes, SetNonblocking, SetTimeout, Shutdown
  <2> QED
    BY <1>3, <2>1, <2>3, <2>4, <2>5, <2>6, ZenonT(60) DEF Sets, TypeOK
<1>4. CASE PeerSends
  <2>1. DataTypes'
    BY <1>0, <1>4 DEF PeerSends, state, DataTypes
  <2>2. FlagTypes' /\ CallTypes'
    BY <1>0, <1>4, ZenonT(60) DEF PeerSends, config, FlagTypes, CallTypes
  <2> QED
    BY <2>1, <2>2 DEF TypeOK
<1>5. CASE PeerCloses
  <2>1. DataTypes'
    BY <1>0, <1>5, ZenonT(60) DEF PeerCloses, state, DataTypes
  <2>2. FlagTypes' /\ CallTypes'
    BY <1>0, <1>5, ZenonT(60) DEF PeerCloses, config, FlagTypes, CallTypes
  <2> QED
    BY <2>1, <2>2 DEF TypeOK
<1> QED
  BY <1>1, <1>2, <1>3, <1>4, <1>5, StepCases

\* No step loses or repeats a byte taken out of the channel.
LEMMA AccountedPreserved ==
    ASSUME IInv, Next
    PROVE  Accounted'
<1>0. /\ got \in Seq(Nat) /\ taken \in Nat /\ Accounted
      /\ \A i \in 1 .. Len(got) : got[i] = i
  BY StreamAssumption DEF IInv, TypeOK, DataTypes, Accounted
<1>1. ASSUME NEW t \in Threads, Answers(t)
      PROVE  Accounted'
  <2>1. PICK kind, bytes : Answered(t, kind, bytes)
    BY <1>1, ZenonT(60) DEF Answers
  <2>2. /\ bytes \in Seq(Nat) /\ taken' \in Nat
        /\ \A i \in 1 .. Len(bytes) : bytes[i] = Len(got) + i
        /\ got' = IF call[t].op = "read" THEN got \o bytes ELSE got
    BY <2>1, StreamAssumption DEF Answered, Return, IInv, TypeOK, DataTypes
  <2>3. Len(got) \in Nat /\ Len(bytes) \in Nat
    BY <1>0, <2>2, LenProperties, ZenonT(60)
  <2>4. CASE call[t].op = "read"
    <3>1. /\ got' = got \o bytes /\ Len(got') = Len(got) + Len(bytes)
          /\ \A i \in 1 .. Len(got') : got'[i] = i
      BY <1>0, <2>2, <2>4, Extended, ZenonT(60)
    <3>2. /\ Len(peeked') = taken' - (Len(got) + Len(bytes))
          /\ \A i \in 1 .. Len(peeked') : peeked'[i] = Len(got) + Len(bytes) + i
      BY <2>1, <2>4, ZenonT(60) DEF Answered
    <3>3. Len(got') + Len(peeked') = taken'
      BY <2>2, <2>3, <3>1, <3>2
    <3> QED
      BY <3>1, <3>2, <3>3, ZenonT(60) DEF Accounted
  <2>5. CASE call[t].op # "read"
    <3>1. got' = got
      BY <2>2, <2>5, ZenonT(60)
    <3>2. /\ Len(peeked') = taken' - Len(got)
          /\ \A i \in 1 .. Len(peeked') : peeked'[i] = Len(got) + i
      BY <2>1, <2>5, ZenonT(60) DEF Answered
    <3>3. Len(got') + Len(peeked') = taken'
      BY <2>2, <2>3, <3>1, <3>2
    <3> QED
      BY <1>0, <3>1, <3>2, <3>3, ZenonT(60) DEF Accounted
  <2> QED
    BY <2>4, <2>5, ZenonT(60)
<1>2. ASSUME UNCHANGED <<taken, peeked, got>>
      PROVE  Accounted'
  BY <1>0, <1>2, ZenonT(60) DEF Accounted
<1>3. ASSUME NEW t \in Threads, Moves(t) \/ Sets(t)
      PROVE  UNCHANGED <<taken, peeked, got>>
  BY <1>3, MovesAreSilent, ZenonT(60) DEF Silent
<1>4. ASSUME PeerSends \/ PeerCloses
      PROVE  UNCHANGED <<taken, peeked, got>>
  BY <1>4, ZenonT(60) DEF PeerSends, PeerCloses, state
<1> QED
  BY <1>1, <1>2, <1>3, <1>4, StepCases, ZenonT(60)

\* readLock keeps a peek from coming between the test of the peek buffer and
\* the read of the channel.
LEMMA GuardedPreserved ==
    ASSUME IInv, Next
    PROVE  Guarded'
<1> DEFINE Inside == {"peekbuffer", "channel", "nothing", "wait"}
           Reading == {"channel", "nothing", "wait"}
<1> USE StreamAssumption
<1>0. /\ pc \in [Threads -> PCs] /\ \A t \in Threads : pc[t] \in Inside => lock = t
      /\ \A t \in Threads : pc[t] \in Reading => peeked = <<>>
  BY DEF IInv, TypeOK, CallTypes, Guarded
<1>1. ASSUME NEW t \in Threads, Answers(t)
      PROVE  Guarded'
  <2>1. pc[t] \in Inside /\ pc' = [pc EXCEPT ![t] = "idle"]
    BY <1>1, ZenonT(60) DEF Answers, Answered, Return
  <2>2. \A u \in Threads : pc'[u] \notin Inside
    BY <1>0, <2>1, ZenonT(60)
  <2> QED
    BY <2>2, ZenonT(60) DEF Guarded
<1>2. ASSUME NEW t \in Threads, Moves(t)
      PROVE  Guarded'
  <2>1. peeked' = peeked
    BY <1>2, MovesAreSilent, ZenonT(60) DEF Silent
  <2>2. CASE Start(t)
    BY <1>0, <2>1, <2>2, ZenonT(60) DEF Start, Guarded
  <2>3. CASE Lock(t)
    <3>1. \A u \in Threads : pc[u] \notin Inside
      BY <1>0, <2>3, ZenonT(60) DEF Lock
    <3>2. lock' = t /\ pc' = [pc EXCEPT ![t] = "peekbuffer"]
      BY <2>3, ZenonT(60) DEF Lock
    <3> QED
      BY <1>0, <3>1, <3>2, ZenonT(60) DEF Guarded
  <2>4. CASE EnterReadTcp(t)
    <3>1. /\ pc[t] = "peekbuffer" /\ peeked = <<>> /\ lock' = lock
          /\ pc' = [pc EXCEPT ![t] = "channel"]
      BY <2>4, ZenonT(60) DEF EnterReadTcp, FromPeeked
    <3> QED
      BY <1>0, <2>1, <3>1, ZenonT(60) DEF Guarded
  <2>5. CASE ReadNothing(t) \/ Ready(t) \/ (Block(t) /\ ~nonblocking)
    <3>1. /\ pc[t] \in Reading /\ lock' = lock
          /\ \E p \in Reading : pc' = [pc EXCEPT ![t] = p]
      BY <2>5, ZenonT(60) DEF ReadNothing, Ready, Block
    <3> QED
      BY <1>0, <2>1, <3>1, ZenonT(60) DEF Guarded
  <2> QED
    BY <1>2, <2>2, <2>3, <2>4, <2>5, ZenonT(60) DEF Moves
<1>3. ASSUME UNCHANGED <<pc, lock, peeked>>
      PROVE  Guarded'
  BY <1>0, <1>3, ZenonT(60) DEF Guarded
<1>4. ASSUME NEW t \in Threads, Sets(t)
      PROVE  UNCHANGED <<pc, lock, peeked>>
  BY <1>4, ZenonT(60) DEF Sets, Duplicate, Close, SetNonblocking, SetTimeout, Shutdown, state
<1>5. ASSUME PeerSends \/ PeerCloses
      PROVE  UNCHANGED <<pc, lock, peeked>>
  BY <1>5, ZenonT(60) DEF PeerSends, PeerCloses, state
<1> QED
  BY <1>1, <1>2, <1>3, <1>4, <1>5, StepCases, ZenonT(60)

\* What a peek returned stays right.
LEMMA ShownPreserved ==
    ASSUME IInv, Next
    PROVE  Shown'
<1> DEFINE Right(r, n) == r.op = "peek" => /\ r.at + Len(r.bytes) <= n
                                           /\ \A i \in 1 .. Len(r.bytes) : r.bytes[i] = r.at + i
<1> USE StreamAssumption
<1>0. /\ result \in [Threads -> Results] /\ arrived \in Nat
      /\ \A t \in Threads : Right(result[t], arrived)
  BY DEF IInv, TypeOK, DataTypes, Shown
<1>1. ASSUME \A t \in Threads : Right(result'[t], arrived')
      PROVE  Shown'
  BY <1>1, ZenonT(60) DEF Shown
<1>2. ASSUME NEW t \in Threads, Answers(t)
      PROVE  Shown'
  <2>1. PICK kind, bytes : Answered(t, kind, bytes)
    BY <1>2 DEF Answers
  <2> DEFINE r == [op |-> call[t].op, kind |-> kind, bytes |-> bytes, at |-> Len(got)]
  <2>2. arrived' = arrived /\ result' = [result EXCEPT ![t] = r]
    BY <2>1, ZenonT(60) DEF Answered, Return, Returned, network
  <2>3. /\ taken' \in 0 .. arrived /\ Len(got) + Len(bytes) <= taken'
        /\ \A i \in 1 .. Len(bytes) : bytes[i] = Len(got) + i
    BY <2>1, ZenonT(60) DEF Answered
  <2>4. Len(got) \in Nat /\ Len(bytes) \in Nat
    BY <2>1, LenProperties, ZenonT(60) DEF Answered, IInv, TypeOK, DataTypes
  <2>5. r.at = Len(got) /\ r.bytes = bytes
    BY ZenonT(60)
  <2>6. Right(r, arrived)
    <3> HIDE DEF r
    <3> QED
      BY <1>0, <2>3, <2>4, <2>5
  <2> HIDE DEF r, Right
  <2>7. \A u \in Threads : Right(result'[u], arrived')
    BY <1>0, <2>2, <2>6, ZenonT(60)
  <2> QED
    BY <1>1, <2>7, ZenonT(60)
<1>3. ASSUME UNCHANGED <<result, arrived>>
      PROVE  Shown'
  BY <1>0, <1>1, <1>3, ZenonT(60)
<1>4. ASSUME NEW t \in Threads, Moves(t) \/ Sets(t)
      PROVE  Shown'
  BY <1>3, <1>4, MovesAreSilent, ZenonT(60) DEF Silent
<1>5. CASE PeerSends
  <2>1. result' = result /\ arrived' = arrived + 1
    BY <1>5, ZenonT(60) DEF PeerSends
  <2>2. ASSUME NEW t \in Threads
        PROVE  Right(result'[t], arrived')
    <3>1. Right(result[t], arrived) /\ result'[t] = result[t]
      BY <1>0, <2>1, ZenonT(60)
    <3>2. result[t].at \in Nat /\ Len(result[t].bytes) \in Nat
      BY <1>0, LenProperties, ZenonT(60) DEF Results
    <3> QED
      BY <1>0, <2>1, <3>1, <3>2
  <2> HIDE DEF Right
  <2> QED
    BY <1>1, <2>2, ZenonT(60)
<1>6. CASE PeerCloses
  BY <1>3, <1>6, ZenonT(60) DEF PeerCloses
<1> QED
  BY <1>2, <1>4, <1>5, <1>6, StepCases, ZenonT(60)

\* An end that was reported stays one: after it the peer sends nothing.
LEMMA EndsPreserved ==
    ASSUME IInv, Next
    PROVE  EndIsTheEnd'
<1>0. /\ result \in [Threads -> Results] /\ ended \in BOOLEAN /\ inputShut \in BOOLEAN
      /\ \A t \in Threads : result[t].kind = "eof" /\ ~inputShut => ended /\ result[t].at = arrived
  BY ZenonT(60) DEF IInv, TypeOK, DataTypes, FlagTypes, EndIsTheEnd
<1>1. ASSUME NEW t \in Threads, Answers(t)
      PROVE  EndIsTheEnd'
  <2>1. PICK kind, bytes : Answered(t, kind, bytes)
    BY <1>1 DEF Answers
  <2> DEFINE r == [op |-> call[t].op, kind |-> kind, bytes |-> bytes, at |-> Len(got)]
  <2>2. UNCHANGED <<arrived, ended, inputShut>> /\ result' = [result EXCEPT ![t] = r]
    BY <2>1, ZenonT(60) DEF Answered, Return, Returned, network, config
  <2>3. kind = "eof" => inputShut \/ (ended /\ Len(got) = arrived)
    BY <2>1, ZenonT(60) DEF Answered
  <2>4. r.kind = kind /\ r.at = Len(got)
    BY ZenonT(60)
  <2> HIDE DEF r
  <2>5. \A u \in Threads : result'[u] = IF u = t THEN r ELSE result[u]
    BY <1>0, <2>2, ZenonT(60)
  <2> QED
    BY <1>0, <2>2, <2>3, <2>4, <2>5, ZenonT(60) DEF EndIsTheEnd
<1>2. ASSUME UNCHANGED <<result, arrived>>, ended => ended', inputShut => inputShut'
      PROVE  EndIsTheEnd'
  BY <1>0, <1>2, ZenonT(60) DEF EndIsTheEnd
<1>3. ASSUME NEW t \in Threads, Moves(t)
      PROVE  EndIsTheEnd'
  <2>1. UNCHANGED inputShut
    BY <1>3, ZenonT(60) DEF Moves, Start, Lock, EnterReadTcp, ReadNothing, Ready, Block, config
  <2> QED
    BY <1>2, <1>3, <2>1, MovesAreSilent, ZenonT(60) DEF Silent
<1>4. ASSUME NEW t \in Threads, Sets(t)
      PROVE  EndIsTheEnd'
  <2>1. inputShut => inputShut'
    BY <1>4, ZenonT(60) DEF Sets, Duplicate, Close, SetNonblocking, SetTimeout, Shutdown
  <2> QED
    BY <1>2, <1>4, <2>1, MovesAreSilent, ZenonT(60) DEF Silent
<1>5. CASE PeerSends
  <2>1. ~ended /\ UNCHANGED <<result, inputShut>>
    BY <1>5, ZenonT(60) DEF PeerSends, config
  <2> QED
    BY <1>0, <2>1 DEF EndIsTheEnd
<1>6. CASE PeerCloses
  BY <1>2, <1>6, ZenonT(60) DEF PeerCloses, config
<1> QED
  BY <1>1, <1>3, <1>4, <1>5, <1>6, StepCases, ZenonT(60)

\* tcpDuplicate and tcpClose keep the count of the handles exact.
LEMMA ReferencesPreserved ==
    ASSUME IInv, Next
    PROVE  ReferencesExact'
<1>0. /\ ReferencesExact /\ handles \in [Threads -> Nat] /\ pc \in [Threads -> PCs]
      /\ open \in BOOLEAN
  BY ZenonT(60) DEF IInv, TypeOK, FlagTypes, CallTypes
<1>1. ASSUME UNCHANGED <<handles, references, open>>,
             \A t \in Threads : pc'[t] # "idle" => handles[t] > 0
      PROVE  ReferencesExact'
  <2>1. Clones' = Clones
    BY <1>1, ZenonT(60) DEF Clones
  <2> QED
    BY <1>0, <1>1, <2>1, ZenonT(60) DEF ReferencesExact
<1>2. ASSUME NEW t \in Threads, Answers(t)
      PROVE  ReferencesExact'
  <2>1. UNCHANGED <<handles, references, open>> /\ pc' = [pc EXCEPT ![t] = "idle"]
    BY <1>2, ZenonT(60) DEF Answers, Answered, Return, config
  <2> QED
    BY <1>0, <1>1, <2>1, ZenonT(60) DEF ReferencesExact
<1>3. ASSUME NEW t \in Threads, Moves(t)
      PROVE  ReferencesExact'
  <2>1. UNCHANGED <<handles, references, open>>
    BY <1>3, ZenonT(60) DEF Moves, Start, Lock, EnterReadTcp, ReadNothing, Ready, Block, config
  <2>2. handles[t] > 0 /\ \E p \in PCs : pc' = [pc EXCEPT ![t] = p]
    BY <1>0, <1>3, ZenonT(60) DEF Moves, Start, Begin, Lock, EnterReadTcp, ReadNothing, Ready, Block, PCs,
       ReferencesExact
  <2>3. \A u \in Threads : pc'[u] # "idle" => handles[u] > 0
    BY <1>0, <2>2, ZenonT(60) DEF ReferencesExact
  <2> QED
    BY <1>1, <2>1, <2>3, ZenonT(60)
<1>4. ASSUME NEW t \in Threads, NEW u \in Threads, Duplicate(t, u)
      PROVE  ReferencesExact'
  <2> DEFINE c == <<u, handles[u] + 1>>
  <2>1. /\ references' = references + 1 /\ open' = open /\ open /\ pc' = pc
        /\ handles' = [handles EXCEPT ![u] = handles[u] + 1]
    BY <1>4, ZenonT(60) DEF Duplicate, Counted
  <2>2. c \notin Clones /\ \A d : d \in Clones' <=> d \in Clones \/ d = c
    <3>1. handles[u] \in Nat /\ \A v \in Threads : handles'[v] = IF v = u THEN handles[u] + 1 ELSE handles[v]
      BY <1>0, <2>1, ZenonT(60)
    <3>2. c \notin Clones
      BY <3>1 DEF Clones
    <3>3. ASSUME NEW d \in Threads \X (Nat \ {0})
          PROVE  d[2] <= handles'[d[1]] <=> d[2] <= handles[d[1]] \/ d = c
      <4>1. d = <<d[1], d[2]>> /\ d[1] \in Threads /\ d[2] \in Nat /\ handles[d[1]] \in Nat
        BY <1>0
      <4> QED
        BY <3>1, <4>1
    <3>4. c \in Threads \X (Nat \ {0})
      BY <3>1
    <3> HIDE DEF c
    <3> QED
      BY <3>2, <3>3, <3>4, ZenonT(60) DEF Clones
  <2>3. Clones' = Clones \cup {c}
    BY <2>2, ZenonT(60)
  <2>4. IsFiniteSet(Clones') /\ Cardinality(Clones') = Cardinality(Clones) + 1
    BY <1>0, <2>2, <2>3, FS_AddElement, ZenonT(60) DEF ReferencesExact
  <2>5. Cardinality(Clones) \in Nat
    BY <1>0, FS_CardinalityType, ZenonT(60) DEF ReferencesExact
  <2>6. \A v \in Threads : pc'[v] # "idle" => handles'[v] > 0
    BY <1>0, <2>1 DEF ReferencesExact
  <2> QED
    BY <1>0, <2>1, <2>4, <2>5, <2>6 DEF ReferencesExact
<1>5. ASSUME NEW t \in Threads, Close(t)
      PROVE  ReferencesExact'
  <2> DEFINE c == <<t, handles[t]>>
  <2>1. /\ references' = references - 1 /\ open' = (open /\ references' # 0)
        /\ handles' = [handles EXCEPT ![t] = handles[t] - 1]
        /\ pc' = pc /\ pc[t] = "idle" /\ handles[t] > 0
    BY <1>5, ZenonT(60) DEF Close, Begin
  <2>2. c \in Clones /\ \A d : d \in Clones' <=> d \in Clones /\ d # c
    <3>1. handles[t] \in Nat /\ \A v \in Threads : handles'[v] = IF v = t THEN handles[t] - 1 ELSE handles[v]
      BY <1>0, <2>1, ZenonT(60)
    <3>2. c \in Clones
      BY <2>1, <3>1 DEF Clones
    <3>3. ASSUME NEW d \in Threads \X (Nat \ {0})
          PROVE  d[2] <= handles'[d[1]] <=> d[2] <= handles[d[1]] /\ d # c
      <4>1. d = <<d[1], d[2]>> /\ d[1] \in Threads /\ d[2] \in Nat /\ handles[d[1]] \in Nat
        BY <1>0
      <4> QED
        BY <3>1, <4>1
    <3> HIDE DEF c
    <3> QED
      BY <3>2, <3>3, ZenonT(60) DEF Clones
  <2>3. Clones' = Clones \ {c}
    BY <2>2, ZenonT(60)
  <2>4. IsFiniteSet(Clones') /\ Cardinality(Clones') = Cardinality(Clones) - 1
    BY <1>0, <2>2, <2>3, FS_RemoveElement, ZenonT(60) DEF ReferencesExact
  <2>5. Cardinality(Clones) \in Nat /\ Cardinality(Clones) # 0
    BY <1>0, <2>2, FS_CardinalityType, FS_EmptySet DEF ReferencesExact
  <2>6. \A v \in Threads : pc'[v] # "idle" => handles'[v] > 0
    BY <1>0, <2>1, ZenonT(60) DEF ReferencesExact
  <2> QED
    BY <1>0, <2>1, <2>4, <2>5, <2>6, ZenonT(60) DEF ReferencesExact
<1>6. ASSUME NEW t \in Threads, SetNonblocking(t) \/ SetTimeout(t) \/ Shutdown(t)
      PROVE  ReferencesExact'
  <2>1. UNCHANGED <<handles, references, open, pc>>
    BY <1>6, ZenonT(60) DEF SetNonblocking, SetTimeout, Shutdown
  <2> QED
    BY <1>0, <1>1, <2>1, ZenonT(60) DEF ReferencesExact
<1>7. CASE PeerSends \/ PeerCloses
  <2>1. UNCHANGED <<handles, references, open, pc>>
    BY <1>7, ZenonT(60) DEF PeerSends, PeerCloses, config
  <2> QED
    BY <1>0, <1>1, <2>1, ZenonT(60) DEF ReferencesExact
<1> QED
  BY <1>2, <1>3, <1>4, <1>5, <1>6, <1>7, StepCases, ZenonT(60) DEF Sets

\* The invariant holds in every reachable state.
LEMMA Inductive == Spec => []IInv
<1>1. ASSUME IInv, UNCHANGED vars
      PROVE  IInv'
  <2>1. UNCHANGED <<arrived, ended, taken, peeked, open, references, nonblocking, timed, inputShut,
                    handles, lock, pc, call, result, calls, got>>
    BY <1>1, ZenonT(60) DEF vars, network, state, config
  <2>2. TypeOK'
    BY <1>1, <2>1, ZenonT(60) DEF IInv, TypeOK, DataTypes, FlagTypes, CallTypes
  <2>3. Accounted' /\ Guarded' /\ Shown' /\ EndIsTheEnd'
    BY <1>1, <2>1, ZenonT(60) DEF IInv, Accounted, Guarded, Shown, EndIsTheEnd
  <2>4. ReferencesExact'
    <3>1. Clones' = Clones
      BY <2>1, ZenonT(60) DEF Clones
    <3> QED
      BY <1>1, <2>1, <3>1, ZenonT(60) DEF IInv, ReferencesExact
  <2> QED
    BY <2>2, <2>3, <2>4, ZenonT(60) DEF IInv
<1>2. ASSUME IInv, Next
      PROVE  IInv'
  BY <1>2, TypePreserved, AccountedPreserved, GuardedPreserved, ShownPreserved, EndsPreserved,
     ReferencesPreserved, ZenonT(60) DEF IInv
<1> QED
  BY <1>1, <1>2, InitIInv, PTL DEF Spec

-----------------------------------------------------------------------------
(* The theorems.                                                           *)

\* A sequence that holds m + 1, m + 2, .. is that part of the stream.
LEMMA IsStreamPart ==
    ASSUME NEW b \in Seq(Nat), NEW m \in Nat, m + Len(b) <= Total,
           \A i \in 1 .. Len(b) : b[i] = m + i
    PROVE  b = SubSeq(Stream, m + 1, m + Len(b))
<1>1. Len(b) \in Nat
  BY LenProperties, ZenonT(60)
<1>2. /\ SubSeq(Stream, m + 1, m + Len(b)) \in Seq(Nat)
      /\ Len(SubSeq(Stream, m + 1, m + Len(b))) = Len(b)
      /\ \A i \in 1 .. Len(b) : SubSeq(Stream, m + 1, m + Len(b))[i] = m + i
  BY <1>1, StreamPart, ZenonT(60)
<1> DEFINE s == SubSeq(Stream, m + 1, m + Len(b))
<1> HIDE DEF s
<1>3. s \in Seq(Nat) /\ Len(s) = Len(b) /\ \A i \in 1 .. Len(b) : s[i] = b[i]
  BY <1>2 DEF s
<1>4. b = s
  BY <1>3, SeqEqual, ZenonT(60)
<1> QED
  BY <1>4, ZenonT(60) DEF s

\* The reads of tcpRead, tcpReadVectored, of every thread and clone together,
\* return the stream from its beginning, whatever peeks, timeouts and
\* would-block errors come between them.
THEOREM ReadsReturnTheStream == Spec => []ReadsAreTheStream
<1>1. ASSUME IInv PROVE ReadsAreTheStream
  <2>1. /\ got \in Seq(Nat) /\ taken <= arrived /\ arrived <= Total
        /\ taken \in Nat /\ arrived \in Nat /\ Total \in Nat
        /\ Len(got) + Len(peeked) = taken /\ peeked \in Seq(Nat)
        /\ \A i \in 1 .. Len(got) : got[i] = i
    BY <1>1, StreamAssumption DEF IInv, TypeOK, DataTypes, Accounted
  <2>2. Len(got) \in Nat /\ Len(peeked) \in Nat
    BY <2>1, LenProperties, ZenonT(60)
  <2>3. 0 + Len(got) <= Total /\ \A i \in 1 .. Len(got) : got[i] = 0 + i
    BY <2>1, <2>2
  <2>4. got = SubSeq(Stream, 0 + 1, 0 + Len(got))
    BY <2>1, <2>3, IsStreamPart, ZenonT(60)
  <2>5. 0 + 1 = 1 /\ 0 + Len(got) = Len(got)
    BY <2>2
  <2> QED
    BY <2>4, <2>5, ZenonT(60) DEF ReadsAreTheStream
<1> QED
  BY <1>1, Inductive, PTL

\* What tcpPeek returned is the part of the stream that the next read starts
\* with.
THEOREM PeeksShowTheNextBytes == Spec => []PeekShowsNext
<1>1. ASSUME IInv PROVE PeekShowsNext
  <2>1. SUFFICES ASSUME NEW t \in Threads, result[t].op = "peek"
                 PROVE  result[t].bytes =
                          SubSeq(Stream, result[t].at + 1, result[t].at + Len(result[t].bytes))
    BY DEF PeekShowsNext
  <2>2. /\ result[t].bytes \in Seq(Nat) /\ result[t].at \in Nat
        /\ arrived \in Nat /\ Total \in Nat /\ arrived <= Total
    BY <1>1, StreamAssumption DEF IInv, TypeOK, DataTypes, Results
  <2>3. /\ result[t].at + Len(result[t].bytes) <= arrived
        /\ \A i \in 1 .. Len(result[t].bytes) : result[t].bytes[i] = result[t].at + i
    BY <1>1, <2>1, ZenonT(60) DEF IInv, Shown
  <2>4. result[t].at + Len(result[t].bytes) <= Total
    BY <2>2, <2>3, LenProperties
  <2> QED
    BY <2>2, <2>3, <2>4, IsStreamPart, ZenonT(60)
<1> QED
  BY <1>1, Inductive, PTL

\* channel.read answers -1 to a call only where the stream ends, or after the
\* program shut its reading side down.
THEOREM EndsAreReal == Spec => []EndIsTheEnd
<1>1. IInv => EndIsTheEnd
  BY ZenonT(60) DEF IInv
<1> QED
  BY <1>1, Inductive, PTL

\* tcpClose closes the channel with the last clone and not before, so that no
\* call of another thread finds it closed: the references of TcpState are
\* exactly the Rust handles.
THEOREM OpenExactlyWhileOwned == Spec => []OpenWhileOwned
<1>1. ASSUME IInv PROVE OpenWhileOwned
  <2>1. ReferencesExact /\ handles \in [Threads -> Nat]
    BY <1>1, ZenonT(60) DEF IInv, TypeOK, FlagTypes
  <2>2. references # 0 <=> Clones # {}
    BY <2>1, FS_EmptySet, ZenonT(60) DEF ReferencesExact
  <2>3. Clones # {} <=> \E t \in Threads : handles[t] > 0
    <3>1. ASSUME NEW t \in Threads, handles[t] > 0
          PROVE  <<t, 1>> \in Clones
      BY <2>1, <3>1 DEF Clones
    <3>2. ASSUME NEW c \in Clones
          PROVE  c[1] \in Threads /\ handles[c[1]] > 0
      BY <2>1 DEF Clones
    <3> QED
      BY <3>1, <3>2, ZenonT(60)
  <2> QED
    BY <2>1, <2>2, <2>3, ZenonT(60) DEF ReferencesExact, OpenWhileOwned
<1> QED
  BY <1>1, Inductive, PTL
=============================================================================

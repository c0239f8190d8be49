----------------------------- MODULE TcpStream -----------------------------
(***************************************************************************)
(* The receiving side of a TCP stream: src/runtime/src/NetworkSupport.java *)
(* under std/overlay/std/src/sys/net/connection/jvm.rs.  A Rust TcpStream  *)
(* is a number; try_clone returns the same number and counts a reference.  *)
(* Channels are always nonblocking underneath: a blocking call waits in a  *)
(* selector, holding the stream's readLock.  peek() takes bytes out of the *)
(* channel and keeps them for the next read.                               *)
(*                                                                         *)
(* One stream; the peer sends the bytes 1, 2, .. Total, and may close.      *)
(* Reads and peeks differ, vectored reads are reads.                       *)
(***************************************************************************)
EXTENDS Integers, Sequences, SequencesExt, FiniteSetsExt

CONSTANTS
    Threads,      \* threads of the Rust program
    Total,         \* how many bytes the peer sends
    MaxLength,    \* bound on the length of a buffer
    MaxHandles,   \* bound on the clones of the stream
    MaxCalls,     \* bound on the calls of the program
    NoThread

ASSUME StreamAssumption ==
    /\ Total \in Nat /\ MaxLength \in Nat \ {0} /\ MaxHandles \in Nat /\ MaxCalls \in Nat
    /\ NoThread \notin Threads

VARIABLES
    arrived,      \* bytes the peer has sent
    ended,        \* the peer closed its side
    taken,        \* bytes read out of the channel
    inputShut,    \* shutdownInput was called
    peeked,       \* TcpState.peeked, from peekOffset, peekLength bytes
    open,         \* channel.isOpen(), and the entry in TCP_STREAMS
    references,   \* TcpState.references
    nonblocking,  \* TcpState.nonblocking
    timed,        \* TcpState.readTimeout.enabled
    lock,         \* who holds readLock
    handles,      \* the Rust handles each thread owns
    pc,           \* idle, lock, peekbuffer, channel, nothing, wait
    call,         \* the call a thread is in: operation, length, budget
    result,       \* what its last call returned
    calls,        \* calls begun so far
    got           \* ghost: everything reads returned, in readLock order

network == <<arrived, ended>>
state == <<taken, peeked>>
config == <<open, references, nonblocking, timed, inputShut, handles>>
vars == <<network, state, config, lock, pc, call, result, calls, got>>

Ops == {"read", "peek"}
Stream == [i \in 1 .. Total |-> i]
NoCall == [op |-> "read", length |-> 1, budget |-> FALSE]
Returned(t, kind, bytes) ==
    [result EXCEPT ![t] = [op |-> call[t].op, kind |-> kind, bytes |-> bytes, at |-> Len(got)]]

Init ==
    /\ arrived = 0 /\ ended = FALSE /\ taken = 0 /\ inputShut = FALSE
    /\ peeked = <<>>
    /\ open = TRUE /\ references = 1
    /\ nonblocking = FALSE /\ timed \in BOOLEAN
    /\ lock = NoThread
    /\ handles \in {[t \in Threads |-> IF t = u THEN 1 ELSE 0] : u \in Threads}
    /\ pc = [t \in Threads |-> "idle"]
    /\ call = [t \in Threads |-> NoCall]
    /\ result = [t \in Threads |-> [op |-> "none", kind |-> "none", bytes |-> <<>>, at |-> 0]]
    /\ calls = 0 /\ got = <<>>

-----------------------------------------------------------------------------
(* tcpRead, tcpReadVectored and tcpPeek. *)

Begin(t) == pc[t] = "idle" /\ handles[t] > 0 /\ calls < MaxCalls /\ calls' = calls + 1

\* Until readLock is asked for; a length of 0 returns at once.  A call holds
\* a handle, so the channel is open throughout (OpenWhileOwned).
Start(t) ==
    /\ Begin(t)
    /\ \E op \in Ops, n \in 1 .. MaxLength :
          call' = [call EXCEPT ![t] = [op |-> op, length |-> n, budget |-> FALSE]]
    /\ pc' = [pc EXCEPT ![t] = "lock"]
    /\ UNCHANGED <<network, state, config, lock, result, got>>

\* synchronized (state.readLock)
Lock(t) ==
    /\ pc[t] = "lock" /\ lock = NoThread
    /\ lock' = t
    /\ pc' = [pc EXCEPT ![t] = "peekbuffer"]
    /\ UNCHANGED <<network, state, config, call, result, calls, got>>

Prefix(s, n) == SubSeq(s, 1, Min({n, Len(s)}))
Rest(s, n) == SubSeq(s, n + 1, Len(s))

\* Mutant: a read does not look at the bytes a peek has taken.
PeekOnly(t) == call[t].op = "peek" /\ peeked # <<>>
FromPeeked(t) == peeked # <<>>

\* Mutant: a partial read drops the rest of the peeked bytes.
DropRest(s, n) == <<>>
Kept(s, n) == Rest(s, n)

\* Unlock and return; a read adds to what the program got.
Return(t, kind, bytes) ==
    /\ lock' = NoThread
    /\ pc' = [pc EXCEPT ![t] = "idle"]
    /\ result' = Returned(t, kind, bytes)
    /\ got' = IF call[t].op = "read" THEN got \o bytes ELSE got
    /\ UNCHANGED <<network, config, call, calls>>

\* copyPeeked: the call is answered from the peeked bytes, which a read uses up.
CopyPeeked(t) ==
    LET bytes == Prefix(peeked, call[t].length)
    IN  /\ pc[t] = "peekbuffer" /\ FromPeeked(t)
        /\ peeked' = IF call[t].op = "read" THEN Kept(peeked, Len(bytes)) ELSE peeked
        /\ Return(t, "data", bytes)
        /\ UNCHANGED taken

\* Otherwise readTcp, which starts the wait budget.
EnterReadTcp(t) ==
    /\ pc[t] = "peekbuffer" /\ ~FromPeeked(t)
    /\ pc' = [pc EXCEPT ![t] = "channel"]
    /\ call' = [call EXCEPT ![t].budget = timed]
    /\ UNCHANGED <<network, state, config, lock, result, calls, got>>

Available == ~inputShut /\ taken < arrived
AtEnd == inputShut \/ (ended /\ taken = arrived)

\* Mutant: the bytes of a peek are not put back.
NoBuffer(t, bytes) == peeked
Buffered(t, bytes) == IF call[t].op = "peek" THEN bytes ELSE peeked

\* channel.read returns some of what has arrived ...
ReadChannel(t) ==
    /\ pc[t] = "channel" /\ open /\ Available
    /\ \E n \in 1 .. Min({call[t].length, arrived - taken}) :
          LET bytes == SubSeq(Stream, taken + 1, taken + n)
          IN  /\ taken' = taken + n
              /\ peeked' = Buffered(t, bytes)
              /\ Return(t, "data", bytes)
\* ... or -1 ...
ReadEnd(t) ==
    /\ pc[t] = "channel" /\ open /\ AtEnd
    /\ Return(t, "eof", <<>>)
    /\ UNCHANGED state
\* ... or nothing;
ReadNothing(t) ==
    /\ pc[t] = "channel" /\ open /\ ~Available /\ ~AtEnd
    /\ pc' = [pc EXCEPT ![t] = "nothing"]
    /\ UNCHANGED <<network, state, config, lock, call, result, calls, got>>
\* then a nonblocking stream says so and another waits.
Block(t) ==
    /\ pc[t] = "nothing"
    /\ \/ /\ nonblocking
          /\ Return(t, "wouldblock", <<>>)
       \/ /\ ~nonblocking
          /\ pc' = [pc EXCEPT ![t] = "wait"]
          /\ UNCHANGED <<network, config, lock, call, result, calls, got>>
    /\ UNCHANGED state
\* await: select returns when the channel is ready, which may be a while
\* after it is, ...
Ready(t) ==
    /\ pc[t] = "wait" /\ (Available \/ AtEnd)
    /\ pc' = [pc EXCEPT ![t] = "channel"]
    /\ UNCHANGED <<network, state, config, lock, call, result, calls, got>>
\* Mutant: a timed wait goes on.
NeverExpires(t) == FALSE
Expires(t) == call[t].budget
\* ... or the budget is used up, even as data arrives.
TimeOut(t) ==
    /\ pc[t] = "wait" /\ Expires(t)
    /\ Return(t, "timeout", <<>>)
    /\ UNCHANGED state
\* channel.read or the selector throws an IOException (the peer reset the
\* connection, the system is out of descriptors), which leaves the call as it
\* stands; whether the next call fails too is left open.
ReadFails(t) ==
    /\ pc[t] \in {"channel", "wait"}
    /\ Return(t, "error", <<>>)
    /\ UNCHANGED state

-----------------------------------------------------------------------------
(* The other calls, the program's threads and the peer. *)

\* Mutant: a clone is not counted.
Uncounted(n) == n
Counted(n) == n + 1

\* tcpDuplicate; the clone may be handed to another thread.
Duplicate(t, u) ==
    /\ Begin(t) /\ open /\ references < MaxHandles
    /\ references' = Counted(references)
    /\ handles' = [handles EXCEPT ![u] = @ + 1]
    /\ UNCHANGED <<network, state, open, nonblocking, timed, inputShut, lock, pc, call, result, got>>

\* tcpClose, by the drop of one handle.
Close(t) ==
    /\ Begin(t)
    /\ references' = references - 1
    /\ open' = (open /\ references' # 0)
    /\ handles' = [handles EXCEPT ![t] = @ - 1]
    /\ UNCHANGED <<network, state, nonblocking, timed, inputShut, lock, pc, call, result, got>>

\* tcpSetNonblocking and tcpSetTimeout, which ask for no lock.
SetNonblocking(t) ==
    /\ Begin(t)
    /\ nonblocking' = ~nonblocking
    /\ UNCHANGED <<network, state, open, references, timed, inputShut, handles, lock, pc, call, result, got>>
SetTimeout(t) ==
    /\ Begin(t)
    /\ timed' = ~timed
    /\ UNCHANGED <<network, state, open, references, nonblocking, inputShut, handles, lock, pc, call, result, got>>

\* tcpShutdown of the reading side.
Shutdown(t) ==
    /\ Begin(t) /\ open
    /\ inputShut' = TRUE
    /\ UNCHANGED <<network, state, open, references, nonblocking, timed, handles, lock, pc, call, result, got>>

PeerSends ==
    /\ arrived < Total /\ ~ended
    /\ arrived' = arrived + 1
    /\ UNCHANGED <<ended, state, config, lock, pc, call, result, calls, got>>
PeerCloses ==
    /\ ~ended
    /\ ended' = TRUE
    /\ UNCHANGED <<arrived, state, config, lock, pc, call, result, calls, got>>

Progress(t) ==
    \/ Lock(t) \/ CopyPeeked(t) \/ EnterReadTcp(t)
    \/ ReadChannel(t) \/ ReadEnd(t) \/ ReadNothing(t) \/ Block(t)
    \/ Ready(t) \/ TimeOut(t)

Next ==
    \/ \E t \in Threads :
          Progress(t) \/ ReadFails(t) \/ Start(t) \/ (\E u \in Threads : Duplicate(t, u))
            \/ Close(t) \/ SetNonblocking(t) \/ SetTimeout(t) \/ Shutdown(t)
    \/ PeerSends \/ PeerCloses

Spec == Init /\ [][Next]_vars

\* A thread in a call is scheduled, a monitor that is free is granted, and
\* time passes; neither the peer nor the program has to do anything.
FairSpec == Spec /\ \A t \in Threads : WF_vars(Progress(t))

-----------------------------------------------------------------------------
(* Properties. *)

\* What the reads of all threads and clones return, put together, is the
\* stream from its beginning: nothing lost, repeated or out of order, with
\* any peeks, timeouts, would-block and other errors in between.
ReadsAreTheStream == got = SubSeq(Stream, 1, Len(got))

\* A peek shows the bytes the next read will return.
PeekShowsNext ==
    \A t \in Threads :
        LET r == result[t]
        IN  r.op = "peek" => r.bytes = SubSeq(Stream, r.at + 1, r.at + Len(r.bytes))

\* End of file is reported only when everything the peer sent was read, or
\* the program shut the reading side down itself.
EndIsTheEnd ==
    \A t \in Threads :
        result[t].kind = "eof" /\ ~inputShut => ended /\ result[t].at = arrived

\* The channel is open exactly as long as somebody owns a clone: a drop on
\* one thread never closes the stream another one reads from.
OpenWhileOwned ==
    /\ open <=> \E t \in Threads : handles[t] > 0
    /\ \A t \in Threads : pc[t] # "idle" => open

\* While the stream has a read timeout, every call returns, whoever holds readLock.
TimedCallsReturn ==
    []timed => \A t \in Threads : (pc[t] # "idle") ~> (pc[t] = "idle")
=============================================================================

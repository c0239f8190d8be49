--------------------------- MODULE ThreadContract ---------------------------
(***************************************************************************)
(* What Threads promises to Rust code, without records, locks or handlers: *)
(* a thread runs once, its handle is released once, and the throwable that *)
(* ended its body is delivered once, never before the handle is released.  *)
(***************************************************************************)
EXTENDS Integers

CONSTANT Ids

VARIABLES
    body,       \* "none", "running", "returned" or "threw"
    handle,     \* "none", "held" or "released"
    delivered   \* how often the throwable was thrown by join or reported

vars == <<body, handle, delivered>>

Init ==
    /\ body = [i \in Ids |-> "none"]
    /\ handle = [i \in Ids |-> "none"]
    /\ delivered = [i \in Ids |-> 0]

Start(i) ==
    /\ body[i] = "none" /\ handle[i] = "none"
    /\ body' = [body EXCEPT ![i] = "running"]
    /\ handle' = [handle EXCEPT ![i] = "held"]
    /\ UNCHANGED delivered

End(i) ==
    /\ body[i] = "running"
    /\ \E how \in {"returned", "threw"} : body' = [body EXCEPT ![i] = how]
    /\ UNCHANGED <<handle, delivered>>

\* The owner calls join or drops the handle.
Release(i) ==
    /\ handle[i] = "held"
    /\ handle' = [handle EXCEPT ![i] = "released"]
    /\ UNCHANGED <<body, delivered>>

Deliver(i) ==
    /\ body[i] = "threw" /\ handle[i] = "released" /\ delivered[i] = 0
    /\ delivered' = [delivered EXCEPT ![i] = 1]
    /\ UNCHANGED <<body, handle>>

Next == \E i \in Ids : Start(i) \/ End(i) \/ Release(i) \/ Deliver(i)

Spec == Init /\ [][Next]_vars
=============================================================================

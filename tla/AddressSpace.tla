---------------------------- MODULE AddressSpace ----------------------------
(***************************************************************************)
(* The synthetic address space of src/runtime/src/Pointer.java.  A JVM     *)
(* object has no address, so the runtime hands out numbers: an allocation  *)
(* gets a base when somebody first asks for it, address() exposes a        *)
(* pointer (and keeps its allocation alive), encodedAddress() writes one   *)
(* into storage, and fromAddress() turns a number back into a pointer.     *)
(*                                                                         *)
(* A step is one call; the tables are guarded by the monitor ALLOCATIONS.  *)
(* The caches ALLOCATION_BASE_CACHE and PUBLISHED_ALLOCATION_BASE_CACHE    *)
(* repeat AllocationInfo.base and are emptied by deallocateBytes, so here  *)
(* they are that field.  A pointer derived from another (addressOrigin)    *)
(* takes its address from the origin and is a carrier of the same object.  *)
(* Pointers stay within their allocation or one past its end.              *)
(***************************************************************************)
EXTENDS Integers, FiniteSets, FiniteSetsExt

CONSTANTS
    Heap,          \* byte arrays of allocateBytes, owned until deallocated
    Cells,         \* other storage: fields, locals, boxed values
    ZeroSized,     \* backings retype invents for a typed zero-sized view
    NoAllocation,  \* Java null
    Carriers,      \* Pointer objects
    Capacity,      \* bytes of each allocation
    Alignment,     \* alignment each allocation asks for
    ZstAddresses,  \* dangling addresses the program uses for zero-sized values
    FirstAddress,  \* the initial NEXT_ADDRESS
    Programs,      \* the sets of allocations a program uses
    Erasable,      \* allocations that get an erased trait-object address
    Codable,       \* allocations whose pointers may be encoded with a codec
    MaxAddress,    \* bound on NEXT_ADDRESS
    MaxTokens      \* bound on the tokens of erasedAddress

Allocations == Heap \cup Cells \cup ZeroSized
NoAddress == -1

ASSUME CapacityAssumption ==
    /\ NoAllocation \notin Allocations
    /\ (Heap \cup Cells) \cap ZeroSized = {}
    /\ FirstAddress \in Nat /\ MaxAddress \in Nat
    /\ \A a \in Allocations : Capacity[a] \in Nat /\ Alignment[a] \in Nat \ {0}
    /\ \A z \in ZeroSized : Capacity[z] = 0
    /\ \A x \in ZstAddresses : x \in 1 .. FirstAddress - 1

VARIABLES
    next,      \* NEXT_ADDRESS
    status,    \* unborn, live, freed (deallocateBytes) or collected
    info,      \* ALLOCATIONS: base, alignment, rangePublished
    exposed,   \* EXPOSED_ADDRESSES: [address, alloc, offset], one per address
    reverse,   \* ALLOCATION_EXPOSED_ADDRESSES: <<alloc, address>>
    ranges,    \* ALLOCATION_RANGES: [base, alloc], one per base, weak
    typedExposed,\* TYPED_EXPOSED_ADDRESSES for the codec of the pointers: as
               \* exposed, but each target is held weakly
    carrier,   \* the Pointer objects the program holds
    encoded,   \* allocations retained by storage that holds their address
    issued,    \* ghost: the extents allocateAddress handed out
    returned,  \* ghost: <<alloc, address>> returned by address(), until freed
    coded      \* ghost: allocations that were encoded with a codec

tables == <<info, exposed, reverse, ranges, typedExposed>>
vars == <<next, status, tables, carrier, encoded, issued, returned, coded>>

NoInfo == [base |-> NoAddress, alignment |-> 16, published |-> FALSE]
Fresh(a, off) == [alloc |-> a, offset |-> off, address |-> NoAddress,
                  target |-> FALSE, token |-> NoAddress]
NoCarrier == Fresh(NoAllocation, 0)

Addresses == {NoAddress} \cup 1 .. MaxAddress

TypeOK ==
    /\ next \in FirstAddress .. MaxAddress
    /\ status \in [Allocations -> {"unborn", "live", "freed", "collected"}]
    /\ info \in [Allocations -> [base : Addresses, alignment : Nat, published : BOOLEAN]]
    /\ \A t \in exposed \cup typedExposed : t.address \in Addresses /\ t.alloc \in Allocations
    /\ \A r \in ranges : r.base \in Addresses /\ r.alloc \in Allocations
    /\ \A p \in Carriers : carrier[p].address \in Addresses
    /\ Cardinality({t.address : t \in exposed}) = Cardinality(exposed)
    /\ Cardinality({t.address : t \in typedExposed}) = Cardinality(typedExposed)
    /\ Cardinality({r.base : r \in ranges}) = Cardinality(ranges)

-----------------------------------------------------------------------------
(* Handing out addresses. *)

RoundUp(n, to) == ((n + to - 1) \div to) * to

\* Mutant: no room for the one-past-the-end address.
TightSpan(a) == Max({16, RoundUp(Capacity[a], 16)})
Span(a) == Max({16, RoundUp(Capacity[a] + 1, 16)})

\* allocateAddress, for an allocation whose span is known.
Aligned(alignment) == RoundUp(next, alignment)

Base(a) == IF info[a].base # NoAddress THEN info[a].base ELSE Aligned(info[a].alignment)

\* The effect of allocationBase on the counter; the new info is the caller's.
TakeBase(a) ==
    IF Base(a) = info[a].base
    THEN UNCHANGED <<next, issued>>
    ELSE /\ Base(a) + Span(a) <= MaxAddress
         /\ next' = Base(a) + Span(a)
         /\ issued' = issued \cup {[lo |-> Base(a), hi |-> Base(a) + Capacity[a]]}

\* discardCollectedAllocationRanges: a range whose allocation is gone goes.
Current(rs) == {r \in rs : status[r.alloc] # "collected"}

\* publishAllocationRange, with allocationBase inside it.
Published(a) ==
    IF info[a].published
    THEN Current(ranges)
    ELSE {r \in Current(ranges) : r.base # Base(a)} \cup {[base |-> Base(a), alloc |-> a]}
PublishRange(a) ==
    /\ TakeBase(a)
    /\ ranges' = Published(a)
    /\ info' = [info EXCEPT ![a].base = Base(a), ![a].published = TRUE]

\* Mutant: the allocation that held the address before keeps its entry.
RegisterOnly(x, a, off) ==
    /\ exposed' = {t \in exposed : t.address # x}
                     \cup {[address |-> x, alloc |-> a, offset |-> off]}
    /\ reverse' = reverse \cup {<<a, x>>}
\* registerExposedTarget: the table and the index by allocation move together.
Register(x, a, off) ==
    /\ exposed' = {t \in exposed : t.address # x}
                     \cup {[address |-> x, alloc |-> a, offset |-> off]}
    /\ reverse' = {e \in reverse : e[2] # x} \cup {<<a, x>>}

-----------------------------------------------------------------------------
(* Turning a number back into an allocation: fromAddress. *)

Floor(x) == {r \in Current(ranges) : r.base <= x
                /\ \A s \in Current(ranges) : s.base <= x => s.base <= r.base}
\* Mutant: the capacity of the range is not looked at.
AnyFloor(x) == {[alloc |-> r.alloc, offset |-> x - r.base] : r \in Floor(x)}
WithinFloor(x) ==
    {[alloc |-> r.alloc, offset |-> x - r.base] :
        r \in {s \in Floor(x) : x - s.base <= Capacity[s.alloc]}}

Lookup(x) ==
    LET exact == {t \in exposed : t.address = x}
    IN  IF exact # {}
        THEN {[alloc |-> t.alloc, offset |-> t.offset] : t \in exact}
        ELSE WithinFloor(x)

\* typedPointerObjectFromAddress: the codec's own entry first.
TypedLookup(x) ==
    LET exact == {t \in typedExposed : t.address = x}
    IN  IF exact # {}
        THEN {[alloc |-> t.alloc, offset |-> t.offset] : t \in exact}
        ELSE Lookup(x)

-----------------------------------------------------------------------------
(* The calls of the program. *)

Init ==
    /\ next = FirstAddress
    /\ \E used \in Programs :
          status = [a \in Allocations |-> IF a \in used THEN "unborn" ELSE "collected"]
    /\ info = [a \in Allocations |-> NoInfo]
    /\ exposed = {} /\ reverse = {} /\ ranges = {} /\ typedExposed = {}
    /\ carrier = [p \in Carriers |-> NoCarrier]
    /\ encoded = {}
    /\ issued = {} /\ returned = {} /\ coded = {}

Holds(p, a) == carrier[p].alloc = a /\ a # NoAllocation
Promised(a, x) == IF status[a] = "live" THEN returned \cup {<<a, x>>} ELSE returned

\* allocateBytes, or a cell or array carrier; recordAlignment keeps only an
\* alignment above 16.
Allocate(p, a) ==
    /\ a \in Heap \cup Cells
    /\ status[a] = "unborn" /\ carrier[p] = NoCarrier
    /\ status' = [status EXCEPT ![a] = "live"]
    /\ info' = [info EXCEPT ![a].alignment = Max({16, Alignment[a]})]
    /\ carrier' = [carrier EXCEPT ![p] = Fresh(a, 0)]
    /\ UNCHANGED <<next, exposed, reverse, ranges, typedExposed, encoded, issued, returned, coded>>

\* offset, byte_offset, retype of a pointer with provenance: a new carrier.
Derive(p, q) ==
    /\ carrier[p] = NoCarrier /\ carrier[q] # NoCarrier
    /\ \E off \in {0, Capacity[carrier[q].alloc]} :
          carrier' = [carrier EXCEPT ![p] = Fresh(carrier[q].alloc, off)]
    /\ UNCHANGED <<next, status, tables, encoded, issued, returned, coded>>

\* fromAddress of a number nobody answers to, viewed as a typed zero-sized
\* value: retype invents a backing whose base is that number.
DangleZst(p, z, x) ==
    /\ z \in ZeroSized /\ status[z] = "unborn" /\ carrier[p] = NoCarrier
    /\ Lookup(x) = {}
    /\ status' = [status EXCEPT ![z] = "live"]
    /\ info' = [info EXCEPT ![z] = [NoInfo EXCEPT !.base = x, !.alignment = Alignment[z]]]
    /\ ranges' = Current(ranges)
    /\ carrier' = [carrier EXCEPT ![p] = Fresh(z, 0)]
    /\ UNCHANGED <<next, exposed, reverse, typedExposed, encoded, issued, returned, coded>>

\* fromAddress of a number that was handed out.
FromAddress(p, x) ==
    /\ carrier[p] = NoCarrier
    /\ \E hit \in Lookup(x) : carrier' = [carrier EXCEPT ![p] = Fresh(hit.alloc, hit.offset)]
    /\ ranges' = Current(ranges)
    /\ UNCHANGED <<next, status, info, exposed, reverse, typedExposed, encoded, issued, returned, coded>>

\* fromEncodedAddress of a number in storage.
FromEncodedAddress(p, x) ==
    /\ carrier[p] = NoCarrier
    /\ \E hit \in TypedLookup(x) : carrier' = [carrier EXCEPT ![p] = Fresh(hit.alloc, hit.offset)]
    /\ ranges' = IF x \in {t.address : t \in typedExposed \cup exposed} THEN ranges ELSE Current(ranges)
    /\ UNCHANGED <<next, status, info, exposed, reverse, typedExposed, encoded, issued, returned, coded>>

\* addr(): the number without exposing anything.
NumericAddress(p, a) ==
    /\ Holds(p, a) /\ carrier[p].address = NoAddress
    /\ TakeBase(a)
    /\ info' = [info EXCEPT ![a].base = Base(a)]
    /\ UNCHANGED <<status, exposed, reverse, ranges, typedExposed, carrier, encoded, returned, coded>>

\* Mutant: any published address counts as an exposed one.
AnyAddress(p) == carrier[p].address # NoAddress
AlreadyPublished(p) == carrier[p].target

\* address(): exposes the pointer, unless its target was published before.
AddressCached(p, a) ==
    /\ Holds(p, a) /\ AlreadyPublished(p)
    /\ returned' = Promised(a, carrier[p].address)
    /\ UNCHANGED <<next, status, tables, carrier, encoded, issued, coded>>
Address(p, a) ==
    LET x == Base(a) + carrier[p].offset
    IN  /\ Holds(p, a) /\ ~AlreadyPublished(p)
        /\ PublishRange(a)
        /\ Register(x, a, carrier[p].offset)
        /\ carrier' = [carrier EXCEPT ![p].address = x, ![p].target = TRUE]
        /\ returned' = Promised(a, x)
        /\ UNCHANGED <<status, typedExposed, encoded, coded>>

\* registerTypedExposedTarget
RegisterTyped(x, a, off) ==
    typedExposed' = {t \in typedExposed : t.address # x}
                       \cup {[address |-> x, alloc |-> a, offset |-> off]}

\* encodedAddress: with a codec the target is published too, in a table that
\* the index by allocation does not cover; the storage that receives the number
\* retains the allocation.
Encode(p, a, codec) ==
    LET x == Base(a) + carrier[p].offset
    IN  /\ Holds(p, a) /\ (codec => a \in Codable)
        /\ PublishRange(a)
        /\ carrier' = [carrier EXCEPT ![p].address = x, ![p].target = codec \/ @]
        /\ encoded' = encoded \cup {a}
        /\ IF codec
           THEN RegisterTyped(x, a, carrier[p].offset) /\ coded' = coded \cup {a}
           ELSE UNCHANGED <<typedExposed, coded>>
        /\ UNCHANGED <<status, exposed, reverse, returned>>

\* erasedAddress: a token of its own, which keeps the whole target.
Erase(p, a) ==
    LET x == Aligned(16)
    IN  /\ Holds(p, a) /\ a \in Erasable /\ carrier[p].token = NoAddress
        /\ x + 16 <= MaxAddress /\ Cardinality({e \in issued : e.lo = e.hi}) < MaxTokens
        /\ next' = x + 16
        /\ issued' = issued \cup {[lo |-> x, hi |-> x]}
        /\ Register(x, a, carrier[p].offset)
        /\ carrier' = [carrier EXCEPT ![p].token = x]
        /\ UNCHANGED <<status, info, ranges, typedExposed, encoded, returned, coded>>

\* Mutant: only the base address of the allocation is forgotten.
ForgetBase(a) ==
    /\ exposed' = {t \in exposed : ~(t.alloc = a /\ t.address = info[a].base)}
    /\ typedExposed' = {t \in typedExposed : ~(t.alloc = a /\ t.address = info[a].base)}
    /\ reverse' = {e \in reverse : e[1] # a}
\* Every address the index lists is withdrawn from both tables, if it still
\* means this object.
Forget(a) ==
    /\ exposed' = {t \in exposed : ~(<<a, t.address>> \in reverse /\ t.alloc = a)}
    /\ typedExposed' = {t \in typedExposed : ~(<<a, t.address>> \in reverse /\ t.alloc = a)}
    /\ reverse' = {e \in reverse : e[1] # a}

\* deallocateBytes
Deallocate(a) ==
    /\ a \in Heap /\ status[a] = "live"
    /\ status' = [status EXCEPT ![a] = "freed"]
    /\ info' = [info EXCEPT ![a] = NoInfo]
    /\ ranges' = {r \in ranges : ~(info[a].published /\ r.base = info[a].base /\ r.alloc = a)}
    /\ Forget(a)
    /\ returned' = {e \in returned : e[1] # a}
    /\ UNCHANGED <<next, carrier, encoded, issued, coded>>

-----------------------------------------------------------------------------
(* What happens around the calls. *)

\* The program lets go of a carrier, or of the storage that holds encodings.
DropCarrier(p) ==
    /\ carrier[p] # NoCarrier
    /\ carrier' = [carrier EXCEPT ![p] = NoCarrier]
    /\ UNCHANGED <<next, status, tables, encoded, issued, returned, coded>>
DropStorage(a) ==
    /\ a \in encoded
    /\ encoded' = encoded \ {a}
    /\ UNCHANGED <<next, status, tables, carrier, issued, returned, coded>>

\* The collector clears a TypedExposedReference whose target nobody has: no
\* pointer that published it, no entry of EXPOSED_ADDRESSES.  Storage that was
\* encoded by range has it too, other storage only retains the allocation; the
\* model does not tell them apart and lets the reference go.
HasTarget(t) ==
    \/ \E p \in Carriers :
          /\ carrier[p].target /\ carrier[p].address = t.address
          /\ carrier[p].alloc = t.alloc /\ carrier[p].offset = t.offset
    \/ t \in exposed
ClearTyped(t) ==
    /\ ~HasTarget(t)
    /\ typedExposed' = typedExposed \ {t}
    /\ UNCHANGED <<next, status, info, exposed, reverse, ranges, carrier, encoded, issued, returned, coded>>

\* The garbage collector may take what only weak references reach.
Reachable(a) ==
    \/ \E p \in Carriers : carrier[p].alloc = a
    \/ \E t \in exposed : t.alloc = a
    \/ a \in encoded
    \/ a \in Heap /\ status[a] = "live"
Collect(a) ==
    /\ status[a] \in {"live", "freed"} /\ ~Reachable(a)
    /\ status' = [status EXCEPT ![a] = "collected"]
    /\ info' = [info EXCEPT ![a] = NoInfo]
    /\ typedExposed' = {t \in typedExposed : t.alloc # a}
    /\ UNCHANGED <<next, exposed, reverse, ranges, carrier, encoded, issued, returned, coded>>

\* The numbers storage may hold.
Written == {t.address : t \in typedExposed} \cup {info[a].base : a \in encoded}

Next ==
    \/ \E p \in Carriers :
          \/ \E a \in Heap \cup Cells : Allocate(p, a)
          \/ \E q \in Carriers : Derive(p, q)
          \/ \E z \in ZeroSized, x \in ZstAddresses : DangleZst(p, z, x)
          \/ \E e \in returned \cup reverse : FromAddress(p, e[2])
          \/ \E x \in Written : FromEncodedAddress(p, x)
          \/ \E a \in Allocations :
                \/ NumericAddress(p, a) \/ AddressCached(p, a) \/ Address(p, a)
                \/ \E codec \in BOOLEAN : Encode(p, a, codec)
                \/ Erase(p, a)
          \/ DropCarrier(p)
    \/ \E a \in Allocations : Deallocate(a) \/ DropStorage(a) \/ Collect(a)
    \/ \E t \in typedExposed : ClearTyped(t)

Spec == Init /\ [][Next]_vars

-----------------------------------------------------------------------------
(* Properties. *)

\* No two extents allocateAddress handed out overlap, the address one past
\* the end of each included: an end pointer is never another object's base.
ExtentsDisjoint ==
    \A e, f \in issued : e # f => e.hi < f.lo \/ f.hi < e.lo

\* A number inside a sized live allocation is only ever turned back into
\* that allocation, by fromAddress and by fromEncodedAddress: neither takes a
\* neighbour's range or the entry of an object that had the number before.
RecoversOwner ==
    \A a \in Heap \cup Cells :
        status[a] = "live" /\ info[a].base # NoAddress =>
            \A x \in {info[a].base + d : d \in 0 .. Capacity[a]} :
                \A hit \in Lookup(x) \cup TypedLookup(x) : hit.alloc = a

\* The index deallocateBytes uses lists exactly the addresses that mean the
\* allocation, whatever exposures, replacements and releases came before.
IndexExact == reverse = {<<t.alloc, t.address>> : t \in exposed}

\* After deallocateBytes fromAddress leads from no number to the released
\* bytes, and fromEncodedAddress leads there only from a number that was encoded
\* with a codec and is in no entry of EXPOSED_ADDRESSES: the index lists what
\* address() registered and not what encodedAddress() did, so that entry of
\* TYPED_EXPOSED_ADDRESSES is left behind.
FreedIsForgottenUnlessEncoded ==
    [][\A a \in Heap : status[a] = "live" /\ status'[a] = "freed" =>
          /\ \A t \in exposed' : t.alloc # a
          /\ \A r \in ranges' : r.alloc # a
          /\ \A t \in typedExposed' : t.alloc = a =>
                a \in coded /\ \A e \in exposed : e.address = t.address => e.alloc # a]_vars

\* What address() returned for a sized object leads back to it for as long
\* as it is not deallocated, however the collector runs, provided no pointer
\* to the object was encoded with a codec: that publishes the carrier's target
\* without an entry in EXPOSED_ADDRESSES, and address() then returns early.
RecoverableUnlessEncoded ==
    \A e \in returned :
        e[1] \in (Heap \cup Cells) \ coded =>
            \E hit \in Lookup(e[2]) : hit.alloc = e[1] /\ info[e[1]].base + hit.offset = e[2]
=============================================================================

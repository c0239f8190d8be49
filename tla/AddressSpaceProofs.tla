------------------------- MODULE AddressSpaceProofs -------------------------
(***************************************************************************)
(* What holds of the synthetic address space for every set of allocations, *)
(* sizes, alignments and pointers.                                         *)
(***************************************************************************)
EXTENDS AddressSpace, TLAPS

\* The larger of two numbers, as the source's Math.max.
LEMMA MaxOfTwo ==
    ASSUME NEW m \in Nat, NEW n \in Nat
    PROVE  Max({m, n}) \in {m, n} /\ Max({m, n}) >= m /\ Max({m, n}) >= n
<1>1. \E x \in {m, n} : \A y \in {m, n} : x >= y
  OBVIOUS
<1> QED  BY <1>1 DEF Max

\* Rounding up to an alignment never goes below the number it rounds.
LEMMA RoundUpBound ==
    ASSUME NEW n \in Nat, NEW t \in Nat \ {0}
    PROVE  RoundUp(n, t) \in Nat /\ RoundUp(n, t) >= n
<1> DEFINE q == (n + t - 1) \div t
           r == (n + t - 1) % t
<1>1. n + t - 1 = t * q + r /\ r \in 0 .. t - 1 /\ q \in Int
  OBVIOUS
<1>2. t * q >= n
  BY <1>1
<1>3. RoundUp(n, t) = t * q
  BY <1>1 DEF RoundUp
<1> QED  BY <1>1, <1>2, <1>3

-----------------------------------------------------------------------------
(* Extents. *)

InfoType ==
    info \in [Allocations -> [base : Int, alignment : Nat \ {0}, published : BOOLEAN]]

\* Everything handed out lies below the counter, hence apart from whatever
\* is handed out next.
ExtentInv ==
    /\ next \in Nat
    /\ InfoType
    /\ \A e \in issued : e.lo \in Nat /\ e.hi \in Nat /\ e.lo <= e.hi /\ e.hi < next
    /\ ExtentsDisjoint

\* A span has room for the address one past the end.
LEMMA SpanRoom ==
    ASSUME NEW a \in Allocations
    PROVE  Span(a) \in Nat /\ Capacity[a] \in Nat /\ Capacity[a] < Span(a)
<1>1. Capacity[a] \in Nat
  BY CapacityAssumption
<1> DEFINE r == RoundUp(Capacity[a] + 1, 16)
<1>2. r \in Nat /\ r >= Capacity[a] + 1
  BY <1>1, RoundUpBound
<1>3. Max({16, r}) \in {16, r} /\ Max({16, r}) >= r
  BY <1>2, MaxOfTwo
<1> QED  BY <1>1, <1>2, <1>3 DEF Span

\* The base of an allocation: the one it has, or a fresh one at or above
\* the counter, never the "no address" mark.
LEMMA BaseIsAddress ==
    ASSUME ExtentInv, NEW a \in Allocations
    PROVE  /\ Base(a) \in Int /\ Base(a) # NoAddress
           /\ info[a].base # NoAddress => Base(a) = info[a].base
           /\ info[a].base = NoAddress => Base(a) \in Nat /\ Base(a) >= next
<1>1. info[a].base \in Int /\ info[a].alignment \in Nat \ {0} /\ next \in Nat
  BY DEF ExtentInv, InfoType
<1>2. Aligned(info[a].alignment) \in Nat /\ Aligned(info[a].alignment) >= next
  BY <1>1, RoundUpBound DEF Aligned
<1> QED  BY <1>1, <1>2 DEF Base, NoAddress

\* Extending the handed-out extents at or above the counter keeps them apart.
LEMMA ExtentAdded ==
    ASSUME ExtentInv,
           NEW lo \in Nat, NEW hi \in Nat, NEW top \in Nat,
           next <= lo, lo <= hi, hi < top,
           next' = top, issued' = issued \cup {[lo |-> lo, hi |-> hi]}
    PROVE  /\ \A e \in issued' : e.lo \in Nat /\ e.hi \in Nat /\ e.lo <= e.hi /\ e.hi < next'
           /\ ExtentsDisjoint'
<1>1. \A e \in issued : e.lo \in Nat /\ e.hi \in Nat /\ e.lo <= e.hi /\ e.hi < next
  BY DEF ExtentInv
<1>2. next \in Nat
  BY DEF ExtentInv
<1>3. \A e \in issued' : e \in issued \/ (e.lo = lo /\ e.hi = hi)
  OBVIOUS
<1>4. \A e \in issued' : e.lo \in Nat /\ e.hi \in Nat /\ e.lo <= e.hi /\ e.hi < next'
  BY <1>1, <1>2, <1>3
<1>5. \A e, f \in issued' : e # f => e.hi < f.lo \/ f.hi < e.lo
  <2> SUFFICES ASSUME NEW e \in issued', NEW f \in issued', e # f
               PROVE  e.hi < f.lo \/ f.hi < e.lo
    OBVIOUS
  <2>1. CASE e \in issued /\ f \in issued
    BY <2>1 DEF ExtentInv, ExtentsDisjoint
  <2>2. CASE e \in issued /\ f = [lo |-> lo, hi |-> hi]
    BY <2>2, <1>1, <1>2
  <2>3. CASE f \in issued /\ e = [lo |-> lo, hi |-> hi]
    BY <2>3, <1>1, <1>2
  <2> QED  BY <2>1, <2>2, <2>3
<1> QED  BY <1>4, <1>5 DEF ExtentsDisjoint

\* allocationBase keeps the extents apart.
LEMMA TakeBaseExtents ==
    ASSUME ExtentInv, NEW a \in Allocations, TakeBase(a)
    PROVE  /\ next' \in Nat
           /\ \A e \in issued' : e.lo \in Nat /\ e.hi \in Nat /\ e.lo <= e.hi /\ e.hi < next'
           /\ ExtentsDisjoint'
<1>1. CASE Base(a) = info[a].base
  BY <1>1 DEF TakeBase, ExtentInv, ExtentsDisjoint
<1>2. CASE Base(a) # info[a].base
  <2>1. Base(a) \in Nat /\ Base(a) >= next
    BY <1>2, BaseIsAddress
  <2>2. /\ next' = Base(a) + Span(a)
        /\ issued' = issued \cup {[lo |-> Base(a), hi |-> Base(a) + Capacity[a]]}
    BY <1>2 DEF TakeBase
  <2>3. next \in Nat
    BY DEF ExtentInv
  <2>4. Span(a) \in Nat /\ Capacity[a] \in Nat /\ Capacity[a] < Span(a)
    BY SpanRoom
  <2> HIDE DEF Base, Span
  <2>5. /\ Base(a) + Capacity[a] \in Nat /\ Base(a) + Span(a) \in Nat
        /\ next <= Base(a) /\ Base(a) <= Base(a) + Capacity[a]
        /\ Base(a) + Capacity[a] < Base(a) + Span(a)
    BY <2>1, <2>3, <2>4
  <2> QED  BY <2>1, <2>2, <2>5, ExtentAdded
<1> QED  BY <1>1, <1>2

\* The invariant about extents is inductive.
LEMMA ExtentStep ==
    ASSUME ExtentInv, [Next]_vars
    PROVE  ExtentInv'
<1> USE DEF ExtentInv, ExtentsDisjoint, InfoType
<1>1. CASE UNCHANGED vars
  BY <1>1 DEF vars, tables
<1>2. ASSUME NEW p \in Carriers, NEW a \in Heap \cup Cells, Allocate(p, a)
      PROVE  ExtentInv'
  <2>1. Alignment[a] \in Nat
    BY CapacityAssumption DEF Allocations
  <2>2. Max({16, Alignment[a]}) \in Nat \ {0}
    BY <2>1, MaxOfTwo
  <2> QED  BY ZenonT(60), <1>2, <2>2 DEF Allocate, Allocations
<1>3. ASSUME NEW p \in Carriers, NEW q \in Carriers, Derive(p, q)
      PROVE  ExtentInv'
  BY <1>3 DEF Derive, tables
<1>4. ASSUME NEW p \in Carriers, NEW z \in ZeroSized, NEW x \in ZstAddresses, DangleZst(p, z, x)
      PROVE  ExtentInv'
  <2>1. x \in Int /\ Alignment[z] \in Nat \ {0}
    BY CapacityAssumption DEF Allocations
  <2> QED  BY ZenonT(60), <1>4, <2>1 DEF DangleZst, NoInfo
<1>5. ASSUME NEW p \in Carriers, NEW x, FromAddress(p, x) \/ FromEncodedAddress(p, x)
      PROVE  ExtentInv'
  BY <1>5 DEF FromAddress, FromEncodedAddress
<1>6. ASSUME NEW p \in Carriers, NEW a \in Allocations, NumericAddress(p, a)
      PROVE  ExtentInv'
  <2>1. TakeBase(a) /\ info' = [info EXCEPT ![a].base = Base(a)]
    BY <1>6 DEF NumericAddress
  <2>2. Base(a) \in Int
    BY BaseIsAddress
  <2>3. InfoType'
    BY <2>1, <2>2
  <2> QED  BY <2>1, <2>3, TakeBaseExtents
<1>7. ASSUME NEW a \in Allocations, PublishRange(a)
      PROVE  ExtentInv'
  <2>1. TakeBase(a) /\ info' = [info EXCEPT ![a].base = Base(a), ![a].published = TRUE]
    BY <1>7 DEF PublishRange
  <2>2. Base(a) \in Int
    BY BaseIsAddress
  <2>3. InfoType'
    BY ZenonT(60), <2>1, <2>2
  <2> QED  BY <2>1, <2>3, TakeBaseExtents
<1>8. ASSUME NEW p \in Carriers, NEW a \in Allocations, Address(p, a) \/ \E codec \in BOOLEAN : Encode(p, a, codec)
      PROVE  ExtentInv'
  BY <1>7, <1>8 DEF Address, Encode
<1>9. ASSUME NEW p \in Carriers, NEW a \in Allocations, AddressCached(p, a)
      PROVE  ExtentInv'
  BY <1>9 DEF AddressCached, tables
<1>10. ASSUME NEW p \in Carriers, NEW a \in Allocations, Erase(p, a)
       PROVE  ExtentInv'
  <2> DEFINE x == Aligned(16)
  <2>1. x \in Nat /\ x >= next
    BY RoundUpBound DEF Aligned
  <2>2. /\ next' = x + 16 /\ issued' = issued \cup {[lo |-> x, hi |-> x]}
        /\ UNCHANGED info
    BY <1>10 DEF Erase
  <2> HIDE DEF x
  <2>3. x + 16 \in Nat /\ x < x + 16 /\ x <= x /\ next <= x
    BY <2>1
  <2> QED  BY <2>1, <2>2, <2>3, ExtentAdded
<1>11. ASSUME NEW p \in Carriers, DropCarrier(p)
       PROVE  ExtentInv'
  BY <1>11 DEF DropCarrier, tables
<1>12. ASSUME NEW a \in Allocations, Deallocate(a) \/ Collect(a)
       PROVE  ExtentInv'
  <2>1. NoInfo \in [base : Int, alignment : Nat \ {0}, published : BOOLEAN]
    BY DEF NoInfo, NoAddress
  <2>2. info' = [info EXCEPT ![a] = NoInfo] /\ UNCHANGED <<next, issued>>
    BY <1>12 DEF Deallocate, Collect
  <2> QED  BY <2>1, <2>2
<1>13. ASSUME NEW a, DropStorage(a) \/ ClearTyped(a)
       PROVE  ExtentInv'
  BY <1>13 DEF DropStorage, ClearTyped, tables
<1> HIDE DEF ExtentInv, ExtentsDisjoint, InfoType
<1> QED
  BY <1>1, <1>2, <1>3, <1>4, <1>5, <1>6, <1>8, <1>9, <1>10, <1>11, <1>12, <1>13 DEF Next

\* For every choice of sizes and alignments, no two extents allocateAddress
\* handed out overlap, their one-past-the-end addresses included.
THEOREM ExtentsNeverOverlap == Spec => []ExtentsDisjoint
<1>1. Init => ExtentInv
  BY CapacityAssumption DEF Init, ExtentInv, InfoType, ExtentsDisjoint, NoInfo, NoAddress
<1>2. ExtentInv /\ [Next]_vars => ExtentInv'
  BY ExtentStep
<1>3. ExtentInv => ExtentsDisjoint
  BY DEF ExtentInv
<1> QED  BY <1>1, <1>2, <1>3, PTL DEF Spec

-----------------------------------------------------------------------------
(* The index by allocation. *)

\* Replacing the target of an address keeps the index exact.
LEMMA RegisterKeepsIndex ==
    ASSUME IndexExact, NEW x, NEW a, NEW off, Register(x, a, off)
    PROVE  IndexExact'
<1>1. /\ exposed' = {t \in exposed : t.address # x}
                       \cup {[address |-> x, alloc |-> a, offset |-> off]}
      /\ reverse' = {e \in reverse : e[2] # x} \cup {<<a, x>>}
  BY DEF Register
<1>2. ASSUME NEW e \in reverse'  PROVE e \in {<<t.alloc, t.address>> : t \in exposed'}
  <2> DEFINE new == [address |-> x, alloc |-> a, offset |-> off]
  <2>1. CASE e = <<a, x>>
    <3>1. new \in exposed' /\ new.alloc = a /\ new.address = x
      BY <1>1
    <3> QED  BY <2>1, <3>1
  <2>2. CASE e \in reverse /\ e[2] # x
    <3>1. PICK t \in exposed : e = <<t.alloc, t.address>>
      BY <2>2 DEF IndexExact
    <3>2. t \in exposed'
      BY <1>1, <2>2, <3>1
    <3> QED  BY <3>1, <3>2
  <2> QED  BY <1>1, <2>1, <2>2
<1>3. ASSUME NEW t \in exposed'  PROVE <<t.alloc, t.address>> \in reverse'
  BY <1>1 DEF IndexExact
<1> QED  BY <1>2, <1>3 DEF IndexExact

\* Withdrawing an allocation keeps the index exact.
LEMMA ForgetKeepsIndex ==
    ASSUME IndexExact, NEW a, Forget(a)
    PROVE  IndexExact' /\ \A t \in exposed' : t.alloc # a
<1>1. /\ exposed' = {t \in exposed : ~(<<a, t.address>> \in reverse /\ t.alloc = a)}
      /\ reverse' = {e \in reverse : e[1] # a}
  BY DEF Forget
<1>2. \A t \in exposed : t.alloc = a => <<a, t.address>> \in reverse
  BY DEF IndexExact
<1>3. exposed' = {t \in exposed : t.alloc # a}
  BY <1>1, <1>2
<1>4. ASSUME NEW e \in reverse'  PROVE e \in {<<t.alloc, t.address>> : t \in exposed'}
  BY <1>1, <1>3, <1>4 DEF IndexExact
<1>5. ASSUME NEW t \in exposed'  PROVE <<t.alloc, t.address>> \in reverse'
  BY <1>1, <1>3, <1>5 DEF IndexExact
<1> QED  BY <1>3, <1>4, <1>5 DEF IndexExact

\* Every step keeps the index exact.
LEMMA IndexStep ==
    ASSUME IndexExact, [Next]_vars
    PROVE  IndexExact'
<1>1. ASSUME UNCHANGED <<exposed, reverse>>  PROVE IndexExact'
  BY <1>1 DEF IndexExact
<1>2. CASE UNCHANGED vars
  BY <1>1, <1>2 DEF vars, tables
<1>3. ASSUME NEW p \in Carriers, NEW a \in Allocations, Address(p, a) \/ Erase(p, a)
      PROVE  IndexExact'
  BY <1>3, RegisterKeepsIndex DEF Address, Erase
<1>4. ASSUME NEW a \in Allocations, Deallocate(a)
      PROVE  IndexExact'
  BY SMTT(60), <1>4, ForgetKeepsIndex DEF Deallocate
<1>5. ASSUME NEW p \in Carriers,
             \/ \E a \in Heap \cup Cells : Allocate(p, a)
             \/ \E q \in Carriers : Derive(p, q)
             \/ \E z \in ZeroSized, x \in ZstAddresses : DangleZst(p, z, x)
             \/ \E e \in returned \cup reverse : FromAddress(p, e[2])
             \/ \E x \in Written : FromEncodedAddress(p, x)
             \/ DropCarrier(p)
      PROVE  IndexExact'
  BY ZenonT(60), <1>1, <1>5
     DEF Allocate, Derive, DangleZst, FromAddress, FromEncodedAddress, DropCarrier, tables
<1>6. ASSUME NEW p \in Carriers, NEW a \in Allocations,
             \/ NumericAddress(p, a) \/ AddressCached(p, a)
             \/ \E codec \in BOOLEAN : Encode(p, a, codec)
      PROVE  IndexExact'
  BY <1>1, <1>6 DEF NumericAddress, AddressCached, Encode, tables
<1>7. ASSUME NEW a, DropStorage(a) \/ Collect(a) \/ ClearTyped(a)
      PROVE  IndexExact'
  BY <1>1, <1>7 DEF DropStorage, Collect, ClearTyped, tables
<1> QED  BY <1>2, <1>3, <1>4, <1>5, <1>6, <1>7 DEF Next

\* ALLOCATION_EXPOSED_ADDRESSES lists exactly the exposed addresses of each
\* allocation, whatever was exposed, replaced, erased and freed before.
THEOREM IndexIsExact == Spec => []IndexExact
<1>1. Init => IndexExact
  BY ZenonT(60) DEF Init, IndexExact
<1>2. IndexExact /\ [Next]_vars => IndexExact'
  BY IndexStep
<1> QED  BY <1>1, <1>2, PTL DEF Spec

-----------------------------------------------------------------------------
(* Lifetimes. *)

IsCarrier(c) ==
    c = [alloc |-> c.alloc, offset |-> c.offset, address |-> c.address,
         target |-> c.target, token |-> c.token]

Born == {"live", "freed"}

\* What the carriers and the tables refer to exists; the range of an
\* existing allocation is the one its info says was published.
CarrierInv ==
    /\ carrier = [p \in Carriers |-> carrier[p]]
    /\ \A p \in Carriers :
          /\ IsCarrier(carrier[p])
          /\ carrier[p].alloc # NoAllocation =>
                carrier[p].alloc \in Allocations /\ status[carrier[p].alloc] \in Born
StatusInv ==
    /\ status \in [Allocations -> {"unborn", "live", "freed", "collected"}]
    /\ \A a \in Allocations : info[a].published => info[a].base # NoAddress
ExposedInv ==
    \A t \in exposed : t.alloc \in Allocations /\ status[t.alloc] \in Born
RangeInv ==
    \A r \in ranges :
        /\ r.alloc \in Allocations /\ status[r.alloc] # "unborn"
        /\ status[r.alloc] \in Born => info[r.alloc].published /\ info[r.alloc].base = r.base
LifeInv == CarrierInv /\ StatusInv /\ ExposedInv /\ RangeInv
TypedInv ==
    /\ \A t \in typedExposed :
          t.alloc \in Allocations /\ status[t.alloc] \in Born /\ t.alloc \in coded
    /\ encoded \subseteq Allocations

\* fromAddress finds only storage that still exists.
LEMMA LookupBorn ==
    ASSUME LifeInv, NEW x, NEW hit \in Lookup(x)
    PROVE  hit.alloc \in Allocations /\ status[hit.alloc] \in Born
<1>1. CASE \E t \in exposed : hit = [alloc |-> t.alloc, offset |-> t.offset]
  BY SMTT(60), <1>1 DEF LifeInv, ExposedInv
<1>2. CASE hit \in WithinFloor(x)
  <2>1. PICK r \in Floor(x) : hit = [alloc |-> r.alloc, offset |-> x - r.base]
    BY <1>2 DEF WithinFloor
  <2>2. r \in ranges /\ status[r.alloc] # "collected" /\ hit.alloc = r.alloc
    BY <2>1 DEF Floor, Current
  <2> QED  BY <2>2 DEF LifeInv, StatusInv, RangeInv, Born
<1> QED  BY <1>1, <1>2, ZenonT(60) DEF Lookup

\* So does fromEncodedAddress.
LEMMA TypedLookupBorn ==
    ASSUME LifeInv, TypedInv, NEW x, NEW hit \in TypedLookup(x)
    PROVE  hit.alloc \in Allocations /\ status[hit.alloc] \in Born
<1>1. CASE \E t \in typedExposed : hit = [alloc |-> t.alloc, offset |-> t.offset]
  BY SMTT(60), <1>1 DEF TypedInv
<1>2. CASE hit \in Lookup(x)
  BY <1>2, LookupBorn, ZenonT(60)
<1> QED  BY <1>1, <1>2, ZenonT(60) DEF TypedLookup

\* publishAllocationRange, by a carrier of an existing allocation.
LEMMA PublishLife ==
    ASSUME ExtentInv, LifeInv, NEW a \in Allocations, status[a] \in Born,
           PublishRange(a), UNCHANGED status
    PROVE  StatusInv' /\ RangeInv'
<1>1. Base(a) # NoAddress /\ (info[a].base # NoAddress => Base(a) = info[a].base)
  BY BaseIsAddress
<1>2. /\ ranges' = Published(a)
      /\ info' = [info EXCEPT ![a].base = Base(a), ![a].published = TRUE]
  BY DEF PublishRange
<1>3. /\ info'[a].published /\ info'[a].base = Base(a)
      /\ \A b \in Allocations : b # a => info'[b] = info[b]
  BY <1>2 DEF ExtentInv, InfoType
<1>4. StatusInv'
  BY <1>1, <1>3 DEF LifeInv, StatusInv
<1>5. ASSUME NEW r \in ranges'
      PROVE  r \in ranges \/ (r.alloc = a /\ r.base = Base(a))
  BY <1>2 DEF Published, Current
<1>6. ASSUME NEW r \in ranges, status[r.alloc] \in Born, r.alloc = a
      PROVE  r.base = Base(a)
  BY <1>1, <1>6 DEF LifeInv, RangeInv, StatusInv
<1>7. RangeInv'
  BY <1>3, <1>5, <1>6 DEF LifeInv, RangeInv, Born
<1> QED  BY <1>4, <1>7

\* The carriers keep their allocation when a call only publishes something.
LEMMA CarrierUpdate ==
    ASSUME LifeInv, UNCHANGED status, NEW p \in Carriers, NEW x, NEW t, NEW k,
           \/ carrier' = [carrier EXCEPT ![p].address = x, ![p].target = t]
           \/ carrier' = [carrier EXCEPT ![p].token = k]
    PROVE  CarrierInv'
<1>1. IsCarrier(carrier[p])
  BY DEF LifeInv, CarrierInv
<1>2. IsCarrier(carrier'[p]) /\ carrier'[p].alloc = carrier[p].alloc
  BY <1>1 DEF LifeInv, CarrierInv, IsCarrier
<1>3. /\ carrier' = [q \in Carriers |-> carrier'[q]]
      /\ \A q \in Carriers : q # p => carrier'[q] = carrier[q]
  BY DEF LifeInv, CarrierInv
<1> QED  BY <1>2, <1>3 DEF LifeInv, CarrierInv

\* A carrier is made for existing storage.
LEMMA CarrierMade ==
    ASSUME LifeInv, NEW p \in Carriers, NEW a \in Allocations, NEW off,
           carrier' = [carrier EXCEPT ![p] = Fresh(a, off)],
           status'[a] \in Born,
           \A b \in Allocations : status[b] \in Born => status'[b] \in Born
    PROVE  CarrierInv'
<1>1. IsCarrier(Fresh(a, off)) /\ Fresh(a, off).alloc = a
  <2>1. Fresh(a, off) = [alloc |-> a, offset |-> off, address |-> NoAddress,
                         target |-> FALSE, token |-> NoAddress]
    BY DEF Fresh
  <2>2. ASSUME NEW c, NEW f, c = [alloc |-> a, offset |-> off, address |-> NoAddress,
                                  target |-> f, token |-> NoAddress]
        PROVE  IsCarrier(c) /\ c.alloc = a
    BY <2>2 DEF IsCarrier
  <2> QED  BY <2>1, <2>2, ZenonT(60)
<1> HIDE DEF Fresh, IsCarrier
<1>2. /\ carrier' = [q \in Carriers |-> carrier'[q]]
      /\ carrier'[p] = Fresh(a, off)
      /\ \A q \in Carriers : q # p => carrier'[q] = carrier[q]
  BY DEF LifeInv, CarrierInv
<1> QED  BY <1>1, <1>2 DEF LifeInv, CarrierInv

\* The invariant about lifetimes is inductive.
LEMMA LifeStep ==
    ASSUME ExtentInv, LifeInv, TypedInv, IndexExact, [Next]_vars
    PROVE  LifeInv'
<1> USE DEF ExtentInv, InfoType
<1>0. ASSUME UNCHANGED status, UNCHANGED info, UNCHANGED exposed, ranges' \subseteq ranges
      PROVE  StatusInv' /\ ExposedInv' /\ RangeInv'
  BY <1>0, ZenonT(60) DEF LifeInv, StatusInv, ExposedInv, RangeInv
<1>1. CASE UNCHANGED vars
  BY <1>1 DEF vars, tables, LifeInv, CarrierInv, StatusInv, ExposedInv, RangeInv, IsCarrier
<1>2. ASSUME NEW p \in Carriers, NEW a \in Heap \cup Cells, Allocate(p, a)
      PROVE  LifeInv'
  <2>1. /\ a \in Allocations /\ status[a] = "unborn"
        /\ status' = [status EXCEPT ![a] = "live"]
        /\ info' = [info EXCEPT ![a].alignment = Max({16, Alignment[a]})]
        /\ carrier' = [carrier EXCEPT ![p] = Fresh(a, 0)]
        /\ UNCHANGED <<exposed, ranges>>
    BY <1>2 DEF Allocate, Allocations
  <2>2. /\ status'[a] = "live" /\ \A b \in Allocations : b # a => status'[b] = status[b]
        /\ \A b \in Allocations : info'[b].published = info[b].published /\ info'[b].base = info[b].base
    BY <2>1 DEF LifeInv, StatusInv
  <2>3. CarrierInv'
    BY ZenonT(60), <2>1, <2>2, CarrierMade DEF Born
  <2>4. StatusInv'
    BY <2>1, <2>2 DEF LifeInv, StatusInv
  <2>5. ExposedInv' /\ RangeInv'
    BY <2>1, <2>2 DEF LifeInv, ExposedInv, RangeInv, Born
  <2> QED  BY <2>3, <2>4, <2>5 DEF LifeInv
<1>3. ASSUME NEW p \in Carriers, NEW q \in Carriers, Derive(p, q)
      PROVE  LifeInv'
  <2>1. PICK off : carrier' = [carrier EXCEPT ![p] = Fresh(carrier[q].alloc, off)]
    BY ZenonT(60), <1>3 DEF Derive
  <2>2. carrier[q] # NoCarrier /\ UNCHANGED <<status, info, exposed, ranges>>
    BY <1>3 DEF Derive, tables
  <2>3. CASE carrier[q].alloc # NoAllocation
    <3>1. carrier[q].alloc \in Allocations /\ status[carrier[q].alloc] \in Born
      BY <2>3 DEF LifeInv, CarrierInv
    <3>2. CarrierInv'
      BY ZenonT(60), <2>1, <2>2, <3>1, CarrierMade
    <3> QED  BY <1>0, <2>2, <3>2 DEF LifeInv
  <2>4. CASE carrier[q].alloc = NoAllocation
    <3>1. IsCarrier(Fresh(NoAllocation, off)) /\ Fresh(NoAllocation, off).alloc = NoAllocation
      BY DEF IsCarrier, Fresh
    <3> HIDE DEF Fresh, IsCarrier
    <3>2. CarrierInv'
      BY <2>1, <2>2, <2>4, <3>1 DEF LifeInv, CarrierInv
    <3> QED  BY <1>0, <2>2, <3>2 DEF LifeInv
  <2> QED  BY <2>3, <2>4
<1>4. ASSUME NEW p \in Carriers, NEW z \in ZeroSized, NEW x \in ZstAddresses, DangleZst(p, z, x)
      PROVE  LifeInv'
  <2>1. /\ z \in Allocations /\ status[z] = "unborn"
        /\ status' = [status EXCEPT ![z] = "live"]
        /\ info' = [info EXCEPT ![z] = [NoInfo EXCEPT !.base = x, !.alignment = Alignment[z]]]
        /\ carrier' = [carrier EXCEPT ![p] = Fresh(z, 0)]
        /\ ranges' \subseteq ranges /\ UNCHANGED exposed
    BY <1>4 DEF DangleZst, Allocations, Current
  <2>2. status'[z] = "live" /\ \A b \in Allocations : b # z => status'[b] = status[b]
    BY <2>1 DEF LifeInv, StatusInv
  <2>3. \A b \in Allocations : b # z => info'[b] = info[b]
    BY <2>1
  <2>4. info'[z].base = x
    BY <2>1 DEF NoInfo
  <2>5. CarrierInv'
    BY ZenonT(60), <2>1, <2>2, CarrierMade DEF Born
  <2>6. StatusInv'
    BY <2>1, <2>2, <2>3, <2>4, CapacityAssumption DEF LifeInv, StatusInv, NoAddress
  <2>7. ExposedInv' /\ RangeInv'
    BY <2>1, <2>2, <2>3 DEF LifeInv, ExposedInv, RangeInv, Born
  <2> QED  BY <2>5, <2>6, <2>7 DEF LifeInv
<1>5. ASSUME NEW p \in Carriers, NEW x, FromAddress(p, x)
      PROVE  LifeInv'
  <2>1. PICK hit \in Lookup(x) : carrier' = [carrier EXCEPT ![p] = Fresh(hit.alloc, hit.offset)]
    BY ZenonT(60), <1>5 DEF FromAddress
  <2>2. ranges' \subseteq ranges /\ UNCHANGED <<status, info, exposed>>
    BY <1>5 DEF FromAddress, Current
  <2>3. CarrierInv'
    BY ZenonT(60), <2>1, <2>2, LookupBorn, CarrierMade
  <2> QED  BY <1>0, <2>2, <2>3 DEF LifeInv
<1>15. ASSUME NEW p \in Carriers, NEW x, FromEncodedAddress(p, x)
       PROVE  LifeInv'
  <2>1. PICK hit \in TypedLookup(x) : carrier' = [carrier EXCEPT ![p] = Fresh(hit.alloc, hit.offset)]
    BY ZenonT(60), <1>15 DEF FromEncodedAddress
  <2>2. ranges' \subseteq ranges /\ UNCHANGED <<status, info, exposed>>
    BY <1>15 DEF FromEncodedAddress, Current
  <2>3. CarrierInv'
    BY ZenonT(60), <2>1, <2>2, TypedLookupBorn, CarrierMade
  <2> QED  BY <1>0, <2>2, <2>3 DEF LifeInv
<1>6. ASSUME NEW p \in Carriers, NEW a \in Allocations, NumericAddress(p, a)
      PROVE  LifeInv'
  <2>1. /\ info' = [info EXCEPT ![a].base = Base(a)]
        /\ UNCHANGED <<status, exposed, ranges, carrier>>
    BY <1>6 DEF NumericAddress
  <2>2. Base(a) # NoAddress /\ (info[a].base # NoAddress => Base(a) = info[a].base)
    BY BaseIsAddress
  <2>3. \A b \in Allocations : /\ info'[b].published = info[b].published
                               /\ info'[b].base = IF b = a THEN Base(a) ELSE info[b].base
    BY <2>1
  <2>4. StatusInv'
    BY <2>1, <2>2, <2>3 DEF LifeInv, StatusInv
  <2>5. RangeInv'
    BY <2>1, <2>2, <2>3 DEF LifeInv, StatusInv, RangeInv
  <2> QED  BY <2>1, <2>4, <2>5 DEF LifeInv, CarrierInv, ExposedInv, IsCarrier
<1>7. ASSUME NEW p \in Carriers, NEW a \in Allocations, Address(p, a)
      PROVE  LifeInv'
  <2> DEFINE x == Base(a) + carrier[p].offset
  <2>1. /\ Holds(p, a) /\ PublishRange(a) /\ Register(x, a, carrier[p].offset)
        /\ carrier' = [carrier EXCEPT ![p].address = x, ![p].target = TRUE]
        /\ UNCHANGED status
    BY <1>7 DEF Address
  <2>2. status[a] \in Born
    BY <2>1 DEF Holds, LifeInv, CarrierInv
  <2>3. StatusInv' /\ RangeInv'
    BY <2>1, <2>2, PublishLife
  <2>4. ExposedInv'
    BY <2>1, <2>2 DEF Register, LifeInv, ExposedInv
  <2>5. CarrierInv'
    BY ZenonT(60), <2>1, CarrierUpdate
  <2> QED  BY <2>3, <2>4, <2>5 DEF LifeInv
<1>8. ASSUME NEW p \in Carriers, NEW a \in Allocations, NEW codec \in BOOLEAN, Encode(p, a, codec)
      PROVE  LifeInv'
  <2> DEFINE x == Base(a) + carrier[p].offset
             t == codec \/ carrier[p].target
  <2>1. /\ Holds(p, a) /\ PublishRange(a)
        /\ carrier' = [carrier EXCEPT ![p].address = x, ![p].target = t]
        /\ UNCHANGED <<status, exposed>>
    BY <1>8 DEF Encode
  <2>2. status[a] \in Born
    BY <2>1 DEF Holds, LifeInv, CarrierInv
  <2>3. StatusInv' /\ RangeInv'
    BY <2>1, <2>2, PublishLife
  <2>4. CarrierInv'
    BY ZenonT(60), <2>1, CarrierUpdate
  <2> QED  BY <2>1, <2>3, <2>4 DEF LifeInv, ExposedInv
<1>9. ASSUME NEW p \in Carriers, NEW a \in Allocations, AddressCached(p, a)
      PROVE  LifeInv'
  BY <1>9 DEF AddressCached, tables, LifeInv, CarrierInv, StatusInv, ExposedInv, RangeInv, IsCarrier
<1>10. ASSUME NEW p \in Carriers, NEW a \in Allocations, Erase(p, a)
       PROVE  LifeInv'
  <2> DEFINE x == Aligned(16)
  <2>1. /\ Holds(p, a) /\ Register(x, a, carrier[p].offset)
        /\ carrier' = [carrier EXCEPT ![p].token = x]
        /\ UNCHANGED <<status, info, ranges>>
    BY <1>10 DEF Erase
  <2>2. status[a] \in Born
    BY <2>1 DEF Holds, LifeInv, CarrierInv
  <2>3. ExposedInv'
    BY <2>1, <2>2 DEF Register, LifeInv, ExposedInv
  <2>4. CarrierInv'
    BY ZenonT(60), <2>1, CarrierUpdate
  <2> QED  BY <2>1, <2>3, <2>4 DEF LifeInv, StatusInv, RangeInv
<1>11. ASSUME NEW p \in Carriers, DropCarrier(p)
       PROVE  LifeInv'
  <2>1. carrier' = [carrier EXCEPT ![p] = NoCarrier] /\ UNCHANGED <<status, info, exposed, ranges>>
    BY <1>11 DEF DropCarrier, tables
  <2>2. IsCarrier(NoCarrier) /\ NoCarrier.alloc = NoAllocation
    BY DEF IsCarrier, NoCarrier, Fresh
  <2> HIDE DEF NoCarrier, IsCarrier
  <2>3. CarrierInv'
    BY <2>1, <2>2 DEF LifeInv, CarrierInv
  <2> QED  BY <1>0, <2>1, <2>3 DEF LifeInv
<1>12. ASSUME NEW a \in Allocations, Deallocate(a)
       PROVE  LifeInv'
  <2>1. /\ status[a] = "live" /\ status' = [status EXCEPT ![a] = "freed"]
        /\ info' = [info EXCEPT ![a] = NoInfo]
        /\ ranges' = {r \in ranges : ~(info[a].published /\ r.base = info[a].base /\ r.alloc = a)}
        /\ exposed' \subseteq exposed /\ UNCHANGED carrier
    BY <1>12 DEF Deallocate, Forget
  <2>2. /\ status'[a] = "freed" /\ \A b \in Allocations : b # a => status'[b] = status[b]
        /\ \A b \in Allocations : b # a => info'[b] = info[b]
        /\ info'[a] = NoInfo
    BY <2>1 DEF LifeInv, StatusInv
  <2>3. StatusInv'
    BY <2>1, <2>2 DEF LifeInv, StatusInv, NoInfo
  <2>4. ExposedInv'
    BY <2>1, <2>2, ZenonT(60) DEF LifeInv, ExposedInv, Born
  <2>5. CarrierInv'
    BY <2>1, <2>2 DEF LifeInv, CarrierInv, Born, IsCarrier
  <2>6. \A r \in ranges' : r \in ranges /\ r.alloc # a
    BY <2>1, ZenonT(60) DEF LifeInv, RangeInv, Born
  <2>7. RangeInv'
    BY <2>2, <2>6 DEF LifeInv, RangeInv
  <2> QED  BY <2>3, <2>4, <2>5, <2>7 DEF LifeInv
<1>13. ASSUME NEW a \in Allocations, Collect(a)
       PROVE  LifeInv'
  <2>1. /\ ~Reachable(a) /\ status' = [status EXCEPT ![a] = "collected"]
        /\ info' = [info EXCEPT ![a] = NoInfo]
        /\ UNCHANGED <<exposed, ranges, carrier>>
    BY <1>13 DEF Collect
  <2>2. /\ status'[a] = "collected" /\ \A b \in Allocations : b # a => status'[b] = status[b]
        /\ \A b \in Allocations : b # a => info'[b] = info[b]
        /\ info'[a] = NoInfo
    BY <2>1 DEF LifeInv, StatusInv
  <2>3. (\A p \in Carriers : carrier[p].alloc # a) /\ (\A t \in exposed : t.alloc # a)
    BY <2>1 DEF Reachable
  <2>4. StatusInv'
    BY <2>1, <2>2, ZenonT(60) DEF LifeInv, StatusInv, NoInfo
  <2>5. ExposedInv' /\ RangeInv'
    BY <2>1, <2>2, <2>3 DEF LifeInv, ExposedInv, RangeInv, Born
  <2>6. CarrierInv'
    BY SMTT(30), <2>1, <2>2, <2>3 DEF LifeInv, CarrierInv, Born, IsCarrier
  <2> QED  BY <2>4, <2>5, <2>6 DEF LifeInv
<1>14. ASSUME NEW a \in Allocations, DropStorage(a)
       PROVE  LifeInv'
  BY SMTT(60), <1>14 DEF DropStorage, tables, LifeInv, CarrierInv, StatusInv, ExposedInv, RangeInv, IsCarrier
<1>16. ASSUME NEW t, ClearTyped(t)
       PROVE  LifeInv'
  BY SMTT(60), <1>16 DEF ClearTyped, LifeInv, CarrierInv, StatusInv, ExposedInv, RangeInv, IsCarrier
<1> QED
  BY <1>1, <1>2, <1>3, <1>4, <1>5, <1>6, <1>7, <1>8, <1>9, <1>10, <1>11, <1>12, <1>13, <1>14, <1>15, <1>16,
     ZenonT(60)
     DEF Next

\* What a step does to the life of the storage.
LEMMA StatusSteps ==
    ASSUME [Next]_vars
    PROVE  \/ UNCHANGED status
           \/ \E b \in Allocations :
                 \/ status[b] = "unborn" /\ status' = [status EXCEPT ![b] = "live"]
                 \/ Deallocate(b)
                 \/ Collect(b)
<1>1. ASSUME NEW p \in Carriers, NEW b \in Allocations,
             \/ NumericAddress(p, b) \/ AddressCached(p, b) \/ Address(p, b) \/ Erase(p, b)
             \/ \E codec \in BOOLEAN : Encode(p, b, codec)
      PROVE  UNCHANGED status
  BY <1>1 DEF NumericAddress, AddressCached, Address, Erase, Encode
<1>2. ASSUME NEW p \in Carriers, NEW b \in Heap \cup Cells, Allocate(p, b)
      PROVE  b \in Allocations /\ status[b] = "unborn" /\ status' = [status EXCEPT ![b] = "live"]
  BY <1>2 DEF Allocate, Allocations
<1>3. ASSUME NEW p \in Carriers, NEW z \in ZeroSized, NEW x \in ZstAddresses, DangleZst(p, z, x)
      PROVE  z \in Allocations /\ status[z] = "unborn" /\ status' = [status EXCEPT ![z] = "live"]
  BY <1>3, ZenonT(60) DEF DangleZst, Allocations
<1> QED  BY <1>1, <1>2, <1>3, ZenonT(60) DEF Next, vars, Derive, FromAddress, FromEncodedAddress,
                                              DropCarrier, DropStorage, ClearTyped

\* Where the entries of TYPED_EXPOSED_ADDRESSES come from.
LEMMA TypedFrom ==
    ASSUME [Next]_vars, NEW t \in typedExposed'
    PROVE  \/ t \in typedExposed
           \/ \E p \in Carriers, a \in Allocations :
                 /\ Encode(p, a, TRUE) /\ a \in coded'
                 /\ t.alloc = a /\ t.offset = carrier[p].offset
                 /\ t.address = Base(a) + carrier[p].offset
<1>1. ASSUME NEW p \in Carriers, NEW a \in Allocations, NEW codec \in BOOLEAN,
             Encode(p, a, codec), t \notin typedExposed
      PROVE  /\ Encode(p, a, TRUE) /\ a \in coded'
             /\ t.alloc = a /\ t.offset = carrier[p].offset
             /\ t.address = Base(a) + carrier[p].offset
  <2> DEFINE x == Base(a) + carrier[p].offset
  <2>1. codec = TRUE /\ RegisterTyped(x, a, carrier[p].offset) /\ coded' = coded \cup {a}
    BY <1>1, ZenonT(60) DEF Encode
  <2> HIDE DEF x
  <2>2. t = [address |-> x, alloc |-> a, offset |-> carrier[p].offset]
    BY <1>1, <2>1 DEF RegisterTyped
  <2>3. Encode(p, a, TRUE)
    BY <1>1, <2>1, ZenonT(60)
  <2> QED  BY <2>1, <2>2, <2>3 DEF x
<1>2. ASSUME NEW p \in Carriers, NEW a \in Allocations,
             \/ NumericAddress(p, a) \/ AddressCached(p, a) \/ Address(p, a) \/ Erase(p, a)
      PROVE  UNCHANGED typedExposed
  BY <1>2, ZenonT(60) DEF NumericAddress, AddressCached, Address, Erase, tables
<1>3. ASSUME NEW a, Deallocate(a) \/ Collect(a) \/ DropStorage(a) \/ ClearTyped(a)
      PROVE  t \in typedExposed
  BY <1>3, ZenonT(60) DEF Deallocate, Forget, Collect, DropStorage, ClearTyped, tables
<1>4. ASSUME NEW p \in Carriers,
             \/ \E a \in Heap \cup Cells : Allocate(p, a)
             \/ \E q \in Carriers : Derive(p, q)
             \/ \E z \in ZeroSized, x \in ZstAddresses : DangleZst(p, z, x)
             \/ \E x : FromAddress(p, x) \/ FromEncodedAddress(p, x)
             \/ DropCarrier(p)
      PROVE  UNCHANGED typedExposed
  BY <1>4, ZenonT(60) DEF Allocate, Derive, DangleZst, FromAddress, FromEncodedAddress, DropCarrier, tables
<1>5. CASE UNCHANGED vars
  BY <1>5, ZenonT(60) DEF vars, tables
<1>6. \/ t \in typedExposed
      \/ \E p \in Carriers, a \in Allocations, codec \in BOOLEAN : Encode(p, a, codec)
  BY <1>2, <1>3, <1>4, <1>5, ZenonT(60) DEF Next
<1> QED  BY <1>1, <1>6, ZenonT(60)

\* An encoding is not forgotten.
LEMMA CodedGrows ==
    ASSUME [Next]_vars
    PROVE  coded \subseteq coded'
<1>1. ASSUME NEW p \in Carriers, NEW a \in Allocations, NEW codec \in BOOLEAN, Encode(p, a, codec)
      PROVE  coded \subseteq coded'
  BY <1>1, ZenonT(60) DEF Encode
<1>2. ASSUME NEW p \in Carriers, NEW a \in Allocations,
             NumericAddress(p, a) \/ AddressCached(p, a) \/ Address(p, a) \/ Erase(p, a)
      PROVE  UNCHANGED coded
  BY <1>2 DEF NumericAddress, AddressCached, Address, Erase
<1> QED  BY <1>1, <1>2, ZenonT(60) DEF Next, vars, Allocate, Derive, DangleZst, FromAddress,
                           FromEncodedAddress, DropCarrier, DropStorage, Deallocate, Collect, ClearTyped

\* Storage only retains what exists.
LEMMA EncodedStep ==
    ASSUME TypedInv, [Next]_vars
    PROVE  encoded' \subseteq Allocations
<1>0. encoded \subseteq Allocations
  BY ZenonT(60) DEF TypedInv
<1>1. ASSUME NEW p \in Carriers, NEW a \in Allocations, NEW codec \in BOOLEAN, Encode(p, a, codec)
      PROVE  encoded' \subseteq Allocations
  BY <1>0, <1>1, ZenonT(60) DEF Encode
<1>2. ASSUME NEW p \in Carriers, NEW a \in Allocations,
             NumericAddress(p, a) \/ AddressCached(p, a) \/ Address(p, a) \/ Erase(p, a)
      PROVE  UNCHANGED encoded
  BY <1>2, ZenonT(60) DEF NumericAddress, AddressCached, Address, Erase
<1>3. ASSUME NEW a, DropStorage(a) PROVE encoded' \subseteq Allocations
  BY <1>0, <1>3, ZenonT(60) DEF DropStorage
<1>4. ASSUME NEW p \in Carriers,
             \/ \E a \in Heap \cup Cells : Allocate(p, a)
             \/ \E q \in Carriers : Derive(p, q)
             \/ \E z \in ZeroSized, x \in ZstAddresses : DangleZst(p, z, x)
             \/ \E x : FromAddress(p, x) \/ FromEncodedAddress(p, x)
             \/ DropCarrier(p)
      PROVE  UNCHANGED encoded
  BY <1>4, ZenonT(60) DEF Allocate, Derive, DangleZst, FromAddress, FromEncodedAddress, DropCarrier
<1>5. ASSUME NEW a, Deallocate(a) \/ Collect(a) \/ ClearTyped(a) PROVE UNCHANGED encoded
  BY <1>5, ZenonT(60) DEF Deallocate, Collect, ClearTyped
<1>6. CASE UNCHANGED vars
  BY <1>0, <1>6, ZenonT(60) DEF vars
<1>7. encoded' = encoded => encoded' \subseteq Allocations
  BY <1>0, ZenonT(60)
<1> QED  BY <1>1, <1>2, <1>3, <1>4, <1>5, <1>6, <1>7, ZenonT(60) DEF Next

\* A typed entry is of storage that exists and was encoded with the codec: the
\* collector clears the entries of an object with it.
LEMMA TypedStep ==
    ASSUME LifeInv, TypedInv, [Next]_vars
    PROVE  TypedInv'
<1>1. ASSUME NEW t \in typedExposed'
      PROVE  t.alloc \in Allocations /\ t.alloc \in coded' /\ status[t.alloc] \in Born
  <2>1. CASE t \in typedExposed
    BY <2>1, CodedGrows, ZenonT(60) DEF TypedInv
  <2>2. ASSUME NEW p \in Carriers, NEW a \in Allocations, Encode(p, a, TRUE), t.alloc = a
        PROVE  status[t.alloc] \in Born
    BY <2>2, ZenonT(60) DEF Encode, Holds, LifeInv, CarrierInv
  <2> QED  BY <2>1, <2>2, TypedFrom, ZenonT(60)
<1>2. ASSUME NEW t \in typedExposed', NEW a \in Allocations, Collect(a)
      PROVE  t.alloc # a
  BY <1>2, ZenonT(60) DEF Collect
<1>3. ASSUME NEW a \in Allocations, NEW b \in Allocations, status[a] \in Born
      PROVE  /\ status[b] = "unborn" /\ status' = [status EXCEPT ![b] = "live"] => status'[a] \in Born
             /\ Deallocate(b) => status'[a] \in Born
             /\ Collect(b) /\ a # b => status'[a] \in Born
  BY <1>3, ZenonT(60) DEF LifeInv, StatusInv, Born, Deallocate, Collect
<1>4. ASSUME NEW t \in typedExposed' PROVE status'[t.alloc] \in Born
  BY <1>1, <1>2, <1>3, <1>4, StatusSteps, ZenonT(60)
<1> QED  BY <1>1, <1>4, EncodedStep, ZenonT(60) DEF TypedInv

\* Only deallocateBytes ends a live allocation as freed.
LEMMA OnlyDeallocateFrees ==
    ASSUME LifeInv, [Next]_vars, NEW a \in Allocations,
           status[a] = "live", status'[a] = "freed"
    PROVE  Deallocate(a)
<1> USE DEF LifeInv, StatusInv
<1>1. ASSUME NEW p \in Carriers,
             \/ \E b \in Heap \cup Cells : Allocate(p, b)
             \/ \E q \in Carriers : Derive(p, q)
             \/ \E z \in ZeroSized, x \in ZstAddresses : DangleZst(p, z, x)
             \/ \E e \in returned \cup reverse : FromAddress(p, e[2])
             \/ \E x \in Written : FromEncodedAddress(p, x)
             \/ DropCarrier(p)
      PROVE  FALSE
  BY ZenonT(60), <1>1
     DEF Allocate, Derive, DangleZst, FromAddress, FromEncodedAddress, DropCarrier, Allocations
<1>2. ASSUME NEW p \in Carriers, NEW b \in Allocations,
             \/ NumericAddress(p, b) \/ AddressCached(p, b) \/ Address(p, b)
             \/ \E codec \in BOOLEAN : Encode(p, b, codec)
             \/ Erase(p, b)
      PROVE  FALSE
  BY <1>2 DEF NumericAddress, AddressCached, Address, Encode, Erase
<1>3. ASSUME NEW b, DropStorage(b) \/ (b \in Allocations /\ Collect(b)) \/ ClearTyped(b)
      PROVE  FALSE
  BY <1>3, ZenonT(60) DEF DropStorage, Collect, ClearTyped
<1>4. ASSUME NEW b \in Allocations, Deallocate(b)
      PROVE  b = a
  BY <1>4 DEF Deallocate
<1>5. CASE UNCHANGED vars
  BY <1>5 DEF vars
<1> QED  BY ZenonT(60), <1>1, <1>2, <1>3, <1>4, <1>5 DEF Next

\* Nothing has been handed out at the start.
LEMMA LifeInit == Init => ExtentInv /\ LifeInv /\ TypedInv /\ IndexExact
<1>1. Init => ExtentInv
  BY CapacityAssumption DEF Init, ExtentInv, InfoType, ExtentsDisjoint, NoInfo, NoAddress
<1>2. IsCarrier(NoCarrier) /\ NoCarrier.alloc = NoAllocation
  BY ZenonT(60) DEF IsCarrier, NoCarrier, Fresh
<1> HIDE DEF NoCarrier, IsCarrier
<1>3. Init => CarrierInv /\ ExposedInv /\ RangeInv /\ IndexExact
  BY <1>2 DEF Init, CarrierInv, ExposedInv, RangeInv, IndexExact
<1>4. Init => StatusInv
  BY DEF Init, StatusInv, NoInfo
<1>5. Init => TypedInv
  BY ZenonT(60) DEF Init, TypedInv
<1> QED  BY <1>1, <1>3, <1>4, <1>5 DEF LifeInv

\* Once deallocateBytes has returned, no exposed address and no range leads
\* to the released bytes: the index it walks was complete, and the one range
\* it looks up was the allocation's only one.  An entry for a codec may still
\* lead there, from a number that was encoded with the codec and that
\* EXPOSED_ADDRESSES did not hold for these bytes.
THEOREM FreedLeavesOnlyEncodings == Spec => FreedIsForgottenUnlessEncoded
<1> DEFINE Inv == ExtentInv /\ LifeInv /\ TypedInv /\ IndexExact
           Left(a) == \A t \in typedExposed' : t.alloc = a =>
                         a \in coded /\ \A e \in exposed : e.address = t.address => e.alloc # a
           Step == \A a \in Heap : status[a] = "live" /\ status'[a] = "freed" =>
                      /\ \A t \in exposed' : t.alloc # a
                      /\ \A r \in ranges' : r.alloc # a
                      /\ Left(a)
<1>1. Init => Inv
  BY LifeInit
<1>2. Inv /\ [Next]_vars => Inv'
  BY ExtentStep, LifeStep, TypedStep, IndexStep
<1>3. Inv /\ [Next]_vars => [Step]_vars
  <2> SUFFICES ASSUME Inv, [Next]_vars, NEW a \in Heap,
                      status[a] = "live", status'[a] = "freed"
               PROVE  (\A t \in exposed' : t.alloc # a) /\ (\A r \in ranges' : r.alloc # a) /\ Left(a)
    OBVIOUS
  <2>1. a \in Allocations
    BY DEF Allocations
  <2>2. Deallocate(a)
    BY <2>1, OnlyDeallocateFrees, ZenonT(60)
  <2>3. \A t \in exposed' : t.alloc # a
    BY <2>2, ForgetKeepsIndex DEF Deallocate
  <2>4. ranges' = {r \in ranges : ~(info[a].published /\ r.base = info[a].base /\ r.alloc = a)}
    BY <2>2 DEF Deallocate
  <2>5. \A r \in ranges' : r.alloc # a
    BY <2>4 DEF LifeInv, RangeInv, Born
  <2>6. ASSUME NEW t \in typedExposed', t.alloc = a
        PROVE  a \in coded /\ \A e \in exposed : e.address = t.address => e.alloc # a
    <3>1. t \in typedExposed /\ <<a, t.address>> \notin reverse
      BY <2>2, <2>6, ZenonT(60) DEF Deallocate, Forget
    <3>2. a \in coded
      BY <2>6, <3>1, ZenonT(60) DEF TypedInv
    <3>3. \A e \in exposed : <<e.alloc, e.address>> \in reverse
      BY ZenonT(60) DEF IndexExact
    <3> QED  BY <3>1, <3>2, <3>3, ZenonT(60)
  <2> QED  BY <2>3, <2>5, <2>6
<1> HIDE DEF Inv
<1>4. FreedIsForgottenUnlessEncoded <=> [][Step]_vars
  BY ZenonT(60) DEF FreedIsForgottenUnlessEncoded
<1> QED  BY <1>1, <1>2, <1>3, <1>4, PTL DEF Spec

-----------------------------------------------------------------------------
(* From a number back to its object.                                       *)
(*                                                                         *)
(* Storage with a base from allocateAddress lies apart from all other such *)
(* storage and below the counter; a base below FirstAddress is a dangling  *)
(* address of a zero-sized value.  An exposed address is its allocation's  *)
(* base plus an offset, or a token, which lies in nobody's extent.  So is  *)
(* a number encoded with a codec, until its storage is released: then it   *)
(* too lies in nobody's extent.                                            *)

Sized == Heap \cup Cells
Placed(a) == info[a].base >= FirstAddress

PlaceInv ==
    /\ next >= FirstAddress
    /\ \A a \in Allocations : info[a].base # NoAddress =>
          \/ a \in ZeroSized /\ info[a].base \in ZstAddresses
          \/ Placed(a) /\ info[a].base + Capacity[a] < next
    /\ \A a, b \in Allocations : a # b /\ Placed(a) /\ Placed(b) =>
          \/ info[a].base + Capacity[a] < info[b].base
          \/ info[b].base + Capacity[b] < info[a].base

OffsetInv ==
    /\ \A p \in Carriers :
          /\ carrier[p].address \in Int
          /\ carrier[p].alloc \in Allocations =>
                carrier[p].offset \in 0 .. Capacity[carrier[p].alloc]
    /\ \A e \in returned : e[2] \in Int

AtBase(t) == info[t.alloc].base # NoAddress /\ t.address = info[t.alloc].base + t.offset
Token(t) ==
    /\ t.address \in Nat /\ t.address >= FirstAddress /\ t.address < next
    /\ \A a \in Allocations :
          Placed(a) => t.address < info[a].base \/ t.address > info[a].base + Capacity[a]

TargetInv ==
    \A t \in exposed : t.offset \in 0 .. Capacity[t.alloc] /\ (AtBase(t) \/ Token(t))

TypedTargetInv ==
    \A t \in typedExposed : t.offset \in 0 .. Capacity[t.alloc] /\ (AtBase(t) \/ Token(t))

\* What a step may do to the counter and to the base of one allocation.
Moves(a) ==
    /\ next' >= next
    /\ \A b \in Allocations \ {a} : info'[b].base = info[b].base
    /\ \/ a \notin Allocations
       \/ info'[a].base = info[a].base
       \/ /\ info'[a].base = NoAddress /\ \A t \in exposed' : t.alloc # a
          /\ a \in Sized \/ \A t \in typedExposed' : t.alloc # a
       \/ /\ a \in ZeroSized /\ info'[a].base \in ZstAddresses
          /\ \A t \in exposed' \cup typedExposed' : t.alloc # a
       \/ /\ info[a].base = NoAddress
          /\ info'[a].base >= next /\ info'[a].base + Capacity[a] < next'

\* Bases stay apart when one of them is taken, dangles or is given up.
LEMMA PlaceAfter ==
    ASSUME ExtentInv, ExtentInv', PlaceInv, NEW a, Moves(a)
    PROVE  PlaceInv'
<1>0. /\ next \in Nat /\ next' \in Nat /\ FirstAddress \in Nat /\ NoAddress = -1
      /\ \A b \in Allocations : Capacity[b] \in Nat /\ info[b].base \in Int /\ info'[b].base \in Int
      /\ \A x \in ZstAddresses : x \in Nat /\ x < FirstAddress
  BY CapacityAssumption DEF ExtentInv, InfoType, NoAddress
<1>1. next' >= FirstAddress
  BY <1>0 DEF PlaceInv, Moves
<1>2. ASSUME NEW b \in Allocations, info'[b].base # NoAddress
      PROVE  \/ b \in ZeroSized /\ info'[b].base \in ZstAddresses
             \/ info'[b].base >= FirstAddress /\ info'[b].base + Capacity[b] < next'
  <2>1. CASE info'[b].base = info[b].base
    BY SMTT(30), <1>0, <1>2, <2>1 DEF PlaceInv, Moves, Placed
  <2>2. CASE b = a /\ info'[a].base # info[a].base
    BY <1>0, <1>2, <2>2 DEF PlaceInv, Moves
  <2> QED  BY <2>1, <2>2, ZenonT(60) DEF Moves
<1>3. ASSUME NEW b \in Allocations, info'[b].base >= FirstAddress
      PROVE  \/ info'[b].base = info[b].base
             \/ b = a /\ info'[b].base >= next
  BY SMTT(30), <1>0, <1>3 DEF Moves
<1>4. ASSUME NEW b \in Allocations, Placed(b)
      PROVE  info[b].base + Capacity[b] < next
  BY SMTT(30), <1>0, <1>4 DEF PlaceInv, Placed
<1>5. ASSUME NEW b \in Allocations, NEW c \in Allocations, b # c,
             info'[b].base >= FirstAddress, info'[c].base >= FirstAddress
      PROVE  \/ info'[b].base + Capacity[b] < info'[c].base
             \/ info'[c].base + Capacity[c] < info'[b].base
  <2>1. CASE info'[b].base = info[b].base /\ info'[c].base = info[c].base
    BY <1>5, <2>1, ZenonT(60) DEF PlaceInv, Placed
  <2>2. CASE b = a /\ info'[b].base >= next /\ info'[c].base = info[c].base
    BY <1>0, <1>4, <1>5, <2>2 DEF Placed
  <2>3. CASE c = a /\ info'[c].base >= next /\ info'[b].base = info[b].base
    BY <1>0, <1>4, <1>5, <2>3 DEF Placed
  <2> QED  BY <1>3, <1>5, <2>1, <2>2, <2>3
<1> QED  BY <1>1, <1>2, <1>5, ZenonT(60) DEF PlaceInv, Placed

\* allocationBase moves the base of its allocation only.
LEMMA TakeBaseMoves ==
    ASSUME ExtentInv, ExtentInv', NEW a \in Allocations, TakeBase(a),
           info'[a].base = Base(a), \A b \in Allocations \ {a} : info'[b].base = info[b].base
    PROVE  Moves(a)
<1>0. next \in Nat
  BY ZenonT(60) DEF ExtentInv
<1>1. CASE Base(a) = info[a].base
  BY <1>0, <1>1 DEF TakeBase, Moves
<1>2. CASE Base(a) # info[a].base
  <2>1. info[a].base = NoAddress /\ Base(a) \in Nat /\ Base(a) >= next
    BY <1>2, BaseIsAddress, ZenonT(60)
  <2>2. next' = Base(a) + Span(a)
    BY <1>2 DEF TakeBase
  <2>3. Span(a) \in Nat /\ Capacity[a] \in Nat /\ Capacity[a] < Span(a)
    BY SpanRoom, ZenonT(60)
  <2> HIDE DEF Base, Span
  <2>4. next' >= next /\ Base(a) + Capacity[a] < next'
    BY <1>0, <2>1, <2>2, <2>3
  <2> QED  BY <2>1, <2>4, ZenonT(60) DEF Moves
<1> QED  BY <1>1, <1>2

\* The base each call leaves in the info.
LEMMA CallsTakeBase ==
    ASSUME ExtentInv, ExtentInv', NEW p \in Carriers, NEW a \in Allocations,
           \/ NumericAddress(p, a) \/ Address(p, a)
           \/ \E codec \in BOOLEAN : Encode(p, a, codec)
    PROVE  Moves(a) /\ info'[a].base = Base(a)
<1>1. /\ TakeBase(a)
      /\ \/ info' = [info EXCEPT ![a].base = Base(a)]
         \/ info' = [info EXCEPT ![a].base = Base(a), ![a].published = TRUE]
  BY DEF NumericAddress, Address, Encode, PublishRange
<1>2. info'[a].base = Base(a) /\ \A b \in Allocations \ {a} : info'[b].base = info[b].base
  BY <1>1, ZenonT(60) DEF ExtentInv, InfoType
<1> QED  BY <1>1, <1>2, TakeBaseMoves, ZenonT(60)

\* Every step moves the base of at most one allocation.
LEMMA StepMoves ==
    ASSUME ExtentInv, ExtentInv', LifeInv, TypedInv, IndexExact, [Next]_vars
    PROVE  \E a : Moves(a)
<1>0. next \in Nat /\ next' \in Nat
  BY DEF ExtentInv
<1>1. ASSUME UNCHANGED next, \A b \in Allocations : info'[b].base = info[b].base
      PROVE  \E a : Moves(a)
  <2>1. Moves(NoAllocation)
    BY <1>0, <1>1, CapacityAssumption DEF Moves
  <2> QED  BY <2>1, ZenonT(60)
<1>2. CASE UNCHANGED vars
  BY <1>1, <1>2, ZenonT(60) DEF vars, tables
<1>3. ASSUME NEW p \in Carriers,
             \/ \E q \in Carriers : Derive(p, q)
             \/ \E x : FromAddress(p, x) \/ FromEncodedAddress(p, x)
             \/ \E a \in Allocations : AddressCached(p, a)
             \/ DropCarrier(p)
      PROVE  \E a : Moves(a)
  BY <1>1, <1>3, ZenonT(60) DEF Derive, FromAddress, FromEncodedAddress, AddressCached, DropCarrier, tables
<1>4. ASSUME NEW p \in Carriers, NEW a \in Heap \cup Cells, Allocate(p, a)
      PROVE  \E b : Moves(b)
  <2>1. UNCHANGED next /\ info' = [info EXCEPT ![a].alignment = Max({16, Alignment[a]})]
    BY <1>4 DEF Allocate
  <2>2. \A b \in Allocations : info'[b].base = info[b].base
    BY <2>1 DEF ExtentInv, InfoType, Allocations
  <2> QED  BY <1>1, <2>1, <2>2
<1>5. ASSUME NEW p \in Carriers, NEW z \in ZeroSized, NEW x \in ZstAddresses, DangleZst(p, z, x)
      PROVE  \E b : Moves(b)
  <2>1. /\ status[z] = "unborn" /\ UNCHANGED <<next, exposed, typedExposed>>
        /\ info' = [info EXCEPT ![z] = [NoInfo EXCEPT !.base = x, !.alignment = Alignment[z]]]
    BY <1>5 DEF DangleZst
  <2>2. z \in Allocations /\ [NoInfo EXCEPT !.base = x, !.alignment = Alignment[z]].base = x
    BY DEF Allocations, NoInfo
  <2>3. info'[z].base = x /\ \A b \in Allocations \ {z} : info'[b].base = info[b].base
    BY <2>1, <2>2 DEF ExtentInv, InfoType
  <2>4. \A t \in exposed \cup typedExposed : t.alloc # z
    BY <2>1 DEF LifeInv, ExposedInv, TypedInv, Born
  <2>5. Moves(z)
    BY <1>0, <2>1, <2>3, <2>4 DEF Moves
  <2> QED  BY <2>5
<1>6. ASSUME NEW p \in Carriers, NEW a \in Allocations,
             \/ NumericAddress(p, a) \/ Address(p, a)
             \/ \E codec \in BOOLEAN : Encode(p, a, codec)
      PROVE  \E b : Moves(b)
  BY <1>6, CallsTakeBase
<1>7. ASSUME NEW p \in Carriers, NEW a \in Allocations, Erase(p, a)
      PROVE  \E b : Moves(b)
  <2>1. next' = Aligned(16) + 16 /\ UNCHANGED info
    BY <1>7 DEF Erase
  <2>2. Aligned(16) \in Nat /\ Aligned(16) >= next
    BY <1>0, RoundUpBound DEF Aligned
  <2> HIDE DEF Aligned
  <2>3. Moves(NoAllocation)
    BY <1>0, <2>1, <2>2, CapacityAssumption DEF Moves
  <2> QED  BY <2>3
<1>8. ASSUME NEW a \in Allocations, Deallocate(a) \/ Collect(a)
      PROVE  \E b : Moves(b)
  <2>1. info' = [info EXCEPT ![a] = NoInfo] /\ UNCHANGED next
    BY <1>8, ZenonT(60) DEF Deallocate, Collect
  <2>2. info'[a].base = NoAddress /\ \A b \in Allocations \ {a} : info'[b].base = info[b].base
    BY <2>1, ZenonT(60) DEF ExtentInv, InfoType, NoInfo
  <2>3. Deallocate(a) => \A t \in exposed' : t.alloc # a
    BY ForgetKeepsIndex, ZenonT(60) DEF Deallocate
  <2>4. Collect(a) => \A t \in exposed' : t.alloc # a
    BY Zenon DEF Collect, Reachable
  <2>5. next' >= next
    BY ONLY <1>0, <2>1
  <2>6. \A t \in exposed' : t.alloc # a
    BY <1>8, <2>3, <2>4, Zenon
  <2>8. a \in Sized \/ \A t \in typedExposed' : t.alloc # a
    BY <1>8, ZenonT(60) DEF Deallocate, Collect, Sized
  <2>7. Moves(a)
    BY <2>2, <2>5, <2>6, <2>8, Zenon DEF Moves
  <2> QED  BY <2>7, ZenonT(60)
<1>9. ASSUME NEW a, DropStorage(a) \/ ClearTyped(a)
      PROVE  \E b : Moves(b)
  BY <1>1, <1>9, ZenonT(60) DEF DropStorage, ClearTyped, tables
<1> QED  BY <1>2, <1>3, <1>4, <1>5, <1>6, <1>7, <1>8, <1>9 DEF Next

\* A number within sized storage is within no other storage.
LEMMA OneOwner ==
    ASSUME ExtentInv, PlaceInv, NEW a \in Sized, NEW b \in Allocations,
           info[a].base # NoAddress, info[b].base # NoAddress,
           NEW i \in 0 .. Capacity[a], NEW j \in 0 .. Capacity[b],
           info[a].base + i = info[b].base + j
    PROVE  a = b
<1>0. /\ a \in Allocations /\ a \notin ZeroSized /\ FirstAddress \in Nat /\ next \in Nat
      /\ Capacity[a] \in Nat /\ Capacity[b] \in Nat /\ info[a].base \in Int /\ info[b].base \in Int
  BY CapacityAssumption, ZenonT(60) DEF Sized, Allocations, ExtentInv, InfoType
<1>1. Placed(a)
  BY <1>0, ZenonT(60) DEF PlaceInv
<1>2. CASE Placed(b)
  BY <1>0, <1>1, <1>2 DEF PlaceInv
<1>3. CASE ~Placed(b)
  <2>1. b \in ZeroSized /\ info[b].base \in ZstAddresses
    BY <1>3, ZenonT(60) DEF PlaceInv
  <2>2. info[b].base < FirstAddress /\ Capacity[b] = 0
    BY <1>0, <2>1, CapacityAssumption
  <2> QED  BY <1>0, <1>1, <2>2 DEF Placed
<1> QED  BY <1>2, <1>3, ZenonT(60)

\* A token stays in nobody's extent.
LEMMA TokenStays ==
    ASSUME ExtentInv, ExtentInv', PlaceInv, NEW a, Moves(a), NEW t, Token(t)
    PROVE  Token(t)'
<1>0. /\ next \in Nat /\ next' \in Nat /\ FirstAddress \in Nat /\ NoAddress = -1
      /\ \A b \in Allocations : Capacity[b] \in Nat /\ info[b].base \in Int /\ info'[b].base \in Int
      /\ \A x \in ZstAddresses : x \in Nat /\ x < FirstAddress
  BY CapacityAssumption DEF ExtentInv, InfoType, NoAddress
<1>2. ASSUME NEW b \in Allocations, Placed(b)'
      PROVE  t.address < info'[b].base \/ t.address > info'[b].base + Capacity[b]
  <2>1. CASE info'[b].base = info[b].base
    BY <1>2, <2>1, ZenonT(60) DEF Token, Placed
  <2>2. CASE info'[b].base >= next
    BY SMTT(30), <1>0, <1>2, <2>2 DEF Token
  <2>3. info'[b].base = info[b].base \/ info'[b].base >= next
    BY <1>0, <1>2 DEF Moves, Placed
  <2> QED  BY <2>1, <2>2, <2>3, ZenonT(60)
<1>3. t.address \in Nat /\ t.address >= FirstAddress /\ t.address < next'
  BY <1>0 DEF Token, Moves
<1> QED  BY <1>2, <1>3, ZenonT(60) DEF Token

\* A target stays where it is.
LEMMA TargetStays ==
    ASSUME ExtentInv, ExtentInv', PlaceInv, NEW a, Moves(a),
           NEW t, t.alloc \in Allocations, t \in exposed'
    PROVE  /\ AtBase(t) => AtBase(t)'
           /\ Token(t) => Token(t)'
<1>1. AtBase(t) => AtBase(t)'
  <2>1. info[t.alloc].base # NoAddress => info'[t.alloc].base = info[t.alloc].base
    BY ZenonT(60) DEF Moves
  <2> QED  BY <2>1 DEF AtBase
<1> QED  BY <1>1, TokenStays, ZenonT(60)

\* An encoded number stays where it is, or its storage is released and it is
\* left in nobody's extent.
LEMMA TypedStays ==
    ASSUME ExtentInv, ExtentInv', PlaceInv, NEW a, Moves(a),
           NEW t \in typedExposed', t.alloc \in Allocations,
           t.offset \in 0 .. Capacity[t.alloc], AtBase(t)
    PROVE  AtBase(t)' \/ Token(t)'
<1> DEFINE b == t.alloc
<1>0. /\ next \in Nat /\ next' \in Nat /\ next' >= next /\ FirstAddress \in Nat /\ NoAddress = -1
      /\ \A c \in Allocations : Capacity[c] \in Nat /\ info[c].base \in Int /\ info'[c].base \in Int
  BY CapacityAssumption DEF ExtentInv, InfoType, NoAddress, Moves
<1>1. info[b].base # NoAddress /\ t.address = info[b].base + t.offset
  BY ZenonT(60) DEF AtBase
<1>2. CASE info'[b].base = info[b].base
  BY <1>1, <1>2, ZenonT(60) DEF AtBase
<1>3. CASE info'[b].base # info[b].base
  <2>1. b = a /\ info'[b].base = NoAddress /\ b \in Sized
    BY <1>1, <1>3, ZenonT(60) DEF Moves
  <2>2. Placed(b) /\ info[b].base + Capacity[b] < next
    BY <1>1, <2>1, CapacityAssumption, ZenonT(60) DEF PlaceInv, Sized
  <2>3. t.address \in Nat /\ t.address >= FirstAddress /\ t.address < next'
    BY SMTT(30), <1>0, <1>1, <2>2 DEF Placed
  <2>4. ASSUME NEW c \in Allocations, Placed(c)'
        PROVE  t.address < info'[c].base \/ t.address > info'[c].base + Capacity[c]
    <3>1. c # b
      BY <1>0, <2>1, <2>4 DEF Placed
    <3>2. info'[c].base = info[c].base /\ Placed(c)
      BY <2>1, <2>4, <3>1, ZenonT(60) DEF Moves, Placed
    <3>3. \/ info[b].base + Capacity[b] < info[c].base
          \/ info[c].base + Capacity[c] < info[b].base
      BY <2>2, <3>1, <3>2, ZenonT(60) DEF PlaceInv
    <3> QED  BY SMTT(30), <1>0, <1>1, <3>2, <3>3
  <2> QED  BY <2>3, <2>4, ZenonT(60) DEF Token
<1> QED  BY SMTT(30), <1>2, <1>3

\* fromAddress finds a place within the storage it finds.
LEMMA LookupOffset ==
    ASSUME ExtentInv, LifeInv, TargetInv, NEW x \in Int, NEW hit \in Lookup(x)
    PROVE  hit.alloc \in Allocations /\ hit.offset \in 0 .. Capacity[hit.alloc]
<1>0. hit.alloc \in Allocations
  BY LookupBorn, ZenonT(60)
<1>1. ASSUME NEW t \in exposed, hit = [alloc |-> t.alloc, offset |-> t.offset]
      PROVE  hit.offset \in 0 .. Capacity[hit.alloc]
  BY <1>1, ZenonT(60) DEF TargetInv
<1>2. CASE hit \in WithinFloor(x)
  <2>1. PICK r \in Floor(x) : /\ hit = [alloc |-> r.alloc, offset |-> x - r.base]
                              /\ x - r.base <= Capacity[r.alloc]
    BY <1>2, ZenonT(60) DEF WithinFloor
  <2>2. r \in ranges /\ status[r.alloc] # "collected" /\ r.base <= x
    BY <2>1 DEF Floor, Current
  <2>3. r.alloc \in Allocations /\ r.base \in Int
    BY <2>2 DEF LifeInv, StatusInv, RangeInv, Born, ExtentInv, InfoType
  <2>4. Capacity[r.alloc] \in Nat
    BY <2>3, CapacityAssumption
  <2> QED  BY <2>1, <2>2, <2>3, <2>4
<1> QED  BY <1>0, <1>1, <1>2 DEF Lookup

\* So does fromEncodedAddress.
LEMMA TypedLookupOffset ==
    ASSUME ExtentInv, LifeInv, TypedInv, TargetInv, TypedTargetInv, NEW x \in Int, NEW hit \in TypedLookup(x)
    PROVE  hit.alloc \in Allocations /\ hit.offset \in 0 .. Capacity[hit.alloc]
<1>0. hit.alloc \in Allocations
  BY TypedLookupBorn, ZenonT(60)
<1>1. ASSUME NEW t \in typedExposed, hit = [alloc |-> t.alloc, offset |-> t.offset]
      PROVE  hit.offset \in 0 .. Capacity[hit.alloc]
  BY <1>1, ZenonT(60) DEF TypedTargetInv
<1>2. CASE hit \in Lookup(x)
  BY <1>2, LookupOffset, ZenonT(60)
<1> QED  BY <1>0, <1>1, <1>2, ZenonT(60) DEF TypedLookup

\* An entry's address is a number.
LEMMA TargetAddress ==
    ASSUME ExtentInv, NEW t, t.alloc \in Allocations,
           t.offset \in 0 .. Capacity[t.alloc], AtBase(t) \/ Token(t)
    PROVE  t.address \in Int
<1>1. Capacity[t.alloc] \in Nat /\ info[t.alloc].base \in Int
  BY CapacityAssumption DEF ExtentInv, InfoType
<1>2. t.offset \in Int
  BY <1>1
<1> QED  BY <1>1, <1>2 DEF AtBase, Token

\* What a step does to a carrier.
Same(p) == carrier'[p].alloc = carrier[p].alloc /\ carrier'[p].offset = carrier[p].offset
Made(p) ==
    \E a, off : /\ carrier'[p] = Fresh(a, off)
                /\ a \in Allocations => off \in 0 .. Capacity[a]
Exposes(p, a) ==
    /\ Same(p) /\ Holds(p, a)
    /\ carrier'[p].address = Base(a) + carrier[p].offset

\* Publishing an address sets it and leaves what the carrier points to.
LEMMA CarrierPublished ==
    ASSUME LifeInv, NEW p \in Carriers, NEW x, NEW t,
           carrier' = [carrier EXCEPT ![p].address = x, ![p].target = t]
    PROVE  /\ Same(p) /\ carrier'[p].address = x /\ carrier'[p].target = t
           /\ \A q \in Carriers : q # p => carrier'[q] = carrier[q]
<1>1. carrier = [q \in Carriers |-> carrier[q]] /\ IsCarrier(carrier[p])
  BY DEF LifeInv, CarrierInv
<1>2. \A q \in Carriers : q # p => carrier'[q] = carrier[q]
  BY <1>1
<1>3. carrier'[p] = [alloc |-> carrier[p].alloc, offset |-> carrier[p].offset,
                     address |-> x, target |-> t, token |-> carrier[p].token]
  BY <1>1, ZenonT(60) DEF IsCarrier
<1>4. \A c, al, off, k :
         c = [alloc |-> al, offset |-> off, address |-> x, target |-> t, token |-> k] =>
            c.alloc = al /\ c.offset = off /\ c.address = x /\ c.target = t
  OBVIOUS
<1>5. /\ carrier'[p].alloc = carrier[p].alloc /\ carrier'[p].offset = carrier[p].offset
      /\ carrier'[p].address = x /\ carrier'[p].target = t
  BY ONLY SMTT(30), <1>3, <1>4
<1> QED  BY <1>2, <1>5, ZenonT(60) DEF Same

\* A carrier is kept, made anew, or gets the address of its storage.
LEMMA CarrierMoves ==
    ASSUME ExtentInv, LifeInv, TypedInv, IndexExact, TargetInv, TypedTargetInv, OffsetInv, [Next]_vars,
           NEW p \in Carriers
    PROVE  \/ /\ Same(p) /\ carrier'[p].address = carrier[p].address
              /\ carrier'[p].target = carrier[p].target
           \/ Made(p)
           \/ \E a \in Allocations : Exposes(p, a) /\ Address(p, a)
           \/ \E a \in Allocations, codec \in BOOLEAN :
                 /\ Exposes(p, a) /\ Encode(p, a, codec)
                 /\ carrier'[p].target => codec \/ carrier[p].target
<1> DEFINE Stays == /\ Same(p) /\ carrier'[p].address = carrier[p].address
                    /\ carrier'[p].target = carrier[p].target
<1>0. /\ carrier = [q \in Carriers |-> carrier[q]] /\ \A q \in Carriers : IsCarrier(carrier[q])
      /\ \A a \in Allocations : Capacity[a] \in Nat
  BY CapacityAssumption DEF LifeInv, CarrierInv
<1>1. ASSUME UNCHANGED carrier PROVE Stays
  BY <1>1, ZenonT(60) DEF Same
<1>2. ASSUME NEW q \in Carriers, NEW a, NEW off, a \in Allocations => off \in 0 .. Capacity[a],
             carrier' = [carrier EXCEPT ![q] = Fresh(a, off)]
      PROVE  Stays \/ Made(p)
  <2>1. CASE q = p
    <3>1. carrier'[p] = Fresh(a, off)
      BY <1>0, <1>2, <2>1, ZenonT(60)
    <3> QED  BY <1>2, <3>1 DEF Made
  <2>2. CASE q # p
    <3>1. carrier'[p] = carrier[p]
      BY <1>0, <1>2, <2>2
    <3> QED  BY <3>1 DEF Same
  <2> QED  BY <2>1, <2>2
<1>3. ASSUME NEW q \in Carriers, NEW a \in Heap \cup Cells, Allocate(q, a)
      PROVE  Stays \/ Made(p)
  <2>1. carrier' = [carrier EXCEPT ![q] = Fresh(a, 0)] /\ 0 \in 0 .. Capacity[a]
    BY <1>0, <1>3 DEF Allocate, Allocations
  <2> QED  BY <1>2, <2>1, ZenonT(60)
<1>4. ASSUME NEW q \in Carriers, NEW r \in Carriers, Derive(q, r)
      PROVE  Stays \/ Made(p)
  <2>1. PICK off \in {0, Capacity[carrier[r].alloc]} :
           carrier' = [carrier EXCEPT ![q] = Fresh(carrier[r].alloc, off)]
    BY <1>4, ZenonT(60) DEF Derive
  <2>2. carrier[r].alloc \in Allocations => off \in 0 .. Capacity[carrier[r].alloc]
    BY <1>0
  <2> QED  BY <1>2, <2>1, <2>2, ZenonT(60)
<1>5. ASSUME NEW q \in Carriers, NEW z \in ZeroSized, NEW x \in ZstAddresses, DangleZst(q, z, x)
      PROVE  Stays \/ Made(p)
  <2>1. carrier' = [carrier EXCEPT ![q] = Fresh(z, 0)] /\ 0 \in 0 .. Capacity[z]
    BY <1>0, <1>5 DEF DangleZst, Allocations
  <2> QED  BY <1>2, <2>1, ZenonT(60)
<1>6. ASSUME NEW q \in Carriers, NEW e \in returned \cup reverse, FromAddress(q, e[2])
      PROVE  Stays \/ Made(p)
  <2>1. PICK hit \in Lookup(e[2]) : carrier' = [carrier EXCEPT ![q] = Fresh(hit.alloc, hit.offset)]
    BY <1>6, ZenonT(60) DEF FromAddress
  <2>2. \A t \in exposed : t.address \in Int
    BY TargetAddress, ZenonT(60) DEF LifeInv, ExposedInv, TargetInv
  <2>3. e[2] \in Int
    BY <2>2 DEF IndexExact, OffsetInv
  <2>4. hit.alloc \in Allocations => hit.offset \in 0 .. Capacity[hit.alloc]
    BY <2>3, LookupOffset, ZenonT(60)
  <2> QED  BY <1>2, <2>1, <2>4, ZenonT(60)
<1>13. ASSUME NEW q \in Carriers, NEW x \in Written, FromEncodedAddress(q, x)
       PROVE  Stays \/ Made(p)
  <2>1. PICK hit \in TypedLookup(x) : carrier' = [carrier EXCEPT ![q] = Fresh(hit.alloc, hit.offset)]
    BY <1>13, ZenonT(60) DEF FromEncodedAddress
  <2>2. \A t \in typedExposed : t.address \in Int
    BY TargetAddress, ZenonT(60) DEF TypedInv, TypedTargetInv
  <2>3. \A a \in encoded : info[a].base \in Int
    BY DEF TypedInv, ExtentInv, InfoType
  <2>4. x \in Int
    BY <2>2, <2>3, ZenonT(60) DEF Written
  <2>5. hit.alloc \in Allocations => hit.offset \in 0 .. Capacity[hit.alloc]
    BY <2>4, TypedLookupOffset, ZenonT(60)
  <2> QED  BY <1>2, <2>1, <2>5, ZenonT(60)
<1>7. ASSUME NEW q \in Carriers, DropCarrier(q)
      PROVE  Stays \/ Made(p)
  <2>1. carrier' = [carrier EXCEPT ![q] = Fresh(NoAllocation, 0)]
    BY <1>7, ZenonT(60) DEF DropCarrier, NoCarrier
  <2> QED  BY <1>2, <2>1, CapacityAssumption, ZenonT(60)
<1>8. ASSUME NEW q \in Carriers, NEW a \in Allocations, Address(q, a)
      PROVE  Stays \/ (Exposes(p, a) /\ Address(p, a))
  <2>1. Holds(q, a) /\ carrier' = [carrier EXCEPT ![q].address = Base(a) + carrier[q].offset, ![q].target = TRUE]
    BY <1>8 DEF Address
  <2>2. CASE q = p
    <3>1. Same(p) /\ carrier'[p].address = Base(a) + carrier[p].offset
      BY ZenonT(30), <2>1, <2>2, CarrierPublished
    <3> QED  BY <1>8, <2>1, <2>2, <3>1, ZenonT(60) DEF Exposes
  <2>3. CASE q # p
    <3>1. carrier'[p] = carrier[p]
      BY <1>0, <2>1, <2>3, ZenonT(60)
    <3> QED  BY <3>1 DEF Same
  <2> QED  BY <2>2, <2>3
<1>9. ASSUME NEW q \in Carriers, NEW a \in Allocations, NEW codec \in BOOLEAN, Encode(q, a, codec)
      PROVE  \/ Stays
             \/ /\ Exposes(p, a) /\ Encode(p, a, codec)
                /\ carrier'[p].target => codec \/ carrier[p].target
  <2> DEFINE x == Base(a) + carrier[q].offset
             t == codec \/ carrier[q].target
  <2>1. Holds(q, a) /\ carrier' = [carrier EXCEPT ![q].address = x, ![q].target = t]
    BY <1>9, Zenon DEF Encode
  <2>2. CASE q = p
    <3>1. Same(q) /\ carrier'[q].address = x /\ carrier'[q].target = t
      <4> HIDE DEF x, t
      <4> QED  BY <2>1, CarrierPublished, ZenonT(60)
    <3> QED  BY <1>9, <2>1, <2>2, <3>1, Zenon DEF Exposes
  <2>3. CASE q # p
    <3>1. carrier'[p] = carrier[p]
      BY <1>0, <2>1, <2>3
    <3> QED  BY <3>1 DEF Same
  <2> QED  BY <2>2, <2>3
<1>10. ASSUME NEW q \in Carriers, NEW a \in Allocations, Erase(q, a)
       PROVE  Stays
  <2>1. carrier' = [carrier EXCEPT ![q].token = Aligned(16)]
    BY <1>10 DEF Erase
  <2> QED  BY <1>0, <2>1 DEF Same, IsCarrier
<1>11. ASSUME \/ UNCHANGED vars
              \/ \E q \in Carriers, a \in Allocations : NumericAddress(q, a) \/ AddressCached(q, a)
              \/ \E a \in Allocations : Deallocate(a) \/ DropStorage(a) \/ Collect(a)
              \/ \E t \in typedExposed : ClearTyped(t)
       PROVE  Stays
  <2>1. UNCHANGED carrier
    BY <1>11, ZenonT(60) DEF vars, NumericAddress, AddressCached, Deallocate, DropStorage, Collect, ClearTyped
  <2> QED  BY <1>1, <2>1
<1> HIDE DEF Stays
<1>12. \/ Stays \/ Made(p)
       \/ \E a \in Allocations : Exposes(p, a) /\ Address(p, a)
       \/ \E a \in Allocations, codec \in BOOLEAN :
             /\ Exposes(p, a) /\ Encode(p, a, codec)
             /\ carrier'[p].target => codec \/ carrier[p].target
  BY <1>3, <1>4, <1>5, <1>6, <1>7, <1>8, <1>9, <1>10, <1>11, <1>13, ZenonT(60) DEF Next
<1> QED  BY <1>12 DEF Stays

\* The steps that change EXPOSED_ADDRESSES.
LEMMA ExposedSteps ==
    ASSUME [Next]_vars
    PROVE  \/ UNCHANGED exposed
           \/ \E a \in Allocations : Deallocate(a)
           \/ \E p \in Carriers, a \in Allocations : Address(p, a) \/ Erase(p, a)
<1>1. CASE UNCHANGED vars
  BY <1>1, Zenon DEF vars, tables
<1>2. CASE Next
  <2>1. ASSUME NEW p \in Carriers,
               \/ \E a \in Heap \cup Cells : Allocate(p, a)
               \/ \E q \in Carriers : Derive(p, q)
               \/ \E z \in ZeroSized, x \in ZstAddresses : DangleZst(p, z, x)
        PROVE  UNCHANGED exposed
    BY <2>1, Zenon DEF Allocate, Derive, DangleZst, tables
  <2>2. ASSUME NEW p \in Carriers, NEW a \in Allocations,
               \/ NumericAddress(p, a) \/ AddressCached(p, a)
               \/ \E codec \in BOOLEAN : Encode(p, a, codec)
        PROVE  UNCHANGED exposed
    BY <2>2, Zenon DEF NumericAddress, AddressCached, Encode, tables
  <2>3. ASSUME NEW p \in Carriers, NEW x,
               FromAddress(p, x) \/ FromEncodedAddress(p, x) \/ DropCarrier(p)
        PROVE  UNCHANGED exposed
    BY <2>3, Zenon DEF FromAddress, FromEncodedAddress, DropCarrier, tables
  <2>4. ASSUME NEW a, DropStorage(a) \/ Collect(a) \/ ClearTyped(a)
        PROVE  UNCHANGED exposed
    BY <2>4, Zenon DEF DropStorage, Collect, ClearTyped, tables
  <2> QED
    BY <1>2, <2>1, <2>2, <2>3, <2>4, ZenonT(60) DEF Next
<1> QED  BY <1>1, <1>2, Zenon

\* Where the entries of EXPOSED_ADDRESSES come from.
LEMMA ExposedFrom ==
    ASSUME [Next]_vars, NEW t \in exposed'
    PROVE  \/ t \in exposed
           \/ \E p \in Carriers, a \in Allocations :
                 /\ Address(p, a)
                 /\ t.alloc = a /\ t.offset = carrier[p].offset
                 /\ t.address = Base(a) + carrier[p].offset
           \/ \E p \in Carriers, a \in Allocations :
                 /\ Erase(p, a)
                 /\ t.alloc = a /\ t.offset = carrier[p].offset /\ t.address = Aligned(16)
<1>1. ASSUME NEW p \in Carriers, NEW a \in Allocations, Address(p, a), t \notin exposed
      PROVE  /\ t.alloc = a /\ t.offset = carrier[p].offset
             /\ t.address = Base(a) + carrier[p].offset
  <2> DEFINE x == Base(a) + carrier[p].offset
  <2>1. Register(x, a, carrier[p].offset)
    BY <1>1 DEF Address
  <2> HIDE DEF x
  <2>2. t = [address |-> x, alloc |-> a, offset |-> carrier[p].offset]
    BY <1>1, <2>1 DEF Register
  <2> QED  BY <2>2 DEF x
<1>2. ASSUME NEW p \in Carriers, NEW a \in Allocations, Erase(p, a), t \notin exposed
      PROVE  t.alloc = a /\ t.offset = carrier[p].offset /\ t.address = Aligned(16)
  <2> DEFINE x == Aligned(16)
  <2>1. Register(x, a, carrier[p].offset)
    BY <1>2 DEF Erase
  <2> HIDE DEF x
  <2>2. t = [address |-> x, alloc |-> a, offset |-> carrier[p].offset]
    BY <1>2, <2>1 DEF Register
  <2> QED  BY <2>2 DEF x
<1>3. \/ t \in exposed
      \/ \E p \in Carriers, a \in Allocations : Address(p, a) \/ Erase(p, a)
  <2>1. \/ UNCHANGED exposed
        \/ \E a \in Allocations : Deallocate(a)
        \/ \E p \in Carriers, a \in Allocations : Address(p, a) \/ Erase(p, a)
    BY ExposedSteps, Zenon
  <2>2. ASSUME NEW a \in Allocations, Deallocate(a) PROVE t \in exposed
    BY <2>2, ZenonT(60) DEF Deallocate, Forget
  <2> QED  BY <2>1, <2>2, Zenon
<1> QED  BY <1>1, <1>2, <1>3

\* How an entry of EXPOSED_ADDRESSES is lost: a number is exposed again, or
\* the allocation is released.
LEMMA ExposedLost ==
    ASSUME [Next]_vars, NEW t \in exposed, t \notin exposed'
    PROVE  \/ \E p \in Carriers, a \in Allocations :
                 Address(p, a) /\ t.address = Base(a) + carrier[p].offset
           \/ \E p \in Carriers, a \in Allocations : Erase(p, a) /\ t.address = Aligned(16)
           \/ \E a \in Allocations : Deallocate(a) /\ t.alloc = a
<1>1. ASSUME NEW x, NEW a, NEW off, Register(x, a, off)
      PROVE  t.address = x
  BY <1>1 DEF Register
<1>2. ASSUME NEW p \in Carriers, NEW a \in Allocations, Address(p, a)
      PROVE  t.address = Base(a) + carrier[p].offset
  BY <1>1, <1>2 DEF Address
<1>3. ASSUME NEW p \in Carriers, NEW a \in Allocations, Erase(p, a)
      PROVE  t.address = Aligned(16)
  BY <1>1, <1>3, ZenonT(60) DEF Erase
<1>4. ASSUME NEW a \in Allocations, Deallocate(a)
      PROVE  t.alloc = a
  BY <1>4, ZenonT(60) DEF Deallocate, Forget
<1>5. \/ UNCHANGED exposed
      \/ \E a \in Allocations : Deallocate(a)
      \/ \E p \in Carriers, a \in Allocations : Address(p, a) \/ Erase(p, a)
  BY ExposedSteps, Zenon
<1> QED  BY <1>2, <1>3, <1>4, <1>5, ZenonT(60)

\* Where the numbers the program was given by address() come from.
LEMMA ReturnedFrom ==
    ASSUME [Next]_vars, NEW e \in returned'
    PROVE  \/ e \in returned /\ ~\E a \in Allocations : Deallocate(a) /\ e[1] = a
           \/ \E p \in Carriers, a \in Allocations :
                 AddressCached(p, a) /\ status[a] = "live" /\ e = <<a, carrier[p].address>>
           \/ \E p \in Carriers, a \in Allocations :
                 Address(p, a) /\ status[a] = "live" /\ e = <<a, Base(a) + carrier[p].offset>>
<1>1. ASSUME NEW a \in Allocations, Deallocate(a)
      PROVE  e \in returned /\ e[1] # a
  BY <1>1 DEF Deallocate
<1>2. ASSUME NEW p \in Carriers, NEW a \in Allocations, AddressCached(p, a), e \notin returned
      PROVE  status[a] = "live" /\ e = <<a, carrier[p].address>>
  BY <1>2 DEF AddressCached, Promised
<1>3. ASSUME NEW p \in Carriers, NEW a \in Allocations, Address(p, a), e \notin returned
      PROVE  status[a] = "live" /\ e = <<a, Base(a) + carrier[p].offset>>
  <2>1. returned' = Promised(a, Base(a) + carrier[p].offset)
    BY <1>3 DEF Address
  <2> QED  BY <1>3, <2>1 DEF Promised
<1>4. \/ e \in returned
      \/ \E p \in Carriers, a \in Allocations : Address(p, a) \/ AddressCached(p, a)
  <2>1. \/ UNCHANGED returned
        \/ \E a \in Allocations : Deallocate(a)
        \/ \E p \in Carriers, a \in Allocations : Address(p, a) \/ AddressCached(p, a)
    <3>1. ASSUME NEW p \in Carriers, NEW a \in Allocations,
                 \/ NumericAddress(p, a) \/ Erase(p, a)
                 \/ \E codec \in BOOLEAN : Encode(p, a, codec)
          PROVE  UNCHANGED returned
      BY <3>1 DEF NumericAddress, Encode, Erase
    <3> QED  BY <3>1, ZenonT(60) DEF Next, vars, Allocate, Derive, DangleZst, FromAddress,
                         FromEncodedAddress, DropCarrier, DropStorage, Collect, ClearTyped
  <2> QED  BY <1>1, <2>1
<1>5. e \in returned => ~\E a \in Allocations : Deallocate(a) /\ e[1] = a
  BY <1>1
<1> QED  BY SMTT(30), <1>2, <1>3, <1>4, <1>5

\* Offsets stay within the storage.
LEMMA OffsetStep ==
    ASSUME ExtentInv, LifeInv, TypedInv, IndexExact, TargetInv, TypedTargetInv, OffsetInv, [Next]_vars
    PROVE  OffsetInv'
<1>1. ASSUME NEW p \in Carriers, NEW a \in Allocations, Holds(p, a)
      PROVE  carrier[p].offset \in 0 .. Capacity[a] /\ Base(a) + carrier[p].offset \in Int
  <2>1. Base(a) \in Int /\ Capacity[a] \in Nat
    BY BaseIsAddress, CapacityAssumption, ZenonT(60)
  <2>2. carrier[p].offset \in 0 .. Capacity[a]
    BY <1>1, ZenonT(60) DEF Holds, OffsetInv
  <2> HIDE DEF Base
  <2> QED  BY <2>1, <2>2
<1>2. ASSUME NEW p \in Carriers
      PROVE  /\ carrier'[p].address \in Int
             /\ carrier'[p].alloc \in Allocations =>
                   carrier'[p].offset \in 0 .. Capacity[carrier'[p].alloc]
  <2>1. CASE Same(p) /\ carrier'[p].address = carrier[p].address
    BY <2>1 DEF Same, OffsetInv
  <2>2. CASE Made(p)
    <3>1. PICK a, off : carrier'[p] = Fresh(a, off) /\ (a \in Allocations => off \in 0 .. Capacity[a])
      BY <2>2 DEF Made
    <3>2. Fresh(a, off).alloc = a /\ Fresh(a, off).offset = off /\ Fresh(a, off).address \in Int
      BY SMTT(30) DEF Fresh, NoAddress
    <3> HIDE DEF Fresh
    <3> QED  BY <3>1, <3>2
  <2>3. CASE \E a \in Allocations : Exposes(p, a)
    <3>1. PICK a \in Allocations : Exposes(p, a)
      BY <2>3
    <3>2. /\ Same(p) /\ Holds(p, a) /\ carrier'[p].address = Base(a) + carrier[p].offset
      BY <3>1, ZenonT(60) DEF Exposes
    <3> QED  BY <1>1, <3>2 DEF Same, Holds
  <2> QED  BY <2>1, <2>2, <2>3, CarrierMoves, ZenonT(60)
<1>3. ASSUME NEW e \in returned'
      PROVE  e[2] \in Int
  <2>1. CASE e \in returned
    BY <2>1 DEF OffsetInv
  <2>2. ASSUME NEW p \in Carriers, NEW a \in Allocations, e = <<a, carrier[p].address>>
        PROVE  e[2] \in Int
    BY <2>2, ZenonT(60) DEF OffsetInv
  <2>3. ASSUME NEW p \in Carriers, NEW a \in Allocations, Address(p, a),
               e = <<a, Base(a) + carrier[p].offset>>
        PROVE  e[2] \in Int
    <3>1. Holds(p, a)
      BY <2>3, ZenonT(60) DEF Address
    <3> QED  BY <1>1, <2>3, <3>1
  <2> QED  BY <2>1, <2>2, <2>3, ReturnedFrom
<1> QED  BY <1>2, <1>3, ZenonT(60) DEF OffsetInv

\* Every exposed address stays in place, and the new ones are in place.
LEMMA TargetStep ==
    ASSUME ExtentInv, ExtentInv', LifeInv, TypedInv, IndexExact, PlaceInv, TargetInv, OffsetInv,
           [Next]_vars
    PROVE  TargetInv'
<1> SUFFICES ASSUME NEW t \in exposed'
             PROVE  t.offset \in 0 .. Capacity[t.alloc] /\ (AtBase(t)' \/ Token(t)')
  BY ZenonT(60) DEF TargetInv
<1>1. CASE t \in exposed
  <2>1. t.alloc \in Allocations
    BY <1>1 DEF LifeInv, ExposedInv
  <2>2. PICK a : Moves(a)
    BY StepMoves
  <2>3. (AtBase(t) => AtBase(t)') /\ (Token(t) => Token(t)')
    BY <2>1, <2>2, TargetStays, ZenonT(60)
  <2> QED  BY <1>1, <2>3 DEF TargetInv
<1>2. ASSUME NEW p \in Carriers, NEW a \in Allocations, Address(p, a),
             t.alloc = a, t.offset = carrier[p].offset,
             t.address = Base(a) + carrier[p].offset
      PROVE  t.offset \in 0 .. Capacity[t.alloc] /\ AtBase(t)'
  <2>1. info'[a].base = Base(a) /\ Base(a) # NoAddress /\ carrier[p].alloc = a
    BY <1>2, CallsTakeBase, BaseIsAddress, ZenonT(60) DEF Address, Holds
  <2>2. AtBase(t)'
    BY <1>2, <2>1, ZenonT(60) DEF AtBase
  <2> QED  BY <1>2, <2>1, <2>2, ZenonT(60) DEF OffsetInv
<1>3. ASSUME NEW p \in Carriers, NEW a \in Allocations, Erase(p, a),
             t.alloc = a, t.offset = carrier[p].offset, t.address = Aligned(16)
      PROVE  t.offset \in 0 .. Capacity[t.alloc] /\ Token(t)'
  <2>n. next \in Nat /\ FirstAddress \in Nat /\ next >= FirstAddress
    BY CapacityAssumption, Zenon DEF ExtentInv, PlaceInv
  <2>b. ASSUME NEW b \in Allocations PROVE Capacity[b] \in Nat /\ info[b].base \in Int
    <3>1. info \in [Allocations -> [base : Int, alignment : Nat \ {0}, published : BOOLEAN]]
      BY Zenon DEF ExtentInv, InfoType
    <3>2. info[b] \in [base : Int, alignment : Nat \ {0}, published : BOOLEAN]
      BY <2>b, <3>1, Zenon
    <3>3. info[b].base \in Int
      BY ONLY <3>2
    <3> QED  BY <2>b, <3>3, CapacityAssumption, Zenon
  <2>1. carrier[p].alloc = a /\ next' = Aligned(16) + 16 /\ UNCHANGED info
    BY <1>3, ZenonT(60) DEF Erase, Holds
  <2>2. Aligned(16) \in Nat /\ Aligned(16) >= next
    <3>1. 16 \in Nat \ {0}
      BY ONLY TRUE
    <3> QED  BY <2>n, <3>1, RoundUpBound, Zenon DEF Aligned
  <2>z. \A x \in ZstAddresses : x \in Nat /\ x < FirstAddress
    BY ONLY CapacityAssumption
  <2>3. ASSUME NEW b \in Allocations, Placed(b)
        PROVE  info[b].base + Capacity[b] < Aligned(16)
    <3> DEFINE lo == info[b].base
               hi == Capacity[b]
               top == Aligned(16)
    <3>1. lo \in Int /\ hi \in Nat /\ lo >= FirstAddress /\ top \in Nat /\ top >= next
      BY <2>b, <2>2, <2>3, Zenon DEF Placed
    <3>2. \/ lo = NoAddress
          \/ lo \in ZstAddresses
          \/ lo + hi < next
      BY <2>3, Zenon DEF PlaceInv
    <3> HIDE DEF lo, hi, top
    <3>3. lo # NoAddress /\ lo \notin ZstAddresses
      BY ONLY <2>n, <2>z, <3>1 DEF NoAddress
    <3>4. lo + hi < top
      BY ONLY <2>n, <3>1, <3>2, <3>3
    <3> QED  BY <3>4, Zenon DEF lo, hi, top
  <2>4. Token(t)'
    <3>1. t.address \in Nat /\ t.address >= FirstAddress /\ t.address < next'
      <4> DEFINE top == Aligned(16)
      <4>1. t.address = top /\ top \in Nat /\ top >= next /\ next' = top + 16
        BY <1>3, <2>1, <2>2, Zenon
      <4> HIDE DEF top
      <4> QED  BY ONLY <2>n, <4>1
    <3>2. ASSUME NEW b \in Allocations, info'[b].base >= FirstAddress
          PROVE  t.address > info'[b].base + Capacity[b]
      <4>1. Placed(b) /\ info'[b].base = info[b].base
        BY <2>1, <3>2, Zenon DEF Placed
      <4> DEFINE end == info[b].base + Capacity[b]
      <4>2. end \in Int
        BY ONLY <2>b, <3>2
      <4>3. end < t.address
        BY <1>3, <2>3, <4>1, Zenon
      <4> HIDE DEF end
      <4>4. t.address > end
        BY ONLY <3>1, <4>2, <4>3
      <4> QED  BY <4>1, <4>4, Zenon DEF end
    <3> QED  BY <3>1, <3>2, Zenon DEF Token, Placed
  <2> QED  BY <1>3, <2>1, <2>4, ZenonT(60) DEF OffsetInv
<1> QED  BY <1>1, <1>2, <1>3, ExposedFrom, ZenonT(60)

\* Every encoded number stays in place or is left in nobody's extent, and the
\* new ones are in place.
LEMMA TypedTargetStep ==
    ASSUME ExtentInv, ExtentInv', LifeInv, TypedInv, IndexExact, PlaceInv, TypedTargetInv, OffsetInv,
           [Next]_vars
    PROVE  TypedTargetInv'
<1> SUFFICES ASSUME NEW t \in typedExposed'
             PROVE  t.offset \in 0 .. Capacity[t.alloc] /\ (AtBase(t)' \/ Token(t)')
  BY ZenonT(60) DEF TypedTargetInv
<1>1. CASE t \in typedExposed
  <2>1. t.alloc \in Allocations /\ t.offset \in 0 .. Capacity[t.alloc] /\ (AtBase(t) \/ Token(t))
    BY <1>1, ZenonT(60) DEF TypedInv, TypedTargetInv
  <2>2. PICK a : Moves(a)
    BY StepMoves
  <2> QED  BY <2>1, <2>2, TypedStays, TokenStays, ZenonT(60)
<1>2. ASSUME NEW p \in Carriers, NEW a \in Allocations, Encode(p, a, TRUE),
             t.alloc = a, t.offset = carrier[p].offset,
             t.address = Base(a) + carrier[p].offset
      PROVE  t.offset \in 0 .. Capacity[t.alloc] /\ AtBase(t)'
  <2>1. info'[a].base = Base(a) /\ Base(a) # NoAddress /\ carrier[p].alloc = a
    BY <1>2, CallsTakeBase, BaseIsAddress, ZenonT(60) DEF Encode, Holds
  <2>2. AtBase(t)'
    BY <1>2, <2>1, ZenonT(60) DEF AtBase
  <2> QED  BY <1>2, <2>1, <2>2, ZenonT(60) DEF OffsetInv
<1> QED  BY <1>1, <1>2, TypedFrom, ZenonT(60)

-----------------------------------------------------------------------------
(* What address() returned is known: the table leads from the number to    *)
(* the object.  A carrier whose target is published carries such a number, *)
(* unless a codec published it.                                            *)

Known(a, x) == \E t \in exposed : t.alloc = a /\ t.address = x /\ AtBase(t)
Backed(p) ==
    /\ Known(carrier[p].alloc, carrier[p].address)
    /\ carrier[p].address = info[carrier[p].alloc].base + carrier[p].offset

KnownInv ==
    /\ \A e \in returned : e[1] \in Sized \ coded => Known(e[1], e[2])
    /\ \A p \in Carriers :
          carrier[p].target /\ carrier[p].alloc \in Sized \ coded
             /\ status[carrier[p].alloc] = "live" => Backed(p)

\* address() makes the number it returns known.
LEMMA AddressKnown ==
    ASSUME ExtentInv, ExtentInv', NEW p \in Carriers, NEW a \in Allocations, Address(p, a),
           NEW x, x = Base(a) + carrier[p].offset
    PROVE  Known(a, x)' /\ info'[a].base = Base(a)
<1>1. info'[a].base = Base(a) /\ Base(a) # NoAddress
  BY CallsTakeBase, BaseIsAddress, ZenonT(60)
<1>2. [address |-> x, alloc |-> a, offset |-> carrier[p].offset] \in exposed'
  BY ZenonT(60) DEF Address, Register
<1>3. PICK t \in exposed' : t = [address |-> x, alloc |-> a, offset |-> carrier[p].offset]
  BY <1>2, ZenonT(60)
<1>4. t.alloc = a /\ t.address = x /\ t.offset = carrier[p].offset
  BY <1>3, ZenonT(60)
<1>5. AtBase(t)'
  BY <1>1, <1>4, ZenonT(60) DEF AtBase
<1> QED  BY <1>1, <1>4, <1>5, ZenonT(60) DEF Known

\* A known number of sized storage stays known until the storage is released.
LEMMA KnownStays ==
    ASSUME ExtentInv, ExtentInv', LifeInv, TypedInv, IndexExact, PlaceInv, TargetInv, OffsetInv,
           [Next]_vars, NEW a \in Sized, NEW x, Known(a, x), ~Deallocate(a)
    PROVE  Known(a, x)' /\ info'[a].base = info[a].base
<1>0. /\ a \in Allocations /\ a \notin ZeroSized /\ next \in Nat /\ FirstAddress \in Nat
      /\ \A b \in Allocations : Capacity[b] \in Nat /\ info[b].base \in Int
  BY CapacityAssumption DEF Sized, Allocations, ExtentInv, InfoType
<1>1. PICK t \in exposed : t.alloc = a /\ t.address = x /\ AtBase(t)
  BY ZenonT(60) DEF Known
<1>2. /\ t.offset \in 0 .. Capacity[a] /\ info[a].base # NoAddress /\ x = info[a].base + t.offset
  BY <1>1, ZenonT(60) DEF TargetInv, AtBase
<1>3. info[a].base + Capacity[a] < next
  BY <1>0, <1>2, ZenonT(60) DEF PlaceInv
<1>4. x \in Int /\ x < next
  BY <1>0, <1>2, <1>3
<1>5. Known(a, x)'
  <2>1. CASE t \in exposed'
    <3>1. PICK b : Moves(b)
      BY StepMoves, ZenonT(60)
    <3>2. AtBase(t)'
      BY <1>0, <1>1, <2>1, <3>1, TargetStays
    <3> QED  BY <1>1, <2>1, <3>2 DEF Known
  <2>2. ASSUME NEW p \in Carriers, NEW b \in Allocations, Address(p, b),
               x = Base(b) + carrier[p].offset
        PROVE  Known(a, x)'
    <3>1. carrier[p].offset \in 0 .. Capacity[b]
      BY <2>2, ZenonT(60) DEF Address, Holds, OffsetInv
    <3>2. /\ Base(b) \in Int
          /\ info[b].base # NoAddress => Base(b) = info[b].base
          /\ info[b].base = NoAddress => Base(b) >= next
      BY BaseIsAddress, ZenonT(60)
    <3> HIDE DEF Base
    <3>3. info[b].base # NoAddress
      BY ONLY SMTT(30), <1>0, <1>4, <2>2, <3>1, <3>2
    <3>4. a = b
      BY <1>2, <2>2, <3>1, <3>2, <3>3, OneOwner, ZenonT(60)
    <3>5. Known(b, x)'
      BY <2>2, AddressKnown, ZenonT(60)
    <3> QED  BY <3>4, <3>5
  <2>3. ASSUME NEW p \in Carriers, NEW b \in Allocations, Erase(p, b), x = Aligned(16)
        PROVE  FALSE
    <3>1. Aligned(16) \in Nat /\ Aligned(16) >= next
      BY <1>0, RoundUpBound DEF Aligned
    <3> HIDE DEF Aligned
    <3> QED  BY SMTT(30), <1>0, <1>4, <2>3, <3>1
  <2> QED  BY <1>1, <2>1, <2>2, <2>3, ExposedLost, ZenonT(60)
<1>6. info'[a].base = info[a].base
  <2>1. PICK b : Moves(b)
    BY StepMoves, ZenonT(60)
  <2>2. \E s \in exposed' : s.alloc = a
    BY <1>5 DEF Known
  <2> QED  BY <1>0, <1>2, <2>1, <2>2, ZenonT(60) DEF Moves
<1> QED  BY <1>5, <1>6, ZenonT(60)

\* Released storage does not come back, and an encoding is not forgotten.
LEMMA LiveBefore ==
    ASSUME LifeInv, [Next]_vars, NEW a \in Allocations, status[a] \in Born, status'[a] = "live"
    PROVE  status[a] = "live" /\ ~Deallocate(a)
<1>0. status \in [Allocations -> {"unborn", "live", "freed", "collected"}]
  BY ZenonT(60) DEF LifeInv, StatusInv
<1>1. ~Deallocate(a)
  BY <1>0, ZenonT(60) DEF Deallocate
<1>2. \/ UNCHANGED status
      \/ \E b \in Allocations :
            \/ status[b] = "unborn" /\ status' = [status EXCEPT ![b] = "live"]
            \/ status' = [status EXCEPT ![b] = "freed"]
            \/ status' = [status EXCEPT ![b] = "collected"]
  BY StatusSteps, ZenonT(60) DEF Deallocate, Collect
<1> QED  BY <1>0, <1>1, <1>2, ZenonT(60) DEF Born

\* What is known stays known, and address() only returns what is known.
LEMMA KnownStep ==
    ASSUME ExtentInv, ExtentInv', LifeInv, TypedInv, IndexExact, PlaceInv, TargetInv, TypedTargetInv,
           OffsetInv, KnownInv, [Next]_vars
    PROVE  KnownInv'
<1>0. Sized \subseteq Allocations /\ coded \subseteq coded'
  BY CodedGrows, ZenonT(60) DEF Sized, Allocations
<1>1. ASSUME NEW e \in returned', e[1] \in Sized \ coded'
      PROVE  Known(e[1], e[2])'
  <2>0. e[1] \in Sized /\ e[1] \notin coded
    BY <1>0, <1>1, ZenonT(60)
  <2>1. CASE e \in returned /\ ~\E a \in Allocations : Deallocate(a) /\ e[1] = a
    <3>1. Known(e[1], e[2]) /\ ~Deallocate(e[1])
      BY <1>0, <2>0, <2>1, ZenonT(60) DEF KnownInv
    <3> QED  BY <2>0, <3>1, KnownStays, ZenonT(60)
  <2>2. ASSUME NEW p \in Carriers, NEW a \in Allocations, AddressCached(p, a),
               status[a] = "live", e = <<a, carrier[p].address>>
        PROVE  Known(e[1], e[2])'
    <3>1. carrier[p].alloc = a /\ carrier[p].target /\ UNCHANGED status
      BY <2>2, ZenonT(60) DEF AddressCached, Holds, AlreadyPublished
    <3>2. Known(e[1], e[2])
      BY <2>0, <2>2, <3>1, ZenonT(60) DEF KnownInv, Backed
    <3>3. ~Deallocate(e[1])
      BY <2>2, <3>1, LiveBefore, ZenonT(60) DEF Born
    <3> QED  BY <2>0, <3>2, <3>3, KnownStays, ZenonT(60)
  <2>3. ASSUME NEW p \in Carriers, NEW a \in Allocations, Address(p, a),
               e = <<a, Base(a) + carrier[p].offset>>
        PROVE  Known(e[1], e[2])'
    <3>1. e[1] = a /\ e[2] = Base(a) + carrier[p].offset
      BY <2>3, ZenonT(60)
    <3> QED  BY <2>3, <3>1, AddressKnown, ZenonT(60)
  <2> QED  BY <2>1, <2>2, <2>3, ReturnedFrom, ZenonT(60)
<1>2. ASSUME NEW p \in Carriers, carrier'[p].target, carrier'[p].alloc \in Sized \ coded',
             status'[carrier'[p].alloc] = "live"
      PROVE  Backed(p)'
  <2> DEFINE a == carrier[p].alloc
  <2>1. ASSUME Same(p), carrier[p].target,
               carrier'[p].address \in {carrier[p].address, info[a].base + carrier[p].offset}
        PROVE  Backed(p)'
    <3>1. /\ a \in Sized /\ a \notin coded /\ status'[a] = "live"
          /\ carrier'[p].alloc = a /\ carrier'[p].offset = carrier[p].offset
      BY <1>0, <1>2, <2>1, ZenonT(60) DEF Same
    <3>2. status[a] = "live" /\ ~Deallocate(a)
      <4>1. a # NoAllocation /\ a \in Allocations
        BY <1>0, <3>1, CapacityAssumption
      <4>2. status[a] \in Born
        BY <4>1, ZenonT(60) DEF LifeInv, CarrierInv
      <4> QED  BY <3>1, <4>1, <4>2, LiveBefore, ZenonT(60)
    <3>3. Known(a, carrier[p].address) /\ carrier[p].address = info[a].base + carrier[p].offset
      BY <2>1, <3>1, <3>2, ZenonT(60) DEF KnownInv, Backed
    <3>4. PICK b, x : b = a /\ x = carrier[p].address
      BY ZenonT(60)
    <3>5. Known(b, x)' /\ info'[b].base = info[b].base
      BY <3>1, <3>2, <3>3, <3>4, KnownStays, ZenonT(60)
    <3>6. carrier'[p].alloc = b /\ carrier'[p].address = x
      BY <2>1, <3>1, <3>3, <3>4, ZenonT(60)
    <3> QED  BY <3>1, <3>3, <3>4, <3>5, <3>6, ZenonT(60) DEF Backed, Known, AtBase
  <2>2. ASSUME Made(p) PROVE FALSE
    <3>1. PICK b, off : carrier'[p] = Fresh(b, off)
      BY <2>2 DEF Made
    <3>2. ~Fresh(b, off).target
      BY ZenonT(60) DEF Fresh
    <3> QED  BY <1>2, <3>1, <3>2
  <2>3. ASSUME NEW b \in Allocations, Exposes(p, b), Address(p, b)
        PROVE  Backed(p)'
    <3>1. PICK x : x = Base(b) + carrier[p].offset
      BY ZenonT(60)
    <3>2. Known(b, x)' /\ info'[b].base = Base(b)
      BY <2>3, <3>1, AddressKnown, ZenonT(60)
    <3>3. /\ carrier'[p].alloc = b /\ carrier'[p].address = x
          /\ carrier'[p].offset = carrier[p].offset
      BY <2>3, <3>1, ZenonT(60) DEF Exposes, Same, Holds
    <3> QED  BY <3>1, <3>2, <3>3 DEF Backed, Known, AtBase
  <2>4. ASSUME NEW b \in Allocations, NEW codec \in BOOLEAN, Exposes(p, b), Encode(p, b, codec),
               carrier'[p].target => codec \/ carrier[p].target
        PROVE  Backed(p)'
    <3>1. Same(p) /\ b = a /\ carrier'[p].alloc = b /\ carrier'[p].address = Base(b) + carrier[p].offset
      BY <2>4, ZenonT(60) DEF Exposes, Same, Holds
    <3>2. carrier[p].target
      BY <1>2, <2>4, <3>1, ZenonT(60) DEF Encode
    <3>3. info[b].base # NoAddress
      <4>1. b \in Sized \ coded /\ b # NoAllocation /\ status'[b] = "live"
        BY <1>0, <1>2, <3>1, CapacityAssumption, ZenonT(60)
      <4>2. status[b] = "live"
        BY <3>1, <4>1, LiveBefore, ZenonT(60) DEF LifeInv, CarrierInv
      <4>3. Known(b, carrier[p].address)
        BY <3>1, <3>2, <4>1, <4>2, ZenonT(60) DEF KnownInv, Backed
      <4> QED  BY <4>3, ZenonT(60) DEF Known, AtBase
    <3>4. Base(b) = info[b].base
      BY <3>3, BaseIsAddress
    <3> QED  BY <2>1, <3>1, <3>2, <3>4, ZenonT(60)
  <2> QED  BY <1>2, <2>1, <2>2, <2>3, <2>4, CarrierMoves, ZenonT(60)
<1> QED  BY <1>1, <1>2, ZenonT(60) DEF KnownInv

-----------------------------------------------------------------------------
(* The two results. *)

RecoveryInv ==
    /\ ExtentInv /\ LifeInv /\ TypedInv /\ IndexExact /\ PlaceInv
    /\ TargetInv /\ TypedTargetInv /\ OffsetInv /\ KnownInv

\* At first nothing has an address.
LEMMA RecoveryInit == Init => RecoveryInv
<1> SUFFICES ASSUME Init PROVE RecoveryInv
  OBVIOUS
<1>1. ExtentInv /\ LifeInv /\ TypedInv /\ IndexExact
  BY LifeInit
<1>2. exposed = {} /\ typedExposed = {} /\ returned = {} /\ next = FirstAddress /\ info = [a \in Allocations |-> NoInfo]
  BY ZenonT(60) DEF Init
<1>3. \A a \in Allocations : info[a].base = NoAddress /\ ~Placed(a)
  BY SMTT(30), <1>2, CapacityAssumption DEF NoInfo, NoAddress, Placed
<1>4. PlaceInv
  BY <1>2, <1>3, CapacityAssumption DEF PlaceInv
<1>5. TargetInv /\ TypedTargetInv
  BY <1>2, ZenonT(60) DEF TargetInv, TypedTargetInv
<1>6. ASSUME NEW p \in Carriers
      PROVE  /\ carrier[p].address \in Int /\ ~carrier[p].target
             /\ carrier[p].alloc \notin Allocations
  <2>1. carrier[p] = Fresh(NoAllocation, 0)
    BY ZenonT(60) DEF Init, NoCarrier
  <2>2. /\ Fresh(NoAllocation, 0).address \in Int /\ ~Fresh(NoAllocation, 0).target
        /\ Fresh(NoAllocation, 0).alloc \notin Allocations
    BY CapacityAssumption DEF Fresh, NoAddress
  <2> QED  BY <2>1, <2>2
<1>7. OffsetInv /\ KnownInv
  BY <1>2, <1>6, ZenonT(60) DEF OffsetInv, KnownInv
<1> QED  BY <1>1, <1>4, <1>5, <1>7 DEF RecoveryInv

\* The whole invariant is inductive.
LEMMA RecoveryStep == RecoveryInv /\ [Next]_vars => RecoveryInv'
<1> SUFFICES ASSUME RecoveryInv, [Next]_vars PROVE RecoveryInv'
  OBVIOUS
<1> USE DEF RecoveryInv
<1>1. ExtentInv' /\ LifeInv' /\ TypedInv' /\ IndexExact'
  BY ExtentStep, LifeStep, TypedStep, IndexStep
<1>2. PlaceInv'
  BY <1>1, StepMoves, PlaceAfter
<1>3. TargetInv' /\ TypedTargetInv' /\ OffsetInv' /\ KnownInv'
  BY <1>1, TargetStep, TypedTargetStep, OffsetStep, KnownStep, ZenonT(60)
<1> QED  BY <1>1, <1>2, <1>3

\* fromAddress or fromEncodedAddress of a number within sized storage finds
\* that storage or nothing.
LEMMA LookupOwner == RecoveryInv => RecoversOwner
<1> SUFFICES ASSUME RecoveryInv, NEW a \in Heap \cup Cells, info[a].base # NoAddress,
                    NEW d \in 0 .. Capacity[a],
                    NEW hit \in Lookup(info[a].base + d) \cup TypedLookup(info[a].base + d)
             PROVE  hit.alloc = a
  BY ZenonT(60) DEF RecoversOwner
<1> DEFINE x == info[a].base + d
<1>0. a \in Sized /\ a \in Allocations /\ Capacity[a] \in Nat /\ info[a].base \in Int
  BY CapacityAssumption, ZenonT(60) DEF Sized, Allocations, RecoveryInv, ExtentInv, InfoType
<1>1. Placed(a)
  BY <1>0, CapacityAssumption, ZenonT(60) DEF Sized, RecoveryInv, PlaceInv
<1>2. ASSUME NEW b \in Allocations, NEW j \in 0 .. Capacity[b],
             info[b].base # NoAddress, x = info[b].base + j
      PROVE  a = b
  BY <1>0, <1>2, OneOwner, ZenonT(60) DEF RecoveryInv
<1>3. ASSUME NEW t \in exposed \cup typedExposed, t.address = x
      PROVE  t.alloc = a
  <2>1. t.alloc \in Allocations /\ t.offset \in 0 .. Capacity[t.alloc] /\ (AtBase(t) \/ Token(t))
    BY ZenonT(60) DEF RecoveryInv, LifeInv, ExposedInv, TypedInv, TargetInv, TypedTargetInv
  <2>2. ~Token(t)
    BY <1>0, <1>1, <1>3 DEF Token
  <2> QED  BY <1>2, <1>3, <2>1, <2>2, ZenonT(60) DEF AtBase
<1>4. ASSUME NEW r \in Floor(x), x - r.base <= Capacity[r.alloc]
      PROVE  r.alloc = a
  <2>1. r \in ranges /\ status[r.alloc] # "collected" /\ r.base <= x
    BY ZenonT(60) DEF Floor, Current
  <2>2. /\ r.alloc \in Allocations /\ info[r.alloc].base = r.base /\ r.base # NoAddress
        /\ r.base \in Int
    BY SMTT(30), <2>1 DEF RecoveryInv, LifeInv, StatusInv, RangeInv, Born, ExtentInv, InfoType
  <2>3. x - r.base \in 0 .. Capacity[r.alloc] /\ x = info[r.alloc].base + (x - r.base)
    <3>1. x \in Int /\ Capacity[r.alloc] \in Nat
      BY SMTT(30), <1>0, <2>2, CapacityAssumption
    <3> HIDE DEF x
    <3> QED  BY ONLY SMTT(30), <1>4, <2>1, <2>2, <3>1
  <2> QED  BY <1>2, <2>2, <2>3, ZenonT(60)
<1>5. CASE \E t \in exposed \cup typedExposed : t.address = x /\ hit = [alloc |-> t.alloc, offset |-> t.offset]
  BY <1>3, <1>5
<1>6. CASE hit \in WithinFloor(x)
  <2>1. PICK r \in Floor(x) : /\ hit = [alloc |-> r.alloc, offset |-> x - r.base]
                              /\ x - r.base <= Capacity[r.alloc]
    BY <1>6, ZenonT(60) DEF WithinFloor
  <2> HIDE DEF x
  <2>2. hit.alloc = r.alloc
    BY <2>1, ZenonT(60)
  <2> QED  BY <1>4, <2>1, <2>2, ZenonT(60)
<1> QED  BY <1>5, <1>6, ZenonT(60) DEF Lookup, TypedLookup

\* A known number leads back to its object, at the right offset.
LEMMA LookupKnown == RecoveryInv => RecoverableUnlessEncoded
<1> SUFFICES ASSUME RecoveryInv, NEW e \in returned, e[1] \in (Heap \cup Cells) \ coded
             PROVE  \E hit \in Lookup(e[2]) :
                       hit.alloc = e[1] /\ info[e[1]].base + hit.offset = e[2]
  BY ZenonT(60) DEF RecoverableUnlessEncoded
<1>1. PICK t \in exposed : t.alloc = e[1] /\ t.address = e[2] /\ AtBase(t)
  BY ZenonT(60) DEF RecoveryInv, KnownInv, Sized, Known
<1> DEFINE hit == [alloc |-> t.alloc, offset |-> t.offset]
<1>2. hit \in Lookup(e[2])
  BY <1>1, ZenonT(60) DEF Lookup
<1>3. hit.alloc = e[1] /\ info[e[1]].base + hit.offset = e[2]
  BY <1>1 DEF AtBase
<1> HIDE DEF hit
<1> QED  BY <1>2, <1>3, ZenonT(60)

\* For all storage, sizes, alignments, pointers and calls, in any order and
\* however the collector runs: fromAddress or fromEncodedAddress of a number
\* within sized live storage, its end included, never takes another object's
\* range or entry.
THEOREM NumbersLeadToTheirOwner == Spec => []RecoversOwner
<1>1. Init => RecoveryInv
  BY RecoveryInit
<1>2. RecoveryInv /\ [Next]_vars => RecoveryInv'
  BY RecoveryStep
<1>3. RecoveryInv => RecoversOwner
  BY LookupOwner
<1> QED  BY <1>1, <1>2, <1>3, PTL DEF Spec

\* What address() returned for a sized object leads back to the object and the
\* same place in it until the object is deallocated, if no codec encoded it.
THEOREM ReturnedNumbersRecover == Spec => []RecoverableUnlessEncoded
<1>1. Init => RecoveryInv
  BY RecoveryInit
<1>2. RecoveryInv /\ [Next]_vars => RecoveryInv'
  BY RecoveryStep
<1>3. RecoveryInv => RecoverableUnlessEncoded
  BY LookupKnown
<1> QED  BY <1>1, <1>2, <1>3, PTL DEF Spec
=============================================================================

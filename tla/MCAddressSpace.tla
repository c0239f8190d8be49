-------------------------- MODULE MCAddressSpace --------------------------
(***************************************************************************)
(* Instances of AddressSpace: byte storage whose size is a multiple of 16, *)
(* a small cell with a large alignment, and zero-sized backings.           *)
(***************************************************************************)
EXTENDS AddressSpace, TLC

CONSTANTS h1, h2, c1, z1, z2

Sizes == [a \in Allocations |->
            IF a \in Heap THEN 16 ELSE IF a \in Cells THEN 8 ELSE 0]
Alignments == [a \in Allocations |-> IF a \in Cells THEN 32 ELSE 8]

\* Byte storage beside an over-aligned cell; byte storage with erased tokens;
\* two zero-sized identities at one address, with a token.
ThreePrograms == {{h1, c1}, {h2}, {z1, z2}}

Interchangeable == Permutations(Carriers) \cup Permutations(ZeroSized)
=============================================================================

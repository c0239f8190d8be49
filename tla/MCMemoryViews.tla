--------------------------- MODULE MCMemoryViews ---------------------------
(***************************************************************************)
(* Instances of MemoryViews: a block of two slots that is decoded as a     *)
(* whole or in part, and a block of one slot, decoded or not.              *)
(***************************************************************************)
EXTENDS MemoryViews

TwoBlocks == {{1, 2}, {3}}
WholeAndPart == {{1, 2}, {2}}
=============================================================================

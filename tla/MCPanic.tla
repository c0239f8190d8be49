------------------------------- MODULE MCPanic -------------------------------
(* Panic with the drop code of DropGlue, for types of each way a value is  *)
(* dropped, alone and nested.                                              *)
EXTENDS Panic, DropGlue

A == Ty("struct", "a", <<>>)
B == Ty("struct", "b", <<>>)
Plain == Ty("struct", "", <<>>)

\* A struct whose Drop implementation comes before its fields, with an array
\* and a tuple that only dropRustValue sees.
Handle == Ty("struct", "handle", <<A, Plain, Ty("array", "", <<B, B>>), Ty("tuple", "", <<A, B>>)>>)

\* Plain aggregates, whose drops are one list.
Pair == Ty("struct", "", <<A, Ty("tuple", "", <<Plain, B>>)>>)
Capture == Ty("closure", "", <<A, B>>)
Row == Ty("array", "", <<A, A>>)

\* Enums, with and without Drop, and one that holds a closure.
Either == Ty("enum", "", <<A, B>>)
Guarded == Ty("enum", "guarded", <<Boxed(A), B>>)
Lazy == Ty("enum", "", <<Capture, A>>)

\* What a Vec drops in place.
Elements == Ty("slice", "", <<Pair, Capture>>)

\* Boxes of an enum, a slice, trait objects, one of them a closure, and a value
\* without destructor.
Boxes == {<<Boxed(Either)>>, <<Boxed(Ty("slice", "", <<Capture, Capture>>))>>,
          <<Boxed(Ty("dyn", "", <<Handle>>))>>, <<Boxed(Ty("dyn", "", <<Capture>>))>>,
          <<Boxed(Plain)>>}

MCOwned == {<<>>, <<A, B>>, <<Handle>>, <<Pair>>, <<Capture>>, <<Row>>, <<Either, A>>,
            <<Guarded>>, <<Lazy>>, <<Elements>>} \cup Boxes
MCNested == {<<>>, <<A>>}

MCTodos == Reached({Glues(types) : types \in MCOwned \cup MCNested} \cup {<<>>})
=============================================================================

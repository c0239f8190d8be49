-------------------------------- MODULE Words --------------------------------
(***************************************************************************)
(* Integers of a fixed width, as the compiled program and the Java virtual  *)
(* machine compute with them: two's complement, wrapping around.            *)
(***************************************************************************)
EXTENDS Integers

CONSTANT HalfRange      \* integers wrap around in -HalfRange .. HalfRange - 1

ASSUME HalfRangeIsPositive == HalfRange \in Nat \ {0}

Values == -HalfRange .. HalfRange - 1

Wrap(n) == ((n + HalfRange) % (2 * HalfRange)) - HalfRange
=============================================================================

----------------------------- MODULE MCOptimise1 -----------------------------
(***************************************************************************)
(* Families of small functions for Optimise1.  Every block ends in a        *)
(* terminator; a handler reads no local that its protected region assigns,  *)
(* as in MIR, where the destination of a call is not assigned when the call *)
(* unwinds.                                                                 *)
(***************************************************************************)
EXTENDS Optimise1

CONSTANTS x, y, z

TwoAnswers == {-2, 1}

V(a) == Var(a, "int")
K(n) == Const(n, "int")

Function(blocks) == [entry |-> 1, blocks |-> blocks]

\* The last block shows the value of every local.
Show == <<InvokeStatic(NoLocal, [n \in 1 .. Cardinality(Locals) |->
              V(SetToSeq(Locals)[n])]), Return(K(0))>>

Copies == {Move(d, V(s)) : d \in Locals, s \in Locals}
Swaps == {i \in Copies : i.dest # i.args[1].name}
Cells == {PointerCell(d, V(s)) : d \in Locals, s \in Locals}

Operations ==
    {Bin(f, y, a, b) : f \in Arithmetic, a \in {V(x), K(0), K(1)},
                       b \in {V(x), V(y), K(0), K(1)}}

\* A constant, a loop that overwrites and computes, and an exit.
ScalarFunctions ==
    {Function(<< <<Move(x, K(v)), Jump(2)>>,
                 <<i, j, t>>,
                 Show >>) :
        v \in {0, -2},
        i \in {Move(x, V(y)), Move(y, V(x)), Move(y, K(1)),
               InvokeStatic(x, <<V(x)>>), InvokeVirtual(y, <<V(x)>>)},
        j \in Operations,
        t \in {Branch(V(x), 2, 3), Switch(V(y), <<0, 1>>, <<2, 3, 3>>)}}

\* Copies and cells in a loop around a call that may throw into a handler.
CopyFunctions ==
    {Function(<< <<i, Jump(2)>>,
                 <<j, k, UnwindStart(4), InvokeStatic(d, <<V(y)>>), Branch(V(y), 2, 3),
                   UnwindEnd>>,
                 Show,
                 <<InvokeStatic(NoLocal, <<V(y)>>), Rethrow>> >>) :
        i \in {Move(x, V(y)), Move(y, V(z))},
        j \in Copies \cup Cells, k \in Swaps, d \in {x, NoLocal}}

\* Blocks that are, or become, equal; branches that become jumps.
BranchFunctions ==
    {Function(<< <<i, Branch(V(x), 2, 3)>>,
                 <<j, Jump(s)>>,
                 <<k, Jump(t)>>,
                 <<UnwindStart(7), InvokeStatic(y, <<V(x)>>), UnwindEnd, Jump(6)>>,
                 <<UnwindStart(6), InvokeStatic(y, <<V(x)>>), UnwindEnd, Jump(7)>>,
                 <<Return(V(x))>>,
                 <<Return(V(x))>> >>) :
        i \in {Move(x, K(0)), Move(x, V(y))},
        j, k \in {Move(x, K(0)), Move(y, K(1)), Move(x, V(y)), PointerCell(y, V(x))},
        s \in {1, 4}, t \in {2, 5}}

\* Loops without a call, which end because integers wrap around.
CountFunctions ==
    {Function(<< <<Move(y, K(v)), Jump(2)>>,
                 <<i, Bin(f, y, V(y), K(1)), Branch(V(y), 2, 3)>>,
                 Show >>) :
        v \in {0, 1}, i \in {Move(x, V(y)), Move(z, V(x))}, f \in {"Add", "Sub"}}

FourFamilies ==
    ScalarFunctions \cup CopyFunctions \cup BranchFunctions \cup CountFunctions

=============================================================================

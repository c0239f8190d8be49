----------------------------- MODULE MCBytecode -----------------------------
(***************************************************************************)
(* Families of small functions for Bytecode.  lx is an int and the first    *)
(* parameter, lr a reference and the second; ly and lz are ints, lw a long, *)
(* lb a boolean and ls another reference.  The debugger shows lz.           *)
(***************************************************************************)
EXTENDS Bytecode

CONSTANTS lx, ly, lz, lw, lb, lr, ls

ClassA == <<"A">>
VariantA == <<"A", "x">>

X == Var(lx, I32)
Y == Var(ly, I32)
Z == Var(lz, I32)
W == Var(lw, I64)
B == Var(lb, Boolean)
R == Var(lr, ClassA)
S == Var(ls, ClassA)
K(n) == Const(n, I32)
L(n) == Const(n, I64)
Null == Const(0, ClassA)

Function(blocks) ==
    [entry |-> 1, blocks |-> blocks, params |-> <<<<lx, I32>>, <<lr, ClassA>>>>,
     ret |-> I32, debug |-> {lz}]

Show(os) == Call(NoLocal, os, Unit)

\* Counting and switching: a table, pairs, comparisons one by one.
SwitchFunctions ==
    {Function(<< <<Move(ly, K(0)), Move(lz, X), Jump(2)>>,
                 <<i, j, t>>,
                 <<Show(<<Y>>), Jump(5)>>,
                 <<Bin("Mul", ly, Y, X), Show(<<Y, X>>), Jump(5)>>,
                 <<Return(Z)>> >>) :
        i \in {Bin("Add", ly, Y, K(1)), Bin("Add", ly, K(2), Y), Bin("Sub", ly, Y, K(1))},
        j \in {Call(lx, <<Y>>, I32), Bin("Add", lz, Y, X), Bin("Sub", ly, X, Y), Move(lx, Y)},
        t \in {Switch(Y, <<0, 1, 2>>, <<5, 3, 4, 2>>),
               Switch(Y, <<2, -2, 1>>, <<3, 4, 5, 2>>),
               Switch(Y, <<-4, 0, 3>>, <<3, 5, 4, 2>>),
               Switch(Y, <<0, 1>>, <<2, 3, 4>>)}}

\* Regions in a loop, ending after a jump or before: one empty, a handler that has
\* a region itself.
RegionFunctions ==
    {Function(<< <<i, UnwindStart(h), c, Jump(2), UnwindEnd>>,
                 <<UnwindStart(4), d, UnwindEnd, e, Branch(B, 1, 3)>>,
                 <<Show(<<X>>), Return(X)>>,
                 <<UnwindStart(5), Show(<<Y>>), UnwindEnd, Rethrow>>,
                 <<Show(<<Z>>), k>> >>) :
        i \in {Move(ly, X), Bin("Add", ly, X, K(1))},
        h \in {4, 5},
        c \in {Call(NoLocal, <<Y>>, I32), Call(lz, <<X>>, I32)},
        d \in {Call(lb, <<>>, Boolean), Move(lb, Const(0, Boolean))},
        e \in {Bin("Lt", lb, Y, X), Bin("Eq", lb, Y, K(0))},
        k \in {Rethrow, Jump(3)}}

\* A value that is made, and used again, only unless a flag says otherwise.
Guarded(ends, last) ==
    {Function(<< <<Move(lb, Const(1, Boolean)), i, Switch(X, <<0>>, <<3, 2>>)>>,
                 <<d, Move(lb, Const(0, Boolean)), Jump(3)>>,
                 <<Branch(B, 5, 4)>>,
                 <<u, j>>,
                 last >>) :
        i \in {Call(ly, <<>>, I32), Move(lw, L(1))},
        d \in {Call(ls, <<>>, ClassA), Move(lz, X)},
        u \in {Show(<<S>>), Show(<<W>>), Show(<<Z>>)},
        j \in ends}

Reads(f, v) == \E n \in DOMAIN f.blocks[4][1].args : f.blocks[4][1].args[n].name = v

\* Uses what the branch made.
GuardedFunctions(ends, last) ==
    {f \in Guarded(ends, last) : Reads(f, f.blocks[2][1].dest)}

LoopingGuards ==
    GuardedFunctions({Jump(5), Switch(X, <<-1, 1, 2>>, <<5, 6, 5, 5>>)},
                     <<Show(<<X>>), Call(lb, <<>>, Boolean), Branch(B, 1, 6)>>)

WithReturn(f) == [f EXCEPT !.blocks = Append(@, <<Return(X)>>)]

GuardsInLoops == {WithReturn(f) : f \in LoopingGuards}

\* References and longs: casts, null tests, wide slots.
WideFunctions ==
    {Function(<< <<Move(lw, L(v)), i, j, Branch(B, 2, 3)>>,
                 <<k, Show(<<Var(ls, ty), W>>), Jump(3)>>,
                 <<Show(<<R, W>>), Switch(W, <<0, 1>>, <<4, 3, 4>>)>>,
                 <<Move(lx, K(1)), Return(X)>> >>) :
        v \in {0, 2},
        i \in {Bin("Add", lw, W, L(1)), Call(lw, <<W>>, I64), Bin("Mul", lw, W, W)},
        j \in {Bin("Eq", lb, R, Null), Bin("Eq", lb, R, R), Bin("Lt", lb, W, L(1))},
        k \in {Call(ls, <<>>, ClassA), Move(ls, Null)},
        ty \in {ClassA, VariantA}}

\* A loop back to the first instruction, and copies of copies.
EntryLoops ==
    {Function(<< <<c, i, j, Bin("Eq", lb, K(0), Y), t>>,
                 <<Show(<<Y, Z>>), Return(Y)>> >>) :
        c \in {Call(ly, <<X>>, I32), Bin("Add", lx, X, K(0))},
        i \in {Move(ly, X), Move(lx, Y)},
        j \in {Move(lz, Y), Bin("Sub", lx, X, K(1))},
        t \in {Switch(Y, <<0>>, <<1, 2>>), Switch(Z, <<0>>, <<1, 2>>), Branch(B, 2, 1)}}

\* Loops and handlers that use what was made before them.
LargeFunctions ==
    {Function(<< <<Move(ls, R), Move(ly, X), Move(lw, L(1)), Show(<<X>>), Show(<<R>>), Jump(2)>>,
                 <<k, UnwindStart(5), c, Jump(3), UnwindEnd>>,
                 <<Show(<<Var(ls, ty), W>>), Call(lb, <<>>, Boolean), Branch(B, 2, 4)>>,
                 <<Return(Y)>>,
                 <<Show(<<S>>), h>> >>) :
        c \in {Call(ly, <<S>>, I32), Call(NoLocal, <<Y>>, I32)},
        k \in {Bin("Add", lw, W, L(1)), Call(ls, <<S>>, ClassA), Move(ly, K(2))},
        ty \in {ClassA, VariantA},
        h \in {Rethrow, Return(X)}}

\* Functions that are cut into chunks for what they do first.
Prolonged(f) == [f EXCEPT !.blocks[1] = <<Show(<<X>>), Show(<<R>>)>> \o @]

ProlongedFunctions ==
    {Prolonged(f) : f \in {g \in SwitchFunctions : g.blocks[2][2] = Call(lx, <<Y>>, I32)}
                       \cup {g \in RegionFunctions : g.blocks[1][1] = Move(ly, X)
                                                  /\ g.blocks[1][2] = UnwindStart(4)}}

BytecodeFamilies ==
    SwitchFunctions \cup RegionFunctions \cup WideFunctions
        \cup GuardsInLoops
        \cup EntryLoops \cup LargeFunctions \cup ProlongedFunctions

TwoAnswers == {1, 2}
=============================================================================

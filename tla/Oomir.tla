-------------------------------- MODULE Oomir --------------------------------
(***************************************************************************)
(* The part of OOMIR (src/src/oomir.rs) that the optimiser tells apart, and *)
(* what it means to execute it.  A function is an entry label and a map     *)
(* from labels (numbers, so that they can be sorted) to sequences of        *)
(* instructions.  Constants are scalars: aggregates and the instructions    *)
(* on them are left out.                                                    *)
(***************************************************************************)
EXTENDS Words, Sequences, FiniteSets, SequencesExt

CONSTANTS Locals,       \* the names of local variables
          NoLocal,      \* the destination of a call without one
          NoLabel       \* no protected region is open

-----------------------------------------------------------------------------
(* Operands carry the type they are used at.                               *)

Var(x, ty) == [var |-> TRUE, name |-> x, ty |-> ty]
Const(v, ty) == [var |-> FALSE, value |-> v, ty |-> ty]

Move(d, o) == [op |-> "Move", dest |-> d, args |-> <<o>>]
Bin(f, d, a, b) == [op |-> f, dest |-> d, args |-> <<a, b>>]
Neg(d, o) == [op |-> "Neg", dest |-> d, args |-> <<o>>]
InvokeStatic(d, as) == [op |-> "InvokeStatic", dest |-> d, args |-> as]
InvokeVirtual(d, as) == [op |-> "InvokeVirtual", dest |-> d, args |-> as]
PointerCell(d, o) == [op |-> "PointerCell", dest |-> d, args |-> <<o>>]
Jump(l) == [op |-> "Jump", args |-> <<>>, targets |-> <<l>>]
Branch(o, t, e) == [op |-> "Branch", args |-> <<o>>, targets |-> <<t, e>>]
Switch(o, vs, ls) ==
    [op |-> "Switch", args |-> <<o>>, values |-> vs, targets |-> ls]
Return(o) == [op |-> "Return", args |-> <<o>>]
Rethrow == [op |-> "Rethrow", args |-> <<>>]
UnwindStart(l) == [op |-> "UnwindStart", args |-> <<>>, targets |-> <<l>>]
UnwindEnd == [op |-> "UnwindEnd", args |-> <<>>]

Arithmetic == {"Add", "Sub", "Mul", "Div", "Eq", "Lt"}
Calls == {"InvokeStatic", "InvokeVirtual"}

\* The locals an instruction reads, and the one it assigns (at most one).
Uses(i) == {i.args[n].name : n \in {m \in DOMAIN i.args : i.args[m].var}}

Defs(i) == IF "dest" \in DOMAIN i THEN {i.dest} \ {NoLocal} ELSE {}

-----------------------------------------------------------------------------
(* Control flow: exceptional edges are edges like any other.               *)

get_instruction_successors(i) ==
    IF "targets" \in DOMAIN i THEN i.targets ELSE <<>>

get_block_successors(code) ==
    FoldLeft(LAMBDA ss, l : IF Contains(ss, l) THEN ss ELSE Append(ss, l), <<>>,
             FlattenSeq([n \in DOMAIN code |-> get_instruction_successors(code[n])]))

Successors(f, l) ==
    SelectSeq(get_block_successors(f.blocks[l]), LAMBDA s : s \in DOMAIN f.blocks)

Predecessors(f, l) ==
    {p \in DOMAIN f.blocks : Contains(Successors(f, p), l)}

\* find_reachable_blocks: what the work list has collected when it runs dry.
find_reachable_blocks(f) ==
    FoldLeft(LAMBDA seen, n :
                 seen \cup UNION {ToSet(Successors(f, l)) : l \in seen},
             {f.entry}, [n \in 1 .. Cardinality(DOMAIN f.blocks) |-> n])

-----------------------------------------------------------------------------
(* Scalar arithmetic, wrapping; division truncates.                        *)

Magnitude(n) == IF n < 0 THEN -n ELSE n

Truncated(a, b) ==
    LET q == Magnitude(a) \div Magnitude(b)
    IN  IF (a < 0) = (b < 0) THEN q ELSE -q

\* Division by zero has no result.
Apply(f, a, b) ==
    CASE f = "Add" -> Wrap(a + b)
      [] f = "Sub" -> Wrap(a - b)
      [] f = "Mul" -> Wrap(a * b)
      [] f = "Div" -> Wrap(Truncated(a, b))
      [] f = "Eq"  -> IF a = b THEN 1 ELSE 0
      [] f = "Lt"  -> IF a < b THEN 1 ELSE 0

-----------------------------------------------------------------------------
(* Execution.  A machine stands before one instruction; region is the      *)
(* handler of the open protected region.                                   *)

Start(f, env) == [at |-> f.entry, pc |-> 1, env |-> env, region |-> NoLabel]

Current(f, m) == f.blocks[m.at][m.pc]

Read(m, o) == IF o.var THEN m.env[o.name] ELSE o.value

Arguments(f, m) ==
    [n \in DOMAIN Current(f, m).args |-> Read(m, Current(f, m).args[n])]

Goto(m, l) == [m EXCEPT !.at = l, !.pc = 1, !.region = NoLabel]

Assign(m, x, v) ==
    [m EXCEPT !.pc = @ + 1, !.env = [y \in Locals |-> IF y = x THEN v ELSE m.env[y]]]

\* What a caller or callee can see of the function: calls and how it ends.
Visible(f, m) == Current(f, m).op \in Calls \cup {"Return", "Rethrow"}

\* Valid MIR never divides by zero: it asserts the divisor first.
Undefined(f, m) ==
    /\ Current(f, m).op = "Div"
    /\ Arguments(f, m)[2] = 0

SwitchTarget(i, v) ==
    LET hit == {n \in DOMAIN i.values : i.values[n] = v}
    IN  IF hit = {} THEN Len(i.targets) ELSE CHOOSE n \in hit : \A k \in hit : n <= k

Silently(f, m) ==
    LET i == Current(f, m)
        as == Arguments(f, m)
    IN  CASE i.op \in {"Move", "PointerCell"} -> Assign(m, i.dest, as[1])
          [] i.op = "Neg" -> Assign(m, i.dest, Wrap(-as[1]))
          [] i.op \in Arithmetic -> Assign(m, i.dest, Apply(i.op, as[1], as[2]))
          [] i.op = "Jump" -> Goto(m, i.targets[1])
          [] i.op = "Branch" -> Goto(m, i.targets[IF as[1] # 0 THEN 1 ELSE 2])
          [] i.op = "Switch" -> Goto(m, i.targets[SwitchTarget(i, as[1])])
          [] i.op = "UnwindStart" -> [m EXCEPT !.pc = @ + 1, !.region = i.targets[1]]
          [] i.op = "UnwindEnd" -> [m EXCEPT !.pc = @ + 1, !.region = NoLabel]
=============================================================================

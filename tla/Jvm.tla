--------------------------------- MODULE Jvm ---------------------------------
(***************************************************************************)
(* The Java virtual machine as the code generator uses it: the instructions *)
(* it emits, what they do, and what the verifier demands of the stack map   *)
(* frames that come with them.  Instruction indices start at 1; branches    *)
(* name the index of their target, switches the distance to it.  A long is  *)
(* one entry of the operand stack and two local slots.                      *)
(***************************************************************************)
EXTENDS Words, Folding, Sequences, FiniteSets, SequencesExt, FiniteSetsExt

-----------------------------------------------------------------------------
(* Instructions.  k is the kind of value ("I", "J" or "A") or a condition,  *)
(* n a constant or a local slot, ks keys, amounts or types, ts targets.     *)

Op(op) == [op |-> op, k |-> "", n |-> 0, ks |-> <<>>, ts |-> <<>>]
Push(k, v) == [Op("const") EXCEPT !.k = k, !.n = v]
Load(k, x) == [Op("load") EXCEPT !.k = k, !.n = x]
Store(k, x) == [Op("store") EXCEPT !.k = k, !.n = x]
Iinc(x, a) == [Op("iinc") EXCEPT !.k = "I", !.n = x, !.ks = <<a>>]
Arith(k, f) == [Op(f) EXCEPT !.k = k]
If(c, t) == [Op("if") EXCEPT !.k = c, !.ts = <<t>>]
GotoI(t) == [Op("goto") EXCEPT !.ts = <<t>>]
GotoW(t) == [Op("goto_w") EXCEPT !.ts = <<t>>]
\* The last target is the default.
SwitchI(how, keys, ts) == [Op("switch") EXCEPT !.k = how, !.ks = keys, !.ts = ts]
\* ks is the type of the result followed by those of the parameters.
Invoke(ret, params) == [Op("invoke") EXCEPT !.ks = <<ret>> \o params]
Checkcast(ty) == [Op("checkcast") EXCEPT !.k = "A", !.ks = <<ty>>]
ReturnI(k) == [Op("return") EXCEPT !.k = k]

Gotos == {"goto", "goto_w"}
Binary == {"add", "sub", "mul"}
NoFallThrough == Gotos \cup {"switch", "return", "athrow"}

\* How many operands a condition compares, and its negation.
Comparands(c) == IF c \in {"icmpeq", "icmpne", "icmplt", "icmpge", "acmpeq", "acmpne"} THEN 2 ELSE 1

Inverse2(c) ==
    CASE c = "eq" -> "ne" [] c = "ne" -> "eq" [] c = "lt" -> "ge" [] c = "ge" -> "lt"
      [] c = "icmpeq" -> "icmpne" [] c = "icmpne" -> "icmpeq"
      [] c = "icmplt" -> "icmpge" [] c = "icmpge" -> "icmplt"
      [] c = "acmpeq" -> "acmpne" [] c = "acmpne" -> "acmpeq"
      [] c = "null" -> "nonnull" [] c = "nonnull" -> "null"

\* Absolute targets of the instruction at index p.
Targets(p, i) ==
    IF i.op = "switch" THEN {p + t : t \in ToSet(i.ts)} ELSE ToSet(i.ts)

SuccessorsOf(code, p) ==
    Targets(p, code[p]) \cup
        (IF code[p].op \in NoFallThrough THEN {} ELSE {p + 1} \cap DOMAIN code)

\* Local slots take two places for a long.
Width(k) == IF k = "J" THEN 2 ELSE 1

-----------------------------------------------------------------------------
(* Execution.  The exception table lists [start, end, handler], the end     *)
(* excluded; the first entry that covers the instruction catches.           *)

StartAt(locals) == [pc |-> 1, loc |-> locals, st |-> <<>>]

Pop(s, n) == SubSeq(s, 1, Len(s) - n)
Top1(s) == s[Len(s)]
Top2(s) == s[Len(s) - 1]

Holds(c, st) ==
    CASE c \in {"eq", "null"} -> Top1(st) = 0
      [] c \in {"ne", "nonnull"} -> Top1(st) # 0
      [] c = "lt" -> Top1(st) < 0
      [] c = "ge" -> Top1(st) >= 0
      [] c \in {"icmpeq", "acmpeq"} -> Top2(st) = Top1(st)
      [] c \in {"icmpne", "acmpne"} -> Top2(st) # Top1(st)
      [] c = "icmplt" -> Top2(st) < Top1(st)
      [] c = "icmpge" -> Top2(st) >= Top1(st)

ApplyI(f, a, b) ==
    CASE f = "add" -> Wrap(a + b)
      [] f = "sub" -> Wrap(a - b)
      [] f = "mul" -> Wrap(a * b)
      [] f = "cmp" -> IF a < b THEN -1 ELSE IF a > b THEN 1 ELSE 0

KeyIndex(i, v) ==
    IF \E j \in DOMAIN i.ks : i.ks[j] = v
    THEN CHOOSE j \in DOMAIN i.ks : i.ks[j] = v
    ELSE Len(i.ts)

VisibleI(code, m) == code[m.pc].op \in {"invoke", "return", "athrow"}

\* One instruction that no caller or callee sees.
StepI(code, m) ==
    LET i == code[m.pc]
        Then(st) == [m EXCEPT !.pc = @ + 1, !.st = st]
    IN  CASE i.op = "const" -> Then(Append(m.st, i.n))
          [] i.op = "load" -> Then(Append(m.st, m.loc[i.n]))
          [] i.op = "store" -> [Then(Pop(m.st, 1)) EXCEPT !.loc[i.n] = Top1(m.st)]
          [] i.op = "iinc" -> [Then(m.st) EXCEPT !.loc[i.n] = Wrap(@ + i.ks[1])]
          [] i.op \in Binary \cup {"cmp"} ->
                Then(Append(Pop(m.st, 2), ApplyI(i.op, Top2(m.st), Top1(m.st))))
          [] i.op = "neg" -> Then(Append(Pop(m.st, 1), Wrap(-Top1(m.st))))
          [] i.op \in {"dup", "dup2"} -> Then(Append(m.st, Top1(m.st)))
          [] i.op = "pop" -> Then(Pop(m.st, 1))
          [] i.op \in {"nop", "checkcast"} -> Then(m.st)
          [] i.op = "if" -> [m EXCEPT !.pc = IF Holds(i.k, m.st) THEN i.ts[1] ELSE @ + 1,
                                      !.st = Pop(@, Comparands(i.k))]
          [] i.op \in Gotos -> [m EXCEPT !.pc = i.ts[1]]
          [] i.op = "switch" -> [m EXCEPT !.pc = @ + i.ts[KeyIndex(i, Top1(m.st))],
                                          !.st = Pop(@, 1)]

Catchers(table, p) == SelectSeq(table, LAMBDA e : p \in e.start .. e.end - 1)

Catch(table, m, exception) ==
    [m EXCEPT !.pc = Catchers(table, m.pc)[1].handler, !.st = <<exception>>]

ArgumentsI(code, m) ==
    SubSeq(m.st, Len(m.st) - Len(code[m.pc].ks) + 2, Len(m.st))

-----------------------------------------------------------------------------
(* Verification types, as tuples: <<"Top">>, <<"I">>, <<"J">>, <<"Null">>    *)
(* and <<"Obj", ...class>>, a nested class being a longer tuple.            *)

TopV == <<"Top">>
NullV == <<"Null">>
ObjectClass == <<"Object">>
Throwable == <<"Throwable">>
Obj(class) == <<"Obj">> \o class

KindValue(k) == IF k = "A" THEN Obj(ObjectClass) ELSE <<k>>

\* A variant class extends the class it is nested in.
Subclass(c, d) == d = ObjectClass \/ IsPrefix(d, c)

Assignable(v, w) ==
    \/ v = w
    \/ w = TopV
    \/ v = NullV /\ w[1] = "Obj"
    \/ v[1] = "Obj" /\ w[1] = "Obj" /\ Subclass(Tail(v), Tail(w))

FrameAssignable(s, f) ==
    /\ \A x \in DOMAIN f.loc : Assignable(s.loc[x], f.loc[x])
    /\ Len(s.st) = Len(f.st)
    /\ \A n \in DOMAIN f.st : Assignable(s.st[n], f.st[n])

IsReference(v) == v[1] \in {"Null", "Obj"}

HasKind(v, k) == IF k = "A" THEN IsReference(v) ELSE v = <<k>>

\* Storing into a slot destroys a long that began one slot earlier.
PutLocal(loc, x, v) ==
    [y \in DOMAIN loc |-> IF y = x THEN v
                          ELSE IF y = x - 1 /\ loc[y] = <<"J">> THEN TopV
                          ELSE IF y = x + 1 /\ v = <<"J">> THEN TopV
                          ELSE loc[y]]

\* The types an instruction pops (first to last), as what they must fit.
Pops(i) ==
    CASE i.op \in {"store", "neg"} -> <<i.k>>
      [] i.op \in Binary \cup {"cmp"} -> <<i.k, i.k>>
      [] i.op = "if" -> [n \in 1 .. Comparands(i.k) |->
                            IF i.k \in {"null", "nonnull", "acmpeq", "acmpne"} THEN "A" ELSE "I"]
      [] i.op = "switch" -> <<"I">>
      [] i.op = "return" -> IF i.k = "" THEN <<>> ELSE <<i.k>>
      [] i.op \in {"athrow", "checkcast"} -> <<"A">>
      [] OTHER -> <<>>

\* Is the instruction legal with these operand and local types?
Accepts(i, s) ==
    /\ Len(s.st) >= Len(Pops(i))
    /\ \A n \in 1 .. Len(Pops(i)) : HasKind(s.st[Len(s.st) - Len(Pops(i)) + n], Pops(i)[n])
    /\ i.op \in {"load", "iinc"} => HasKind(s.loc[i.n], i.k)
    /\ i.op = "dup" => s.st # <<>> /\ Top1(s.st) # <<"J">>
    /\ i.op = "dup2" => s.st # <<>> /\ Top1(s.st) = <<"J">>
    /\ i.op = "pop" => s.st # <<>> /\ Top1(s.st) # <<"J">>
    /\ i.op = "invoke" =>
          /\ Len(s.st) >= Len(i.ks) - 1
          /\ \A n \in 2 .. Len(i.ks) : Assignable(s.st[Len(s.st) - Len(i.ks) + n], i.ks[n])
    /\ i.op = "athrow" => Assignable(Top1(s.st), Obj(Throwable))

\* The types afterwards.
Effect(i, s) ==
    LET st == Pop(s.st, Len(Pops(i)))
    IN  CASE i.op = "const" -> [s EXCEPT !.st = Append(st, IF i.k = "A" THEN NullV ELSE <<i.k>>)]
          [] i.op = "load" -> [s EXCEPT !.st = Append(st, s.loc[i.n])]
          [] i.op = "store" -> [s EXCEPT !.st = st, !.loc = PutLocal(@, i.n, Top1(s.st))]
          [] i.op \in Binary \cup {"neg"} -> [s EXCEPT !.st = Append(st, <<i.k>>)]
          [] i.op = "cmp" -> [s EXCEPT !.st = Append(st, <<"I">>)]
          [] i.op \in {"dup", "dup2"} -> [s EXCEPT !.st = Append(st, Top1(st))]
          [] i.op = "pop" -> [s EXCEPT !.st = Pop(st, 1)]
          [] i.op = "checkcast" -> [s EXCEPT !.st = Append(st, Obj(i.ks[1]))]
          [] i.op = "invoke" ->
                [s EXCEPT !.st = Pop(st, Len(i.ks) - 1) \o
                                 (IF i.ks[1] = TopV THEN <<>> ELSE <<i.ks[1]>>)]
          [] OTHER -> [s EXCEPT !.st = st]

\* One pass over the code: a frame replaces the types that flow into it, and
\* must exist wherever control can arrive other than from the line above.
Verifies(code, table, frames, initial) ==
    LET Check(a, p) ==
            LET s == IF p \in DOMAIN frames THEN frames[p] ELSE a.s
                after == Effect(code[p], s)
            IN  IF ~a.ok \/ (~a.live /\ p \notin DOMAIN frames)
                THEN [a EXCEPT !.ok = FALSE]
                ELSE [s |-> IF Accepts(code[p], s) THEN after ELSE s,
                      live |-> code[p].op \notin NoFallThrough,
                      ok |-> /\ a.live => FrameAssignable(a.s, s)
                             /\ Accepts(code[p], s)
                             /\ \A t \in Targets(p, code[p]) :
                                   t \in DOMAIN frames /\ FrameAssignable(after, frames[t])
                             /\ \A e \in ToSet(Catchers(table, p)) :
                                   /\ e.handler \in DOMAIN frames
                                   /\ FrameAssignable([s EXCEPT !.st = <<Obj(Throwable)>>],
                                                      frames[e.handler])]
        end == Foldl(Check, [s |-> [loc |-> initial, st |-> <<>>], live |-> TRUE, ok |-> TRUE],
                        UpTo(Len(code)))
    IN  end.ok /\ ~end.live
=============================================================================

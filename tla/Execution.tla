------------------------------ MODULE Execution ------------------------------
(***************************************************************************)
(* What a function does: as its OOMIR body says, and as the methods of a    *)
(* jar do on a JVM.  Both work on a heap of arrays and objects; a constant  *)
(* makes a new value wherever it is evaluated, a static is built once.      *)
(***************************************************************************)
EXTENDS ClassWriter

Num(n) == <<"int", n>>
RefV(n) == <<"ref", n>>
Variables == 0 .. 6

\* heap; statics and shared constants by name; classes initialised; whether
\* something was missing.
Machine == [heap |-> <<>>, named |-> <<>>, up |-> {}, err |-> FALSE]

Allocate(m, k, items) ==
    [m |-> [m EXCEPT !.heap = Append(@, [k |-> k, items |-> items])], v |-> RefV(Len(m.heap) + 1)]
Object(m, v) == m.heap[v[2]]
Written(m, v, i, x) == [m EXCEPT !.heap[v[2]].items[i] = x]
Known(m, id) == \E k \in DOMAIN m.named : m.named[k].id = id
NamedValue(m, id) == m.named[CHOOSE k \in DOMAIN m.named : m.named[k].id = id].v
Bound(m, id, v) == [m EXCEPT !.named = Append(@, [id |-> id, v |-> v])]

\* The name of the allocation of a constant pointer.
CellId(identity) == <<identity, <<"constant">>>>

\* A value without its addresses.
RECURSIVE Shown(_, _)
Shown(m, v) ==
    IF v[1] # "ref" THEN v
    ELSE <<"object", Object(m, v).k,
           [k \in DOMAIN Object(m, v).items |-> Shown(m, Object(m, v).items[k])]>>

-----------------------------------------------------------------------------
\* The source: constants.
RECURSIVE Built(_, _)
Built(m, c) ==
    LET parts == Foldl(LAMBDA a, x : LET p == Built(a.m, x) IN [m |-> p.m, vs |-> Append(a.vs, p.v)],
                       [m |-> m, vs |-> <<>>], c.items)
        array == Allocate(parts.m, "array", parts.vs)
    IN  CASE c.k \in {"int", "long"} -> [m |-> m, v |-> Num(c.n)]
          [] c.k = "string" -> [m |-> m, v |-> <<"str", c.text>>]
          [] c.k = "array" -> array
          [] c.k = "slice" -> Allocate(array.m, "slice", <<array.v, Num(Len(c.items))>>)
          [] c.k = "pointer" /\ Known(m, CellId(c.text)) -> [m |-> m, v |-> NamedValue(m, CellId(c.text))]
          [] c.k = "pointer" ->
                LET cell == Allocate(parts.m, "object", parts.vs)
                IN  [m |-> Bound(cell.m, CellId(c.text), cell.v), v |-> cell.v]
          [] OTHER -> Allocate(parts.m, "object", parts.vs)

\* The source: a call of the function named f.  Functions and Statics give
\* what each name stands for.
RECURSIVE Called(_, _, _, _)
Called(Functions, Statics, m0, f) ==
    LET step(a, i) ==
            LET set(m, v) == [a EXCEPT !.m = m, !.vars[i.d] = v]
                built == Built(a.m, IF i.k = "Static" THEN Statics[i.f] ELSE i.c)
                cell == IF Statics[i.f].k = "array" THEN built
                        ELSE Allocate(built.m, "object", <<built.v>>)
                call == Called(Functions, Statics, a.m, i.f)
            IN  CASE i.k = "Move" -> set(built.m, built.v)
                  [] i.k = "Copy" -> set(a.m, a.vars[i.s])
                  [] i.k \in {"Get", "GetField"} -> set(a.m, Object(a.m, a.vars[i.s]).items[i.i + 1])
                  [] i.k \in {"Put", "SetField"} ->
                        [a EXCEPT !.m = Written(a.m, a.vars[i.d], i.i + 1, a.vars[i.s])]
                  [] i.k = "Length" -> set(a.m, Num(Len(Object(a.m, a.vars[i.s]).items)))
                  [] i.k = "Call" -> set(call.m, call.v)
                  [] i.k = "Pointer" -> set(a.m, <<"fn", i.f>>)
                  [] i.k = "Static" -> IF Known(a.m, i.f) THEN set(a.m, NamedValue(a.m, i.f))
                                       ELSE set(Bound(cell.m, i.f, cell.v), cell.v)
                  [] i.k = "Return" -> [a EXCEPT !.v = a.vars[i.s]]
                  [] i.k = "ReturnOf" -> [a EXCEPT !.m = built.m, !.v = built.v]
        run == Foldl(step, [m |-> m0, vars |-> [x \in Variables |-> Num(0)], v |-> Num(0)],
                     Functions[f].body)
    IN  [m |-> run.m, v |-> run.v]

-----------------------------------------------------------------------------
\* The JVM: the method a reference means, in the jar.
HasClass(jar, name) == \E k \in DOMAIN jar : jar[k].name = name
ClassIn(jar, name) == jar[CHOOSE k \in DOMAIN jar : jar[k].name = name]
HasMethod(class, id) == id \in Identities(class)
MethodIn(class, id) ==
    class.methods[CHOOSE k \in DOMAIN class.methods : method_identity(class, class.methods[k]) = id]

Linkable(jar, f) == HasClass(jar, f[1]) /\ HasMethod(ClassIn(jar, f[1]), <<f[2], FnDesc>>)

RECURSIVE Invoked(_, _, _, _, _)
Invoked(jar, m0, owner, id, args) ==
    LET class == ClassIn(jar, owner)
        cl == <<<<"<clinit>">>, <<"()V">>>>
        fresh == HasClass(jar, owner) /\ owner \notin m0.up /\ HasMethod(class, cl) /\ id # cl
        up == IF fresh THEN Invoked(jar, [m0 EXCEPT !.up = @ \union {owner}], owner, cl, <<>>).m ELSE m0
        step(a, i) ==
            LET n == Len(a.stack)
                top == a.stack[n]
                under(k) == a.stack[n - k]
                kept(k) == SubSeq(a.stack, 1, n - k)
                push(m, k, v) == [a EXCEPT !.m = m, !.stack = Append(kept(k), v)]
                symbol == Resolved(class.pool, i.n)
                member == <<symbol.refs[2].refs[1].text, symbol.refs[2].refs[2].text>>
                target == symbol.refs[1].refs[1].text
                call(m, k, o, d, s) == LET r == Invoked(jar, m, o, d, s) IN push(r.m, k, r.v)
                made(k, tag, items) == LET r == Allocate(a.m, tag, items) IN push(r.m, k, r.v)
                builder == CHOOSE d \in Identities(ClassIn(jar, under(1)[2])) : d[1] = top[2]
                sharing == Invoked(jar, a.m, under(1)[2], builder, <<>>)
                site == class.boot[class.pool[i.n].n + 1]
                handle == Resolved(class.pool, site.args[2]).refs[1]
                bound == <<handle.refs[1].refs[1].text, handle.refs[2].refs[1].text>>
                ready == IF target \in a.m.up \/ ~HasClass(jar, target) THEN a.m
                         ELSE Invoked(jar, a.m, target, <<<<"<touch>">>, <<>>>>, <<>>).m
            IN  CASE i.op = "push" -> push(a.m, 0, Num(i.n))
                  [] i.op \in {"ldc", "ldc_w"} -> push(a.m, 0, <<"str", symbol.refs[1].text>>)
                  [] i.op = "ldc2_w" -> push(a.m, 0, Num(symbol.n))
                  [] i.op = "aload" -> push(a.m, 0, a.locals[i.n])
                  [] i.op = "astore" -> [a EXCEPT !.stack = kept(1), !.locals[i.n] = top]
                  [] i.op = "dup" -> push(a.m, 0, top)
                  [] i.op = "newarray" -> made(1, "array", [k \in 1 .. top[2] |-> Num(0)])
                  [] i.op = "aastore" -> [a EXCEPT !.m = Written(a.m, under(2), under(1)[2] + 1, top),
                                                   !.stack = kept(3)]
                  [] i.op = "aaload" -> push(a.m, 2, Object(a.m, under(1)).items[top[2] + 1])
                  [] i.op = "arraylength" -> push(a.m, 1, Num(Len(Object(a.m, top).items)))
                  [] i.op = "getfield" -> push(a.m, 1, Object(a.m, top).items[member[1][2] + 1])
                  [] i.op = "putfield" -> [a EXCEPT !.m = Written(a.m, under(1), member[1][2] + 1, top),
                                                    !.stack = kept(2)]
                  [] i.op = "new" -> made(0, "object", <<>>)
                  [] i.op = "invokespecial" ->
                        LET count == member[2][2]
                        IN  [a EXCEPT !.m.heap[under(count)[2]].items = SubSeq(a.stack, n - count + 1, n),
                                      !.stack = kept(count + 1)]
                  [] i.op = "wrap" -> made(1, "slice", <<top, Num(i.n)>>)
                  [] i.op = "make" -> made(i.n, "object", SubSeq(a.stack, n - i.n + 1, n))
                  [] i.op = "invokedynamic" ->
                        push([a.m EXCEPT !.err = @ \/ ~Linkable(jar, bound)], 0, <<"fn", bound>>)
                  [] i.op = "getstatic" ->
                        IF Known(ready, <<target, member[1]>>)
                          THEN push(ready, 0, NamedValue(ready, <<target, member[1]>>))
                        ELSE push([ready EXCEPT !.err = TRUE], 0, Num(0))
                  [] i.op = "putstatic" -> [a EXCEPT !.m = Bound(a.m, <<target, member[1]>>, top),
                                                     !.stack = kept(1)]
                  [] i.op = "invokestatic" /\ member[2] = <<"Shared">> ->
                        IF Known(a.m, <<under(2)[2]>>) THEN push(a.m, 3, NamedValue(a.m, <<under(2)[2]>>))
                        ELSE push(Bound(sharing.m, <<under(2)[2]>>, sharing.v), 3, sharing.v)
                  [] i.op = "invokestatic" /\ member[2] = <<"Cell">> ->
                        IF Known(a.m, CellId(under(1)[2])) THEN push(a.m, 2, NamedValue(a.m, CellId(under(1)[2])))
                        ELSE LET cell == Allocate(a.m, "object", <<top>>)
                             IN  push(Bound(cell.m, CellId(under(1)[2]), cell.v), 2, cell.v)
                  [] i.op = "invokestatic" /\ member[2][1] = "Make" ->
                        made(member[2][2], "object", SubSeq(a.stack, n - member[2][2] + 1, n))
                  [] i.op = "invokestatic" /\ member[2][1] = "Fill" ->
                        [a EXCEPT !.m = Invoked(jar, a.m, target, member, <<top>>).m, !.stack = kept(1)]
                  [] i.op = "invokestatic" -> call(a.m, 0, target, member, <<>>)
                  [] i.op = "areturn" -> [a EXCEPT !.v = top]
                  [] i.op = "return" -> a
        run == Foldl(step, [m |-> up, stack |-> <<>>, v |-> Num(0),
                            locals |-> [x \in Variables |-> IF x < Len(args) THEN args[x + 1] ELSE Num(0)]],
                     MethodIn(class, id).code)
    IN  IF id[1] = <<"<touch>">> THEN [m |-> up, v |-> Num(0)]
        ELSE IF HasClass(jar, owner) /\ HasMethod(class, id) THEN [m |-> run.m, v |-> run.v]
        ELSE [m |-> [up EXCEPT !.err = TRUE], v |-> Num(0)]
=============================================================================

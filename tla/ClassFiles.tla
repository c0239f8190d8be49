------------------------------ MODULE ClassFiles ------------------------------
(***************************************************************************)
(* Class files as lower2 writes them and java-linker merges them: a pool of *)
(* interned constants, methods that reach it through indexes, tables that   *)
(* reach it too.  Code is the straight-line fragment that loads constants,  *)
(* reads and writes arrays and fields, calls static methods and makes       *)
(* method handles.  Names are sequences, so that a                          *)
(* numbered name is <<"factory", 3>>.                                       *)
(***************************************************************************)
EXTENDS Integers, Sequences, FiniteSets, Folding

CONSTANTS
    LdcLimit,    \* the indexes a one-byte ldc reaches are below it (256)
    MaxCode      \* the longest method, in bytes (65535)

ASSUME LimitsPositive == LdcLimit > 0 /\ MaxCode > 0

-----------------------------------------------------------------------------
\* A constant with its operands written out: what an index of a pool means.
Symbol(tag, text, n, refs) == [tag |-> tag, text |-> text, n |-> n, refs |-> refs]
Utf8(text) == Symbol("Utf8", text, 0, <<>>)
LongOf(n) == Symbol("Long", <<>>, n, <<>>)
ClassOf(name) == Symbol("Class", <<>>, 0, <<Utf8(name)>>)
StringOf(text) == Symbol("String", <<>>, 0, <<Utf8(text)>>)
NameAndType(name, desc) == Symbol("NameAndType", <<>>, 0, <<Utf8(name), Utf8(desc)>>)
FieldRef(owner, name, desc) == Symbol("FieldRef", <<>>, 0, <<ClassOf(owner), NameAndType(name, desc)>>)
MethodRef(owner, name, desc) == Symbol("MethodRef", <<>>, 0, <<ClassOf(owner), NameAndType(name, desc)>>)
MethodHandle(kind, ref) == Symbol("MethodHandle", <<>>, kind, <<ref>>)
MethodType(desc) == Symbol("MethodType", <<>>, 0, <<Utf8(desc)>>)
InvokeDynamic(boot, name, desc) == Symbol("InvokeDynamic", <<>>, boot, <<NameAndType(name, desc)>>)

\* Long and double constants take two entries; the second answers nothing.
Hole == Symbol("Hole", <<>>, 0, <<>>)

FirstAt(pool, entry) ==
    CHOOSE i \in DOMAIN pool : pool[i] = entry /\ \A k \in 1 .. i - 1 : pool[k] # entry

\* The entry is found by its key, or added.
AddEntry(pool, entry) ==
    IF \E i \in DOMAIN pool : pool[i] = entry THEN pool
    ELSE pool \o IF entry.tag = "Long" THEN <<entry, Hole>> ELSE <<entry>>

RECURSIVE IndexOf(_, _)
IndexOf(pool, s) ==
    FirstAt(pool, [s EXCEPT !.refs = [k \in DOMAIN s.refs |-> IndexOf(pool, s.refs[k])]])

\* The operands of a constant are added before it.
AddOver(pool, s) ==
    AddEntry(pool, [s EXCEPT !.refs = [k \in DOMAIN s.refs |-> IndexOf(pool, s.refs[k])]])

RECURSIVE InternedAll(_, _)
InternedAll(pool, symbols) ==
    IF Evaluated(pool) /\ symbols = <<>> THEN pool
    ELSE InternedAll(AddOver(InternedAll(pool, Head(symbols).refs), Head(symbols)), Tail(symbols))

Interned(pool, s) == InternedAll(pool, <<s>>)

RECURSIVE Resolved(_, _)
Resolved(pool, i) ==
    [pool[i] EXCEPT !.refs = [k \in DOMAIN pool[i].refs |-> Resolved(pool, pool[i].refs[k])]]

verify_no_duplicate_constants(pool) ==
    \A i, j \in DOMAIN pool : pool[i] = pool[j] => i = j \/ pool[i] = Hole

-----------------------------------------------------------------------------
Instr(op, n) == [op |-> op, n |-> n]
PoolOps == {"new", "invokespecial", "ldc", "ldc_w", "ldc2_w", "getfield", "putfield", "getstatic", "putstatic",
            "invokestatic", "invokedynamic"}

SizeOf(i) ==
    IF i.op \in {"push", "ldc", "aload", "astore"} THEN 2
    ELSE IF i.op = "invokedynamic" THEN 5
    ELSE IF i.op \in PoolOps THEN 3
    ELSE 1

\* The byte offset of each instruction, and the end.
instruction_byte_offsets(code) ==
    Foldl(LAMBDA offsets, i : Append(offsets, offsets[Len(offsets)] + SizeOf(i)), <<0>>, code)

CodeSize(code) == instruction_byte_offsets(code)[Len(code) + 1]

Nameless == [static |-> FALSE, public |-> TRUE, name |-> 0, desc |-> 0, code |-> <<>>,
             vars |-> <<>>, frames |-> <<>>, catches |-> <<>>, params |-> <<>>]

method_identity(class, m) == <<class.pool[m.name].text, class.pool[m.desc].text>>
Identities(class) == {method_identity(class, class.methods[k]) : k \in DOMAIN class.methods}
interface_name(class, i) == class.pool[class.pool[i].refs[1]].text

\* The length of the serialized class, which orders fragments.
ByteSize(class) ==
    Foldl(LAMBDA total, m : total + CodeSize(m.code) + 2 * Len(m.vars), 3 * Len(class.pool),
          class.methods)

\* What a method is, whatever pool it is written over: its instructions with
\* their constants written out, bootstrap methods included, and its tables,
\* the ranges of its variables counted in instructions.
BootOf(class, n) ==
    LET b == class.boot[n + 1]
    IN  <<Resolved(class.pool, b.ref), [k \in DOMAIN b.args |-> Resolved(class.pool, b.args[k])]>>

MeaningOf(class, m) ==
    LET offsets == instruction_byte_offsets(m.code)
        at(pc) == IF \E k \in DOMAIN offsets : offsets[k] = pc THEN FirstAt(offsets, pc) ELSE 0
        bare(op) == IF op = "ldc_w" THEN "ldc" ELSE op
        operand(i) == IF i.op = "invokedynamic"
                        THEN <<BootOf(class, class.pool[i.n].n),
                               Resolved(class.pool, class.pool[i.n].refs[1])>>
                      ELSE IF i.op \in PoolOps THEN <<Resolved(class.pool, i.n)>>
                      ELSE <<i.n>>
        names(s) == [k \in DOMAIN s |-> IF s[k] = 0 THEN Hole ELSE Resolved(class.pool, s[k])]
    IN  [code |-> [k \in DOMAIN m.code |-> <<bare(m.code[k].op), operand(m.code[k])>>],
         vars |-> [k \in DOMAIN m.vars |->
                      <<at(m.vars[k].start), at(m.vars[k].start + m.vars[k].length),
                        Resolved(class.pool, m.vars[k].name)>>],
         frames |-> names(m.frames), catches |-> names(m.catches), params |-> names(m.params),
         static |-> m.static, public |-> m.public]
=============================================================================

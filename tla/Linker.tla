-------------------------------- MODULE Linker --------------------------------
(***************************************************************************)
(* java-linker: collects the classes of the bundles and of the libraries,   *)
(* merges the fragments of one class into one class file, and writes the    *)
(* jar.  java-linker/src/main.rs                                            *)
(***************************************************************************)
EXTENDS ClassWriter

CONSTANT MaxPool    \* the longest constant pool (65535 entries, one unused)
ASSUME MaxPoolPositive == MaxPool \in Nat \ {0}

-----------------------------------------------------------------------------
\* The bootstrap method of a call site comes after those of the target.
Moved(s, offset) == IF s.tag = "InvokeDynamic" THEN [s EXCEPT !.n = @ + offset] ELSE s

\* A constant enters the target pool after its operands; one the pool has is
\* found there.
import_constant(target, s) == Interned(target, s)

\* The whole pool is imported, in order; the second halves of longs are not
\* constants.  at maps the old indexes to the new.
import_constant_pool(source, target, offset) ==
    LET one(a, i) ==
            IF source[i] = Hole THEN a
            ELSE LET s == Moved(Resolved(source, i), offset)
                     pool == import_constant(a.pool, s)
                 IN  [pool |-> pool, at |-> [a.at EXCEPT ![i] = IndexOf(pool, s)]]
    IN  Foldl(one, [pool |-> target, at |-> [i \in DOMAIN source |-> 0]], UpTo(Len(source)))

remapped_constant_index(i, at) == IF i = 0 THEN 0 ELSE at[i]

remap_instruction(i, at) ==
    IF i.op \notin PoolOps THEN i
    ELSE IF i.op = "ldc" /\ at[i.n] >= LdcLimit THEN Instr("ldc_w", at[i.n])
    ELSE [i EXCEPT !.n = at[@]]

\* Mutant: a range keeps its old offsets.
Mremap_code_offset(pc, old, new) == pc

remap_code_offset(pc, old, new) == new[FirstAt(old, pc)]

\* A variable lives over the same instructions as before.
remap_local_variable_ranges(vars, old, new) ==
    [k \in DOMAIN vars |->
        LET start == remap_code_offset(vars[k].start, old, new)
            end == remap_code_offset(vars[k].start + vars[k].length, old, new)
        IN  [vars[k] EXCEPT !.start = start, !.length = end - start]]

\* The attributes of a method: its code and the tables that name constants.
remap_attribute(m, at) ==
    LET code == [k \in DOMAIN m.code |-> remap_instruction(m.code[k], at)]
        vars == remap_local_variable_ranges(m.vars, instruction_byte_offsets(m.code),
                                            instruction_byte_offsets(code))
        named(s) == [k \in DOMAIN s |-> remapped_constant_index(s[k], at)]
    IN  [m EXCEPT !.code = code, !.frames = named(@), !.catches = named(@), !.params = named(@),
                  !.vars = [k \in DOMAIN vars |-> [vars[k] EXCEPT !.name = at[@]]]]

-----------------------------------------------------------------------------
Failed == [ok |-> FALSE, class |-> ClassFrom(<<>>, FALSE, <<>>, <<>>, Builder(<<>>))]

\* The methods and interfaces of incoming that base lacks join it.  If either
\* is an interface the result is one, and has no constructor.  The fields of
\* incoming are not looked at.
merge_class_files(base0, incoming) ==
    LET iface == base0.iface \/ incoming.iface
        IsInit(c, m) == method_identity(c, m)[1] = <<"<init>">>
        base == IF iface THEN [base0 EXCEPT !.iface = TRUE,
                                            !.methods = SelectSeq(@, LAMBDA m : ~IsInit(base0, m))]
                ELSE base0
        missing == SelectSeq(incoming.methods, LAMBDA m :
                       ~(iface /\ IsInit(incoming, m)) /\ method_identity(incoming, m) \notin Identities(base))
        known == {interface_name(base, base.interfaces[k]) : k \in DOMAIN base.interfaces}
        interfaces == SelectSeq(incoming.interfaces, LAMBDA i : interface_name(incoming, i) \notin known)
        imported == import_constant_pool(incoming.pool, base.pool, Len(base.boot))
        at == imported.at
        boot == [k \in DOMAIN incoming.boot |->
                    [ref |-> at[incoming.boot[k].ref],
                     args |-> [j \in DOMAIN incoming.boot[k].args |-> at[incoming.boot[k].args[j]]]]]
        moved == [k \in DOMAIN missing |->
                    [remap_attribute(missing[k], at) EXCEPT !.name = at[@], !.desc = at[@]]]
    IN  IF missing = <<>> /\ interfaces = <<>> THEN [ok |-> TRUE, class |-> base]
        ELSE IF Len(imported.pool) >= MaxPool \/ \E k \in DOMAIN moved : CodeSize(moved[k].code) > MaxCode
          THEN Failed
        ELSE [ok |-> TRUE,
              class |-> [base EXCEPT !.pool = imported.pool, !.boot = @ \o boot, !.methods = @ \o moved,
                                     !.interfaces = @ \o [k \in DOMAIN interfaces |-> at[interfaces[k]]]]]

class_fragments_can_be_reordered(fragments) ==
    /\ \A k \in DOMAIN fragments : fragments[k].fields = <<>>
    /\ \A j, k \in DOMAIN fragments :
          j # k => \A id \in Identities(fragments[j]) \intersect Identities(fragments[k]) :
                       id[1] = <<"<init>">>

\* The largest fragment first, when that changes nothing else.
MergeOrder(fragments) ==
    LET before(x, y) == \/ ByteSize(fragments[x]) > ByteSize(fragments[y])
                        \/ ByteSize(fragments[x]) = ByteSize(fragments[y]) /\ x < y
        order == OrderedBy(DOMAIN fragments, before)
    IN  IF class_fragments_can_be_reordered(fragments)
          THEN [k \in DOMAIN fragments |-> fragments[order[k]]]
        ELSE fragments

MergeFragments(fragments) ==
    LET Merged(order) ==
            Foldl(LAMBDA a, c : IF a.ok THEN merge_class_files(a.class, c) ELSE a,
                  [ok |-> TRUE, class |-> order[1]], SubSeq(order, 2, Len(order)))
    IN  Merged(MergeOrder(fragments))

\* The names in the order they are first seen, each with its fragments merged.
merge_duplicate_classes(classes) ==
    LET first == {k \in DOMAIN classes : \A j \in 1 .. k - 1 : classes[j].name # classes[k].name}
        merged(k) == MergeFragments(SelectSeq(classes, LAMBDA c : c.name = classes[k].name))
    IN  Foldl(LAMBDA a, k : Append(a, merged(k)), <<>>, Ordered(first))

-----------------------------------------------------------------------------
MainDesc == FnDesc    \* the sample's functions share one descriptor
check_class_data_for_main(class) ==
    \E k \in DOMAIN class.methods :
        /\ class.methods[k].public /\ class.methods[k].static
        /\ method_identity(class, class.methods[k]) = <<<<"main">>, MainDesc>>

find_main_classes(classes) == SelectSeq(classes, check_class_data_for_main)

collect_input_classes(files, bundles, rlibs) ==
    files \o Foldl(LAMBDA a, b : a \o b, <<>>, bundles) \o Foldl(LAMBDA a, r : a \o r, <<>>, rlibs)

\* The classes, then the entries of the libraries' jars whose names are new.
write_final_jar(classes, libraries) ==
    Foldl(LAMBDA jar, c : IF \E k \in DOMAIN jar : jar[k].name = c.name THEN jar ELSE Append(jar, c),
          classes, Foldl(LAMBDA a, l : a \o l, <<>>, libraries))

\* The linker as a whole: a jar and its main class, or an error.
JarOf(mains, merged, libraries) ==
    IF Len(mains) > 1 \/ \E k \in DOMAIN merged : ~merged[k].ok
      THEN [ok |-> FALSE, jar |-> <<>>, main |-> <<>>]
    ELSE [ok |-> TRUE,
          jar |-> write_final_jar([k \in DOMAIN merged |-> merged[k].class], libraries),
          main |-> IF mains = <<>> THEN <<>> ELSE mains[1].name]
LinkedClasses(input, libraries) ==
    IF input = <<>> /\ libraries = <<>> THEN [ok |-> FALSE, jar |-> <<>>, main |-> <<>>]
    ELSE JarOf(find_main_classes(input), merge_duplicate_classes(input), libraries)
Linked(files, bundles, rlibs, libraries) ==
    LinkedClasses(collect_input_classes(files, bundles, rlibs), libraries)
=============================================================================

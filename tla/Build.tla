-------------------------------- MODULE Build --------------------------------
(***************************************************************************)
(* The whole way from a program's functions to the jar, with what the jar   *)
(* must then do and hold.                                                   *)
(***************************************************************************)
EXTENDS Driver, Execution

JarBuilt == outcome.st = "built"

\* The classes that went into the jar, before merging, by class name.
Fragments(n) ==
    LET all == collect_input_classes(<<>>, <<combine_class_bundles(results)>>, P.rlibs)
    IN  SelectSeq(all, LAMBDA c : c.name = n)

\* Two fragments of a class have different helpers under one name.
HelperNamesClash ==
    \E n \in {c.name : c \in UNION {{r.classes[k] : k \in DOMAIN r.classes} : r \in results}} :
        LET fs == Fragments(n)
        IN  \E i, j \in DOMAIN fs : \E a \in DOMAIN fs[i].methods, b \in DOMAIN fs[j].methods :
                LET x == fs[i].methods[a]
                    y == fs[j].methods[b]
                IN  /\ ~x.public /\ ~y.public /\ method_identity(fs[i], x) = method_identity(fs[j], y)
                    /\ MeaningOf(fs[i], x) # MeaningOf(fs[j], y)

\* The functions of the program that a caller in the jar can reach, and those
\* of the checked arithmetic and the allocator.
SourceFunctions ==
    LET extra == P.intrinsics \o P.allocator
        made == {<<extra[k].owner, extra[k].name>> : k \in DOMAIN extra}
        of(id) == extra[CHOOSE k \in DOMAIN extra : <<extra[k].owner, extra[k].name>> = id]
    IN  [id \in DOMAIN P.functions \union made |-> IF id \in made THEN of(id) ELSE P.functions[id]]

\* A function called from the machine m, as OOMIR has it and as the jar has it.
SourceCall(m, f) == Called(SourceFunctions, P.statics, m, f)
JarCall(m, f) == Invoked(outcome.jar, m, f[1], <<f[2], FnDesc>>, <<>>)

\* The address is taken of a function that is in no unit, and that no local is
\* of the type of.
ReifiedOutsideUnits ==
    \E id \in seen.lowered : \E k \in DOMAIN P.functions[id].body :
        LET f == P.functions[id]
            i == f.body[k]
        IN  /\ i.k = "Pointer" /\ i.f \notin partitioned_functions(P)
            /\ \A n \in DOMAIN f.named : f.named[n] # i.f

\* Whatever two functions are called, one after the other and then the first
\* again, each answers what its OOMIR answers, nothing missing: constants
\* moved to factories, filled in chunks, or shared between calls, classes cut
\* into shards and merged again by the linker, with their pools, call sites
\* and checked arithmetic.  Not so when two fragments of one class use one
\* helper name for different constants (the numbering of create_constant_
\* factory starts anew in each fragment), nor when the address is taken of a
\* function that rustc put in no unit (direct_mir_callees follows calls, and the
\* types of locals, but no casts to a function pointer).
JarMeansSource ==
    JarBuilt /\ ~HelperNamesClash /\ ~ReifiedOutsideUnits =>
        LET fs == {id \in seen.lowered : ~P.functions[id].bodiless /\ ~P.functions[id].runtime}
        IN  \A f, g \in fs :
                \A s1 \in {SourceCall(Machine, f)}, c1 \in {JarCall(Machine, f)} :
                \A s2 \in {SourceCall(s1.m, g)}, c2 \in {JarCall(c1.m, g)} :
                \A s3 \in {SourceCall(s2.m, f)}, c3 \in {JarCall(c2.m, f)} :
                    /\ ~c3.m.err
                    /\ Shown(c3.m, c1.v) = Shown(s3.m, s1.v)
                    /\ Shown(c3.m, c2.v) = Shown(s3.m, s2.v)
                    /\ Shown(c3.m, c3.v) = Shown(s3.m, s3.v)

\* A merged class has the methods and the interfaces of its fragments and no
\* others, each method what it was in a fragment, whatever its constants, call
\* sites and variable ranges are now counted from, and no constant twice.
MergedClassIsItsFragments ==
    JarBuilt => \A k \in DOMAIN outcome.jar :
        LET c == outcome.jar[k]
            fs == Fragments(c.name)
            iface == \E i \in DOMAIN fs : fs[i].iface
            faces(x) == {interface_name(x, x.interfaces[i]) : i \in DOMAIN x.interfaces}
            kept(ids) == {id \in ids : ~(iface /\ id[1] = <<"<init>">>)}
        IN  fs # <<>> =>
            /\ Identities(c) = kept(UNION {Identities(fs[i]) : i \in DOMAIN fs})
            /\ faces(c) = UNION {faces(fs[i]) : i \in DOMAIN fs}
            /\ c.iface = iface
            /\ verify_no_duplicate_constants(c.pool)
            /\ \A m \in DOMAIN c.methods : \E i \in DOMAIN fs : \E j \in DOMAIN fs[i].methods :
                  /\ method_identity(fs[i], fs[i].methods[j]) = method_identity(c, c.methods[m])
                  /\ MeaningOf(fs[i], fs[i].methods[j]) = MeaningOf(c, c.methods[m])

\* The classes every shard makes, whichever worker writes them.
Classes(cs) == {cs[k].class : k \in DOMAIN cs}
WithShard(classes, l, first) ==
    [seen |-> l.seen, classes |-> classes \union Classes(oomir_to_jvm_bytecode(P, l.module, first))]
AllShardClasses ==
    Foldl(LAMBDA a, n : WithShard(a.classes, Lowered(a.seen, P, n - 1), n = 1),
          [seen |-> Unseen, classes |-> {}], UpTo(Len(Chunks(P)) + 1)).classes

\* A class that several shards make is written by exactly one of them, however
\* the workers wait for each other's reservations; none is lost, and classes
\* that merely share a name, a length and a hash are all kept.
EveryClassOnce ==
    outcome.st \in {"built", "rejected"} =>
        LET written == combine_class_bundles(results)
        IN  /\ \A i, j \in DOMAIN written : written[i] = written[j] => i = j
            /\ {written[k] : k \in DOMAIN written} = AllShardClasses

\* Every build ends, with a jar, a refusal of the linker or a failure, unless
\* all workers have panicked: the main thread then waits for room in a channel
\* nobody reads.
BuildEndsUnlessAllDead == <>(outcome.st # "running" \/ AllDead)
=============================================================================

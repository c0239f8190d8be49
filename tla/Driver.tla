-------------------------------- MODULE Driver --------------------------------
(***************************************************************************)
(* The driver of the backend: one thread lowers the program shard by shard  *)
(* and hands the shards to workers over a short channel; the workers write  *)
(* the classes of their shard, leaving out a class another shard has        *)
(* already written byte for byte; the results are put in order and linked.  *)
(* src/src/lib.rs, src/src/lower2.rs                                        *)
(*                                                                          *)
(* A program gives its functions by name (owner and name), the units of     *)
(* items rustc partitioned, the public functions of a library, the types    *)
(* and traits, statics, and what it is linked with.                         *)
(***************************************************************************)
EXTENDS Linker

CONSTANTS
    Programs,      \* sample programs
    Workers,       \* worker_count of them
    Depth,         \* OOMIR_SHARD_QUEUE_DEPTH
    ShardItems     \* MAX_MONO_ITEMS_PER_OOMIR_SHARD

ASSUME DriverBounds == Workers # {} /\ Depth \in Nat \ {0} /\ ShardItems \in Nat \ {0}

VARIABLES
    program,       \* the program that is compiled
    shard,         \* the number of shards submitted
    seen,          \* lowered_instances, scanned_instances, claimed_mono_items, NEEDED_INTRINSICS
    sender,        \* "open", "closed" after the last shard, "panicked"
    queue,         \* the shards in the channel
    worker,        \* what each worker does
    registry,      \* the emitted classes: EmittedClassRegistry
    results,       \* the classes each shard sent back
    outcome        \* "running", "failed", "built", "rejected" (by the linker), with the jar

vars == <<program, shard, seen, sender, queue, worker, registry, results, outcome>>

-----------------------------------------------------------------------------
\* Lowering.

\* A function of a program: its receiver class and trait if it is a method,
\* the drop glue and vtable entries it reaches, the functions its locals are
\* of the type of, the types it mentions, the checked arithmetic it uses,
\* whether it has a body and whether it fails.
EmptyModule == [functions |-> <<>>, types |-> <<>>, statics |-> <<>>]
Names(s) == {s[k].name : k \in DOMAIN s}

\* The module's type named n, defined if it is not.
force_define_named_adt(module, p, n) ==
    IF n \in Names(module.types) THEN module
    ELSE [module EXCEPT !.types = Append(@, [name |-> n, iface |-> FALSE, interfaces |-> <<>>,
                                             fields |-> p.types[n], methods |-> <<>>])]

ensure_trait_interface(module, p, n) ==
    IF n \in Names(module.types) THEN module
    ELSE [module EXCEPT !.types = Append(@, [name |-> n, iface |-> TRUE, interfaces |-> <<>>,
                                             fields |-> <<>>, methods |-> p.traits[n]])]

\* The first function of a name and owner is kept.
insert_function(module, f) ==
    IF \E k \in DOMAIN module.functions :
            module.functions[k].owner = f.owner /\ module.functions[k].name = f.name
      THEN module
    ELSE [module EXCEPT !.functions = Append(@, f)]

\* A method goes to its receiver's class as well.  A trait method leaves an
\* equal one there in place; any other method replaces the one of its name.
PlacedInReceiver(module, p, f) ==
    LET typed == force_define_named_adt(module, p, f.receiver)
        traited == IF f.trait = <<>> THEN typed ELSE ensure_trait_interface(typed, p, f.trait)
        k == CHOOSE i \in DOMAIN traited.types : traited.types[i].name = f.receiver
        type == traited.types[k]
        placed == [f EXCEPT !.name = f.placed, !.static = FALSE]
        others == SelectSeq(type.methods, LAMBDA m : m.name # f.placed)
        kept == f.trait # <<>> /\ Len(others) # Len(type.methods)
        interfaces == IF f.trait = <<>> \/ f.trait \in {type.interfaces[i] : i \in DOMAIN type.interfaces}
                        THEN type.interfaces ELSE Append(type.interfaces, f.trait)
    IN  [traited EXCEPT !.types[k].interfaces = interfaces,
                        !.types[k].methods = IF kept THEN @ ELSE Append(others, placed)]

place_or_insert_mono_function(module, p, f) ==
    insert_function(IF f.receiver = <<>> THEN module ELSE PlacedInReceiver(module, p, f), f)

\* Each function is lowered once; one without a body is only remembered.
lower_mono_function(a, p, id) ==
    LET f == p.functions[id]
        typed == Foldl(LAMBDA m, n : force_define_named_adt(m, p, n), a.module, f.uses)
    IN  IF id \in a.seen.lowered \/ f.runtime THEN a
        ELSE IF f.bodiless THEN [a EXCEPT !.seen.lowered = @ \union {id}]
        ELSE [a EXCEPT !.seen.lowered = @ \union {id}, !.seen.needed = @ \union f.needs,
                       !.module = place_or_insert_mono_function(typed, p, f)]

\* The functions of the vtables of the types a function makes objects of; the
\* functions that the types of its locals name, and the drop glue of what it
\* drops or holds.
unsize_vtable_callees(f) == f.vtables
synthetic_drop_callees(f) == f.named \o f.drops

direct_mir_callees(p, f) ==
    LET called == SelectSeq(f.body, LAMBDA i : i.k = "Call" /\ i.f \in DOMAIN p.functions)
    IN  IF f.bodiless THEN <<>>
        ELSE [k \in DOMAIN called |-> called[k].f] \o synthetic_drop_callees(f) \o unsize_vtable_callees(f)

partitioned_functions(p) ==
    UNION {{p.units[u][k] : k \in DOMAIN p.units[u]} : u \in DOMAIN p.units}

\* The callees that no unit has are lowered where they are first reached.
lower_supplemental_instance_closure(a0, p, roots) ==
    LET step(a) ==
            LET id == a.todo[1]
                low == lower_mono_function(a, p, id)
                wanted == SelectSeq(direct_mir_callees(p, p.functions[id]), LAMBDA c :
                              /\ ~p.functions[c].bodiless
                              /\ c \notin partitioned_functions(p) /\ c \notin a.queued)
                new == Foldl(LAMBDA s, c : IF c \in {s[k] : k \in DOMAIN s} THEN s ELSE Append(s, c),
                             <<>>, wanted)
                rest == SubSeq(a.todo, 2, Len(a.todo))
            IN  IF id \in a.seen.scanned THEN [low EXCEPT !.todo = rest]
                ELSE [low EXCEPT !.todo = rest \o new, !.seen.scanned = @ \union {id},
                                 !.queued = @ \union {new[k] : k \in DOMAIN new}]
        done == Iterated(step, LAMBDA a : a.todo = <<>>,
                         [module |-> a0.module, seen |-> a0.seen, todo |-> roots,
                          queued |-> {roots[k] : k \in DOMAIN roots}])
    IN  [module |-> done.module, seen |-> done.seen]

\* The statics of a chunk, then the functions and what they alone reach.
lower_codegen_unit_items(seen0, p, items) ==
    LET new == SelectSeq(items, LAMBDA x : x \notin seen0.claimed)
        statics == SelectSeq(new, LAMBDA x : x \in DOMAIN p.statics)
        module == [EmptyModule EXCEPT !.statics =
                      [k \in DOMAIN statics |-> [owner |-> statics[k][1], name |-> statics[k][2],
                                                 value |-> p.statics[statics[k]],
                                                 local |-> statics[k] \in p.threadLocals]]]
    IN  lower_supplemental_instance_closure(
            [module |-> module, seen |-> [seen0 EXCEPT !.claimed = @ \union {new[k] : k \in DOMAIN new}]],
            p, SelectSeq(new, LAMBDA x : x \in DOMAIN p.functions))

\* A type or a trait that Java can name.
materialize_java_public_data_type(module, p, n) ==
    IF n \in DOMAIN p.traits THEN ensure_trait_interface(module, p, n) ELSE force_define_named_adt(module, p, n)

\* The public functions of a library and those types and traits.
lower_public_library_exports(seen0, p) ==
    LET called == lower_supplemental_instance_closure([module |-> EmptyModule, seen |-> seen0], p, p.exports)
    IN  [called EXCEPT !.module = Foldl(LAMBDA m, n : materialize_java_public_data_type(m, p, n), @, p.reachable)]

\* The functions that lead the allocator's symbols to its default.
emit_allocator_shims(a, p) == [a EXCEPT !.module = Foldl(insert_function, @, p.allocator)]

\* The class of the checked arithmetic that the functions lowered since the
\* last shard use.
Intrinsics == <<"Intrinsics">>
emit_all_needed_intrinsics(p, needed) ==
    [name |-> Intrinsics, iface |-> FALSE, interfaces |-> <<>>, fields |-> <<>>,
     methods |-> SelectSeq(p.intrinsics, LAMBDA f : f.name \in needed)]

prepare_oomir_shard(a, p) ==
    IF a.seen.needed = {} THEN a
    ELSE [module |-> [a.module EXCEPT !.types = Append(@, emit_all_needed_intrinsics(p, a.seen.needed))],
          seen |-> [a.seen EXCEPT !.needed = {}]]

\* The shards after the first: each unit in chunks.
Chunks(p) ==
    LET chunk(unit, c) == SubSeq(unit, (c - 1) * ShardItems + 1,
                                 IF c * ShardItems < Len(unit) THEN c * ShardItems ELSE Len(unit))
        of(unit) == [c \in 1 .. (Len(unit) + ShardItems - 1) \div ShardItems |-> chunk(unit, c)]
    IN  Foldl(LAMBDA a, unit : a \o of(unit), <<>>, p.units)

Lowered(seen0, p, n) ==
    prepare_oomir_shard(IF n = 0 THEN emit_allocator_shims(lower_public_library_exports(seen0, p), p)
                        ELSE lower_codegen_unit_items(seen0, p, Chunks(p)[n]), p)

-----------------------------------------------------------------------------
\* The classes of a shard, in the order they are emitted: those with statics
\* first, then by name; then the data types.  One with a thread-local static or a
\* function that cannot be translated stops the worker.
AnyBad(fs) == \E k \in DOMAIN fs : fs[k].bad
AnyThreadLocal(statics) == \E k \in DOMAIN statics : statics[k].local
PlainClass(n, functions, statics) ==
    [class |-> ModuleClass(n, functions, statics), bad |-> AnyThreadLocal(statics) \/ AnyBad(functions)]
TypeClass(t) ==
    IF t.iface THEN [class |-> create_data_type_classfile_for_interface(t.name, t.methods), bad |-> FALSE]
    ELSE [class |-> create_data_type_classfile_for_class(t.name, t), bad |-> AnyBad(t.methods)]

oomir_to_jvm_bytecode(p, module, views) ==
    LET owned(n) == SelectSeq(module.functions, LAMBDA f : f.owner = n)
        held(n) == SelectSeq(module.statics, LAMBDA s : s.owner = n)
        inOrder(S) == SelectSeq(p.order, LAMBDA n : n \in S)
        holders == {module.statics[k].owner : k \in DOMAIN module.statics}
        owners == {module.functions[k].owner : k \in DOMAIN module.functions}
        first == (IF views THEN <<<<"SliceView">>>> ELSE <<>>) \o inOrder(holders) \o inOrder(owners \ holders)
        types == inOrder(Names(module.types))
        typeOf(n) == module.types[CHOOSE k \in DOMAIN module.types : module.types[k].name = n]
    IN  [k \in DOMAIN first |-> PlainClass(first[k], owned(first[k]), held(first[k]))]
        \o [k \in DOMAIN types |-> TypeClass(typeOf(types[k]))]

\* Classes of one length share a hash.
bytecode_hash(class) == ByteSize(class)

Unseen == [lowered |-> {}, scanned |-> {}, claimed |-> {}, needed |-> {}]
Idle == [st |-> "idle", ordinal |-> 0, todo |-> <<>>, out |-> <<>>, cands |-> {}, checked |-> {}]

Init ==
    /\ program \in DOMAIN Programs
    /\ shard = 0
    /\ seen = Unseen
    /\ sender = "open"
    /\ queue = <<>>
    /\ worker = [w \in Workers |-> Idle]
    /\ registry = <<>>
    /\ results = {}
    /\ outcome = [st |-> "running", jar |-> <<>>, main |-> <<>>]

P == Programs[program]

\* The shard has a static whose constant cannot be lowered.
LoweringFails(n) ==
    n \in DOMAIN Chunks(P) /\ \E k \in DOMAIN Chunks(P)[n] : Chunks(P)[n][k] \in P.unreadable

\* The next shard is lowered and sent, once the channel has room: the main
\* thread keeps a handle on the receiver, so that sending never fails.
Submit ==
    /\ sender = "open" /\ shard <= Len(Chunks(P)) /\ Len(queue) < Depth
    /\ ~LoweringFails(shard)
    /\ \E a \in {Lowered(seen, P, shard)} :
           /\ queue' = Append(queue, [ordinal |-> shard, module |-> a.module, views |-> shard = 0])
           /\ seen' = a.seen
    /\ shard' = shard + 1
    /\ UNCHANGED <<program, sender, worker, registry, results, outcome>>

\* A static that cannot be lowered stops the main thread; the channel closes.
SubmitPanics ==
    /\ sender = "open" /\ LoweringFails(shard)
    /\ sender' = "panicked"
    /\ UNCHANGED <<program, shard, seen, queue, worker, registry, results, outcome>>

Close ==
    /\ sender = "open" /\ shard > Len(Chunks(P))
    /\ sender' = "closed"
    /\ UNCHANGED <<program, shard, seen, queue, worker, registry, results, outcome>>
-----------------------------------------------------------------------------
Receive(w) ==
    /\ worker[w].st = "idle" /\ queue # <<>>
    /\ worker' = [worker EXCEPT ![w] = [Idle EXCEPT !.st = "emit", !.ordinal = queue[1].ordinal,
                     !.todo = oomir_to_jvm_bytecode(P, queue[1].module, queue[1].views)]]
    /\ queue' = Tail(queue)
    /\ UNCHANGED <<program, shard, seen, sender, registry, results, outcome>>

Leave(w) ==
    /\ worker[w].st = "idle" /\ queue = <<>> /\ sender # "open"
    /\ worker' = [worker EXCEPT ![w].st = "gone"]
    /\ UNCHANGED <<program, shard, seen, sender, queue, registry, results, outcome>>

EmitFails(w) ==
    /\ worker[w].st = "emit" /\ worker[w].todo # <<>> /\ worker[w].todo[1].bad
    /\ worker' = [worker EXCEPT ![w] = [Idle EXCEPT !.st = "dead"]]
    /\ UNCHANGED <<program, shard, seen, sender, queue, registry, results, outcome>>

\* The variants of the class at hand that may be it and were not compared.
Candidates(w) ==
    LET c == worker[w].todo[1].class
    IN  {v \in DOMAIN registry :
            /\ registry[v].class.name = c.name
            /\ bytecode_hash(registry[v].class) = bytecode_hash(c)
            /\ v \notin worker[w].checked}

\* emit_generated_class, under the lock of the registry: with no candidate the
\* class is reserved here, else the candidates are looked at one by one.
Reserve(w) ==
    /\ worker[w].st = "emit" /\ worker[w].todo # <<>> /\ ~worker[w].todo[1].bad
    /\ IF Candidates(w) = {}
         THEN /\ registry' = Append(registry, [class |-> worker[w].todo[1].class, ready |-> FALSE])
              /\ worker' = [worker EXCEPT ![w].st = "publish", ![w].cands = {Len(registry) + 1}]
         ELSE /\ worker' = [worker EXCEPT ![w].st = "compare", ![w].cands = Candidates(w)]
              /\ UNCHANGED registry
    /\ UNCHANGED <<program, shard, seen, sender, queue, results, outcome>>

\* The class at hand is done with.
Onward(r, out) == [r EXCEPT !.st = "emit", !.todo = Tail(@), !.out = out, !.cands = {}, !.checked = {}]

\* Mutant: the reservation stays pending.
MPublish(w) ==
    /\ worker[w].st = "publish"
    /\ worker' = [worker EXCEPT ![w] = Onward(@, Append(@.out, @.todo[1].class))]
    /\ UNCHANGED <<program, shard, seen, sender, queue, registry, results, outcome>>

Publish(w) ==
    /\ worker[w].st = "publish"
    /\ registry' = [v \in DOMAIN registry |->
                       IF v \in worker[w].cands THEN [registry[v] EXCEPT !.ready = TRUE] ELSE registry[v]]
    /\ worker' = [worker EXCEPT ![w] = Onward(@, Append(@.out, @.todo[1].class))]
    /\ UNCHANGED <<program, shard, seen, sender, queue, results, outcome>>

\* Mutant: equal length and hash are taken for equal bytes.
MCompare(w) ==
    LET v == CHOOSE x \in worker[w].cands : \A y \in worker[w].cands : x <= y
    IN  /\ worker[w].st = "compare" /\ registry[v].ready
        /\ worker' = [worker EXCEPT ![w] = Onward(@, @.out)]
        /\ UNCHANGED <<program, shard, seen, sender, queue, registry, results, outcome>>

\* The first candidate, once its class is published: equal bytes end the
\* search, others lead to the next candidate or back to the registry.
Compare(w) ==
    LET v == CHOOSE x \in worker[w].cands : \A y \in worker[w].cands : x <= y
        r == worker[w]
    IN  /\ r.st = "compare" /\ registry[v].ready
        /\ worker' = [worker EXCEPT ![w] =
                IF registry[v].class = r.todo[1].class THEN Onward(r, r.out)
                ELSE [r EXCEPT !.checked = @ \union {v}, !.cands = @ \ {v},
                               !.st = IF r.cands = {v} THEN "emit" ELSE "compare"]]
        /\ UNCHANGED <<program, shard, seen, sender, queue, registry, results, outcome>>

\* The bundle of the shard goes to the main thread, if it still listens.
Finish(w) ==
    /\ worker[w].st = "emit" /\ worker[w].todo = <<>>
    /\ IF sender = "panicked"
         THEN worker' = [worker EXCEPT ![w] = [Idle EXCEPT !.st = "dead"]] /\ UNCHANGED results
         ELSE /\ worker' = [worker EXCEPT ![w] = Idle]
              /\ results' = results \union {[ordinal |-> worker[w].ordinal, classes |-> worker[w].out]}
    /\ UNCHANGED <<program, shard, seen, sender, queue, registry, outcome>>

Stopped == \A w \in Workers : worker[w].st \in {"gone", "dead"}
AllDead == \A w \in Workers : worker[w].st = "dead"

\* A shard without a result, or a panic of the main thread, ends the build.
Abandon ==
    /\ Stopped /\ outcome.st = "running"
    /\ sender = "panicked" \/ (sender = "closed" /\ Cardinality(results) < shard)
    /\ outcome' = [outcome EXCEPT !.st = "failed"]
    /\ UNCHANGED <<program, shard, seen, sender, queue, worker, registry, results>>

\* The bundles in the order of their shards; a shard may have none.
combine_class_bundles(rs) ==
    LET order == OrderedBy(rs, LAMBDA x, y : x.ordinal < y.ordinal)
    IN  Foldl(LAMBDA a, r : a \o r.classes, <<>>, order)

\* join_codegen, then the linker.
Link ==
    /\ Stopped /\ outcome.st = "running" /\ sender = "closed" /\ Cardinality(results) = shard
    /\ \E l \in {Linked(<<>>, <<combine_class_bundles(results)>>, P.rlibs, P.libraries)} :
           outcome' = [st |-> IF l.ok THEN "built" ELSE "rejected", jar |-> l.jar, main |-> l.main]
    /\ UNCHANGED <<program, shard, seen, sender, queue, worker, registry, results>>

Work(w) == \/ Receive(w) \/ Leave(w) \/ EmitFails(w) \/ Reserve(w) \/ Publish(w) \/ Compare(w) \/ Finish(w)
Next == Submit \/ SubmitPanics \/ Close \/ Abandon \/ Link \/ \E w \in Workers : Work(w)

\* Some thread can take a step.
Going ==
    \/ sender = "open" /\ (LoweringFails(shard) \/ shard > Len(Chunks(P)) \/ Len(queue) < Depth)
    \/ Stopped /\ outcome.st = "running" /\ sender # "open"
    \/ \E w \in Workers :
          \/ worker[w].st \in {"emit", "publish"}
          \/ worker[w].st = "idle" /\ (queue # <<>> \/ sender # "open")
          \/ worker[w].st = "compare" /\ \E v \in worker[w].cands :
                registry[v].ready /\ \A x \in worker[w].cands : v <= x

\* Weak fairness of Next, its enabling condition written out.  Every step
\* brings the build nearer its end: that some thread runs when one can is all
\* that is asked of the scheduler.
Spec == Init /\ [][Next]_vars /\ ([]<>~Going \/ []<><<TRUE>>_vars)
=============================================================================

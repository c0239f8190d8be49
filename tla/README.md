# A verification of rustc_codegen_jvm

`rustc_codegen_jvm` is a rustc backend that compiles Rust to JVM class files,
with a Java runtime that gives compiled code what the JVM lacks: addresses,
byte-level memory, futexes, unwinding, sockets. This directory holds TLA+ models
of the compiler and of the runtime, TLC configurations that check them on small
instances, and TLAPS proofs of properties that hold for every instance. Paths
below are relative to the repository's parent, as in
`src/runtime/src/Pointer.java`.

## The system and its parts

| Part | State | Operations | What makes it hard |
| --- | --- | --- | --- |
| lower1 (`src/src/lower1*`): values, constants, drop code | a function's translation; generated classes | rvalues, casts, codecs of layouts, constants, drop glue | widths, niches, unions, panics in destructors |
| optimise1 (`src/src/optimise1*`) | a function, per-block facts, a work list | duplicates, constants, copies, dead moves | loops, exceptional edges, stale facts |
| lower2: `translator.rs`, `optimise2.rs`, `stackmaps.rs`, `large_methods.rs` | JVM code, exception table, frames | outlining, emission, passes, slots, widening, frames | merging of frames, renumbering, size limits |
| lower2: `lower2.rs`, `jvm_gen.rs`, `consts.rs`, `constant_pool.rs` | pools, methods, helpers | constants into factories, classes of functions and types | sharing, numbering, limits |
| driver (`src/src/lib.rs`) | a channel of shards, workers, a registry of classes | lower, send, emit, reserve, compare, combine | workers that fail or wait for one another |
| java-linker | fragments of classes | import of pools, remapping, merging | everything counted anew |
| futex (`ThreadSupport.java`) | `FUTEX_QUEUES`: address to monitor with a reference count | `futexWait`, `futexWake`, `futexWakeAll` | compare, sleep and wake are separate steps; timeouts, interrupts, spurious wake-ups |
| threads (`ThreadSupport.java`, `sys/thread/jvm.rs`) | `THREADS`, one record with failure and detached flag | `spawn`, `join`, `detach`, end of the body | three parties race for one failure; start can fail half way |
| panics (`PanicSupport.java`, `Pointer.java`, `panic_unwind/src/jvm.rs`) | `ACTIVE_PANIC` per thread | raise, catch, cleanup, abort | panics in destructors, foreign exceptions that replace a panic |
| identity filters (`Pointer.java`) | two arrays of filter bits, a mark count, a rebuild flag | mark, test, rebuild | lock-free readers during a rebuild |
| decoded memory views (`Pointer.java`) | bytes, decoded objects, flag, epochs, absence cache | decode, mutate, commit, load, store | three shortcuts around the flush, each possibly stale |
| synthetic addresses (`Pointer.java`) | allocation table, exposed targets, ranges, reverse index | `address`, `encodedAddress`, `erasedAddress`, `fromAddress`, `deallocateBytes`, the collector | several indexes of one fact, cached numbers |
| network (`NetworkSupport.java`, `sys/net/connection/jvm.rs`) | sockets by number, peek buffer, locks, timeouts | read, peek, write, clone, close, accept, UDP | waiting while holding a lock; clones |
| thread locals, worker pool, typed accessors, maps, files, environment, 128-bit numbers, cargo-jvm, scripts | | | not modelled, see below |

`PROJECT.json` lists each part with its status, the hazards at the line where
they bite, and the source lines every definition stands for.

A function passes through lower1, optimise1, outlining, translation, optimise2,
slot allocation, widening, frames, a class of its shard, and the linker. Three
modules compose that way: `Bytecode` runs a function and the methods made of it
side by side, `Build` goes from the functions of a program over shards and
workers to the jar and what the jar's methods answer, and `Values` follows one
value from its constant through the operations, casts and codecs. At run time
threads wait on futex words; a body that panics ends in `spawn`'s handler; loads
and stores go through views, which sit behind an identity filter, and through
addresses. Each of those modules takes its neighbour by contract: `MemoryViews`
lets the filter always answer "maybe", `Threads` lets a body end in any way,
`AddressSpace` treats a call as one step because it holds the monitor
`ALLOCATIONS`, and `Codecs` takes a pointer for the number `AddressSpace` gives it.

## Modules

| Module | Models |
| --- | --- |
| `Words`, `Folding` | wrapping integers; folds and fixed points |
| `Numbers` | primitive numbers: their JVM carriers and the instructions for each operation, beside Rust's own meaning |
| `Codecs` | layouts, and the generated readers and writers between JVM objects and bytes |
| `Constants` | memory left by compile-time evaluation, as JVM values |
| `Values`, `MCValues` | one value through constants, operations, casts, unions, transmutes, pointers |
| `DropGlue` | drop code by type |
| `Panic`, `MCPanic`, `PanicProofs` | one thread's stack of frames, panics, foreign exceptions, drops |
| `Oomir`, `Optimise1`, `MCOptimise1` | OOMIR with its execution; the optimiser |
| `Jvm` | JVM instructions, their execution, the verifier |
| `StackMaps`, `Optimise2`, `Translate`, `LargeMethods` | the four parts of lower2 that make a method |
| `Bytecode`, `MCBytecode` | the whole way from a function to running methods |
| `ClassFiles`, `ConstantFactories`, `ClassWriter` | class files, constants, classes of a module |
| `Execution` | what functions answer, by OOMIR and by the jar |
| `Linker`, `Driver` | java-linker; shards, workers, registry |
| `Build`, `MCBuild` | from a program to its jar |
| `Futex`, `FutexQueueProofs`, `FutexProofs` | the futex |
| `Threads`, `ThreadContract`, `ThreadsProofs` | spawn, join, detach, and the contract they implement |
| `IdentityFilter`, `IdentityFilterProofs` | `RebuildableIdentityFilter` under its three insertion protocols |
| `MemoryViews`, `MCMemoryViews`, `MemoryViewsProofs` | the views of one allocation |
| `AddressSpace`, `MCAddressSpace`, `AddressSpaceProofs` | synthetic addresses |
| `TcpStream`, `TcpStreamProofs` | the receiving side of a TCP stream and its clones |

Definitions written in the source's own spelling (`merge_value`,
`emit_rust_drop_value`) stand for the function of that name; actions are
capitalised. A definition introduced by the comment "Mutant:" is a deliberately
wrong variant of the definition below it. Nothing uses it in a specification: it
records a mistake that the named property detects.

### Values, Codecs, Constants, Numbers

The state is one value: its Rust type, its JVM value `jvm`, and `mem`, the bytes
Rust's rules give it, with bytes Rust leaves open marked uninitialised. Init takes
a constant through `const_eval.rs` or a value the program assembles; each action
is one rvalue of MIR, applied to `jvm` by what the compiler emits and to `mem` by
Rust's rules; what Rust makes undefined is not done. `answer` is the last
question (comparison, overflow flag, switch) with both answers. A byte has two bits,
so that all four widths fit TLC's integers; ratios of the widths are kept. Floats are
whole numbers or NaN. A transmute between thin pointers keeps the JVM object, one between
slices only when the elements are the same or bytes and `str`; the rest goes through bytes.
An enum with a variant that has neither a tag nor the untagged place (`HasNoTag`) gets no
codec; rustc makes such variants only of uninhabited ones, and none is among the samples.
The compiler's error for a struct field whose size is unknown is left out: the struct's own
size is asked of the same layout before.

### DropGlue and Panic

A type is a tree with its own `Drop` and its parts. `DropGlue` says what drop code is
emitted for it and what the runtime's helpers do. In `Panic` the thread is a stack of
frames, and `due` keeps the destructors Rust still has to run for a function's values.
`Cleanup` is the cleanup path: the remaining values are dropped, then the pending
throwable goes on. `SecondFailure` is a destructor that fails during it: the runtime's
helpers and `_rust_drop_fields` abort, cleanup blocks of MIR have no region and are left.
`Catch` is `catchUnwind`, `Rethrow` the errors it does not keep, `Overflow` the stack
overflows that end the process. `FailAssert` is a failed bounds or overflow check, whose panic
is raised outside any region.

Drop code comes in four kinds: straight lists (`list`: the Drop terminator, `drop_in_place`,
tuples, closures, arrays), rustc's drop shims, which have cleanup blocks of their own (`shim`,
external: reached through a Box's pointee, slice elements that are no `RustDrop`, and the
`rustDrop` of a trait object's adapter), `_rust_drop_fields` (`safe`), and the helpers of
`Pointer.java` (`runtime`). A `Box<dyn Fn>` has no adapter, because the closure's object itself
is the carrier.

`Panic` takes the drop code as a parameter: the calls that drop a list of types
(`GlueSteps`), what a call runs (`CodeOf`), which destructors it stands for by Rust's rules
(`DropsOf`) and of which kind its value is (`KindOf`). `MCPanic` gives them the definitions
of `DropGlue`. `DropCodeAssumption` is what the two halves owe each other: the code a call
runs stands for the same destructors as the call, in the same order, except for a closure
that only `dropRustValue` sees. TLC evaluates it for every list of calls that the 15 lists
of owned types lead to (`MCTodos`), so a wrong order in the drop code of a type fails there.

### Oomir and Optimise1

`Oomir` has the instructions the passes tell apart (moves, arithmetic and
comparison, pointer cells, static and virtual calls, protected regions, branch,
switch, jump, return, rethrow), successors with exceptional edges, reachability,
and a machine that executes a function over wrapping integers of `2 * HalfRange`
values. `Optimise1` runs `optimise_function`: every turn of a work list is a step,
and hash-map order is a free choice. Then original and result run side by side:
each goes silently to its next visible instruction, where a callee answers both
alike or throws. `stale` is a ghost that says that constant propagation used a fact
which no longer held (see *Disagreements*).

### Bytecode and what it is made of

A function is outlined, each chunk is translated, every pass of `optimise2` is a
step, then slots are allocated, branches widened and frames built. `LoadClass` is
the verifier (`Jvm`), which checks code against frames by the JVM specification's
rules and knows nothing of how the frames were made. Then the OOMIR machine and the
JVM run side by side; calls between chunks are silent, calls of other functions,
throws and the return are compared, with the arguments and with whether a handler
is in force. Lengths are in bytes with the JVM's sizes; the limits are scaled.

### Driver, Linker, ClassWriter, Build

Main thread and workers are processes over a bounded channel, a registry and a set of
results. A worker's steps are those another one can observe: receiving, reserving a
class, publishing its bytes, comparing with one published. Lowering a shard is
one step of the main thread; the first shard holds the public functions, types and traits
and the allocator shims. The closure of callees follows calls, vtables, drops and the
functions that types of locals name. Class files have real pools with indexes, so that
merging renumbers everything. Two operand positions stand for all that may hold a constant: a
move's, which may share it, and a return's, which may not. A class with a thread-local static
is refused. `Execution` gives both meanings: OOMIR bodies that build
a constant wherever it is evaluated, and the jar's methods with their static
initialisers, factories, shared arrays and method handles.

### Futex

A call is cut where another thread can observe it: retaining the queue (atomic by
`ConcurrentHashMap.compute`), the comparison under the monitor, the time in the wait set, the
block after the wake-up, releasing the queue. The monitor is held by the thread whose `pc` is
`"loop"`; the wait set is the threads with `pc` `"sleep"`. Object.wait, interrupts and spurious
wake-ups follow the Java language specification, 17.2. When a call returns, its locals get their
initial values again: nothing reads them before the next call sets them. A store is followed by a
wake, as std's locks do (`"stored1"`, `"storedAll"`). `passedOver` remembers that a `notify` chose
somebody else, which is not a missed wake but the meaning of waking one.

### Threads and ThreadContract

Owner and worker of every id are two processes over one record. A body may return,
throw, or overflow the stack (which halts). `StartFails` is the constructor of `Thread` or
`Thread.start` throwing after the id was taken, `StartOverflows` the same with a stack
overflow. `SpawnThrows` is `spawn` finding no entry point: the exception leaves `Thread::new`,
and nobody frees the box. `box` follows the `Box<ThreadInit>` that Rust leaks into a raw
pointer. `ThreadContract` has only body, handle and deliveries;
`Contract` maps the record, flags and program counters to them.

### IdentityFilter

Each read and each write of `primary`, `secondary`, `marks` and `rebuilding` is a
step; the scan takes one stripe at a time. A filter array is the set of keys whose
bits are all set. False positives can only make a lookup take the lock.
`protocol` is chosen at the start: mark, put, mark again (views), both under the
stripe lock (origins, structural views), or mark and put (encoded references).

### MemoryViews

One allocation; an array or a cell (`cell`). The program is free of data races: a
block of slots is owned by one thread at a time and handed over by `Transfer`. The
ghost `truth` is what the program last wrote. Each read of the flag, of the epoch,
of the absence cache and each locked section is a step of its own. `overtaken` is a ghost
that says that a flush lowered a cell's flag under a thread that had raised it and not yet
published its view (see *Disagreements*); the properties are about the states before that.

### AddressSpace

A step is a call. Extents are what `allocateAddress` handed out. A carrier is a `Pointer` object,
with its cached number and its published target. The collector takes what no carrier, exposed
target or encoding storage holds, byte storage only once it is deallocated. `typedExposed` is
`TYPED_EXPOSED_ADDRESSES`, which holds its targets weakly: `encodedAddress` with a codec adds to
it, and `fromEncodedAddress` asks it first. `Programs` is the set of sets of allocations a program
may use; the others count as collected from the start. Only `Erasable` ones get an erased
trait-object address, and only pointers to `Codable` ones are encoded with a codec.

### TcpStream

The peer sends 1, 2, ...; a read or peek takes `readLock`, the peek buffer, the
channel, and waits in a selector while holding the lock. Clones share one state by
a count. `ReadFails` is an IOException of the channel or the selector, which leaves the
peek buffer and the locks as a return does. Peer and network are external. A Java
interrupt, which would close the channel, is not modelled: Rust code sends none.

## What the runs check

| Run | Distinct states | Question |
| --- | --- | --- |
| `values` | 10,815 | constants of every kind of layout through three operations each: does the JVM value stand for Rust's bytes, are comparisons, flags and switches right, does every codec write exactly its bytes within its storage? |
| `panic` | 1,926,781 | 15 lists of owned values, 5 calls deep, 3 throwables: is `ACTIVE_PANIC` the one panic in flight, do destructors run in Rust's order, and where are any passed over? |
| `optimiser` | 245,253 | four families of functions: same calls, values and end, no silent loop? |
| `bytecode` | 231,238 | families of functions, whole and cut into chunks: do the methods load, do what the function does, keep short branches in reach and not hang? |
| `build` | 54,230 | eleven sample programs, 2 workers, every schedule: does each pair of functions answer as OOMIR says, are merged classes their fragments, is each class written once, does the build end? |
| `futex` | 203,884 | 2 threads, 2 words, 2 queues, 3 calls, a disturbance: is the queue table exact, do addresses keep to themselves, is no uninterrupted waiter left behind, is no interrupt lost, do timed waits return, do stale sleepers wake? |
| `threads` | 3,414 | 2 threads: is each failure delivered, is the boxed closure consumed at most once, does join end, is the contract implemented? |
| `filters` | 1,160,797 | 2 threads, 2 keys, up to two rebuilds, each protocol: is a settled entry never missed? |
| `views` | 2,176,208 | 2 threads on an array or a cell: do accesses see the last writes, is no mutation lost, does a store retire the views it overlaps? |
| `addresses` | 458,255 | byte storage beside an over-aligned cell, byte storage with tokens, two zero-sized identities: do numbers stay apart, lead back, and which lead anywhere after a release? |
| `tcp` | 296,186 | 2 threads, 3 bytes, 4 calls: do reads return the stream, peeks show the next read, end of file come last, clones keep the channel open, timed calls return? |

All pass. `panic_drops` exhibits a disagreement between code and repository text
(below).

Bounds. Two threads suffice for every race the code has between two parties. Two
keys, words or blocks show confusion between neighbours. Three filter arrays allow a
rebuild to start on the result of another. Five calls allow a panic in a destructor
called from a destructor inside a `catch_unwind`. In the optimiser integers have four
values (-2 .. 1), which contain zero, one, minus one and the value whose negation
overflows; in `bytecode` eight, so that `iinc` and switches have keys to tell apart.
`BranchLimit`, `MethodLimit` and `MaxChunkCost` are 32767, 65535 and `MAX_CHUNK_COST`
scaled down, so that small methods have long branches and are cut; `LdcLimit`,
`MaxCode`, `MaxInline` and `MaxPool` are the limits of class files scaled down, so that
merged pools cross them. Two workers and a channel of depth one make workers wait
for each other and the main thread for room. Functions and programs are samples:
families generated from a few choices per instruction that contain loops, handlers,
switches of each kind, long and short values, and the shapes the passes look for. They
include the region layout MIR's terminators produce, where a region ends after the
jump. `MaxCalls`, `MaxSteps`, `MaxAddress`, `MaxTokens` and `MaxThrows` bound
behaviours that would otherwise not end; with them a behaviour may stop, so deadlock is
not checked. Symmetry is used only in a run without liveness.

Fairness. `Futex`: a thread inside a call is scheduled, and deadlines pass; nothing
is assumed of callers, interrupts or spurious wake-ups. `Threads`: workers and owners
inside runtime code are scheduled; a body may run for ever. `TcpStream`: a thread in
a call is scheduled, a free monitor is granted, time passes; the peer need do nothing.
`Optimise1` and `Bytecode`: the compiled function runs on while it can. `Driver`: some thread
runs while one can; every step brings the build nearer its end, so nothing more is needed. All
of it is weak fairness of the JVM's or the operating system's scheduler. Where an action is
expensive to test for being enabled, its guard is written out in the fairness formula.

## Disagreements

With a run, `panic_drops`: the Readme says that all `Drop` side effects run at scope
boundaries and that unwinding is complete. The panic of a failed bounds or overflow check
is raised in a block of its own, `assert_fail_N` (`control_flow.rs:7614`), which the region of
the Assert terminator does not cover, so the values of that function are not dropped.
`AllDropsRun` has two further causes in the model: drops of the fields of a struct without
`Drop`, of a tuple, closure or array are one list without a handler, so that a panic in one
passes over the rest (`control_flow.rs:855`); and a closure's class does not implement
`RustDrop`, so `dropRustValue` does nothing where it is what meets the closure
(`Pointer.java:104`). `DropsComplete` says that these, and a destructor that fails during a
cleanup when one of the two throwables is foreign, are the only causes.

Noticed while modelling; the properties are stated so as to leave them out, and no
run claims them:

- Futex: an interrupted `futexWait` sleeps again without comparing the word
  (`ThreadSupport.java:252`), so a wake delivered together with the interrupt is gone.
  Hence *UnlessInterrupted*.
- Filters: the second mark of `decodedMemoryViewLocked` reads primary and secondary at two
  moments; a rebuild publishing between them leaves the key unmarked
  (`Pointer.java:3383-3422`). `NoEntryMissed` is about insertions no rebuild overtook.
- Views: a cell's `hasMemoryView` is set before, and outside, the lock that publishes the view
  (`Pointer.java:3778`); another thread's flush of a disjoint range clears it in between, and
  later writes skip the view: `overtaken`.
- Addresses: `encodedAddress` with a codec publishes a target without retaining it, and
  `address()` then returns early (`Pointer.java:7813`): *UnlessEncoded*. By the same early
  return two zero-sized identities at one address are not refreshed. `deallocateBytes` finds
  the numbers to withdraw in an index of what `address()` exposed (`Pointer.java:5705`), so a
  typed entry that only `encodedAddress` made stays behind and leads to the released bytes.
- Threads: when `spawn` throws for want of an entry point, the boxed closure is leaked.
- Network: a nonblocking read queues behind an untimed read of another clone for `readLock`
  (`NetworkSupport.java:416`).
- Panics: a foreign exception thrown by a destructor replaces a panic and leaves `ACTIVE_PANIC`
  set; the next, single panic halts the process (`PanicSupport.java:87`). `replaced` in
  `ActiveWhileUnwinding`. MIR's `UnwindAction::Terminate` gets no region
  (`control_flow.rs:2102`): a panic of a destructor, while a foreign exception is being cleaned
  up, leaves the function where Rust would abort. A coroutine's contents are not dropped at all.
- Optimiser: `update_state_based_on_operand` asks for the state before the instruction and gets
  that of the block's start (`dataflow.rs:1519`), and the arms for virtual and interface calls
  keep the constant their destination had (`dataflow.rs:1163`): *UnlessStale*.
  `y = 0; loop { x = 0 / y; y = x }` keeps the constant-propagation work list busy for ever
  (`dataflow.rs:366`), and two locals copied back and forth between two blocks of a loop that of
  the copy aliases (`copyprop.rs:136`). `TargetKeepsUp` is about functions that get past these.
- Bytecode: without loops or handlers a slot is reused after the last mention of its local in
  program order (`optimise2.rs:1494`). A local assigned and read only under a flag can then share
  its slot with one of another kind, and the method does not verify: *UnlessGuarded*. Default
  values of locals are inserted after widening (`translator.rs:1650`) and move the padding of
  switches; `ShortBranchesReach` allows for that. The passes
  `fold_boolean_branch_materialization`, `fold_boolean_zero_comparisons` and
  `fold_branch_over_goto` never found their pattern in what the translator emits.
- Chunks: a variable live at a cut under two types becomes two parameters
  (`large_methods.rs:626`); once the function assigns it under one, the other is stale. Whether
  lower1 produces such functions is not known, and none is among the samples. A function above
  the limit with an unreachable block is refused with an error.
- Numbers: checked multiplication of `i8` and `i16` does not flag the least value times -1
  (`checked_intrinsics.rs:183`), though the comment at 142 speaks of that pair. `AnswersAreRight`
  excepts it.
- Constants: a union constant keeps one field (`lossy`); a constant that cannot be read becomes
  zero or null without an error (`operand.rs:355-413`); objects in 16 bytes keep the first 8.
- Build: helpers named `_constant_fill_N` and `_constant_factory_N` are numbered anew in each
  fragment of a class and the linker keeps the first (`lower2.rs:200`, `287`): `HelperNamesClash`.
  `direct_mir_callees` follows calls and the types of locals, and not casts to function pointers
  (`lib.rs:878`): `ReifiedOutsideUnits`. When every worker has panicked, the main thread, which
  keeps the receiver alive (`lib.rs:1302`), waits for ever to send (`lib.rs:1341`): `AllDead`.
  Which shard writes a class depends on the schedule, so jars are equal in meaning, not in bytes.

## What is proved

Every safety property the passing runs check of the runtime is also a theorem: it holds for every
value of the constants, under the named assumptions of the module. Few of the properties are
inductive; each section names what is added to make them so. TLC checked the inductive invariants
on the runs' instances before they were proved, except the order invariant of `Panic`, which
quantifies over ghost functions.

**Futex** (`ConstantsAssumption`: a finite set of threads; any addresses, queues, values and
bounds). `TypeOK`, `QueueCounted`, `ExactKeys`, `NoMissedWakeUnlessInterrupted`,
`InterruptKept`. The invariant `IInv` adds that a call in progress has a queue
(`MonitorHeld`), that two addresses never share one (`Injective`: a fresh queue is one nobody
refers to), and that an interrupt a call remembers is set again by the time it leaves the loop
(`InterruptOwed`). The count of holders changes by one when a thread joins or leaves them;
that is where finiteness of `Threads` is used. `FutexQueueProofs` has these steps, about the
table of queues; `FutexProofs` the rest. The wake property needs `QueueCounted`: a waker that
looks up the table finds the sleeper's own queue, because the sleeper still counts in it.

**Threads** (any number of threads). `BoxConsumedOnce`, and `ImplementsContract`: the protocol
refines `ThreadContract`. `Started` ties the box to how far owner and worker are, and
`InOnePlace` says that the throwable of a body is with the worker, in the record, with the
owner that detached, or delivered. The refinement goes id by id: a step of one id leaves body,
handle and deliveries of the others alone, and moves its own as one step of the contract or
not at all. Both theorems are about every behaviour of `Spec`, the unfair ones included; that a
failure is eventually delivered stays with TLC.

**TcpStream** (`StreamAssumption`; any threads, bytes, clones, lengths and calls).
`ReadsAreTheStream`, `PeekShowsNext`, `EndIsTheEnd`, `OpenWhileOwned`. `Accounted` says that the
bytes taken out of the channel are those reads returned followed by those peeked, `Guarded`
that a thread past the monitor of `readLock` is the only one and that the peek buffer is empty
while it is at the channel, `Shown` that what a peek returned stays at its place of the stream,
and `ReferencesExact` that the count is the number of Rust handles, for which the handles are
a finite set of pairs whose cardinality moves by one.

**IdentityFilter** (`ProtocolAssumption`, `FilterAssumption`; any threads, keys and number of
rebuilds). `NoEntryMissed`. A settled key is `Covered`: marked in primary, and, while a rebuild
scans, marked in its new array or in a stripe still to be scanned. `OneRebuild` says that there is
one rebuild at a time. The three local conjuncts carry coverage through an insertion, a commit
that puts an entry back, and a lookup, for as long as no rebuild overtakes them.

**MemoryViews** (`ShapesAssumption`: blocks are disjoint and a view lies in one; any threads, for
arrays and cells). `ReadsSeeWrites`, `NoMutationLost`, `StoreFlushesFirst`. All three say
`~overtaken =>`, and what is inductive is `~overtaken => IInv`: once a cell's flag was lowered
under a publication nothing is claimed any more. A thread works in the slots it owns (`Area`). A
view is `Live` from its decoding until its image is back in the bytes, wherever it is in between:
in the table, taken out, or on its way in. Live views never overlap, each holds the truth about
its slots and its original image is what the bytes hold (`Held`), and outside them the bytes hold
the truth (`Fresh`). The shortcuts are right because a cell without the flag has no views
(`Flagged`), and because a thread whose absence cache is as new as the epoch can only miss views
in the middle of publication, which lie in another thread's area (`Absent`).

**AddressSpace** (`CapacityAssumption`: dangling addresses of zero-sized values lie below
`FirstAddress`, and sized storage is not zero-sized; any capacities, alignments, carriers and
programs). `ExtentsDisjoint`, `IndexExact`, `FreedIsForgottenUnlessEncoded`, `RecoversOwner`,
`RecoverableUnlessEncoded`. `ExtentInv` says that every extent lies below `NEXT_ADDRESS`; the
arithmetic is that rounding up never goes down and that a span has room for the number one past
the end. `IndexExact` is inductive by itself: `Register` and `Forget` change table and index
alike. `FreedIsForgottenUnlessEncoded` needs `LifeInv`: carriers, exposed targets and ranges name
storage that exists, and the range of existing storage starts at its recorded base, so that
removing by base removes the right one; and `TypedInv`: typed entries name existing storage that
was encoded with a codec. The way back from a number needs three more. `PlaceInv`: bases from the
counter lie apart by more than the capacity, the others are dangling addresses below it.
`TargetInv`: an exposed address is its allocation's base plus an offset within it, or a token,
which lies in nobody's storage; `TypedTargetInv` says the same of the typed entries. So a number
within sized storage has one owner (`OneOwner`), and the exact entry, the typed entry and the
floor range name it. `KnownInv`: what `address()` returned, and what a carrier with a published
target holds, is in the table, unless a codec published it; exposing the same number again
replaces the entry by one for the same object, by `OneOwner`.

**Panic** (`DropCodeAssumption`, `BoundsAssumption`; any drop code that satisfies the first, any
depth of calls and number of throwables). `ActiveWhileUnwinding`, `DropsComplete`,
`DropsInRustOrder`. For the first, `PanicInv` says that a throwable is put off only by a frame in
its cleanup, by one frame, and not while it flies (`PendingInv`), and that each panic that
flies or is put off is the active one (`ActiveView`). The order needs to know what a stack of
frames stands for: `Owed` gives each frame the destructors that are still owed when it is on top,
its own calls' followed by those of the frame that called it, down to the function that owns the
values (`root`). `Ordered` says that what is due to a function is exactly what its frames owe.
A call of drop code replaces a call by what that call stands for, which is
`DropCodeAssumption`; a destructor takes the first name; a return, a failure and a cleanup move
the frames without changing what they owe, or write off what the frame still had to do from
both sides. So a destructor that runs is always the next one due, and a function is left with
nothing due. That the drop code of a type satisfies the assumption is model-checked only:
it recurses over the type.

Only model-checked:

- Liveness: `TimedWaitReturns`, `StaleSleeperWakes`, `FailureDelivered`, `JoinEnds`,
  `TimedCallsReturn`, `TargetKeepsUp`, `MethodGoesOn`, `BuildEndsUnlessAllDead`. Fairness and
  ENABLED are beyond the prover.
- The compiler: `SameBehaviourUnlessStale`, `LoadsUnlessGuarded`, `MethodActsAsFunction`,
  `ShortBranchesReach`, `JvmHoldsRust`, `AnswersAreRight`, `EncodesItsBytes`, `JarMeansSource`,
  `MergedClassIsItsFragments`, `EveryClassOnce`, and `DropCodeAssumption` of `DropGlue`. A pass, a
  codec, a fold over instructions or a merge of pools recurses over its input, and what it computes
  for every input needs induction over data. All modules concerned but `Oomir` and `Optimise1`
  also use or reach recursive operators, which the prover does not take.

## What is not modelled

- lower1 beyond values, constants and drops: calls, intrinsics, closures, trait objects,
  coroutines as state machines, projections and borrows, names. Each is a case analysis over rustc's
  types and instances, and its meaning is that of rustc's queries.
- 128-bit integers, `f16` and `f128`, and the rounding of floats, beyond TLC's integers; slices
  as constants of whole allocations, statics by reference, vtables and TypeId.
- lower2: views, pointers and boxing among the instructions, indirect calls, uninitialised
  objects in frames, carrier arrays of very large chunks, generated equality and hashing, debug
  tables.
- optimise1: aggregates, casts, floats, `convert_labels_to_basic_blocks` and the
  folding of constant functions.
- The runtime's typed accessors and atomics, projected views, thread locals and worker pool,
  files, environment, UDP and listeners: I/O, or the same control over other widths. Hazards noted
  there are listed without a property.
- Formatting, messages, logging, archives, cargo-jvm and the scripts.

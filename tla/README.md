# Verification of the Ren-C / Rebol interpreter core

TLA+ models of the run-time core of this repository (`src/core`, `src/include`
and the parts of `extensions/` that touch it), TLC runs that check them on
small instances, and TLAPS proofs for every value of the constants.

The interpreter is one evaluator thread, written in C, with `longjmp` error
recovery, a tracing garbage collector that shares its heap with manually
managed series, an API (libRebol) for C clients, and a Ctrl-C handler that runs
at arbitrary points. Around it lie data structures with a life of their own
(symbol table, series, maps) and ports, whose requests are completed by polling.
The models are about how these share state and what they promise each other;
what single expressions compute is left out.

## 1. Inventory

| Component | State it keeps | Operations | Interacts with | What is hard | What makes it correct |
|---|---|---|---|---|---|
| Traps and recovery (`sys-trap.h`, `sys-state.h`, `c-error.c`) | chain of `Reb_State` snapshots (lengths of stacks, signal mask) | `PUSH_TRAP`, `DROP_TRAP`, `Fail_Core`, `Trapped_Helper`, `Snap_State_Core` | every stack of the core | a `longjmp` skips all cleanup; marks are lengths of a list that is reordered | a fail frees exactly what was made since the trap; stacks, guards and mask are as before |
| Manual series and guards (`sys-series.h`, `m-gc.c`) | `GC_Manuals`, `GC_Guarded` | make, manage, free, realloc, guard, drop | recovery, collector | releases move entries across marks | each manual series listed once; no guard on a freed series |
| Evaluator signals (`c-signal.c`, `sys-core.h`, `mod-console.c`) | `Eval_Signals`, `Eval_Count`, `Eval_Sigmask` | set, clear, `Do_Signals_Throws`, Ctrl-C handler, mask changes of API runs | collector, allocator, WAIT, console | the handler interleaves with plain read-modify-writes | no request for a collection is lost, a press only in the known races; masked halts are not thrown; requests are met |
| Ballast (`m-pools.c`, `n-system.c`) | `GC_Ballast`, `TG_Ballast`, `GC_Disabled` | allocation, freeing, `RECYCLE` and refinements | signals | freeing cancels requests, RECYCLE/OFF defers them | an overdrawn ballast leads to a collection |
| Frames, feeds, loops (`sys-frame.h`, `sys-feed.h`, `sys-eval.h`, `n-loop.c`) | frame stack, feed position, `SERIES_INFO_HOLD`, `TOOK_HOLD` | push, fetch, drop, abort, reify va_list, loop begin/end | evaluator, traps, collector | one array on many levels; feeds shared by subframes; exits by throw and fail | one owner of a hold, who keeps it for everybody above; holds are released afterwards |
| Garbage collector (`m-gc.c`) | mark bits, `GC_Mark_Stack`, roots | `Recycle_Core` with its phases, sweep, `Fill_Sweeplist` | everything that holds nodes | deferred marking of arrays, cycles, handles of failed frames, decayed nodes | frees exactly the unreachable; never panics; ends |
| Pools (`m-pools.c`) | free lists, segments | alloc, free | collector, series | which nodes exist | as far as `kind` of Collector goes; free lists planned |
| Series data (`m-series.c`, `m-pools.c`, `sys-series.h`) | `data`, `bias`, `rest`, `used`, the terminator | expand, insert, append, extend, remove, unbias, clear, remake | allocator, all series types | four paths of expansion, three of removal at the head, a 16-bit field | the data stays in its allocation, terminated, and is a sequence to its users |
| libRebol (`a-lib.c`) | API handles, `rebMalloc` memory | manage, unmanage, release, realloc, rescue, halt | all of the above | ownership by frame, failure inside a rescue | covered by the modules above as far as ownership and masks go |
| Call frames' varlists (`sys-frame.h`, `c-context.c`) | `TG_Reuse`, varlists | push, drop, steal, reuse | collector, API | reuse of what is still referred to | planned |
| Symbols (`c-word.c`) | hash table with deleted slots, canon flag, rings of synonyms | intern, rehash, kill | sweep | canons and synonyms die in any order in the middle of a sweep | one canon per class of casings that hash alike, found by every search |
| Maps (`t-map.c`) | list of pairs, hash list of indexes | find, put, remove, grow, clear | series | lookups change the map; removed pairs stay; equal keys that hash differently | a finite map of the keys whose equals hash alike |
| Devices and ports (`f-device.c`, `c-port.c`, `dev-net.c`, `mod-network.c`) | pending list, one request per port, sockets | open, connect, accept, read, write, close, poll | event queue, WAIT, peers | requests overlap, complete late, after a close or never | only what is ready is polled; what ends is told |
| Event queue and WAIT (`mod-event.c`, `p-event.c`, `ext-event-init.reb`) | the system port's queue and wake list | insert, awake, wait, time out | ports, signals | handlers refill the queue they are emptying | timed waits end; no flood keeps devices from being polled |
| Data stack, mold stack, CALL, JavaScript promises | stacks; pipes; promise table | — | recovery; host | — | recovery models the heights of the stacks; the rest is not modelled |
| Evaluator grammar, PARSE, scanner, molder, binding, datatypes, codecs, mezzanines | — | sequential transformations of values | — | no shared state between their steps | not modelled |

`PROJECT.json` lists every component with its sources, status and reason, and
every hazard with its line and the properties about it.

## 2. Modules

Each component has a module (state, one action per operation, properties) and
an `MC...` module that adds only what a TLC instance needs (hash functions,
symmetry), and a `...Proofs` module with its theorems. Three have a module with
the abstract specification they implement:

| Detailed | Abstract | Refinement mapping |
|---|---|---|
| `SymbolTable` | `Interning`: how many copies of each spelling there are, and which spelling is the canon of each class | the canon is what a search of the table finds |
| `SeriesData` | `SeriesValue`: a sequence with insertion and removal | the `used` units after the bias |
| `MapHash` | `FiniteMap`: a function from keys to values | the pairs that are not zombies |

Definitions whose comment begins with `Faulty:` are not part of the
specification: they are wrong variants of the definition below them, which the
properties are known to reject.

### Checkpoints

`scopes` is the C stack restricted to activations that took a snapshot: traps,
evaluator frames, API runs. `manuals` and `guarded` are `GC_Manuals` and
`GC_Guarded` as sequences, `Untrack_Manual_Series` moving the last entry into
the hole as the code does. `height` stands for the stacks of which only the
length is captured (data stack, mold buffer). `haltable` is whether `SIG_HALT`
is in the mask. `Fail_Core` removes the activations above the innermost trap;
`Trapped_Helper` then frees what lies above the trap's mark, cuts the stacks
and restores the mask. The field `live` of a snapshot is a history variable.

The model has one rule about the code that runs: an activation releases only
manual series that it, or a callee that returned to it, created (`Releasing`).
`SpecApi` is the same without the rule for `rebRealloc`, which takes any live
pointer.

### Signals

One evaluator thread (`pc`, `local`) and the Ctrl-C handler, which may run
between any two steps. `SplitRMW` says whether `Eval_Signals |= f`,
`Eval_Signals &= ~f` and `--Eval_Count` are one step, as in a build that makes
one instruction of each, or a load and a store.
`Do_Signals_Throws` is followed from top to bottom, with its locals. Allocation,
freeing and `RECYCLE` drive the ballast; API runs save and replace the mask,
and are left one at a time or several at once (throw, fail). `Clients` adds
`rebWasHalting` and `WAIT`. `asked` is a history variable: a press that was
neither acted on nor reported.

The code does not keep every promise of its comments about halts, so there are
two kinds of properties. `HaltOnlyWhenInterruptible` is the promise, and has a
run that violates it. `DoSignalsObeysMask` and `HaltDroppedOnlyByRace` say what
does hold in the whole model, with WAIT, `rebWasHalting` and split updates:
`Do_Signals_Throws` obeys the mask, and a press is dropped in two races, which
the property describes, and nowhere else.

Left out: `SIG_INTERRUPT` (never set), `SIG_EVENT_PORT` (set at
`p-event.c:192`, never processed), negative ballast amounts, a split update in
the Windows handler thread itself.

### Holds

`stack` is the C stack restricted to frames, subframes, loops over a series and
traps. A frame has the array of its feed (or `NoArray` for a va_list), how many
items are left and `took`; a subframe only the position of the frame whose feed
it reads. Reaching END, `Abort_Frame` and the end of a loop release; dropping a
frame does not.

`Drop_Frame` happens at the end of the feed or before it. Before it: on a THROW
in DO, in a single step of an array or a va_list (`sys-do.h:56`,
`sys-eval.h:324` and `367`) and in every other caller that does not abort, and
when CASE or SWITCH have what they want. `Abort_Frame` happens in REDUCE,
COMPOSE, ANY, ALL and a few others on a throw, and for every frame above the
trap on a fail. Both are enabled at any time, since which one a caller uses is
all that its position in the evaluator decides.

`HoldsAreReleased` is what `sys-rebser.h:324` says, and has a run that violates
it by a throw; `HoldsLeakOnlyByDrop` says that nothing else does.
`HoldOutlivesReaders` is the comment at `sys-feed.h:453` (the array "has
SERIES_INFO_HOLD while it is being executed") as far as the code keeps it: the
level that clears a hold is not below another that still reads the array, except
where a VARARGS! reads on in a feed of a frame that is not the next one below
(`Lent`). Such a feed comes to its END (`sys-feed.h:484`) or is aborted
(`sys-frame.h:396`-`404`) above code that relies on its hold. The ordinary
subframe, by which nearly every argument is evaluated, shares the feed of the
frame right below it and is covered by the property.

### Collector

A pool of nodes: arrays, other series, pairings, API handles. A node may be
managed, may be inaccessible (its data freed), and refers to nodes by its cells
and by LINK/MISC. Between collections the program allocates, manages, frees,
decays, writes references, pushes and drops roots. `Recycle_Core` then goes
through its phases in the code's order; within a phase the order is left open.
`pending` is the calls the recursion of `Queue_Mark_Node_Deep` still has to
make, `mark_stack` is `GC_Mark_Stack`. `Live` is the least set that contains
the roots and is closed under references, stated without an algorithm.

Type-specific marking hooks are abstracted to the references they follow; every
reference is to a managed node, which is what the code requires of cells.

### SymbolTable

Internings are pairs of a spelling and a number, so that a second copy of a
spelling could exist and would be seen. `slots` is `PG_Canons_By_Hash`;
probing is computed from the hash as `First_Hash_Candidate_Slot` does it.
Rehashing goes one slot a step. A collection dooms any set of internings except
the words of `%words.r`, and `GC_Kill_Interning` frees them in any order. The
loop in it that is to "ripple" later entries back never advances
`previous_slot`, so that all it leaves is the deleted mark; the model has that
effect.

`Hash` is a function of the spelling, not of the class. `Hash_UTF8` is called
case insensitive, but it begins with the number of bytes of the UTF-8 and with
`LO_CASE` of its first byte (`s-crc.c:146`-`147`). For ASCII that is
harmless. Casings that differ in their first byte or their length (U+0401 and
U+0451, U+0178 and U+00FF) have different hashes: the search for one may not
meet the other, and then both are canons, with rings of their own. If they do
meet in a probe they share a ring, and a casing can be promoted to a slot that
its own hash does not lead to, where it is not found. The model has all of this.
The properties make their claims for the classes whose casings hash alike
(`AlikeClasses`), while the table is shared with words of any kind: those must
not hide the others, nor spoil rings, counters and vacancies, which are claimed
for all.

### SeriesData

One series with its memory, position by position: units, the terminator, and
`Junk` for memory that nobody may read. `owed` says that `Extend_Series` has
left the termination to its caller, `op` is the last operation, by which the
refinement tells which abstract step must have happened. The width of a unit is
1: all arithmetic in the code is in units times the width. An allocation may be
rounded up by any amount up to `Rounding` (pool sizes, powers of two).

### Ports

`dev` holds the requests, the pending list of the network device, the event
queue and, for each socket, the external `line` (what the system would answer).
The device commands are operators that give the set of outcomes of a command:
done, pending or a failure. `OS_Do_Device` and `Poll_Default` apply them, the
first on behalf of OPEN, READ, WRITE and CLOSE, the second for WAIT. `pc` is
where the interpreter is in WAIT: its loop, the system port's AWAKE, an AWAKE
function of a port, the timer, the poll. User code and AWAKE functions may
issue any request at any time, which is the case that the comment "HOW TO
PREVENT OVERWRITE DURING BUSY OPERATION" (`mod-network.c:110`) asks about.
A connection may be made or refused by the first call of `connect()` as well as
by a later one.

Left out: UDP, other devices, a WAIT inside an AWAKE function, WAIT/ONLY, and
OPEN of a port whose connection the peer has closed before CLOSE. The system's
`close()` of an open socket is taken to succeed (`dev-net.c:256`): if it failed
while a request is polled, `Poll_Default` would be left by the error with the
request still on the list and its socket no longer marked as open, and the next
poll would raise an error once more. A `socket()` that fails leaves the port
closed, as it was.

### MapHash

`pairs` is the pair list, `hashes` the hash list, `frozen` whether the stored
key is immutable. `Find_Key_Hashed` returns the slot together with the map,
because it may rename a zombie. `Find_Map_Entry` grows the table before every
search; past the last prime an access that would have to grow it fails
(`MayGrow`). The loop of `Rehash_Map` is a recursive function of the turns, each
of which (`Rehash_Pair`) may shorten the list it runs over. `making` is the time
in which `TO_Map` fills a new map.

`Same` and `Alike` are what `Cmp_Value` finds equal with and without case, and
are any relations; `Hash` is any function of the key. In the code equal keys can
hash differently: INTEGER! 1 and DECIMAL! 1.0, since `Hash_Value` works on the
bits of each kind (`s-crc.c:202`-`215`); blocks at an index, hashed by the
length of the whole array (`s-crc.c:301`) and compared from the index on; words
and strings whose casings differ in their first byte (`s-crc.c:146`-`147`). Two
such keys can be in a map at once, and when the table grows one of them can be
taken for the other and lose its slot; the instance reaches this. So the
properties speak of the keys for which equality is what a hash table needs
(`Orderly`: their equals hash alike and are equal to each other and to nothing
else), in a map that has keys of every kind in it: an orderly key is always
found, the map is a finite map of the orderly keys, and what happens to the
others does not touch them. `RehashHasLive` is claimed whatever the keys are.

`MapHashAssumption` says of the sizes what the table `Primes` of `c-word.c`
guarantees and the probing needs: each is a prime of at least 7, so that the
steps of a search come to every slot, and each is at least 4 more than the one
before, so that growing once always makes room.

## 3. Runs

| Run | Shows | Instance | Distinct states |
|---|---|---|---|
| `checkpoints` | a fail frees exactly what the trap must free, each manual series is listed once, marks stay in order and keep their series, guards stay valid, the mask is restored | 3 series, 3 activations, 1 guard, 1 counted stack | 189,358 |
| `signals` | with split updates and both other readers of the halt: debts stay requested and are paid, presses are answered or dropped in one of the two races, `Do_Signals_Throws` obeys the mask | dose 3, ballast 2, debt 1, 2 nested runs | 951,335 |
| `signals_wait` (violation) | WAIT throws a halt in code that is not interruptible | as `signals`, updates in one step | — |
| `holds` | one level believes it must clear a hold and finds it; it outlives the readers above it but for VARARGS!; only a frame dropped early leaves a hold behind | 2 arrays, depth 6, 2 items | 1,820,058 |
| `holds_leak` (violation) | a throw leaves a hold that nobody will release | 2 arrays, depth 5 | — |
| `collector` | no dangling reference, no panic, exactly the unreachable is freed, each collection ends | 2 nodes, 3 references, every kind of root | 506,266 |
| `symbols` | one canon per class that hashes alike, which every search finds; rings are classes, counters are right, a vacant slot is left; implements `Interning` | 8 spellings in 5 classes with colliding hashes, one class with two hashes; tables of 1, 7 and 13 slots | 169,837 |
| `series` | data and terminator within the allocation, bias bounded; implements `SeriesValue` | 2 units, allocations up to 7, insertions up to 2 | 33,603 |
| `ports` | only ready requests are polled, completions are told, operations and timed waits end | a listener and a port that is accepted or connects, 2 bytes a transfer | 253,592 |
| `ports_flag` (violation) | a detached request keeps its pending flag | as `ports` | — |
| `maps` | every orderly key is found in its one slot, rehashing finds a live last pair; implements `FiniteMap` | two casings of a key, 1 and 1.0, colliding hashes, tables of 7, 13 and 31 slots | 86,552 |
| `maps_frozen` (violation) | a key that can be modified gets into the map | as `maps` | — |

**Bounds.** Reordering in `GC_Manuals` needs an entry below a mark, a hole above
it and a last entry: three series. Marks interact in pairs, a third activation
gives a trap inside a trap inside a frame. A dose of 3 lets the count run out
by itself and be forced to 1 in between; a ballast of 2 with allocations of 1
and 2 meets zero and passes it; two nested runs are needed for an interruptible
run inside one that is not. Six levels give the same array to a loop, a
frame and a nested frame inside two traps. Two nodes give cycles, and a node
that only a decayed or orphaned one refers to; the theorems of section 4 carry
the safety properties of these four modules to all sizes.

A table of 7 slots is crowded at four canons; most of the hashes start at the
same slot of the tables of 7 and 13. Collecting and interning again fills it
with deleted slots, and it grows from 1 to 7 and to 13. Three casings of one
class give rings in which the canon, its successor and its predecessor differ;
the class with two hashes gives two rings, or one with a string in a slot of
another's probe. An allocation of 7 with a bias limit
of 4 lets the bias be too large by the limit, by the half and by the width of
its field. One connection can have its request superseded by any other, and one
listener shares the list with it; a transfer of 2 can be partial; `AwakeLimit`
1 instead of 8 lets the limit be met with two events. `MaxEvents` 0 means that
requests are issued when the queue is empty; the events of an accept and of a
transfer, or the two of a close, still meet in it. Four keys that hash to
overlapping chains give a zombie in the chain of a live key, and crowd the
table of 7 at two pairs and that of 13 at four; 1 and 1.0 start at different
slots of the table of 7 and at the same one of 13, so that both get in and one
loses its slot when the table grows.

**Deadlock** is checked except in `collector` and `symbols`, where a collection
for shutdown ends the program.

**Fairness.** `Signals`: weak fairness of what the thread is in the middle of
(sequential code goes on) and strong fairness of the evaluator step (API calls
and allocations are made from within expressions, so infinitely many of them
contain infinitely many steps). Nothing is assumed of the user, the masks or
`RECYCLE`; instead `HaltAnswered` and `CollectionHappens` have the premise that
the code finally stays interruptible and collection finally stays on.
`Collector`: weak fairness of the collector's own steps. `Ports`: weak fairness
of WAIT's steps (sequential code; AWAKE functions return, since `Woke_Up` is one
of them), of time, and of what the system and the peers do: a connection attempt
is answered, a peer sends or closes in the end, a full buffer drains. Without
the last a READ may wait for ever, and is meant to. Nothing is assumed of the
program; `OperationsEnd` has the premise that it finally stops replacing the
pending request by new ones. The other modules assume none.

## 4. Proofs

All are for every value of the constants that satisfies the named assumption of
the module (`BoundsAssumption`, `SignalsAssumption`, `HoldsAssumption`,
`CollectorAssumption`, `SymbolTableAssumption`, `SeriesDataAssumption`,
`PortsAssumption`, `MapHashAssumption`), and every inductive invariant was
checked by TLC first.

| Module | Theorems |
|---|---|
| `CheckpointsProofs` | `TypeCorrect`, `ManualsAlwaysTracked`, `MarksInOrder`, `MarksSeparate`, `NoDanglingGuard`, `MaskRestored`, `RecoveryIsExact` |
| `SignalsProofs` | `TypeCorrect`, `DebtAlwaysRequested`, `HaltNeverDropped`, `DoSignalsMasked` |
| `HoldsProofs` | `TypeCorrect`, `SingleTaker`, `HoldsOutliveReaders`, `OnlyDropsLeak` |
| `CollectorProofs` | `TypeCorrect`, `CollectorSafe`, `CollectorNeverPanics`, `SweepIsExact` |
| `SymbolTableProofs` | `CanonAlwaysFound`, `RingAlwaysClass`, `SlotsAlwaysCounted`, `VacancyAlwaysLeft`, `InterningImplemented` |
| `SeriesDataProofs` | `CapacityAlwaysKept`, `AlwaysTerminated`, `BiasAlwaysBounded`, `ImplementsSeriesValue` |
| `PortsProofs` | `AlwaysPolledReady`, `CompletionAlwaysSeen` |
| `MapHashProofs` | `KeyAlwaysFound`, `LastAlwaysLive`, `MapImplemented` |

No theorem has a hypothesis besides these assumptions. In particular the
theorems about halts cover split updates, `rebWasHalting` and WAIT, those about
holds cover throws that drop frames, subframes and VARARGS!, and those about
words and keys any hash function, any way of comparing keys, and tables that
words and keys of all kinds share; where the code breaks a promise the property
names the exception (section 5).

*Checkpoints.* The invariant adds what the marks of two activations have to do
with each other. A release of an own series moves only entries at or above the
innermost mark, hence above all marks, so the set below each mark is constant;
recovery frees the complement of that set. The guards below a mark are on
series that existed then and that recovery does not free.

*Signals.* In the middle of an update the pending requests are not in
`Eval_Signals` but in the C locals. `Settled` is what the variable will be; the
debt invariant says that an overdrawn ballast has its request there, or that
the thread is already on its way to `Recycle_Core`. It holds in the race too,
because the handler never touches that bit. For the halt, `UpdInv` ties an
unfinished update to where it goes on: one that clears the halt without
answering for it can only be that of a `rebWasHalting` which did not see it.
`MaskInv` says that a halt among the filtered signals was allowed by the mask
saved at that time.

*Holds.* The invariant is small (a level that took a hold has items left, only
one level has taken it, the bit is set); the two action properties are proved
from it one step at a time. The level that ends, the frame whose feed ends and
the frames above a trap each have a lemma about what becomes of the takers, since
an abort releases several holds at once and a collection takes several.

*Collector.* `Found`, the nodes marked or about to be visited, is contained in
every sound set (`Correct`), and everything finished work leads to is in it
(`Complete`), the items of arrays on the mark stack excepted. At the sweep
nothing is pending, so the marked nodes are the least sound set. `HeapInv` says
that cells refer to managed series or pairings only and that what the marking
does not follow is not there; the program's operations keep it, and a sweep of
everything outside a closed set does too.

*SymbolTable.* The invariant (`IInv`) has four ideas. `Tidy`: every canon has
exactly one slot, and a probe for a canon whose casings hash alike comes to it
before it comes to a vacant slot. Putting a string in a slot of its own probe,
handing a slot on in the ring and marking a slot as deleted all keep this, since
none makes a slot vacant and a ring has casings of one class. A canon of
another kind may be out of the reach of its probe; `GC_Kill_Interning` finds it
all the same, because its loop does not stop at vacant slots and the size is a
prime or 1. `Linked`: every string has an owner, the canon of its ring; the
links keep the owner and do not join, and a set that is closed under them
contains the whole ring of each of its members. The last clause says what a ring
is without mentioning a walk, so that adding to a ring and cutting from it are
proved by changing such sets; `RingMembers` then shows, by the pigeon-hole
principle, that the walk of as many steps as there are strings meets exactly the
ring. `Canonical`: a class that hashes alike has one canon, so its ring is the
class. `Counted` and `Growing`: `in use` counts what is left in the old table
together with what has been taken over, and the new table holds exactly the
latter. `Room`: what a search may add leaves a slot vacant. The table of one slot
with which a debug build starts is the exception: it may be full, but only until
the second word is interned, before which nothing is collected. The refinement
follows since, under the invariant, what a search finds is a function of the set
of canons.

*SeriesData.* `IInv` adds to the three properties the shape of the memory (a
unit for every index of the allocation) and where the data ends. The refinement
is proved one operation and one path at a time (slide, take back bias,
reallocate, unbias), by what each path leaves at every index.

*Ports.* `PolledReady` is inductive between commands, with a port for the
handler to work on. Within a poll a command changes the request and the list in
several steps; `Almost` describes the device while the request at hand is out
of line, and `Outcome` what each way a command can end leaves behind.
`CompletionSeen` is then a fact about one poll.

*MapHash.* `Hashed(P, L, H, d)` says that the slots name the first `d` pairs
only and are at most twice as many, that a search for the key of one, if it is
orderly, comes to its slot before it comes to a free one, and that no orderly
key is there twice. It is stated with a `d` because that is also what holds in
the middle of rehashing. Two facts carry it: since the size is a prime the first
`L` probes are all different (`ProbeIs`), and since fewer than `L` slots are used
a search ends (`ChainEnds`, by the pigeon-hole principle). A search then has
three outcomes (`FindIs`): a pair that matches, a zombie that is renamed, a free
slot. For an orderly key the pair that matches is its own or that of another
casing, and nothing unorderly can match it; a renamed zombie stays where it is
and is now on the way of its new key; no slot ever becomes free except all at
once.

The invariant of rehashing (`Turned`) says that after `i` turns the first `i`
pairs, or all that are left, are live and those with orderly keys are hashed,
that the last pair is live and that nothing with a value is lost. It begins only
if the last pair is live already. That is why `WellMade`, the invariant of the
map, says that a table that is too full has exactly one pair too many, which was
just added and so is live at the end; and it is the reason why a search has to
grow the table even when it adds nothing. A map that is being made has no
zombies, and hashing such a table again leaves its pairs as they are
(`RehashAgain`).

For the refinement, what an operation does is stated by which orderly keys have
which value (`Has`), whatever the order of the pairs and the place of the
zombies: `Agree`, or `Stores` under a key that `FiniteMap` allows.

**Only model-checked:** liveness (`HaltAnswered`, `CollectionHappens`,
`CollectionEnds`, `OperationsEnd`, `TimedWaitEnds`), which is out of the
prover's reach, and the violations. The prover has no induction over an arbitrary
predicate either, but a particular set of counterexamples has a least element
(`SetMin` in `SymbolTableProofs`, `FirstNumber` in `MapHashProofs`, from the
well-foundedness of the natural numbers); the walk round a ring of synonyms and
the loop of `Rehash_Map` are proved about in this way, down to the existence of
the recursive function.

## 5. What was found

Disagreements between the code and its comments. The first four have a run that
shows them; the others are shown by the configuration given with them, or follow
from the lines cited.

* WAIT ignores the signal mask (`mod-event.c:264`), although `interruptible` is
  "whether a HALT can cause a longjmp/throw" (`a-lib.c:758`) and "most API
  evaluations are not interruptible, because that would create unsafe
  situations" (`a-lib.c:1460`) (`signals_wait`).
* A throw leaves a hold behind: `sys-do.h:61`, `sys-eval.h:328` and `371` drop
  the frame in the middle of its feed, and so do CASE and SWITCH when they end
  early (`n-control.c:969`). The hold "will be released when the execution is
  finished" (`sys-rebser.h:324`); the array stays read-only instead
  (`holds_leak`).
* `Detach_Request` sets `RRF_PENDING` instead of clearing it (`f-device.c:121`),
  so WAIT waits for ever on a port that was closed while something was pending
  (`ports_flag`).
* A lookup in a map can store an unfrozen key, which a PUT then revives
  (`t-map.c:156`, `maps_frozen`).
* A VARARGS! can take the hold away from under code that runs: the array is
  said to have it "while it is being executed hence won't be relocated or
  modified" (`sys-feed.h:453`), but a subframe that comes to the END of a feed
  further down clears it (`sys-feed.h:484`). (`Holds`, `HoldOutlivesReaders`
  without `Lent`.)
* Casings of a word that are not ASCII can hash differently, though `Hash_UTF8`
  is said to be "a case insensitive hash value" (`s-crc.c:142`) and a promoted
  synonym "should hash the same, and be able to take over the hash slot"
  (`c-word.c:408`). (`SymbolTable`, `CanonFound` with all spellings for
  `AlikeSpellings`.)
* Keys of a map that are equal can hash differently, so a map can have both, and
  lose one when it grows. (`MapHash`, `KeyFound` with all keys for
  `OrderlyKeys`.)
* `rebRealloc` inside a rescue of memory from outside it can leak: "Manual
  series will be automatically freed in the case of a fail()"
  (`sys-series.h:389`), but the new series takes a place below the trap's mark.
  (`Checkpoints` with `SPECIFICATION SpecApi`, invariant `FailFreesNewMemory`.)
* Unprotected updates of `Eval_Signals` can lose a Ctrl-C (`sys-core.h:403`).
  (`Signals` with `SplitRMW = TRUE`, `HaltRemembered`.) On Windows, where the
  handler is a thread, its own update can lose the evaluator's as well.
* `rebWasHalting` clears `SIG_HALT` unconditionally after testing it
  (`a-lib.c:1486`), so a press in between is neither reported nor kept.
  (`Signals` with `Clients = {"poll"}`, `HaltRemembered`.)

Noticed on the way, and not checked:

* Collector: `Fill_Sweeplist` looks at header values 9 and 11, never at 10, so
  the list it makes is always empty (`m-gc.c:1012`–`1054`; compare the comment
  at 1063, and `FillSweeplistInv`, where `sweeplist' = {}` is proved). Guarding
  an unmanaged series, which the comment at `m-gc.c:1269` allows, would make the
  next sweep panic, but no caller does it.
* Signals: `Do_Signals_Throws` does not set `Eval_Count` to 1 for signals it
  leaves masked, as the comment at `c-signal.c:65` says. A Ctrl-C after the last
  evaluator step of a command stays pending and halts the next one
  (`mod-console.c:393`).
* Pools and series: `Free_Pairing` returns to `SER_POOL` what `Alloc_Pairing`
  took from `PAR_POOL`. An allocation that fails in `Expand_Series` leaves the
  series dynamic with null data (`m-pools.c:846`). The first entry of
  `Prior_Expand` is never cleared. `Clear_Series` is said to reset the tail to
  zero and does not.
* Symbols: `GC_Kill_Interning` says it ripples collision slots back and does not
  (`c-word.c:419`).
* Ports: the queue is last in, first out, so a 'close is handled before the
  'read of the last bytes; the AWAKE function handles nine events where the
  comment says eight; a WAIT that returns for one port forgets the wake-ups of
  all others (`c-port.c:189`); after a close by the peer the port keeps the old
  descriptor and a second OPEN would use it (`dev-net.c:570`); the buffer of a
  WRITE that is superseded or closed is not released; READ/PART of 0 bytes is
  taken for a close.
* Maps: a removed spelling still makes a lookup ambiguous (`t-map.c:134`);
  setting a missing key to null by a path trips an assertion (`t-map.c:353`);
  PUT does not check for a read-only map.
* JavaScript: `pthread_cond_signal` without a waiter is lost
  (`mod-javascript.c:421`), and a promise that fails is marked rejected without
  the JavaScript promise being settled.

## 6. Plan

Done: the core in the order of its importance to memory safety (recovery,
signals, holds, collection), then the symbol table, series data, ports and maps
with their abstract specifications.

The proofs cover every safety property and every refinement that a passing run
checks. Next:

1. **Varlists**: `TG_Reuse`, varlists that become managed, stolen variables,
   API handles and the frame they belong to, the dummy frame of `rebRescue`
   (and its absence in `rebRescueWith`).
2. **NodePool**: segments and free lists, which refine the `kind` of Collector.
3. A composition of Checkpoints and Collector (guards and manual series as
   roots, fail in the middle of building a managed structure).

### Not modelled

The evaluator's grammar, PARSE, the scanner, the molder, binding, datatypes and
the mezzanines transform values step by step in one thread: their state is the
value they work on, and what can go wrong is in the data, which a model would
only transliterate. Codecs, compression, cryptography, dtoa, FFI, ODBC, ZeroMQ
and TCC are third-party code or bindings to it, and most of the lines of the
repository. CALL is a loop of `poll`, `read` and `write` with the state of the
host's pipes. The JavaScript extension's handshake is half in C and half in
JavaScript text, for one build configuration.

## 7. Running

    tlc -config Collector.cfg MCCollector      # any run: cfg and module as in PROJECT.json
    tlapm CollectorProofs.tla                  # any proof module

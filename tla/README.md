# Open addressing table: TLA+ models, model checks and proofs

The repository is a header-only C++ library (`include/files/`): a hash table
with open addressing whose slots live in a memory-mapped file, the allocators
and iterators under it, an LRU cache, and two locks with their backoff. This
directory models the parts that carry the logic, checks them with TLC on small
instances and proves the main properties with TLAPS for every instance. All
line numbers are those of the headers under `include/files/` unless a path is
given.

## 1. Inventory

### The parts, their state and their operations

| part (file) | state | operations that change it | status |
|---|---|---|---|
| open-addressing algorithms (`unordered_map.h:145-420`) | none: they work on a container of slots | `open_address_find`, `open_address_emplace_index`, `open_address_erase_index` | modelled, lemmas proved |
| `unordered_map_file` (`unordered_map.h:682-1589`) | `M_file` (slots), `M_buckets`, `M_elem`, `M_bucket_choices`, `M_name`, `M_delete` | constructors, `emplace`/`insert`, `insert_or_assign`, `operator[]`, `find`, both `erase`, `clear`, `bucket_choices`, `destruct_is_wipe`, `rehash`, `reserve`, destructor | modelled |
| size choice (`unordered_map.h:627-740`) | none | `next_size`, `reserve_choice` | modelled |
| iterators (`bidirectional_openaddr.h`) | a slot and the end | `begin`, `++`, `--` | modelled |
| file allocator (`mmap_allocator.h`) | file descriptor, file name, mapping; the file itself | `allocate`, `reallocate`, `deallocate`, `wipe` | modelled as the map uses it |
| heap allocator (`basic_allocator.h`) | none | the same on the heap | not modelled: growth is `Resized` for both |
| block (`file_block.h`) | the bytes of one slot | typed access by compile-time offset | not modelled: no state of its own |
| `unordered_map_lru` | `M_data` (list), `M_cache` (index into it), `M_max` | `emplace`/`insert`, `insert_or_assign`, both `erase`, `find`, `reserve`, `clear` | modelled, theorems proved; copies are not |
| `queue_lock`, both builds | `M_head`, `M_tail`, each caller's ticket | `lock`, `unlock` | modelled, theorems proved |
| `spin_lock` | `M_free`, `M_recurse`, `M_holder` | `lock`, `unlock` | modelled, theorems proved |
| `backoff` | `M_estimate`, `M_waits`, shared by the waiting threads | `wait`, `adjust` | not modelled, see section 5 |

### How they interact

The map owns its slots through an allocator and calls the three algorithms with
`M_file`. `emplace` asks `reserve_choice`, which asks `next_size` and the
allocator, for more slots when `M_elem = M_buckets`. `rehash` plans with the
algorithms a second time, on a vector of pointers, and then moves the elements
inside the file. Iterators are indices into the slots, so every call that moves
elements changes what an iterator stands at. Nothing in the containers is
synchronised: a caller takes one of the locks around calls, which is why a
call is one step in the models of the map and every access to a shared variable
is one step in the models of the locks. What cuts a call in two is not another
thread but the end of the program: the slots are a shared mapping, so a stop
leaves in the file what the call had written so far. A lock calls `wait` of its backoff in
its loop and `adjust` once it is in.

### What is hard here

* **Ring arithmetic.** Elements with equal or neighbouring homes form chains
  which emplace and erase shift, around the end of the array too.
* **An order nobody checks.** `open_address_find` gives up as soon as the order
  of homes says the key cannot come; anything that breaks the order hides
  elements.
* **Growth and rehash in place.** Growth changes every home and moves nothing;
  rehash moves along chains of destinations that may close.
* **Limits.** A full table, `max_size()`, a table of no slots, sizes that pass
  through a `float`.
* **Counts apart from what they count.** `M_elem`, `M_recurse`, the LRU index.
* **Interleavings.** A lock whose `M_tail` is no atomic, tickets that wrap, a
  weak compare-exchange, a holder set and cleared in steps.
* **Persistence.** A destructor that wipes or does not, a file reopened with
  another number of slots, slots of zero bytes that count as taken, a stop
  between two copies, a moved-from map that still owns the name of the file.
* **Half-done calls.** An LRU map changes its index, then makes a list node, which
  may throw.
* **Iterators** into slots that erase shifts under them.

### What makes each part correct

* algorithms: find reaches every element; emplace fills one free slot, erase
  frees one; shifts neither lose nor duplicate an element;
* map: it is a dictionary; its count is right; calls about one key leave the
  others alone; calls return;
* size choice: growth makes room until `max_size()`;
* rehash: the moves end in the planned layout and lose nothing;
* queue lock: exclusion, first come first served, no starvation;
* spin lock: exclusion, as many unlocks as locks, the last one releases, the
  owner never waits for itself;
* LRU: list and index agree, the maximum holds, the oldest goes first;
* file: what is reopened is what was closed, whatever the program was stopped
  in costs at most the element the call was about;
* iterators: a walk visits each element once and stays inside; what
  `erase(iterator)` returns is either at the element after the erased one or,
  at the slot just freed, one step of `++` before it.

The hazards behind these, each at its line, are in `PROJECT.json`.

## 2. Modules and how they correspond to the code

| module | models |
|---|---|
| `OpenAddress` | the three algorithms as operators over the keys of the slots: `Steps` is how far a probing loop goes, `open_address_*` return the index the code returns, `ShiftUp` and `ShiftDown` are the moves. A loop that never ends is `EmplaceLoops` |
| `NextSize` | `next_size` in both directions, with its two refusals (a count or a size past `max_size()`) and `ThroughFloat`, the conversion by which a size is divided by the load factor |
| `Dictionary` | abstract: a partial function from keys to values and what each call answers |
| `UnorderedMapFile` | the map: one action per public call, the growth inside `emplace`, the two ways a call may end the program (`status`), and the last answer (`ret`) |
| `Rehash` | the plan (`Place` keeps `first` and `second` of the vector in step as `local_elem_transfer` does) and the second pass (`ChainFrom`, `Unwind`). Its loops are functions of the number of rounds made (`PlanSoFar`, `Popped`, `MovedSoFar`), so that a stop can fall between two rounds and a proof can go round by round |
| `MapRehash` | `UnorderedMapFile` with `rehash`/`reserve` |
| `Iterators` | `begin`, `++` and `--` as positions over the slots |
| `DurableDictionary` | abstract: a `Dictionary` that outlives the object and the program unless it is told to be wiped |
| `MapFile` | `MapRehash` with its file and its iterators: constructors (`OpenEmpty`, `Reopen`, `MoveConstruct`), destructors (`Close`, `DestroyMovedFrom`), `destruct_is_wipe`, a program killed between calls (`Kill`) or inside one (`Stop...`), and calls on a file whose name is gone (`GrowUnlinked`) |
| `MapGrowth` | the sizes alone of a map that is given one new key after another, so that tables of 2^24 slots can be followed |
| `FairLock` | abstract: what the comment of `queue_lock` promises to whoever has drawn a ticket |
| `QueueLock` | both builds of `queue_lock`; the variable `safe` says which |
| `SpinLock` | `spin_lock`, with the caller's `depth` as a history variable |
| `LeastRecent` | abstract: a list of the most recently stored keys that forgets from its end |
| `UnorderedMapLru` | the LRU map: the list as a sequence of nodes, the index as a function from keys to nodes, and the two calls that may throw half-way |
| `OpenAddressProofs`, `UnorderedMapFileProofs`, `UnorderedMapLookupProofs`, `RehashProofs`, `MapFileProofs`, `UnorderedMapLruProofs`, `QueueLockProofs`, `SpinLockProofs` | lemmas and theorems |
| `MCUnorderedMapFile`, `MCMapRehash`, `MCMapFile`, `MCMapGrowth` | keys, hashes, sizes and restrictions of the instances. The locks and the LRU map need none: their configs suffice |

Composition: `UnorderedMapFile` extends `OpenAddress` and `NextSize`; `MapRehash`
adds `Rehash` to it, `MapFile` adds the file and `Iterators` to that, each with
a next-state relation that contains the one before.

Choices that need a word:

* A slot is `Free` or an element `[key, val]`. The stored hash is `Hash[key]` and
  is not kept apart; keys are equal only to themselves.
* `M_elem = 0` after construction on a file whose content does not matter
  (`Init`, `OpenEmpty`); with `preserve` it is counted (`Reopen`). In `ret.ok`
  the model notes which of the two constructors ran.
* `M_file` stands for the mapping while a map is open and for the content of the
  file while none is: the mapping is shared (`mmap_allocator.h:127`), so there is
  no moment at which they differ, unless the name has been removed (`linked`).
* A block is copied in one step: a stop falls between two copies, not into
  one. A stop is that of the program; the file of a machine that loses power
  is not modelled.
* A slot of zero bytes is taken (its free flag is clear). Its key and hash are
  zero, `ZeroSlot`. A stop, or a failing `mremap` after which the program crashes
  on the mapping it did not get, leaves such slots (`StopGrowing`).
* `doomed` is one moved-from map whose destructor is still to wipe the name. A
  second one at the same time is not followed.
* `Node` is the memory of the LRU list. A freed node may be used again at once,
  so an entry of the index that was left behind may lead to the node of another
  key. `M_max` is any number of `Capacity` at first, since the default
  constructor does not set it.
* Sizes are exact up to `FloatExact` (2^24) and rounded to even up to twice
  that, which is as far as `MaxSize` is allowed to go. `rehash` calls
  `next_size` again in `reserve_choice`; below `FloatExact` this gives the
  same number, and the instances stay there.
* `operator[]` returns a reference. The caller reads it; writing through it is
  `InsertOrAssign` on a present key.
* In the default build of `queue_lock`, `M_tail` is a plain variable read while
  another thread writes it. What compilers for the supported machines make of
  that is a whole load and a whole store, repeated in each round because the
  loop also loads the atomic `wanted_head`; so the race shows as `++M_tail`
  being two steps (`LoadTail`, `StoreTail`). In the safe build it is one, and
  a failed exchange overwrites the ticket, which is put back two statements
  later (`FailExchange`, `Retry`). The same goes for `M_holder` of
  `spin_lock`. Interleavings are sequentially consistent: on x86, the next
  `lock` of a thread is a locked instruction, so a store that is delayed in its
  buffer is a `StoreTail` or `ClearHolder` that happens later. Reordering of the
  client's own data on weaker machines is not modelled.
* Clients of `queue_lock` pair `lock` with `unlock`, as its comment demands by
  calling it not recursive. Clients of `spin_lock` may call `unlock` at any time:
  the code tests for it.
* First come, first served counts from the `fetch_add` on `M_head` that draws the
  ticket (`Request` of `FairLock`). The header makes a reservation: "Is the lock
  fully fair, no. A fully fair - as defined above - lock would have to some form
  of timestmp + tracking system and verify that lock requests are given out
  equally. [...] Instead this lock minimizes the chances of starvation."
  (`queue_lock.h:36-40`). We read it as being about the time between a call of
  `lock` and that `fetch_add`, in which others may overtake: there is no state
  before the ticket in which a thread could be said to have asked, so `FairLock`
  says nothing about it. `NobodyStarves` counts from the ticket, too.
* `compare_exchange_weak` may fail spuriously iff `SpuriousFailures`.

Bounds: `MaxSize`, `InitialBuckets` and `ChoiceSets` (sizes of tables),
`Requests` (arguments of `rehash`), `MaxElem` (how far the count of a broken
table is followed), `Span` (width of `Base`), `MaxRecurse` (width of
`M_recurse`), `MaxDepth` (nested locks), `Node` and `Capacity` (the LRU list).

Definitions marked *Mutant of* are plausible bugs; substituting one for the
definition it is a mutant of makes TLC find a violation of the property it is
paired with in `PROJECT.json`.

## 3. Runs

| run | instance | shows |
|---|---|---|
| `map_grow` | three keys, one to five slots, choices that change | what growth keeps: the count, other keys' elements, and `NeverStuck` |
| `map_file` | five keys, homes 0 0 1 1 2 in six slots and 0 6 1 7 2 in eleven, two values, no stops | `Lookup`, `CountWhenOpen`, `WalkVisitsAll`, `EraseKeepsWalk` and `ImplementsDurable`: for every order of calls, rehashes, ends and openings, map and file are a durable dictionary |
| `map_file_wild` | three colliding, wrapping keys, two to four slots, requests for 0 to 5, stops anywhere, reopening with any size | types; `StoppedOrNot`: what a call leaves in the file, returned or stopped: of `emplace` and `erase` the elements of all other keys, of a growth all elements and `ZeroSlot`, of a clear nothing new, of a rehash all elements, unless a chain closes or a key is there twice; `MovesFollowPlan`: unless a chain closes, the moves in place end in the layout that was planned |
| `lru` | four keys, two values, three nodes, maxima 0 to 2, exceptions | `ListIndexed`, `SizeBounded`, `IndexExact`, `ImplementsLeastRecent` |
| `queue_lock` | three threads, three values of `Base`, both builds | `MutualExclusion`, `ImplementsFairLock`, `NobodyStarves` |
| `spin_lock` | three threads, depth two, stray unlocks | `MutualExclusion`, `RecursionCounted`, `ReleasedWhenDone`, `NoSelfDeadlock`, `SomebodyEnters` |
| `map_wrap_lookup` | six keys, seven slots, no growth | **violates** `Lookup` |
| `map_grow_lookup` | the instance of `map_grow` | **violates** `Lookup` |
| `map_rehash_cycle` | two keys that change places between 7 and 17 slots | **violates** `RehashKeepsElements` |
| `map_growth` | the default choices near 2^24 slots | **violates** `GrowthMakesRoom` |
| `file_moved` | the instance of `map_file_wild` without stops | **violates** `FlagDecides` |
| `spin_lock_spurious` | `spin_lock` with spurious failures | **violates** `ReleasedWhenDone` |

The violations are the disagreements between the code and its own comments and
tests; `findings` in `PROJECT.json` quotes the lines. Five are about the map: a
chain that passes the end of the array hides elements from `find`; the
growth inside `emplace` leaves elements at homes of the old size; a rehash in
which destinations form a cycle loses an element; a table of 2^24 slots
cannot grow; the destructor of a moved-from map wipes the file of the new one,
though that was told to keep it. One is about `spin_lock`: `unlock` takes a
spurious failure of the weak exchange for a nested lock.

Two more disagreements have no violated run of their own. `erase(iterator)`
returns an iterator to the slot it has freed whenever nothing was shifted into
it (`unordered_map.h:1397`): no element, and `end()` only if the map is empty.
`EraseKeepsWalk` says exactly when that is so, and that one step of `++` leads on
from there; it does not say that a caller may use the returned iterator as it
is. And a file reopened with another number of buckets keeps its elements at
homes of the old number (`unordered_map.h:789`), so `find` misses them:
`StoppedOrNot` goes through such openings, `Lookup` is claimed without them only.

This is why `Lookup` and `ImplementsDurable` are checked where chains do not
pass the end and the order of homes is kept, while `CountMatches`,
`BystandersKept`, `TypeOK`, `NeverStuck`, `StoppedOrNot` and `MovesFollowPlan` are
checked (proved, too) without such a restriction: they survive
even in a table that find can no longer search. (`LookupCorrect` gives the
restriction a form that does not depend on the instance.)

**Bounds and why they are enough.** The algorithms compare homes and move by one
slot, so what matters is which chains can meet: five keys in six slots give
chains of equal homes, of neighbouring homes, chains that push others along, and
a gap between them; with six keys in seven slots (`map_wrap_lookup`) and in
`map_file_wild` chains pass the end. Two values
tell an old value from a new one. Growth from one to five slots goes through
every rule of `next_size` (a choice, no choice left, refused). Six and eleven
slots, and two, three and four, give destinations forwards, backwards and of
themselves. `map_file` (`CalmSpec`) leaves out stops and reopenings with another
size, and lets a map that is to wipe its file make no further calls: what happens
with the element of a stopped call, or with one at the home of another size, is
no dictionary, and is the subject of `map_file_wild`. There a table whose chain
has closed counts one too many for good; it is followed up to `MaxElem`. In
`lru` four keys for at most two places force evictions, three nodes are one
more than the list can keep, so that every freed node is used again, and 0 is
the maximum at which an element goes as soon as it came. With as many threads as values of `Base`, the queue lock wraps every
third request and head meets tail with all tickets out, the case its comment
(49-54) declares impossible in practice. Three threads suffice for the spin lock
to have an owner, one that waits and one that strays into `unlock`; two levels
for a nested and an outermost unlock.

`map_grow` and `lru` switch the deadlock check off: there the program may really
stop, in a loop without end, by a trap, or by following an entry of the index
that leads to no element. Elsewhere it is on; in `MapFile` a program that is
stuck can always be killed.

**Fairness.** The containers are sequential and have no liveness property beyond
"calls return", which is the safety property `NeverStuck`. The locks assume weak
fairness of each thread's steps inside `lock` and `unlock`: a runnable thread is
scheduled. `QueueLock` counts the first step of `unlock` in, so an owner unlocks
in the end; its comment (31-32) leaves that to the client. Nobody is obliged
to call `lock`. `SomebodyEnters` of `SpinLock` needs no more than scheduling: it
is progress, not freedom from starvation, which a spin lock does not give.

## 4. Proofs

**Map** (`UnorderedMapFileProofs`, on lemmas of `OpenAddressProofs`), for any
keys, hash function, choices and sizes up to 2 * `FloatExact`:
`TypeCorrect`, `CountCorrect`, `BystandersCorrect`, and, for
`MaxSize <= FloatExact`, `CallsReturn`. The invariant is `IInv`: the table is a
function from slots to elements and `M_elem` is the cardinality of the taken
ones or more (`TableOK`), the rest is typed (`RestOK`). Types alone are not
inductive: that `M_elem` stays a natural number when an element is erased needs
the count to be no smaller than what it counts. That it is equal (`Exact`) is
kept apart, because a rehash whose chain closes ends it and leaves the rest
true. The weight is in what shifts do. `FindResult`, `EmplaceResult`
and `EraseResult` say what the three algorithms return; `ShiftUpContents` and
`ShiftDownContents`, that a shift around the ring is a bijection between the
taken slots before and after, so that the set of elements and their
number change by the one inserted or erased. They hold for wrapped chains and
full tables. `CallsStickWhereRounded` adds when a search for a free slot ends, for
every `MaxSize`: unless the table is full and its next size, taken through the
float, is not a larger one. `RoundedSizes` says which tables that are: those of
`max_size()` slots or one less, and from 2^24 slots on those of a multiple of
four. `CallsReturn` is what remains below that.

**Finding** (`UnorderedMapLookupProofs`): `LookupCorrect`, `Lookup` in every
behaviour in which the last slot has stayed free (`LastSlotFree`). Then no chain
passes the end and nothing grows, the two ways in which `Lookup` fails in the
runs that violate it. `Lookup` is not inductive: whether find reaches what
emplace puts in depends on where that is, and this on the order of all homes. The
invariant `Ordered` says the order: an element is at its home or above it with
taken slots only between (`Reachable`), homes never decrease from slot to slot
(`Sorted`), no key is there twice (`Unique`). `FindHit` and `FindMiss` say where
the three loops of find end in an ordered table, a miss where its key `Belongs`;
`PutKeepsOrder` and `EraseKeepsOrder`, that the shifts keep the order: what moves
up moves over taken slots, and what moves down was not at its home.

`MapIsDictionary` makes of this the refinement of `Dictionary`, again while the
last slot stays free. The mapping reads the dictionary off the slots
(`Contents`); that it reads one value of each key takes `Unique`, and that a call
gives the answer of the dictionary takes `Lookup`: a miss of find is an absent
key. `EmplaceRefines`, `AssignRefines` and `EraseRefines` say of each call
which slot holds its key afterwards and that every other element is where
another slot had it.

**Rehash** (`RehashProofs`), about the operators of `Rehash` alone, for any
tables and sizes. Their loops are recursive functions over the rounds: `Iteration`
says once and for all that such a function exists and `UpTo` that what one round
keeps all rounds keep. The plan: `PlanSound`, that the first pass places every
element it has met in a slot of its own, that `first` and `second` are inverse
to each other at every round, and that nothing is planned for the others; it
rests on what `EmplaceResult` says of the search, here in the vector of
pointers. The moves: a chain lists the destinations one after the other
(`ChainFrom`), so unwinding it from its end never writes to a slot whose element
has not left; chains of different starts do not meet except where the later one
runs into the earlier, whose slots then have no destination any more.
`MovesArePlanned` puts this together: if no chain closes, the table after the
second pass is the planned one. Without that condition `MovesNoMore` remains:
no move makes more slots taken than there were, which is why the count never
falls below what it counts.

**Map and file** (`MapFileProofs`), for any arguments of `rehash`, any default
choices and any zero slot: `FileTypeCorrect` and `RehashFollowsPlan` without
any further condition. The invariant is `FileIInv`, the types and, while a map
is open, `TableOK`; every way in which a call can be stopped leaves a table
(`RehashStopped`, `EmplaceStopped`, ...), whatever the file then held. While
open maps have no two elements with one key and no request leads to a closing
chain, the two conditions under which `RehashFollowsPlan` promises a planned
layout, `Exact` is an invariant, too, and gives `CountCorrectWhenOpen`; neither
can be dropped, as `map_rehash_cycle` shows for the chains. On it rests
`WalkCorrect`: `++` leads from each taken slot to the next (`ForwardNext`), so
`m` steps from `begin` have passed `m` of them (`WalkIsRound`), and after
`M_elem`, the number of all, the walk is at the end.

`StopsSpareOthers` is `StoppedOrNot` of `FileSpec` as it stands, with no condition
but the one `StoppedOrNot` itself has for a stopped rehash: distinct keys and no
closing chain. A shift copies
each slot before it overwrites it, so however far it came
(`ShiftUpKeepsOthers`, `ShiftDownKeepsOthers`) an element is in the file twice
or in its one place, but for the one in the slot the shift started from. A stopped
growth leaves every element and, as it has never freed its last slot, always
`ZeroSlot` besides (`StopGrowingAdds`); a stopped clear loses elements, which it
is there for, and makes none (`StopClearInvents`). A rehash frees a
slot only when its element is kept in the chain, or already at its new place:
a move passes all elements on (`MovingKeepsElements`), a chain is unwound over
slots that are free (`PoppedKeepsElements`, `StopRehashSpares`). The unwinding of a
closing chain would start on a taken slot, and with a key twice two elements may
be planned for one slot.
`RehashKeepsAll` is the same of a rehash that returns.

`ErasingKeepsWalk` is `EraseKeepsWalk` while keys are distinct and no element lies
below its home (`Overflowed`), where it would have come over the end of the array.
Then slot 0 is free or its element at home, so the shift stops there at the
latest and has only moved slots behind the erased one, and it has moved any
exactly if the next slot held an element away from its home (`EraseStaysBehind`).
Then each slot takes what was in the next one, and the returned slot has what
followed (`SlideFollows`). Otherwise the returned slot is free. The iterator does
not say which: a loop that does not look at the slot, or does not compare homes,
stays on a freed slot for ever and reads what was destroyed, so
`EraseKeepsWalk` is what a caller can rely on who does.

`FileLookupCorrect` carries `Lookup` over rehashes, destructors, kills and
openings, while the last slot of an open map is free and no chain closes. The
invariant is `Ordered`, again. That a rehash brings it about anew is the work: the
first pass inserts into the vector of pointers as `emplace` inserts into the table
(`PlacedKeys`), so `PutKeepsOrder` applies round by round, as long as the last
slot of the vector is free. Its slots only get fuller, hence a last slot that is
free in the end has been free all along (`PlanOrdered`), and the moves end in
that layout (`RehashPlanned`). `CompleteSpec` has every action of `FileSpec` but the
stops inside a call and the reopenings with another size; either can leave
slots out of order.

`FileIsDurable` is the refinement of `DurableDictionary` under the same
conditions. Calls are those of a dictionary as in `MapIsDictionary`; a rehash has
the same elements before and after, and so the same `Contents`; a reopening with
the size the file has finds the slots as they were left (`ReopenSame`).
`RegularSpec` leaves out, in addition, the destructors of moved-from maps: the run
`file_moved` shows one that wipes what was to be kept. In the instance of run
`map_file` the conditions of both theorems hold in every reachable state, which
is why the run needs no such condition.

**Queue lock** (`QueueLockProofs`), for any finite set of threads not larger than
`Span`: `LockTypeCorrect`, `Exclusion` and `FirstComeFirstServed`, the
refinement of `FairLock`. Exclusion is not inductive: nothing in it says why a
ticket is not drawn twice. `Window` says that the tickets that are out are
distinct and the first `Cardinality(Active)` places behind `M_tail`, and that
`M_head` is the place after them; `Private`, that the copies of a thread agree
with its ticket, and that whoever is inside has the ticket `M_tail`. The
refinement mapping takes as ahead of a thread those with a smaller place;
drawing adds a place behind all others, unlocking moves all others up by one.

**Spin lock** (`SpinLockProofs`): `SpinTypeCorrect` and, for machines without
spurious failures, `SpinExclusion`, `RecursionCorrect`, `Released`, `OwnerGetsIn`. `Taken` says
for each step of the thread that `Has` the lock what of `M_free`, `M_holder` and
`M_recurse` it has set, and that no other thread has it.

**LRU map** (`UnorderedMapLruProofs`), for any keys, nodes and maxima:
`LruTypeCorrect`, `ListAndIndexAgree`, `NeverTooLarge` and `IndexLeadsToList`. The
invariant is the conjunction of the four properties. None is inductive alone:
`trim` and `reserve` take an entry out of the index by the key of a node, so that
they take the right one needs `ListIndexed`; that `trim`, which removes one
element at most, is enough needs the bound before the call; that
`insert_or_assign` and `erase` do not go through a stale entry needs
`IndexExact`, which an exception ends (`threw`) until `clear` while the three
others go on. `Agrees` and `Exact` state list and index apart from the
variables, so that one lemma about a node that is put in front and one about a
node that is taken out serve all calls.

`ListAndIndexImplementList` is the refinement of
`LeastRecent`: the mapping reads the pairs off the nodes (`OrderOf`), and each
call is one of the list alone. `PlaceOf` and `NoPlaceOf` say that the index leads
to where `LeastRecent` finds a key, which takes `ListIndexed` and `IndexExact`;
`OrderCons`, `OrderRemove` and `OrderFront` that to put a node in front, erase
one or drop the last does the same to the pairs; `StoreRefines` that the one
removal of `trim` is the cut of `LeastRecent`. After a call that throws nothing
is promised until `clear`.

**Assumptions** are those on the constants, named in the modules: a key is not
`Free` and no slot is (it marks the absence of either), hashes are natural
numbers, choices are non-empty sets of positive sizes, requests are natural
numbers, some key has hash zero, `MaxDepth <= MaxRecurse`, and `Cardinality(Thread) <= Span`, which the
comment of `queue_lock` argues for.

**Only model-checked.** Liveness (`NobodyStarves`, `SomebodyEnters`), as the prover
has no rule for fairness. Every other property of a passing run is stated by a
theorem; those about `Lookup`, the two dictionaries, the walks and the count of
an open map have the conditions named above, which the runs meet by their choice
of keys and sizes.

## 5. Not modelled, and why

* The block and its layout (`file_block.h`), const observers, formatting of
  names, `configure` and `defs.h`: no state of their own, or no behaviour beyond
  what is modelled.
* The heap allocator: moves slots to new memory, which `Resized` already says; no
  file, so nothing of `MapFile` applies. `allocate_at_least` and
  `reallocate_at_lest` of the file allocator are called by nobody.
* `backoff`: it touches nothing that the locks read. Its estimate and its
  counter decide how long a thread waits between two attempts, and the models of
  the locks have a wait of any length there already.
* Copies of an LRU map: the list is copied and the index too, with iterators
  into the list of the original, so the first call on a copy that uses them
  has undefined behaviour; the hazard is listed.
* A constructor whose `open`, `ftruncate64` or `mmap` fails reads or writes slots
  at `MAP_FAILED` and the program ends before there is a map. A failing
  `mremap` is modelled by what it leaves behind. A constructor given a size that
  `reserve_choice` refuses leaves a map without slots; it is not followed.
* `operator++` on the last slot reads the free flag one slot past the array
  before it compares with the end (`bidirectional_openaddr.h:61`). What is there
  depends on how the mapping is rounded to pages; that the read may fault is not
  modelled, only the position that `++` arrives at.
* `deallocate` unmaps `n` bytes instead of `n` slots; the addresses it leaks are
  not modelled.
* Exceptions of keys and values of `unordered_map_file`, power failures, two
  programs that have the same file open, and iterators kept over a call that
  invalidates them by the rules of the standard containers.

## 6. Plan

Done: `OpenAddress`, `NextSize`, `UnorderedMapFile`, `Rehash`/`MapRehash`,
`MapGrowth`; `MapFile` with `Iterators` against `DurableDictionary`;
`UnorderedMapLru` against `LeastRecent`; `QueueLock` against `FairLock`,
`SpinLock`; and the proofs of section 4. To come, in this order:

1. **What is true without a free last slot.** A cyclic form of `Ordered`, for
   tables whose chains pass the end and in which nothing has grown, and how far
   `Lookup` holds there.
2. **Growth that keeps order.** Conditions on homes under which the growth inside
   `emplace` leaves `Ordered` true, so that `Lookup` follows over growth, too.

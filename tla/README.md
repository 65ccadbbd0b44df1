# libmowgli-2 in TLA+

libmowgli is a C library of containers, memory management, an event loop and
the things programs built on an event loop need: line-buffered sockets, an
asynchronous DNS resolver, helper processes, hooks, objects, JSON. This directory
models the parts of it that keep state across calls and callbacks, checks them
with TLC, and proves with TLAPS the safety properties of all of them but the
patricia tree and JSON. Paths below are relative to `src/src/libmowgli/`.

## The system

| Component | State | Operations | Hard part | What makes it correct |
|---|---|---|---|---|
| heap (`core/heap.enabled.c`) | block list, `empty_block`, free list and `num_allocated` per block, `free_elems`, mutex | create, alloc, free, destroy | blocks move between head, tail and `empty_block`; early exits with the mutex locked | no element handed out twice; counters exact; memory given back |
| list (`container/list.c`) | `head`, `tail`, `count`; `next`, `prev` per node | add, add_head, add_before/after, insert, delete, move, concat, reverse, sort | caller-owned nodes that keep stale pointers; sort moves nodes of the list it walks | both chains and the count represent one sequence |
| timers (`eventloop/timer.c`) | `timer_list`, cached `deadline` | add, add_once, destroy, run_timers, next_timer | functions change the list during the walk; the cache | never sleeps past a timer; every timer fires |
| pollables (`eventloop/pollable.c`, `epoll_pollops.c`) | functions and slot per pollable, epoll's own interest, `destroyed_pollable_list` | create, setselect, destroy, trigger, reap | functions destroy pollables that epoll's array still names | no use after free, no call after destroy |
| event loop (`eventloop/eventloop.c`, `null_pollops.c`) | `death_requested`, `processing_events`, `currtime` | run, run_once, timeout_once, break | everything above, interleaved with client code and other threads' break | break ends the run; nothing destroyed is left over |
| resolver (`dns/evloop_res.c`) | `request_list`, `timeout_count`, `retrycnt`, timer | gethost_byname/byaddr, delete_queries, restart, read reply, timeout pass | lost, late and duplicated datagrams, retries, id reuse | one outcome per lookup, from an answer to its question |
| line buffer (`linebuf/linebuf.c`) over VIO (`vio/vio_sockets.c`) | two buffers, flags, error, interest | attach, detach, write, shut_down, read_data, write_data, process | arbitrary cuts by recv and send, callbacks in the middle of a scan | lines and bytes arrive whole and in order |
| VIO (`vio/vio.c`, `vio_sockets.c`, `vio_openssl.c`) | descriptor, flags, pollable; SSL handle and context | socket, connect, listen, accept, read, write, close, destroy | one flag for closed and hung up; contexts shared by accepted connections | a descriptor and a connection have one owner and are not lost |
| other backends (`poll`, `select`, `kqueue`, `ports`, `qnx`, `windows` `_pollops.c`) | list with nodes inside the pollables, slots, filters, associations | setselect, destroy, select | functions change the list or array that is walked | waits for just what has a function; no freed pollable in a walk |
| helpers (`eventloop/helper.c`, `core/process.c`) | socket pair, child, `IO_FD`, read function | create, spawn, setup, set_read_cb, destroy | fork copies descriptors; forks, execs and exits fail in between | each end where it belongs, and nowhere else |
| dictionary (`container/dictionary.c`) | splay tree, threaded list, index | add, find, search, delete, foreach, iteration | every lookup rebuilds the tree; iteration with deletion | tree, list both ways and the caller's set agree |
| patricia (`container/patricia.c`) | nibble tree with parents and branches | add, retrieve, delete, foreach, search, iteration | splits and collapses anywhere, also under an iteration | finds and visits just its keys |
| queue, index (`container/queue.c`, `index.c`) | linked nodes; array and count | shift, push, remove, pop...; insert, move, copy, delete, sort | handles in the middle; growing | the sequence callers mean |
| object (`object/*.c`, `base/argstack.c`) | count, class, handlers, metadata | ref, unref, broadcast, attach, detach, associate | handlers run in the middle of a broadcast, and may drop the last reference to its object | lives while referenced, destroyed once |
| hook (`base/hook.c`) | items per name | register, associate, dissociate, call | functions change the hook that calls them | each item called, none twice |
| json (`ext/json.c`, `json-inline.h`) | counted values, lexer, LL stack, build stack, output | parse, reset, next, serialize, container calls | input cut anywhere, errors, sharing | exact documents; exact counts |

Everything is built on the heap and the list: timers, pollables, requests, line
buffers and VIO objects are heap elements on lists. The resolver is a client of
the event loop (one timer, one UDP pollable) and so is the line buffer (one
pollable per connection). Client code runs between events and inside callbacks;
callbacks call back into the library, which is where most hazards in
`PROJECT.json` come from. The library is single-threaded but for the heap's and
the loop's mutexes and for `mowgli_eventloop_break`, which is a plain store.

## Modules

* `Lists`: a `mowgli_list_t` as its users see it, the sequence of its nodes
  (`Unlink` = `mowgli_node_delete`, `NextNode`/`HeadNode` = the iteration
  macros, `Walk` = a walk along `next` or `prev` pointers, `Kept` = a loop that
  deletes some of the nodes). `LinkedList` is what justifies that view.
* `HeapAbs`, `Heap`, `HeapProofs`: the allocator. The heap is one record;
  `mowgli_heap_expand`, `mowgli_heap_shrink`, `TakeFrom`, `PutBack` and `Relink`
  are the C code's pieces as functions on that record, and the actions compose
  them. Each call runs under the mutex, so it is one action; `locked` records a
  call that left through a `return_if_fail` with the mutex held. `HeapAbs` is the
  allocator a client sees (a set of live elements), and `Heap` refines it with
  `live <- heap.used`.
* `LinkedList`: `list.c` on memory (`head`, `tail`, `count`, `next`, `prev`,
  everything a node keeps after it leaves a list included), beside the sequence
  callers mean (`seq`, ghost). `ListSort` adds `mowgli_list_sort`, its two loops
  as functions of the number of turns. `ConcatEmpty` says whether callers append
  empty lists.
* `ListProofs`: facts about sequences without repetitions, the operators of
  `Lists`, recursive functions and the ends of loops, used by the proofs of all
  the other modules.
* `Timers`, `Pollables`: the two components' state, operations and types.
  `EventLoop` composes them: `pc` follows the loop's thread through
  `mowgli_simple_eventloop_timeout_once`, the pass of `run_timers` and the loop
  over epoll's array; client actions are enabled wherever client code runs
  (`InClient`). A timer function may destroy the timers the pass holds; when the
  pass comes to the freed memory the model stops (`dead`), unless a new timer got
  it. Times are seconds, sleeps milliseconds in an int of `IntLimit`, where large
  numbers wrap (`ToInt`). `MCEventLoop` explores it in two parts, timers and pollables.
* `Resolver`, `MCResolver`: `sent` is the set of all packets ever sent; any of
  them may be answered at any time, any number of times, or never. The timeout
  pass is split at the callback it makes.
* `Linebuf`: a byte is its position in its stream, so that order, loss and
  duplication are visible. recv and send take any number of bytes, report
  EAGAIN, hang up or fail; `readline_cb` runs in the middle of the scan. A byte
  that was received is text, a delimiter or NUL, which `strchr` takes for one.
* `Dictionary`: the elements' pointers, with left/right, prev/next and head/tail
  as two sides of one definition, since the code writes each case twice.
  `DDescend` is the loop of `mowgli_dictionary_retune` and `DTurn` a turn of it, an
  iteration is the saved `cur` and `next`, and `dkeys` (ghost) the set callers mean.
* `Patricia`, `MCPatricia`: leaves and nodes with `nibnum`, `parent`,
  `parent_val` and `down`; keys are sequences of nibbles.
* `Queue`, `Index`: against `queue` and `ixseq`, the callers' sequences.
* `MCStructures` instantiates all containers and the heap: the first state
  chooses one, and only that one takes steps.
* `Objects`, `Hooks`: a broadcast and a hook call are stopped at each function
  they call, where any client action may happen, another broadcast or call
  included: both modules keep the stack of those under way. A broadcast whose
  object is freed under it goes on with what may be left in its memory (`ObjOwn`).
* `Json`: values in a heap with their counts; the lexer takes one character at a
  time, which covers every way to cut the input; the LL(1) table and its actions;
  the serializer. A double is its digits and exponent, written with six digits as
  `%g` does. The reference for the parser is `JDocuments`, the documents the
  tokens stand for.
* `Vio`: two objects over two descriptors, so that numbers are used again at once.
* `Backends`: what each backend remembers of a pollable and the walks of four of
  them, split where functions are called.
* `Helpers`: a table of descriptors per process, copied by fork and kept by execv.
* `MCServices` instantiates the last seven (`Objects` to `Helpers`), one at a time like `MCStructures`.
* `EventLoopProofs` (with `Timers` and `Pollables`), `ResolverProofs`,
  `DictionaryProofs`, `ContainerProofs` (`LinkedList`, `ListSort`, `Queue`,
  `Index`), `LoopSystemProofs` (`Backends`, `Helpers`) and `ServicesProofs`
  (`Objects`, `Hooks`, `Vio`, `Linebuf`) hold the proofs about those modules.

Assumptions about callers. Each cuts behaviours the code does not prevent, and
within the models nothing else is assumed of callers:

* Freed things are not used, and a thing is not created where one lives. The loop
  is not run from inside a callback, which its mutex would not survive. Timers'
  delays are whole seconds and not negative.
* Queries are not deleted from their own callback. A line buffer is not detached
  in `readline_cb`, and is attached a second time only to the same loop. The
  error callback of a VIO object is the default one. A VIO object is given a
  descriptor only when it has none.
* During an iteration over a dictionary or a patricia tree only the current
  element is removed. Queue nodes are pushed behind the last one. The places and
  lengths given to an index are within it, and copies within one index do not
  overlap.
* A hook's function dissociates no item that is being called. A message handler
  that is running is not detached, no handler is attached twice, and references
  are taken and dropped only by those who hold one; handlers may do anything
  else, drop a last reference included.
* A pollable of the backends other than epoll is destroyed only while it has a
  function, and with kqueue only the read function (`Careful`). The library's own
  helpers break this rule when fork fails or no read function was set
  (`helper.c:118`, `helper.c:246`), so what happens then (an emptied list, a
  filter left behind) is outside what `BackendWatches` says.

## Runs

| Run | Instance | Shows |
|---|---|---|
| `structures` | heap: 3 blocks of 2 or 3 elements; list: 4 nodes, 2 lists, two equal keys; dictionary: 4 keys; patricia: fan-out 3, keys that are prefixes of each other; queue: 3 nodes and an anchor; index: 2 arrays of first size 2, up to 3 entries | heap: type, bookkeeping, mutex, idle blocks, allocation succeeds, refinement of `HeapAbs`; the others represent the sequence, set or map callers mean, also under iteration |
| `services` | 2 objects, 2 handlers attached in up to three places, 2 references each, broadcasts two deep (metadata and classes of their own apart, without broadcasts); 3 hook items, calls two deep; JSON over 6 characters and 11 whole documents; 2 VIO objects, 2 descriptors; 2 pollables on each of 6 backends; 2 helpers | lifetimes, calls, counts, documents, ownership, interest and descriptor ends, as described below |
| `list_concat` (violation) | 3 nodes, 2 lists, empty lists appended too | the tail is lost, against the assumption `mowgli_node_move` states |
| `patricia_search` (violation) | the tree of `structures` | a search that finds nothing does not return |
| `loop` | two parts. Timers: 2, with delays 0, 1 and 2, an int of less than two seconds in milliseconds, clock to 2; any timer destroyed anywhere. Pollables: 2, and one timer that runs once and is due at once | cached deadline covers all timers, no oversleeping of timers that are not too far away, what brings the pass to a freed timer, what holds up a break; no dangling or late callback of a pollable, none left unfreed |
| `loop_live` | 2 timers, 1 pollable, delays 1 and 2 that fit an int, instant functions, timers destroyed only in functions of others, clock to 2 | exact deadline, timers fire |
| `loop_stale` (violation) | timers destroyed outside timer functions | `next_timer` returns the time of a timer that is gone |
| `resolver` | 2 queries, 3 requests, 4 ids, 1 server | one request per pending query, sent no more often than its retries; unique ids; right answers |
| `resolver_live` | 1 query, 2 servers that fail | a reachable server is used, every lookup ends |
| `resolver_timeouts` (violation) | 1 server | a lookup is not retried after its timeout |
| `linebuf` | buffers of 3 bytes, streams of 4, no NUL bytes | lines exact, bytes sent and buffered exact until a send takes a part, writes scheduled, the buffer empties, shutdown after that and reported |
| `linebuf_write` (violation) | buffers of 4 bytes | a partial send repeats bytes and loses others |

What the properties of `structures` and `services` say: `DictSorted` and
`PatExact`, tree and reference agree;
`DictIteration` and `PatIteration`, an iteration during which things are added,
deleted and looked up leaves nothing out; `QueueExact`, `IndexExact`;
`ObjLifetime`, an object lives while it is referenced, is destroyed once, and when a
broadcast may lose its object; `HookCallsEach`;
`JsonRefs`, a count is the number of holders; `JsonExact`, the documents of the
tokens so far; `JsonRoundTrip`, what is serialized parses to the same value, up
to what `%g` and a NUL byte do to it (below); `VioOwnership` and `VioLost`, who owns and how a descriptor can be lost;
`BackendWatches` and `WalkHoldsPollables`; `HelperEnds`, where each end of each
pair is.

What they do not say: `IndexExact` says nothing of the entries once an index has
outgrown its first array; `AnswerIsForQuery` is about lookups that succeed, not
about those told that a name does not exist; `SentIfPossible` about requests
whose message could be built; `LinebufLive` that the buffer empties, not that
every byte was sent. A datagram socket put on an object that was closed keeps
ISCLOSED as an accepted one does.

Bounds. Three blocks are needed for an empty block to be displaced while another
is partial and a third full. Four nodes give an interior node on both sides of a
move, and a sort with ties. Two timers give the pass both of its pointers, and
leave one free whose memory a new timer may or may not get; two
pollables an entry destroyed by another entry's function. In `loop`
`When = {0, 1, 2}` has timers that are due at once, due later, and, with two
milliseconds to the second and ints below four, too far away for an int;
the clock is not a bound on the number of turns, but a sleep that would end
after it ends there. Two queries and four ids let an
id be used again while a reply to its former owner is under way. `AR_TTL` only
has to exceed the other timeouts. A buffer of three bytes can be full, overfull
by one (as in the code) and partly filled, and a stream of four crosses it.
Four keys give a dictionary every shape of the zig-zag cases; the nibbles of the
patricia keys part above, below and at existing nodes. The index's first array
of 2 is outgrown at 3. Two helpers are enough for one to be forked while the
parent holds the end of the other; six JSON characters build nested and broken
documents, and whole documents cover strings, escapes and the forms of numbers.
Deadlock checking is off only for the resolver, whose clock and lookups end at
their bounds.

Fairness. `EventLoop`: weak fairness of the loop's own steps (the thread is
scheduled and functions return) and strong fairness of the clock, which is
enabled again and again while the loop sleeps; descriptors never have to become
ready. `TimersFire` needs more than that, and `loop_live` says it: timers whose
functions take less than a second (`InstantCallbacks`) and whose delays are at
least one. Without these the loop may run timers for ever and other timers with
them; `BreakStops`, which is checked without them in `loop`, names that as
one of the only two ways in which a break is never noticed, beside a sleep that
no timer ends. `Resolver`: the timer pass and the
clock, and no reply. `Linebuf`: a selected socket takes some bytes in the end,
and a scan runs to its end.

## Findings

The five violation runs are disagreements between the code and its own comments;
`PROJECT.json` quotes them. The passing runs are restricted around them where
they must be: `ConcatEmpty = FALSE` in `structures`, no `"outside"` in `Destroys`
for the exact deadline of `loop_live`, and `LinebufExact` itself speaks of the
order of bytes only before a partial send. Beside those, the passing runs are
restricted by the assumptions about callers listed above, by the settings of
`loop_live` (`When = {1, 2}`, `InstantCallbacks`, no `"held"` in `Destroys`), and
by their bounds. In the timers' part of `loop` no such restriction is used:
timers are destroyed anywhere, the running one and the next one included.

What the models keep of the code, beside these, because a property would
otherwise be untrue:

* `mowgli_index_allocate` copies `oldsize` bytes, not pointers: after growing,
  entries are lost. `IndexExact` is about contents only before that; no comment or
  test says otherwise, so there is no run that shows the loss either.
* A timer function that destroys its own timer, as `timeout_resolver` does, or the
  next one, leaves the pass with freed memory. With a new timer in that place the
  pass goes on with the new one; else it ends in `dead`. `PassHoldsLiveTimers`
  says that there is no other way there. `Resolver` takes the new timer to be in
  the place of the old one, as it is when the heap hands out what was freed last:
  `run_timers` then sets its deadline to now plus its frequency, which is what
  `timeout_resolver` asked for (`Rescheduled`).
* The sleep is converted to an int of milliseconds, so that a timer about 25 days
  away may make the loop sleep for ever; `NeverOversleeps` says that no other does.
* A handler that drops the last reference to the object whose broadcast it runs in
  frees it, and the broadcast goes on to read the freed object's handlers.
  `ObjLifetime` says that this is the only way to get there, and that it cannot
  happen under "destroy".
* A NUL byte ends a line, as `strchr` finds it at the end of any string of
  delimiters: the line flag for a NUL inside a line (`linebuf.c:308`) is never set.
  `LinesExact` takes a NUL for a delimiter as the code does, for all streams in the
  proof; the run's streams have none, since it would act as a delimiter there.
* recv is offered one byte more than is free (`linebuf.c:177`), so that a full read
  is stored one byte past the read buffer. `BuflenBounds` allows for that byte, and
  says that it is never more.
* The scan of a line buffer skips delimiters without looking at `buflen`, so it may
  read behind what was received, and behind a full buffer. It changes nothing
  there, and what it reads is not modelled.
* A repeated key in a JSON object leaks the reference taken for it, and a
  character after an error drops a value; `JsonRefs` names just these two.
  `ll_push` tests no bound. "1E5" is read as the integer 1, a leading 0 as octal,
  an unknown identifier is null, and a number at the very end of the input is not
  a token yet. `%g` keeps six digits of a double and writes a whole one like an
  integer, which it is when read back; an infinite one becomes `inf`, which reads
  as null; one of a million or more gets a `+`, which the lexer does not take. A NUL
  byte in a string is written as it is, behind a backslash, and ends the text for
  `mowgli_json_parse_string`. `JReadBack` and `JUnreadable` say which values come
  back changed and which texts do not come back.
* A hang-up sets ISCLOSED, as does an earlier close before an accept: destroying
  the object then leaves its descriptor open. Closing an OpenSSL object without
  a handle does nothing. An accepted connection drops a context reference it
  never took. `VioLost` and `VioOwnership` name just these.
* poll calls a function for slot 0 that the walk has overwritten; setselect in a
  function moves the node to the tail; select ignores its delay; the QNX test of
  `ctp` is inverted; destroying a pollable that was never selected empties the
  list of poll and select; kqueue's combined filter is one filter.
* `mowgli_metadata_associate` gives a new name's data to the last entry.
  dictionary.h says that foreach stops at a non-zero return, which it does not.
* proc_answer returns success for a reply of CNAMEs alone, and does not pass over
  the data of a record it does not know.
* The trampoline of a forked helper opens descriptors 0 and 1 only, so that the
  child's event loop becomes descriptor 2; a spawned helper inherits the parent's
  ends, its own included, so it never sees the parent go; no helper is waited for.

## Proofs

All theorems hold for every value of the constants that satisfies the named
assumption of the module: any finite number of blocks, nodes, pollables and
helpers, any set of timers, queries, servers, identifiers, handlers and items.
No proof assumes more than that, but for the two conditions named below.

| Module | Theorems | Property of the run |
|---|---|---|
| `HeapProofs` | `TypeCorrect`, `HeapInvariant`, `MemoryIsReturned`, `MutexAlwaysReleased`, `AllocAlwaysSucceeds`, `Refinement` | `TypeOK`, `HeapInv`, `MemoryReturned`, `MutexReleased`, `AllocSucceeds`, `ImplementsAbs` |
| `ContainerProofs` | `ListsAreSequences`, `MoveAssumptionHolds`, `SortedListsAreSequences`, `SortsListHolds`, all four if `~ConcatEmpty`; `QueueHolds`, `IndexHolds` | `RepresentsSeq`, `MoveAssumption` of `list_concat`, `SortsList`, `QueueExact`, `IndexExact` |
| `DictionaryProofs` | `DictSortedHolds`, `DictIterationHolds` | `DictSorted`, `DictIteration` |
| `EventLoopProofs` | `LoopTypeCorrect`, `DeadlineIsSound`, `LoopWakesInTime`, `PassIsSafe`, `ReapIsExact`, `CallbacksAreLive`; `NextTimerIsExact` if `"outside" \notin Destroys` | all safety properties of `loop` and `loop_live` |
| `LoopSystemProofs` | `BackendsWatchFunctions`, `WalksAreSafe`, `HelpersKeepTheirEnds` | `BackendWatches`, `WalkHoldsPollables`, `HelperEnds` |
| `ResolverProofs` | `ResolverTypeCorrect`, `RequestsMatchQueries`, `IdentifiersUnique`, `AnswersMatchQueries`, `RequestsAreSent` | all safety properties of `resolver` and `resolver_live` |
| `ServicesProofs` | `ObjectsLiveWhileReferenced`, `HooksCallEachOnce`, `VioOwnersAreUnique`, `DescriptorsLostOnlyByDestroy`, `LinebufIsExact`, `FlushedBeforeShutdown` | `ObjLifetime`, `HookCallsEach`, `VioOwnership`, `VioLost`, `LinebufExact`, `ShutdownAfterFlush` |

The two conditions are settings of the model, each with a violation run that
shows the property false without it: `ConcatEmpty` lets callers append an empty
list (`list_concat`), `"outside" \in Destroys` lets them destroy timers outside
timer functions (`loop_stale`). The assumptions about callers above are built into
the models, so the theorems hold under them too.

**Heap.** `IInv` is `TypeOK /\ HeapInv /\ MutexReleased` and that a heap which
does not exist owns nothing. Type correctness is not inductive alone:
`free_elems` stays a natural number because it is exactly the number of free
elements, which needs every block's free list to be exact, which needs every
mapped block to be in exactly one place. That full blocks come last on the list
(`PartialFirst`) is what makes looking at the head enough: if the head has no
free element then no listed block has one, so the free element `free_elems`
counted is in `empty_block`, and the `return_val_if_fail` after it cannot be
taken. That a block has two elements at least keeps the cases "was empty" and
"has become full" apart. One lemma for each piece of the code (expand, shrink,
taking, putting back, relinking), one step per action.

**List.** The invariant `Repr(mem, seq)` says pointwise what `RepresentsSeq`
says by walking: the sequences have no node twice and share none, each node's
`next` and `prev` are its neighbours, `head`, `tail` and `count` the ends.
Nothing is said of nodes on no list, so stale pointers are covered. Each
operation has a lemma about the sequence it makes; add, add_before, add_after and
add_head reduce to one about inserting between two neighbours, delete and move
to one about detaching. `Path` and `Traverses`, which walk the chain, are then
determined by `Repr`: two walks along the same pointers agree, by the least place
where they do not.

**Sort.** Both loops of `mowgli_list_sort` read the next node before their body
moves one. Call a node done when every node with a smaller key is in front of it.
The inner loop for n keeps `Passing`: the nodes passed that have smaller keys are
in front of n, only n has moved, a node that was done still is, and if n was done
it has not moved back. Moving n ahead of the place the loop is at makes the loop
meet n once more, which the measure counts: twice the nodes still to visit
(`Left`), and how far the loop is from n (`Phase`). The outer loop keeps
`Settled`: what it has passed is done. Its saved node may lie behind nodes it
visits again, so the number of nodes ahead of it is no measure; `Work` puts the
number of nodes not done first, which such a turn lowers. The two measures are
within the turns that `InnerTurns` and `OuterTurns` allow, so both loops return,
and when the outer one does, every node is done.

**Queue and index.** `QRepr`: the links of the nodes in `queue` are their
neighbours in it; nothing is said of free nodes. Each walk of the code, from any
node, is then determined. A destruction frees the nodes from the one given on and
leaves the rest a queue. For an index (`IndexTypes`), the count never exceeds what
was allocated and is the callers' count; the entries up to it are the callers'
sequence until an index outgrows its first array (a finding, see above), from
where on only the counts are known.

**Dictionary.** `DictInv` has three parts. `Dict(d, K)`: the tree and the list
both hold the set K. A tree is described without paths: a function S gives for
each key the keys at and below it, the top has all of K, and each child has exactly
the keys of its parent's subtree on its side (`Tree`); the list by each key's
neighbour being the nearest key on that side (`Chained`), so that no sequence has
to be carried along. `Ranked`: when not dirty, positions are the numbers of keys
before each. `Iterating`: a key that was there when the iteration began and has
not been shown is the saved next element or beyond it. The core is retune: at
each turn there are three trees, the one at `node` and those left behind on either
side, which hang in `n.right` and `n.left` and have a place for more at `end`
(`Retuning`); a rotation and a step each keep that, and each turn but the last
leaves a key behind, so `Cardinality(DictKey)` turns are enough. After it the root
is the key or one next to it, which is why `link` may cut the tree there and why
one comparison decides a lookup. `unlink_root` needs that the successor in the
list is the leftmost of the right subtree and that the walk to its parent ends.
What the property reads (`Walk`, `DBelow`) is determined by `Dict` in the end:
a walk lists exactly the keys on one side, in order, and what is reached from a
child is its subtree.

**Event loop.** `IInv` is `TypeOK /\ TimerInv /\ PollableInv`. `DeadlineCovers`
needs the list to hold each timer once and a cache of -1 at the loop's test to
mean no timer; `NeverOversleeps` needs it where the delay is computed, and that
`ToInt` leaves a number alone that fits. For `PassHoldsLiveTimers` the pass's
pointers are followed through every destruction: `dropped` gets the timers that a
function destroys while the pass holds them and loses those whose memory is handed
out again. So what the pass holds is live or dropped, and so is what
`PassAdvance` takes from it, as a freed node's next pointer is NULL.
`PollablesReaped` needs "removed" to be the same as being on
`destroyed_pollable_list`, and the array empty outside a turn. `NextTimerExact`
has an invariant of its own (`CacheInv`): a cached deadline belongs to a live timer.

**Backends.** `BkInv` says that `pollable_list`, with its nodes inside the
pollables, is some sequence of exactly the live pollables that have a function,
that there is a set of allocated pollables the saved pointers of the walk cannot
leave (`PlistIs`; removed nodes keep their pointers, so this set is larger than
the list, and smaller than all allocated pollables, some of which have pointers
from long ago), that registrations and flags follow the functions, and that
Winsock slots and pollables point at each other, from which by the pigeonhole
principle a free slot is found. `kqueue` needs the destroyed pollable to have
only the read function (`Careful`): its destroy deletes one filter.

**Resolver.** `CoreInv` ties each listed request to the query it was made for
(`Owned`) and to the name it asks; `sends <= 1 + Retries - retries` outside
the callback bounds the number of packets. `AnswerIsForQuery` follows from the
comparison of the question name, not of the id.

**Helpers.** `ParentInv`: the parent's table is stdio and the ends of live
helpers, at their numbers; `ChildInv`: what a child holds at each stage between
fork and running; `EndsInv`: no other process holds a child's end, preserved by
fork because the parent never holds one between calls.

**Objects, hooks, VIO.** `ObjInv` adds to `ObjLifetime` its types and that the
broadcasts below one of "destroy" for the same object have lost it
(`self # "held"`). With that, freeing an object takes it from no broadcast that
still counts on it, and no handler can free it under its "destroy" broadcast, as
nobody has a reference left to drop. `HookInv` says for
each call on the stack, also for those below the top, that its remaining items
are in their order on the list: `Precedes` survives `Unlink` and `Append`.
`VioInv` counts, per SSL context, the connections that use it (`CtxInv`) next to
`DescriptorsOwned` and the link between objects and connections.

**Line buffer.** `LbInv` has three parts. `ScanInv`: what is left to scan is the
end of the stream, from the start of a line on, and between two events it has no
delimiter. `LinesInv`: `readline_cb` got exactly the lines that start in the
first `c` bytes, in order, where byte `c` is a delimiter and `c` is how far the
scan got, or was when the client shut down. `OutInv`: as many bytes are sent and
buffered as were accepted, until a partial send they are just those, in order,
and a write is scheduled for what is buffered. `NewFrame` is the heart:
the first line of the buffer is the next of the stream, and the only one before
the place where the scan goes on; `OldFrames` says that later bytes do not change
the lines before `c`.

`ListProofs` supplies what these share: `Unlink`, `Append`, `Kept` and `Rest` on
sequences without repetitions, their elements and order, and that a nonempty set
of naturals has a least element, the form in which induction is used here. From
that follow the facts about loops: a recursive function on the naturals exists
and satisfies its definition; a loop whose turns stay in a set and lower a
measure is over after as many turns as the measure is at first (`LoopEnds`,
`LoopReaches`), and what each turn preserves holds there.

Only model-checked: liveness and fairness (`TimersFire`, `BreakStops`,
`LookupsEnd`, `LinebufLive`), out of the prover's reach; and `Patricia` and
`Json`, whose definitions are recursive operators over keys and documents, that
is, induction over data.

## Not modelled

* `dns/evloop_reslib.c`: the message codec, pure functions on bytes; `Resolver`
  has their outcomes. Reading resolv.conf.
* The walks of the QNX and Winsock backends, which cannot work as they are
  written: `dispatch_handler` is never called, and the handle array always has
  invalid handles.
* What OpenSSL does inside a call.
* Changing a line buffer's sizes and delimiters while it is in use.
* `confparse.c`, `program_opts.c`, third-party `getopt_long.c`, strings, hashes,
  logging, process titles, mutexes and the thin platform wrappers: sequential
  text processing and one-to-one wrappers.
* mmap and socketpair failing, which the code does not test for.

The entries of `components` say the same part by part.

## Plan

Left to do. `Patricia` could be proved like `Dictionary` once its descent is a
function of the number of turns. A composition of the resolver with the event
loop and the heap would reach the timer that `timeout_resolver` destroys in its
own function.

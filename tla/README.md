# secure-c-lib: TLA+ models, checks and proofs

This directory is a verification development for the C library in `src/`
(`libs/`): TLA+ modules translated from the source, TLC configurations that
check them on small instances, and TLAPS proofs of the properties that matter
most for every value of the constants.

## 1. Inventory

| part (`src/libs/`) | state it keeps | operations | what is hard |
|---|---|---|---|
| `threadpool` | task list, `queued`, `working`, `active`, one mutex, one condvar | init, enqueue, wait, destroy, worker loop | one condvar shared by workers and wait()ers, `signal` vs `broadcast`, partial thread creation, shutdown with work queued |
| `structures/mpmc` | ring of cells with sequence numbers, two positions | enqueue, dequeue | lock-free claims, publication order, wrap-around, full/empty verdicts |
| `structures/lfstack` | tagged head, intrusive links | push, pop | ABA, reading a link of a node that has left the stack |
| `net/pool` | slab of connections, lock-free free list, ready queue, `live` | acquire, release, post_ready, get_ready | ownership hand-over between threads, counters updated apart from the list, what is scrubbed |
| `net/http` server | running flag, semaphore, worker and acceptor threads, per-connection read buffer | init, start, acceptor loop, worker loop, connection loop, stop, destroy | shutdown while connections wait, failed starts, request framing and pipelining, absolute deadlines |
| `net/ddos` | one open-addressing table of per-address records under one spin lock | check, conn_closed, blacklist, whitelist, unlist | collisions and evictions in a fixed table, balanced open/close accounting, clock values read before the lock |
| `allocator/*` (pool, slab, arena, buddy, tlsf; sequential and concurrent) | free lists, bitmaps, buffers, counters | create, malloc, calloc, realloc, free, reset, destroy | double frees, splitting and merging, growth, racing counters, failing half way |
| `structures/*` without a lock | atomics, nodes that are freed at once | per structure | reclaimed nodes, tail hints, unlocked readers, cycles |
| `structures/*`, sequential and under one lock | arrays, rings, lists, trees, tables, indexes | per structure | growth, wrap-around, rebalancing, tombstones, eviction, calls without memory |
| `sort`, `search` | none (one of the sorts has threads) | algorithms | boundaries, termination, the shared scratch buffer |
| `ml` SIMD kernels | the table of kernels | dispatch, 56 kernels | tails around the vector width, which machine gets which kernel |
| `core`, `common` | none (wrappers, atomics, locks) | helpers | widths and saturation |
| `ml` models, `docparse`, `compress`, `random` | models, parse trees, streams | numeric and byte-level code | floating point and byte formats |

Threads meet in the net serving path: the acceptor asks `net/ddos` whether to
admit a connection, acquires a slot from `net/pool` (an `lfstack`), fills it,
posts it to the ready queue (an `mpmc` ring) and posts a semaphore; a worker
takes the token and the slot, runs the connection loop, reports the close to
`net/ddos` and releases the slot. `threadpool` stands alone. The allocators and
the other containers are used by everything and call nothing back.

What makes each part correct:

* **threadpool**: `wait()` is a barrier, no wake-up is lost although workers and
  wait()ers share one condition variable, dispatch is FIFO, every node is freed
  once, nothing runs on a destroyed pool, and everything that is owed happens.
* **mpmc**: it is a bounded FIFO; no two threads touch one cell's value; a
  refusal has a reason; calls return.
* **lfstack**: the links are the stack, and no node is lost or owned twice,
  although nodes are recycled while pops hold their links.
* **net/pool**: a slot is in one place, `live` is exact, free slots hold nothing.
* **net/http, threads**: tokens and queued connections agree, every counted
  connection is uncounted once, shutdown waits for every thread, queued
  connections are served.
* **net/http, connection loop**: framing is exact for every fragmentation of the
  stream, waiting is bounded, timeouts are justified, the loop ends.
* **net/ddos**: counts balance, listings stay in force, the cap and the rate hold.
* **allocators**: live blocks are disjoint and inside the memory they come from;
  what is freed can be had again, once; everything taken is given back.
* **containers**: each call does to a sequence, a map or a recency list what it
  promises, and leaves the shape the next call relies on; an index answers what
  a scan of its data would.
* **sort, search, kernels**: the result is the one the definition names, on every
  small input, and every call returns.

The list of hazards in `PROJECT.json` gives the line at which each difficulty
bites and the properties that would catch it.

## 2. Modules

| module | models | state | actions |
|---|---|---|---|
| `ThreadPool` | `threadpool/scl_threadpool.c` | the fields of `scl_threadpool_t`, the threads asleep on `cond`, program counters of workers, clients and the owner, histories | one per critical section (enqueue, wait, dequeue, finish), one per step outside the lock (run, free, create, join) |
| `BoundedFIFO` | what a bounded queue promises | a sequence of at most `Capacity` values; per thread the value it has removed and not yet returned | `Enq`, `Deq`, `Return` |
| `MPMC` | `structures/mpmc` | `enqueue_pos`, `dequeue_pos`, `seq` and `data` of each cell, each thread's locals | one per atomic access |
| `LFStack` | `structures/lfstack`, `scl_dwcas` | tagged head, links, each thread's locals | load, link store, compare-exchange and its failure, link read |
| `TcpPool` | `net/pool/scl_tcp_pool.c` | free list, ready queue with its two positions and the cells not yet handed on, `live`, socket and length of each slot | the steps of acquire, release, post_ready, get_ready, destroy |
| `HttpServer` | `net/http/scl_http_server.c`, lines 1337-1592 | extends `TcpPool`: `running`, `started`, the semaphore, the sleepers, what each thread is doing, connections counted with `net/ddos` | the steps of start, stop, destroy, `acceptor_main`, `worker_main` |
| `HttpConn` | `net/http/scl_http_server.c`, `handle_connection` | the byte stream as offsets, the window `lo .. hi` in the read buffer, the deadline, the loop's state | receive, find the header's end, parse, read the body, read the trailers line by line, reply and compact, close |
| `Ddos` | `net/ddos/scl_net_ddos.c` | the table of records, the clock, open connections, the operator's wishes | check, conn_closed, blacklist, whitelist, unlist |
| `Shared` | the containers without a lock: `cstack`, `cslist`, `cqueue`, `carray`, `cunionfind`, `cbloom`, and the unlocked peek of `cringbuf` | the atomics and nodes of one of them, freed addresses, each thread's locals | one per atomic access or locked section |
| `Allocators` | `allocator/` pool, slab, arena and buddy, each for one thread and for several | one of them, the blocks callers have, what is owed to the backing allocator, each thread's locals | one per call, or one per atomic access or locked section |
| `Calls` | the call interface of the containers | the structure `st`, the last call `ret` | |
| `SeqSpec`, `MapSpec`, `LruSpec` | what a sequence, a map and a cache promise | a sequence, a function, entries by age | one per call |
| `Rings`, `Lists` | array, stack, queue, deque, ringbuf; slist, dlist, sharded_array, and their copies under a lock | blocks with junk in unused slots, nodes on a heap | one per function |
| `Indexes` | heap, fenwick, segtree, sparse, unionfind, bloom, graph, and their copies under a lock | arrays, and `truth`, what they should stand for | one per function |
| `SearchTrees` | bst, avl, rbtree and their copies under a lock | nodes on a heap | one per function |
| `HashMaps`, `OrderedMaps` | hash, lru; skiplist, btree, trie; and their copies under a lock | slots with tombstones, chains, levels, B-tree nodes | one per function |
| `Sorts`, `ArraySearch`, `TextSearch`, `GraphSearch` | `sort/`, `search/` | none: functions (`ArraySearch`: one loop iteration at a time) | |
| `MergeThreads` | `scl_sort_merge_sort_mt` | array (and, as a history, the array as it was given), scratch buffer, the calls by range | split, create or inline, merge one element, copy back, join |
| `Simd`, `SimdLoops`, `SimdScalar`, `SimdAvx2`, `SimdAvx512`, `SimdSse42`, `SimdNeon` | `ml/scl_ml_simd_*.c` | the kernel table, the machine | init, one call |
| `MC*` | instances for TLC; `MCStructures`, `MCAlgorithms` and `MCLockFree` put several modules into one state graph, whose initial state picks the structure | | |
| `ThreadPoolProofs`, `MPMCProofs`, `HttpServerProofs` (the pool and the server), `HttpConnProofs`, `DdosProofs`, `SharedProofs` (`Shared` and `LFStack`), `MergeThreadsProofs`, `AllocatorsProofs` | theorems | | |

`TcpPool` composes the stack and the ring at the grain other threads can see: a
push or pop of the stack is one step (`LFStack` shows that the links are the
stack at all times), while an operation on the ring stays two steps, because a
claimed cell that is not yet handed on makes other calls fail (`MPMC` shows
exactly that in `RefusalJustified`). `HttpServer` extends `TcpPool` and runs its
steps inside the acceptor and the workers. `HttpServer` takes `handle_connection`
as one fair step; `HttpConn` shows that it ends (`ConnectionEnds`).

Abstractions that hold throughout: a critical section is one step, because
every access to what it guards is inside the lock; atomics are sequentially
consistent (the code uses acquire/release orders; weaker outcomes are not
modelled); 64-bit positions and tags do not wrap; payloads are small values.
Definitions named `X_Y` next to `X` are mutants of `X`: plausible mistakes that
a property must catch.

### How the state and the actions follow the code

* `ThreadPool`. `sleeping` is the set of threads inside `scl_cond_wait`; signal
  removes one of them, whichever it is, broadcast removes all, and
  `SpuriousWakeup` removes one at any time. Tasks may enqueue tasks. `init` runs
  while the workers it has created already run, and may fail at any of them.
* `MPMC`. One set of actions serves both sides: `Ready` and `LeftBehind` are the
  sequence numbers a producer or a consumer waits for and leaves. A weak
  compare-exchange may fail for no reason.
* `LFStack`. A node belongs to the stack or to one thread, as in the pools that
  use it; popped nodes are pushed again, so a pop may hold a link that is many
  operations old.
* `HttpServer`. The semaphore is a mutex, a condition variable and a counter.
  Thread creation may fail at each thread. Joining a handle that is no thread's,
  after a failed start, may return or never return (`JoinLost`).
* `HttpConn`. Bytes are offsets in the stream, so framing is arithmetic on
  `lo`, `hi` and `hend`, and the compaction of the buffer is `Compact`. A request
  is the length of its header block and of its body, how the body is framed, and
  where in a chunked body the trailer lines are and which size their first
  characters would be read as. The chunks are read in one step; each receive and
  each line of the trailers is a step, since what is done with a line depends on
  how much of it has arrived. Where the decoder gets to once it has taken a line
  for a chunk is left open (`TrailerAsChunk`).
  Time passes inside `recv` only.
* `Ddos`. `find_slot` is `Find` (lookup) and `FindOrAlloc` (lookup, free slot or
  eviction). `check` may use a clock value one tick old, because the code reads
  the clock before it takes the lock.
* `Shared`. Every exchange is the weak one where the code's is, and may fail for no
  reason, the single exchange that ends an enqueue included (`Swung`). Freed
  addresses are handed out again, so a thread may read a node that
  was freed, or that is somebody else's by now. Some of these structures are not
  written for every mix of concurrent calls: `Clash` says which calls must not
  overlap (two dequeues, or enqueues that overlap and a dequeue; get or pop
  beside a push of the array; peek beside a pop;
  two unions) and a caller keeps to it, unless the structure is named in the
  constant `Overlap`.
* `Allocators`. A block is a piece of backing memory, an offset and a length. Every
  allocation of create may fail. A caller may free a block twice while another
  thread runs; of the slab it frees only what it has. Requests are far below
  `SIZE_MAX`. A pool of `cbuddy` may be no power of two: the model remembers when
  memory behind it is used (`spilled`). Requests of `buddy` and `cbuddy` name an
  alignment, which the code checks or ignores as it does.
* Containers. A call with an allocation takes `mem`, whether there is memory (an
  insertion into a B-tree, for each split).
  Reading a slot that was never written yields `Junk`. A lock makes a call one
  step. The hash functions are any assignment of homes from a small set, the
  levels of a skip list any number.
* Kernels. A float is an integer or a term, so two results are equal when they
  combine the same elements; rounding is left out. The memory behind an array is
  a value of its own, so a kernel that reads past the end shows. A call of a kernel
  whose instructions the machine lacks ends the process (`Needs`).

## 3. Runs

| run | instance | shows |
|---|---|---|
| `threadpool` | 2 workers, 2 clients, 3 tasks | barrier, no lost wake-up, FIFO, nodes freed once, no use after destroy; tasks run, waits return, shutdown completes (`Progress`) |
| `mpmc` | 3 threads, 5 calls, 2 cells, 2 values | refinement of `BoundedFIFO`, exclusive cells, justified refusals, calls return |
| `lockfree` | `LFStack`: 2 threads, 7 calls, 3 nodes; `Shared`: 2 threads, 5 calls, 3 addresses | shape and conservation under recycling, calls return; `ContainersKept`, one promise per container |
| `server` | acceptor, 2 workers, 2 slots, 3 arrivals, 2 starts; and the pool by itself, 3 threads, 5 posts | single ownership of slots, exact `live`, tokens match connections, counts balance, threads joined before the pool is freed; queued connections are served, calls return |
| `conn` | 5 requests of all kinds, with trailers, the last too long for the buffer; buffer of 8, timeout of 2 | framing, timeouts bounded and justified, termination |
| `ddos` | 3 addresses, 2 slots, a collision, burst 1, cap 1, 2 clock ticks, 2 edits by the operator | counts, listings, cap and rate |
| `structures` | 39 containers, each over 3 to 8 keys or elements | refinement of a sequence, a map, a recency list; answers; shape |
| `algorithms` | 20 sorts on all arrays of up to 5 elements, array searches on all sorted arrays of up to 6, matchers, graph searches and A* on all small inputs, the threaded merge sort element by element, kernels on 8 machines and lengths around the vector widths | results equal the reference, every call returns |
| `allocators` | 8 allocators, 2 threads, 5 calls | blocks apart, conserved and wiped, memory returned, limits kept |
| `conn_pipelined`, `conn_trailer`, `quick_sort` | the smallest instance | a counterexample each: section 5 |

Why the bounds are enough for the cases that matter:

* `threadpool`: with two workers and two clients a signal can go to the wrong
  sleeper in every combination; the third task lets a task enqueue another
  while one is queued.
* `mpmc`: five calls over two cells make every cell pass through more than one
  lap with a stalled call one lap behind.
* `lockfree`: seven calls and three nodes let one thread take two nodes and put
  the first back while the other sits between reading a link and its
  compare-exchange; replacing the tagged comparison by one of the pointer is
  caught. Three addresses make malloc hand out a freed one.
* `server`: five posts make a ring of two wrap, with the pool's operations
  interleaved by the server or by any three threads; three arrivals for two slots exhaust the pool; two starts cover what a
  stop leaves behind for the next start.
* `conn`: every split of the stream into receives is explored; one header block
  fills the buffer; requests follow bodies of both kinds without waiting; trailer
  lines that read as no size, as 0 and as a chunk arrive whole and in pieces.
* `ddos`: two slots for three addresses force displacement, eviction and refusal;
  `Watched` is the address whose admissions the rate property follows.
* `structures`: rings of 4 wrap and grow to 8; a heap of seven has a last inner
  node that is not a parent of leaves only; six keys make a red-black removal
  reach each of its cases, eight keys a B-tree of degree 2 of three levels, with any
  of its splits failing;
  colliding and spread homes for the tables, which grow once.
* `algorithms`: the cutoffs that separate the algorithms (insertion sort below,
  threads above) are constants, set so that small arrays are on both sides; in
  `quick_sort` the cutoff is the real 16. Of the machines, three lack a set that the
  code takes for granted.
* `allocators`: three blocks, two size classes, two shards, four orders: lists run
  empty, blocks are split twice, shards grow.

Deadlock is checked except in `structures` and `algorithms`, where a behaviour ends
with a destroyed structure, a bound, or the one call that was made. A system
that may stop ends in an explicit stuttering action elsewhere (`Finished`,
`Gone`, `Down`, `Closed`). `structures` is explored up to `View`, which leaves the
last call out of the state wherever no invariant and no later call looks at it;
the action properties are checked on every step all the same.

### Fairness

* `ThreadPool`: each worker and the owner, once in a call, keep taking steps, tasks
  return, and a woken thread gets the mutex. Nobody has to call enqueue, wait or
  destroy.
* `MPMC`, `LFStack`: each thread that is in a call keeps taking steps. The loops are
  lock-free, not wait-free: `CallsReturn` is relative to the bounded number of calls,
  in which somebody's success ends everybody's retries. `MPMC` also assumes that a
  weak compare-exchange that may succeed does not fail spuriously for ever (strong
  fairness of `Claim`).
* `HttpServer`: the controlling thread, once in a call, the acceptor and each
  worker take steps. That a worker's `handle_connection` returns is what the run
  `conn` shows. No spurious wake-up is owed. `CallsReturn` claims nothing once a handle
  that is no thread's has been joined (`badJoin`): such a join owes nothing.
* `HttpConn`: the worker takes steps. The client and the operator owe nothing: the
  timeouts and `keep_alive_max` end the connection.
* `MCAlgorithms`: the processor runs the one call, and the threads of the merge sort.

## 4. Theorems

Every theorem holds for all values of the constants allowed by the named
assumptions of its module, and its proof is checked to the last leaf. The
bounds on calls, posts or arrivals are constants like the others: the theorems
hold whatever they are.

* `ThreadPoolProofs`: `TypeCorrect`, `WaitIsBarrier`, `WakeupsNotLost`,
  `DispatchIsFifo`, `DestroyIsSafe`, `NodesFreed`, for any finite non-empty set of
  workers and any clients and tasks. None of these is inductive alone. The
  invariant ties the two counters to the list and to the workers that hold a
  task, says that what was started followed by what is queued is what was
  enqueued, and that a worker may only be asleep with work queued while another
  is awake and will look at the queue again: every worker that finishes a task
  broadcasts. For the nodes it says where each one is (`NodePlaces`): linked, in
  one worker's hand, or freed.
* `SharedProofs`, the intrusive stack: `ShapeKept`, `NodesKept`, for any threads, nodes and number of
  calls. The step that matters is a successful pop: the link it read must still
  be the second node. The invariant says that a thread whose remembered tag is
  the current tag has remembered the current head, and that the link it read
  is the current one, since every change of the stack raises the tag.
* `MPMCProofs`: `CellsExclusive`, `RefusalsJustified` and `QueueImplementsFIFO`, for
  any threads, values and calls and any capacity of at least two cells (that it is
  a power of two is not needed). `RingInv` reads the ring off the two positions:
  of the `Capacity` positions from `dequeue_pos` on, those below `enqueue_pos` are
  claimed by producers and the others free; the cell of each carries one of two
  sequence numbers (`SeqInv`), and the one that says "not yet" names the call that
  has still to publish (`HolderInv`). Two calls in one cell would then be in one
  position, since a window of `Capacity` positions has no two in one cell. A
  refusal read a sequence number that is behind: the position is full or empty,
  or the call named by `SeqInv` is the excuse. The refinement is proved step by
  step: the claiming compare-exchange is `Enq` or `Deq` of `BoundedFIFO`, the last
  step of a dequeue is `Return`, every other step leaves the abstract queue alone
  (`DataInv`: what a consumer reads is what was claimed at its position).
* `HttpServerProofs`, the pool: `PoolTypes`, `OneOwner`, `LiveCounts`, `FreeSlotsIdle`, for any
  non-empty set of threads, any finite set of slots, any ring at least as
  large, any number of calls. `PoolInv` adds to the four properties who holds a
  slot at which point of a call (`HoldersHold`), that a slot on its way to the
  free list is already clean (`PushedClean`), and that destroy ends the pool for
  every thread (`AllOrNoneGone`). Each step moves one slot between two of the
  places; the change of `live` is the change in size of one finite set.
* `HttpServerProofs`, the server: `WorkerFinds`, `CountBalanced`, `JoinsRight`, for any number of
  workers, slots, arrivals and starts. Every step of the server is a step of the
  pool or leaves it alone, so `PoolInv` is inherited. `ServerInv` adds which
  threads exist at each point of start, stop and destroy (`Lifecycle`), and, until
  the server is gone, where the acceptor and the workers are in their calls of
  the pool and three equations: tokens and workers that spent one add up to the
  queued connections, up to the one the acceptor has posted and not announced;
  the count is the connections in flight; the ring's positions are those of the
  queue.
* `DdosProofs`: `RecordsCount`, `PinnedStay` and the action property `LimitsKept`, for
  any addresses, any hash, table size and limits, up to the first emptied slot
  (`holed`; section 5). The heart of `TableInv` is `Reach`: the sweep for an address
  meets its record before any free slot. So an address has one record, a lookup
  finds it, and what `check` evicts is never a record with connections or a
  listing. `Bucket` bounds the rate: what a record let through and what it could
  let through now is at most the burst and what it earned up to its last refill,
  rounding down included.
* `HttpConnProofs`: `FramingInSync`, `TimeoutsJustified`, for any requests, buffer,
  timeout and number of requests per connection and every split of the stream
  into receives, under the hypothesis that the client sends nothing behind an
  unanswered request without a body (the run `conn_pipelined` shows that the
  framing is lost otherwise), and until a trailer line is read as a chunk (`misread`,
  the run `conn_trailer`). `ConnInv` says where in the stream the buffer starts
  at each point of the loop and of the trailers (`Framed`), what the client may have sent
  (`Unpipelined`), and what the deadline was when the header phase began (`Timed`).
* `SharedProofs`, the containers: `AllContainersKept`, that is `ContainersKept`, from a theorem for each
  of its six parts, all of `SharedSpec`, the steps of `Shared` without fairness. `TagKeepsStaleLinksOut` (the two stacks), for any
  number of calls, finite sets of threads and addresses, and addresses other than
  `Null`, which `malloc` returns for no node. `StackInv` says that the nodes on the
  stack are a path from the top that spells the content; that a node off the path
  is one thread's, between `malloc` and the exchange or between the exchange and
  `free`, so that freeing it or relinking it disturbs nobody; and that a pop whose
  remembered top is still the top has read the top's link, since every exchange
  raises the tag. That following the links from the top spells the path, which is
  what the run checks, is the lemma `WalkIsPath`. The count is off by the threads
  between the exchange and the update. `QueueKeepsOrder` (the queue) also assumes that
  the address 1 of the first dummy is an address, and that the calls that clash do
  not overlap (the structure is not in `Overlap`), and it holds until, with one thread
  on each side, the single weak exchange that ends an enqueue fails for no reason
  (`slipped`): all other exchanges may. `QueueInv` says that dummy and nodes
  are a line from the head with the tail on it, that what an enqueue has read of it is
  still on it, and that the dequeue in progress, if any, has read the current head and
  its link. What the exchange of the head could take away is the node the tail is at:
  a dequeue gets there only after it has seen the tail past the head. Filled by
  several threads, the queue may have its tail swung back any way along the line, but
  then no dequeue is running; with one thread on each side the tail is at the last
  node, or one before it while the enqueue is between link and exchange (`TailNear`),
  which is why the phases may only change on an empty queue. `SlotsOwned` (the array) and `PeekRight` (the
  ring buffer's peek) assume the same about the calls that clash: a slot at or above the count is nobody's or is being
  copied out; between the two stores of a pop the elements start one slot before
  the new head, and no peek is running then. `FilterKeepsMembers` (the Bloom filter)
  needs no such hypothesis: while a clear is running nothing is sure. The array
  has any capacity; the ring buffer and the filter have the sizes of the module.
  `FindsMeetUnions` (the union-find) holds for any finite set of points, as long as no
  two unions overlap. Finds halve paths beside each other and beside the union, with
  parents they read long ago. `UnionInv` says that some height grows from
  every point to its parent (the rank does not, between a link and the store that
  raises it), that the trees are the classes united so far, that what a walk holds
  is in its tree and higher than where it stands, however old (`WalkKept`), that only
  the union in progress moves a root (`RootsKept`), and that the number of sets is
  behind by that union (`SetsLag`). Since a link never goes down, following
  `Cardinality(Points)` parents, which is `RootOf`, ends at a root.
* `MergeThreadsProofs`: `MergeSortSorts`, that is `ThreadsSort`, for every array, every
  number of threads, every cutoff and every interleaving of the calls; the elements
  are told apart by their place in the array given, so that stability can be stated.
  `MtInv` says of any two calls that their ranges are apart, or that one is in a half
  the other has handed out (`Nested`), and then the other does not merge before it has
  ended; that a range not yet begun is as it was given (`Untouched`), a half that is
  done is sorted and has its elements (`HalvesSorted`); and where a merge stands
  (`Took`): what it has taken is sorted, is what lies before the two indices, and is
  less than all that is left. The left half comes first among equal keys because its
  elements have the smaller places. `NoTwoTouch` is the comment of the code that
  sibling tasks never touch the same memory.
* `AllocatorsProofs`: `CallersApart`, `NoBlockLost`, `PartsGivenBack`, for any finite set
  of threads and, in pool and slab, any number and size of blocks but zero
  (`SizesAssumption`), whatever fails, whoever frees twice and however the steps
  interleave. All rest on `AllocInv`: before create nobody has anything; in use the
  state is `Sound`, an invariant for each kind, and exactly the parts of that kind
  are owed to the backing allocator (`AllParts`); destroyed, nothing is owed. A block of
  fixed size is in one place: with a caller, in a free list, or with a thread on its
  way (`Parted`), and a step moves blocks between these places for one thread only
  (`PartMoves`). The list of `cpool` is a path of links from the head (`Path`). The
  exchange of a pop is right because a link read while the tag was the current one
  is the current link (`Tagged`), and the exchange of a push because its node is off
  the path. A second free finds the bit of its block set and changes nothing. In an
  arena every live block ends below the offset of its buffer and no two overlap
  (`Heaped`); a shard of `carena` that grows or is reset drops its blocks with its
  buffer. `PartsGivenBack` follows each part through create, growth and destroy
  (`Opens`, `Frame`, `Closes`), the buffers linked into an arena's chain included.

Facts about `CHOOSE` of a least element and about the recursive function `Start` are
proved by a least counterexample (`WFMin` on the naturals), not by induction.

Only model-checked:

* all liveness: fairness and ENABLED are beyond the prover;
* everything in `MCStructures` and `MCAlgorithms` but the multithreaded sort
  (containers, sorts, searches, kernels): the modules use recursive operators, and the statements are about what
  recursive definitions compute for every input;
* of `Allocators`: `BlocksApart` for `buddy` and `cbuddy`, whose splits and merges are
  recursive functions over powers of two; that the pieces of `cbuddy` add up to its
  pool (in `BlocksConserved`); and `ArenaWithinLimit` for the two arenas (in
  `BackingReturned`). The last two are sums over sets (`MapThenSumSet`), which would
  take an induction over the set. The theorems name these kinds as exceptions.

## 5. Where the code and its documentation disagree

Three are the counterexamples of runs of their own; `PROJECT.json` quotes the lines.

* `conn_pipelined`: the compaction after a request without a body removes four bytes
  too many when more is buffered (`scl_http_server.c:1321`).
* `conn_trailer`: a trailer line of a chunked body that arrives in two pieces is read
  as the size of a chunk (`scl_http_server.c:569`), and the bytes behind it as its data.
* `quick_sort`: the partition compares with the place the pivot was moved from
  (`scl_quick.c:108`): 17 elements in order come back out of order.

The others are part of the models: the actions do what the code does, and the
property that would fail is stated up to the condition named here.

* `Ddos`, until a slot is emptied (`holed`): `scl_ddos_unlist_ip` (501) empties its
  slot, and a sweep stops at the first empty slot, so an address that was
  displaced past it is no longer found, and the open connections of the
  unlisted address are forgotten.
* `HttpServer`, until a start fails (`failed`): stop joins threads that were never
  created or were already joined (1569), which is undefined. `ThreadsJoined` counts
  joins up to a failed start; `CallsReturn` ends at such a join (`badJoin`,
  `JoinLost`). Connections still queued when the
  server stops are closed by destroy and never uncounted (1358); `DdosBalanced`
  counts them as in flight.
* `HttpConn`, until `misread` (the run `conn_trailer`): `InSync` and the second half
  of `TimeoutsRight`.
* `MCStructures`, `Departed`: `scl_hash_insert` takes the first tombstone although
  the key may lie further on (174); `scl_avl_remove` frees a successor that stays
  linked (309); `scl_btree_insert` accepts a key twice, and its removal reads the key
  through a pointer into a leaf that moves (497; with the eight keys of the run none
  does, ten would); `scl_btree_split_child` returns without a word when there is no
  memory (95), and the insert goes on into the full child: where its writes stay in
  their slots the properties hold, where the keys run over into the values it is `ub`
  (`scl_concurrent_btree.c` follows the null pointer instead: the process ends);
  `scl_trie_insert` without memory
  leaves a counted word without a value (90). `deep`: `sift_down` of the heap with a
  lock sinks an element by one level only (58).
* `Shared`, `Clash`: two dequeues of `cqueue` at once read freed memory, and
  enqueues that overlap move the tail back, which a dequeue must not meet (110, 152); `carray` raises the count before it
  copies (62); peek of `cringbuf` reads beside a pop (109); two unions of
  `cunionfind` with equal ranks make a cycle (108). `slipped`: the exchange of the tail
  at the end of an enqueue is the weak one and not tried again (110); when it fails
  for no reason the tail stays behind with no enqueue running, and a later dequeue
  may free the node it is at under the next enqueue.
* `Allocators`: `pool_create` keeps the bitmap when its last allocation fails;
  `buddy` loses the first half of every block it splits (97; the header says
  "Buddy coalescing eliminates external fragmentation") and `cbuddy` never frees the
  old block of a realloc (165): both are left out of, or counted in,
  `BlocksCounted`. `cbuddy` pushes a pool whose size is no power of two as a block
  of the order above (220), so that its last blocks lie behind the pool: `BlocksApart`
  and the sum of its pieces are stated until such memory is used (`spilled`).
  `buddy` accepts an alignment up to the pool's and ignores it (64; the comment says
  "Honour the requested alignment"), `cbuddy` ignores any (103): both align to the 16
  bytes of their header (`Honoured`). `cslab` does not align its blocks. A growing
  shard of `carena`
  frees the buffer that earlier blocks lie in (comment at 128: "Preserve in-flight
  allocations"), so they count as gone and `BlocksApart` says nothing about them, and
  two shards that grow at once pass the limit (`raced`).
* `MCAlgorithms`, sorts: `Misplaces` (`quick_sort` above its cutoff, `counting_sort` when
  it falls back on it, radix sorts with keys of both signs); `Stops`: `quick_sort` of
  large elements asks for memory range by range (77) and returns the error after
  partitions have moved elements, so that the array is rearranged though none is
  lost; `Outside`: `counting_sort` with the widest span of keys computes a count of
  zero counters and writes outside them, after which nothing is claimed.
* `MCAlgorithms`, searches: `Hangs` (four bisections with a key below
  the first element), `NoSlope` (`interpolation_search` gives up on equal ends),
  `RunsOut` (`fibonacci_search` misses the last element), Boyer-Moore with a pattern of
  one character (writes outside its tables), `Replaced` (`floyd_warshall` keeps the
  last of parallel edges).
* `Simd`, `Differs`, kernels that do not compute what the scalar loop does: `max`, `min`
  and the three that find an index load a whole vector from an array shorter than
  one; `max` and `min` for AVX2 and SSE4.2 add the last lanes instead of comparing
  them, and so does `dist_cheb` from one vector on; `dot_f` for AVX2 from eight
  elements on. `LaneDiffers`, single elements of the vector part: `silu` uses exp(x)
  for exp(-x); `vrsqrt` of numbers that are not positive, `vinv` of 0 and, for NEON,
  `vsqrt` of 0; `vexp` from 90 on is 0 instead of infinity; `log_softmax` where the
  scalar loop gives minus infinity.
* `Simd`, `Needs` and `Untested`: the kernels for SSE4.2 are installed on the bit of
  SSE4.1 (`scl_ml_simd_core.c:59`, under the comment "detect SSE4.2"), those for AVX2
  without asking for FMA (180), those for AVX-512 without asking for BW and DQ (183),
  although the Makefile lets the compiler use all of them. On a machine without one
  of these the first call of such a kernel ends the process; `SlotsRunnable`, in
  `KernelsAgree`, says that nothing else is missing.

Two weaker promises than the comments make are part of passing properties: an
`mpmc` call may be refused although the queue is neither full nor empty, while a
call on the other side is between its claim and its publication
(`RefusalJustified` says precisely when), and `scl_tcp_pool_post_ready` inherits that.
`scl_tcp_pool_release` zeroes `rbuf_len` bytes, which is what is left in the buffer
and not what was ever received; contents are not modelled.

## 6. Not modelled

* `ml` models and training, `random`: floating point; their correctness is
  numerical or statistical. The SVE kernels: no build enables them.
* `docparse`, `compress`, `net/http` client, and the chunk, request, multipart and
  path parsers of the server: byte-level formats. In `HttpConn` a header block
  that starts where a request starts is accepted or refused; one that does not is
  refused; the chunks of a body are complete, incomplete or malformed.
* `allocator/tlsf`: an instance in which both levels of its free lists, splitting
  and merging happen is larger than the runs here explore.
* `csparse`, the search wrappers of `cgraph`, the locking of `ctrie` node by node,
  the unlocked reads of `csharded_array`; `search/hash` and `search/trie`, which
  forward to the containers.
* `core`, `common`: wrappers; what the modelled code uses of them is part of its
  modules.
* weak memory orders, wrap-around of 64-bit counters.

## 7. Plan

Modelling is complete up to section 6, and what the plan had to prove about
`ThreadPool`, `MPMC`, `HttpServer`, `Ddos`, `HttpConn`, `Shared`, `MergeThreads` and
`Allocators` is proved. What is left to TLC is the list at the end of section 4.

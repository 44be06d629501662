----------------------------- MODULE Allocators -----------------------------
(***************************************************************************)
(* libs/allocator: pool, slab, arena and buddy, each for one thread and    *)
(* for several (cpool, cslab, carena, cbuddy).  A call of the first kind   *)
(* is one step; of the second, every atomic access or locked section is.   *)
(*                                                                         *)
(* A block is the piece of backing memory it lies in, its offset, and the  *)
(* bytes and the alignment asked for.  Payloads are left out, but whether  *)
(* memory still holds what an earlier owner wrote (dirty) is not.          *)
(* Requests are far below SIZE_MAX: size + alignment and size + header do  *)
(* not wrap.                                                               *)
(***************************************************************************)
EXTENDS Integers, Sequences, FiniteSetsExt, Functions, TLC

CONSTANTS
  Threads,
  MaxCalls,   \* bound on the calls of a behaviour
  Kinds,      \* the allocators this run is about
  BlockSize,  \* of a pool, which has
  Blocks,     \* this many blocks
  PerBucket   \* slab_block_count: the blocks of a slab's bucket

ASSUME SizesAssumption ==
  /\ BlockSize \in Nat \ {0} /\ Blocks \in Nat \ {0} /\ PerBucket \in Nat \ {0}
  /\ IsFiniteSet(Threads)

VARIABLES
  kind,       \* the allocator
  al,         \* its state, or NotYet or Gone
  live,       \* the blocks that callers have
  owed,       \* what it holds of the backing allocator
  loc,        \* per thread, the call it is in and its locals
  calls

vars == <<kind, al, live, owed, loc, calls>>

Null == -1
Idle == [pc |-> "idle"]
At(t, l) == loc[t].pc = l
Quiet == \A t \in Threads : At(t, "idle")
NotYet == [phase |-> "before create"]
Gone == [phase |-> "destroyed"]
Up == al \notin {NotYet, Gone}
Max2(a, b) == IF a > b THEN a ELSE b
AlignUp(n, a) == ((n + a - 1) \div a) * a
Block(buf, at, len, align) == [buf |-> buf, at |-> at, len |-> len, align |-> align]

\* scl_mul_overflow of calloc.
SizeMax == 64
Product(count, size) == IF count * size > SizeMax THEN Null ELSE count * size

-----------------------------------------------------------------------------
(* Creation takes parts from the backing allocator; got is how many it     *)
(* gets.  leak is what the failing path then forgets.                      *)

State == <<"state", 0>>
Vtable == <<"alloc", 0>>
Memory == <<"memory", 0>>      \* the chunk or pool
Bitmap == <<"bitmap", 0>>
Sizes == <<"sizes", 0>>
Pools == <<"pools", 0>>

Create(parts, got, leak, s) ==
  /\ al = NotYet /\ Quiet
  /\ al' = IF got = Len(parts) THEN s ELSE Gone
  /\ owed' = IF got = Len(parts) THEN Range(parts) ELSE leak
  /\ UNCHANGED <<kind, live, loc, calls>>
\* destroy gives the parts back.
Destroy(parts) ==
  /\ Up /\ Quiet
  /\ al' = Gone /\ owed' = owed \ parts /\ live' = {}
  /\ UNCHANGED <<kind, loc, calls>>

\* A call that is one step.
Call(s, blocks) ==
  /\ Up /\ Quiet /\ calls < MaxCalls
  /\ al' = s /\ live' = blocks /\ calls' = calls + 1
  /\ UNCHANGED <<kind, owed, loc>>
Nothing == Call(al, live)
\* The first step, a step and the last step of a call of thread t.
Begin(t, s, blocks, r) ==
  /\ Up /\ At(t, "idle") /\ calls < MaxCalls
  /\ al' = s /\ live' = blocks /\ loc' = [loc EXCEPT ![t] = r] /\ calls' = calls + 1
  /\ UNCHANGED <<kind, owed>>
With(f, g) == [x \in DOMAIN f \cup DOMAIN g |-> IF x \in DOMAIN g THEN g[x] ELSE f[x]]
Step(t, s, r) ==
  al' = s /\ loc' = [loc EXCEPT ![t] = With(@, r)] /\ UNCHANGED <<kind, live, owed, calls>>
Finish(t, s, blocks, r) ==
  al' = s /\ live' = blocks /\ loc' = [loc EXCEPT ![t] = r] /\ UNCHANGED <<kind, owed, calls>>
Return(t, s, blocks) == Finish(t, s, blocks, Idle)
Refuse(t) == Begin(t, al, live, Idle)
To(l) == [pc |-> l]

-----------------------------------------------------------------------------
(* pool: a list of free blocks and a bit per block.                        *)

Chunk == {i * BlockSize : i \in 0..(Blocks - 1)}
\* The list is built from the front: its head is the last block.
Descending(size, n) == [i \in 1..n |-> (n - i) * size]

PoolParts == <<State, Memory, Bitmap, Vtable>>
\* The failing path of the last allocation does not give the bitmap back.
pool_create(got) ==
  Create(PoolParts, got, IF got = 3 THEN {Bitmap} ELSE {},
         [free |-> Descending(BlockSize, Blocks), bits |-> Chunk, count |-> Blocks])
pool_destroy == Destroy({State, Memory, Bitmap, Vtable})

PoolFits(s, size) == size # 0 /\ size <= BlockSize /\ s.free # <<>>
PoolPop(s) == [s EXCEPT !.free = Tail(@), !.bits = @ \ {Head(s.free)}, !.count = @ - 1]
\* The rest of free: not a block of the chunk, or free already.
PoolPush(s, p) ==
  IF p \notin 0..(Blocks * BlockSize - 1) \/ p % BlockSize # 0 \/ p \in s.bits THEN s
  ELSE IF s.count >= Blocks THEN [s EXCEPT !.bits = @ \cup {p}]
  ELSE [s EXCEPT !.free = <<p>> \o @, !.bits = @ \cup {p}, !.count = @ + 1]

pool_malloc(size) ==
  IF PoolFits(al, size) THEN Call(PoolPop(al), live \cup {Block(0, Head(al.free), size, 1)}) ELSE Nothing
pool_calloc(count, size) ==
  LET total == Product(count, size) IN IF total = Null THEN Nothing ELSE pool_malloc(total)
\* Any pointer: a live block, a freed one, one that is none of the pool's.
pool_free(p) == Call(PoolPush(al, p), {b \in live : b.at # p})
pool_realloc(b, size) ==
  IF size = 0 THEN pool_free(b.at)
  ELSE IF PoolFits(al, size)
  THEN Call(PoolPush(PoolPop(al), b.at), (live \ {b}) \cup {Block(0, Head(al.free), size, 1)})
  ELSE Nothing
PoolNext ==
  \/ \E got \in 0..4 : pool_create(got)
  \/ pool_destroy
  \/ Up /\ \/ \E size \in 0..(BlockSize + 1) : pool_malloc(size)
           \/ \E n \in {1, SizeMax} : pool_calloc(n, 2)
           \/ \E p \in -1..(Blocks * BlockSize) : pool_free(p)
           \/ \E b \in live, size \in 0..BlockSize : pool_realloc(b, size)

-----------------------------------------------------------------------------
(* cpool: the list is a stack with a tag, the bits are atomic.  next is    *)
(* the first word of each block.                                           *)

cpool_create(got) ==
  Create(PoolParts, got, {},
         [head |-> [lo |-> (Blocks - 1) * BlockSize, hi |-> 0], bits |-> Chunk, count |-> Blocks,
          next |-> [a \in Chunk |-> IF a = 0 THEN Null ELSE a - BlockSize], dirty |-> {}])
cpool_destroy == Destroy({State, Memory, Bitmap, Vtable})

\* old has the block of a realloc.
cpool_malloc(t, size) ==
  IF size = 0 \/ size > BlockSize THEN Refuse(t)
  ELSE Begin(t, al, live, [pc |-> "load", size |-> size, old |-> <<>>])
cpool_calloc(t, count, size) ==
  IF Product(count, size) = Null THEN Refuse(t) ELSE cpool_malloc(t, Product(count, size))
\* Of two frees of one block only one meets a clear bit.  A bit that is clear
\* means that the block is somebody's: callers free no block that a malloc has
\* popped and not returned yet.
cpool_free(t, p) ==
  IF p \notin 0..(Blocks * BlockSize - 1) \/ p % BlockSize # 0 \/ p \in al.bits
  THEN Refuse(t)
  ELSE /\ \E b \in live : b.at = p
       /\ Begin(t, [al EXCEPT !.bits = @ \cup {p}], {b \in live : b.at # p}, [pc |-> "wipe", p |-> p])

cpool_realloc(t, b, size) ==
  IF size = 0 THEN cpool_free(t, b.at)
  ELSE IF size > BlockSize THEN Refuse(t)
  ELSE Begin(t, al, live \ {b}, [pc |-> "load", size |-> size, old |-> <<b>>])

\* malloc: the head, its link, the exchange, the bit and the count.
Kept(t) == live \cup Range(loc[t].old)
PopSteps(t) ==
  LET me == loc[t]
  IN \/ /\ At(t, "load")
        /\ IF al.head.lo = Null THEN Return(t, al, Kept(t)) ELSE Step(t, al, [pc |-> "link", head |-> al.head])
     \/ At(t, "link") /\ Step(t, al, [pc |-> "cas", next |-> al.next[me.head.lo]])
     \/ /\ At(t, "clear")
        /\ IF me.head.lo \notin al.bits THEN Return(t, al, Kept(t))
           ELSE Step(t, [al EXCEPT !.bits = @ \ {me.head.lo}], To("less"))
     \/ /\ At(t, "less")
        /\ LET got == live \cup {Block(0, me.head.lo, me.size, 1)}
               s == [al EXCEPT !.count = @ - 1, !.dirty = @ \cup {me.head.lo}]
           IN Finish(t, s, got, IF me.old = <<>> THEN Idle ELSE [pc |-> "or", p |-> me.old[1].at])
     \/ At(t, "or") /\ Step(t, [al EXCEPT !.bits = @ \cup {me.p}], To("wipe"))
\* Mutant: only the pointers are compared.
PopCas_NoTag(t) ==
  /\ At(t, "cas")
  /\ IF loc[t].head.lo = al.head.lo
     THEN Step(t, [al EXCEPT !.head = [lo |-> loc[t].next, hi |-> @.hi + 1]], To("clear"))
     ELSE Step(t, al, To("load"))
PopCas(t) ==
  /\ At(t, "cas")
  /\ IF loc[t].head = al.head
     THEN Step(t, [al EXCEPT !.head = [lo |-> loc[t].next, hi |-> @.hi + 1]], To("clear"))
     ELSE Step(t, al, To("load"))
\* free: the payload is wiped before the block can be taken again.
Wipe(t) == At(t, "wipe") /\ Step(t, [al EXCEPT !.dirty = @ \ {loc[t].p}], To("top"))
PushSteps(t) ==
  LET me == loc[t]
  IN \/ At(t, "top") /\ Step(t, al, [pc |-> "store", head |-> al.head])
     \/ At(t, "store") /\ Step(t, [al EXCEPT !.next[me.p] = me.head.lo], To("pushCas"))
     \/ /\ At(t, "pushCas")
        /\ IF me.head = al.head
           THEN Step(t, [al EXCEPT !.head = [lo |-> me.p, hi |-> @.hi + 1]], To("more"))
           ELSE Step(t, al, To("top"))
     \/ At(t, "more") /\ Return(t, [al EXCEPT !.count = @ + 1], live)
CPoolNext ==
  \/ \E got \in 0..4 : cpool_create(got)
  \/ cpool_destroy
  \/ Up /\ \E t \in Threads :
       \/ PopSteps(t) \/ PopCas(t) \/ Wipe(t) \/ PushSteps(t)
       \/ cpool_malloc(t, 1) \/ cpool_calloc(t, 1, 3)
       \/ \E p \in {1} \cup Chunk : cpool_free(t, p)
       \/ \E b \in live : cpool_realloc(t, b, 2)

-----------------------------------------------------------------------------
(* slab: buckets of blocks of one size each; cslab: a lock per bucket.     *)

BucketSizes == <<1, 3>>
SlabAlign == 2
Buckets == 1..Len(BucketSizes)
slab_pool_index(size) ==
  LET n == Len(BucketSizes)
      find[r \in (0..n) \X (0..n)] ==
        LET mid == r[1] + (r[2] - r[1]) \div 2
        IN IF r[1] >= r[2] THEN r[1]
           ELSE IF size <= BucketSizes[mid + 1] THEN find[<<r[1], mid>>] ELSE find[<<mid + 1, r[2]>>]
  IN find[<<0, n>>] + 1
SlabBlock(b) == AlignUp(BucketSizes[b], SlabAlign)

slab_pool_init(b) == [free |-> Descending(SlabBlock(b), PerBucket), count |-> PerBucket]
SlabParts == <<State, Sizes, Pools, <<"chunk", 1>>, <<"chunk", 2>>, Vtable>>
slab_create(got) ==
  Create(SlabParts, got, {}, [pool |-> [b \in Buckets |-> slab_pool_init(b)], dirty |-> {}])
slab_destroy == Destroy({<<"chunk", b>> : b \in Buckets} \cup {Pools, Sizes, State, Vtable})

SlabTakes(s, size) ==
  size # 0 /\ slab_pool_index(size) \in Buckets /\ s.pool[slab_pool_index(size)].free # <<>>
SlabPop(s, b) == [s EXCEPT !.pool[b] = [free |-> Tail(@.free), count |-> @.count - 1]]
SlabTop(s, size, align) ==
  LET b == slab_pool_index(size) IN Block(b, Head(s.pool[b].free), size, align)
SlabPush(s, b, p) ==
  IF s.pool[b].count >= PerBucket THEN s
  ELSE [s EXCEPT !.pool[b] = [free |-> <<p>> \o @.free, count |-> @.count + 1]]

slab_malloc(size, align) ==
  IF align <= SlabAlign /\ SlabTakes(al, size)
  THEN Call(SlabPop(al, slab_pool_index(size)), live \cup {SlabTop(al, size, align)})
  ELSE Nothing
slab_calloc(count, size) ==
  LET total == Product(count, size) IN IF total = Null THEN Nothing ELSE slab_malloc(total, 1)
\* Nothing checks that the pointer is a block, nor that it is in use: callers
\* free what they have.
slab_free(b) == Call(SlabPush(al, b.buf, b.at), live \ {b})
slab_realloc(b, size) ==
  IF size = 0 THEN slab_free(b)
  ELSE IF SlabTakes(al, size)
  THEN Call(SlabPush(SlabPop(al, slab_pool_index(size)), b.buf, b.at),
            (live \ {b}) \cup {SlabTop(al, size, b.align)})
  ELSE Nothing
SlabNext ==
  \/ \E got \in 0..6 : slab_create(got)
  \/ slab_destroy
  \/ Up /\ \/ \E size \in 0..4, align \in {1, 2, 4} : slab_malloc(size, align)
           \/ \E n \in {1, SizeMax} : slab_calloc(n, 2)
           \/ \E b \in live : slab_free(b) \/ \E size \in 0..3 : slab_realloc(b, size)

\* Rounds up only for alignments above max_align_t: blocks are not aligned.
CSlabBlock(b) == BucketSizes[b]
cslab_pool_init(b) == [free |-> Descending(CSlabBlock(b), PerBucket), count |-> PerBucket]
cslab_create(got) ==
  Create(SlabParts, got, {}, [pool |-> [b \in Buckets |-> cslab_pool_init(b)], dirty |-> {}])
cslab_destroy == slab_destroy

\* malloc holds the bucket's lock from the look at the list to its change.
cslab_malloc(t, size) ==
  IF SlabTakes(al, size)
  THEN LET b == SlabTop(al, size, 1)
       IN Begin(t, [SlabPop(al, b.buf) EXCEPT !.dirty = @ \cup {<<b.buf, b.at>>}], live \cup {b}, Idle)
  ELSE Refuse(t)
cslab_calloc(t, count, size) ==
  IF Product(count, size) = Null THEN Refuse(t) ELSE cslab_malloc(t, Product(count, size))
cslab_free(t, b) == Begin(t, al, live \ {b}, [pc |-> "zero", b |-> b])
\* A block whose bucket serves the new size too stays where it is.
cslab_realloc(t, b, size) ==
  IF size = 0 THEN cslab_free(t, b)
  ELSE IF slab_pool_index(b.len) = slab_pool_index(size)
  THEN Begin(t, al, (live \ {b}) \cup {[b EXCEPT !.len = size]}, Idle)
  ELSE IF SlabTakes(al, size)
  THEN LET new == SlabTop(al, size, 1)
       IN Begin(t, [SlabPop(al, new.buf) EXCEPT !.dirty = @ \cup {<<new.buf, new.at>>}],
                (live \ {b}) \cup {new}, [pc |-> "zero", b |-> b])
  ELSE Refuse(t)
CSlabSteps(t) ==
  LET b == loc[t].b
  IN \/ At(t, "zero") /\ Step(t, [al EXCEPT !.dirty = @ \ {<<b.buf, b.at>>}], To("give"))
     \/ At(t, "give") /\ Return(t, SlabPush(al, b.buf, b.at), live)
CSlabNext ==
  \/ \E got \in 0..6 : cslab_create(got)
  \/ cslab_destroy
  \/ Up /\ \E t \in Threads :
       \/ CSlabSteps(t)
       \/ (\E size \in {1, 2, 4} : cslab_malloc(t, size)) \/ cslab_calloc(t, 1, 3)
       \/ \E b \in live : cslab_free(t, b) \/ \E size \in {1, 2, 3} : cslab_realloc(t, b, size)

-----------------------------------------------------------------------------
(* arena: buffers in a chain, filled in turn.  chain has them in the order *)
(* of their links.  carena: a buffer per shard, under the shard's lock.    *)

ArenaCap == 4
ArenaMax == 28       \* max_capacity
Grown(cap, need) == CHOOSE c \in {cap * 2^k : k \in 1..8} : c >= need /\ (c = 2 * cap \/ c \div 2 < need)
NewNode(cap) == [offset |-> 0, cap |-> cap, used |-> 0]
NodeParts(n) == {<<"node", n>>, <<"buffer", n>>}

arena_create(got) ==
  Create(<<State, <<"node", 1>>, <<"buffer", 1>>, Vtable>>, got, {},
         [node |-> <<NewNode(ArenaCap)>>, chain |-> <<1>>, current |-> 1, total |-> ArenaCap])
arena_destroy == Destroy({State, Vtable} \cup UNION {NodeParts(n) : n \in Range(al.chain)})

\* Hands out size bytes at an offset of the node n.
Bump(s, n, at, size) == [s EXCEPT !.node[n].offset = at + size, !.node[n].used = @ + size, !.current = n]
InsertAfter(chain, n, m) ==
  LET i == CHOOSE j \in DOMAIN chain : chain[j] = n
  IN SubSeq(chain, 1, i) \o <<m>> \o SubSeq(chain, i + 1, Len(chain))
\* Mutant: what followed the current node is cut off.
ArenaGrow_CutsChain(s, size, align) ==
  LET cap == Grown(s.node[s.current].cap, size + align)
      m == Len(s.node) + 1
      i == CHOOSE j \in DOMAIN s.chain : s.chain[j] = s.current
  IN Bump([s EXCEPT !.node = Append(@, NewNode(cap)), !.chain = SubSeq(@, 1, i) \o <<m>>,
                    !.total = @ + cap], m, 0, size)
ArenaGrow(s, size, align) ==
  LET cap == Grown(s.node[s.current].cap, size + align)
      m == Len(s.node) + 1
  IN Bump([s EXCEPT !.node = Append(@, NewNode(cap)), !.chain = InsertAfter(@, s.current, m),
                    !.total = @ + cap], m, 0, size)
\* mem: the backing allocator has a node and a buffer.
arena_malloc(size, align, mem) ==
  LET n == al.current
      at == AlignUp(al.node[n].offset, align)
      m == Len(al.node) + 1
  IN IF size = 0 THEN Nothing
     ELSE IF at + size <= al.node[n].cap
     THEN Call(Bump(al, n, at, size), live \cup {Block(n, at, size, align)})
     ELSE IF al.total + Grown(al.node[n].cap, size + align) > ArenaMax \/ ~mem THEN Nothing
     ELSE /\ Up /\ Quiet /\ calls < MaxCalls
          /\ al' = ArenaGrow(al, size, align)
          /\ live' = live \cup {Block(m, 0, size, align)}
          /\ owed' = owed \cup NodeParts(m) /\ calls' = calls + 1
          /\ UNCHANGED <<kind, loc>>
arena_calloc(count, size, mem) ==
  LET total == Product(count, size) IN IF total = Null THEN Nothing ELSE arena_malloc(total, 1, mem)
\* The caller has done with the block; the arena does nothing.
arena_free(b) == Call(al, live \ {b})
\* A new block and a copy: the old one stays in use.
arena_realloc(b, size, mem) == b \in live /\ arena_malloc(size, b.align, mem)
arena_reset ==
  Call([al EXCEPT !.node = [n \in DOMAIN @ |-> NewNode(@[n].cap)], !.current = al.chain[1]], {})
ArenaNext ==
  \/ \E got \in 0..4 : arena_create(got)
  \/ arena_destroy
  \/ Up /\ \/ \E size \in {0, 1, 3, 9}, align \in {1, 2}, mem \in BOOLEAN : arena_malloc(size, align, mem)
           \/ \E n \in {1, SizeMax}, mem \in BOOLEAN : arena_calloc(n, 2, mem)
           \/ \E b \in live : arena_free(b) \/ \E mem \in BOOLEAN : arena_realloc(b, 3, mem)
           \/ arena_reset

Shards == 1..2
carena_shard_init(i) == With(NewNode(ArenaCap), [lock |-> FALSE, gen |-> 0])
\* shardOf: the hash of each thread.
carena_create(got, hash) ==
  Create(<<State, <<"buffer", 1>>, <<"buffer", 2>>, Vtable>>, got, {},
         [shard |-> [i \in Shards |-> carena_shard_init(i)], shardOf |-> hash, total |-> 2 * ArenaCap,
          raced |-> FALSE])
carena_destroy == Destroy({<<"buffer", i>> : i \in Shards} \cup {State, Vtable})

\* total_allocated is read here and changed later under no common lock: shards
\* that grow at the same time may pass the limit or lose an update.
Growing(t) == \E u \in Threads \ {t} : At(u, "grow")
ShardBump(sh, at, size) == [sh EXCEPT !.offset = at + size, !.used = @ + size]
carena_malloc(t, size, align) ==
  LET i == al.shardOf[t]
      sh == al.shard[i]
      at == AlignUp(sh.offset, align)
  IN IF size = 0 THEN Refuse(t)
     ELSE /\ ~sh.lock
          /\ IF at + size <= sh.cap
             THEN Begin(t, [al EXCEPT !.shard[i] = ShardBump(sh, at, size)],
                        live \cup {Block(<<i, sh.gen>>, at, size, align)}, Idle)
             ELSE IF al.total + Grown(sh.cap, size + align) - sh.cap > ArenaMax THEN Refuse(t)
             ELSE Begin(t, [al EXCEPT !.shard[i].lock = TRUE, !.raced = @ \/ Growing(t)], live,
                        [pc |-> "grow", size |-> size, align |-> align, total |-> al.total])
\* The new block lies at the start of the new buffer, over the copied ones, and
\* the old buffer is freed: earlier blocks of the shard are gone with it.
ShardGrow(t) ==
  LET i == al.shardOf[t]
      sh == al.shard[i]
      cap == Grown(sh.cap, loc[t].size + loc[t].align)
      new == [ShardBump(sh, 0, loc[t].size) EXCEPT !.cap = cap, !.gen = @ + 1, !.lock = FALSE]
  IN /\ At(t, "grow")
     /\ \/ \E total \in {al.total, loc[t].total} :
             Return(t, [al EXCEPT !.shard[i] = new, !.total = total + (cap - sh.cap)],
                  {b \in live : b.buf[1] # i} \cup {Block(<<i, new.gen>>, 0, loc[t].size, loc[t].align)})
        \/ Return(t, [al EXCEPT !.shard[i].lock = FALSE], live)       \* no memory
carena_calloc(t, count, size) ==
  IF Product(count, size) = Null THEN Refuse(t) ELSE carena_malloc(t, Product(count, size), 1)
carena_realloc(t, b, size) == b \in live /\ carena_malloc(t, size, b.align)
carena_free(t, b) == Begin(t, al, live \ {b}, Idle)
\* One shard after the other.
carena_reset(t) == Begin(t, al, live, [pc |-> "reset", i |-> 1])
ResetShard(t) ==
  LET i == loc[t].i
  IN /\ At(t, "reset") /\ ~al.shard[i].lock
     /\ Finish(t, [al EXCEPT !.shard[i].offset = 0, !.shard[i].used = 0],
               {b \in live : b.buf[1] # i}, IF i = 2 THEN Idle ELSE [pc |-> "reset", i |-> i + 1])
CArenaNext ==
  \/ \E got \in 0..4, hash \in [Threads -> Shards] : carena_create(got, hash)
  \/ carena_destroy
  \/ Up /\ \E t \in Threads :
       \/ ShardGrow(t) \/ ResetShard(t) \/ carena_reset(t)
       \/ \E size \in {0, 3, 9}, align \in {1, 2} : carena_malloc(t, size, align)
       \/ carena_calloc(t, 1, 2)
       \/ \E b \in live : carena_free(t, b) \/ carena_realloc(t, b, 3)

-----------------------------------------------------------------------------
(* buddy: a list of free blocks per order; a header inside each block.     *)
(* align is pool_alignment.  A request for more is refused; up to it, the  *)
(* block starts behind its header whatever alignment was asked for.        *)

Header == 16
MinOrder == 4
PoolSize == 2^7           \* scl_bit_ceil_sz of the size asked for
MaxOrder == 7
Orders == MinOrder..MaxOrder
order_for_size(n) == CHOOSE o \in 0..20 : 2^o >= n /\ (o = 0 \/ 2^(o - 1) < n)
OrderOf(size) == Max2(order_for_size(size + Header), MinOrder)
BuddyOf(a, o) == IF (a \div 2^o) % 2 = 0 THEN a + 2^o ELSE a - 2^o

buddy_create(got, align) ==
  Create(<<State, Memory, Vtable>>, got, {},
         [free |-> [o \in Orders |-> IF o = MaxOrder THEN <<0>> ELSE <<>>],
          header |-> [a \in {} |-> 0], align |-> align])
buddy_destroy == Destroy({Memory, State, Vtable})

\* Only the second half is put into the list of its order.
Split(free, from, order) ==
  LET down[c \in order..from] ==
        IF c = from THEN free
        ELSE LET block == Head(down[c + 1][c + 1])
             IN [down[c + 1] EXCEPT ![c + 1] = Tail(@), ![c] = <<block + 2^c>>]
  IN down[order]
BuddyFits(s, size, align) ==
  /\ size # 0 /\ align <= s.align /\ order_for_size(size + Header) <= MaxOrder
  /\ \E o \in OrderOf(size)..MaxOrder : s.free[o] # <<>>
BuddyTake(s, size) ==
  LET order == OrderOf(size)
      from == CHOOSE o \in order..MaxOrder : s.free[o] # <<>> /\ \A p \in order..(o - 1) : s.free[p] = <<>>
      lists == Split(s.free, from, order)
      a == Head(lists[order])
  IN [at |-> a,
      s |-> [s EXCEPT !.free = [lists EXCEPT ![order] = Tail(@)], !.header = (a :> order) @@ @]]
\* The block is merged with its buddy as long as that is in its order's list.
Without(list, a) == SelectSeq(list, LAMBDA x : x # a)
Merge(free, a, order) ==
  LET up[o \in order..MaxOrder] ==
        IF o = order THEN [free |-> free, at |-> a, order |-> order]
        ELSE LET r == up[o - 1]
                 b == BuddyOf(r.at, o - 1)
             IN IF r.order # o - 1 \/ b \notin Range(r.free[o - 1]) THEN r
                ELSE [free |-> [r.free EXCEPT ![o - 1] = Without(@, b)],
                      at |-> IF b < r.at THEN b ELSE r.at, order |-> o]
      r == up[MaxOrder]
  IN [r.free EXCEPT ![r.order] = <<r.at>> \o @]
BuddyGive(s, p) ==
  LET a == p - Header
  IN [s EXCEPT !.free = Merge(@, a, s.header[a]), !.header = Restrict(@, DOMAIN @ \ {a})]

buddy_malloc(size, align) ==
  IF BuddyFits(al, size, align)
  THEN LET r == BuddyTake(al, size) IN Call(r.s, live \cup {Block(0, r.at + Header, size, align)})
  ELSE Nothing
buddy_calloc(count, size, align) ==
  LET total == Product(count, size) IN IF total = Null THEN Nothing ELSE buddy_malloc(total, align)
buddy_free(b) == Call(BuddyGive(al, b.at), live \ {b})
buddy_realloc(b, size, align) ==
  IF size = 0 THEN buddy_free(b)
  ELSE IF BuddyFits(al, size, align)
  THEN LET r == BuddyTake(al, size)
       IN Call(BuddyGive(r.s, b.at), (live \ {b}) \cup {Block(0, r.at + Header, size, align)})
  ELSE Nothing
Requests == {0, 1, 16, 17, 112, 113}
Alignments == {Header, 4 * Header}
BuddyNext ==
  \/ \E got \in 0..3, align \in Alignments : buddy_create(got, align)
  \/ buddy_destroy
  \/ Up /\ \/ \E size \in Requests, align \in Alignments : buddy_malloc(size, align)
           \/ \E n \in {1, SizeMax}, align \in Alignments : buddy_calloc(n, 16, align)
           \/ \E b \in live : \/ buddy_free(b)
                            \/ \E size \in Requests, align \in Alignments : buddy_realloc(b, size, align)

-----------------------------------------------------------------------------
(* cbuddy: a stack with a tag per order.  word is the first word of each   *)
(* block: its link while it is free, its order while it is not.  The       *)
(* alignment asked for is ignored.  The pools are smaller than the 2^16    *)
(* bytes create asks for.  All of a pool is pushed as one block of the     *)
(* order its size is rounded up to: when the size is no power of two, the  *)
(* last pieces lie behind the pool.  spilled: one of them was written to,  *)
(* or handed out, and what follows is undefined.                           *)

PoolSizes == {PoolSize, PoolSize - 16}
Words == {16 * i : i \in 0..(PoolSize \div 16 - 1)}
cbuddy_create(got, size) ==
  Create(<<State, Memory, Vtable>>, got, {},
         [stack |-> [o \in Orders |-> [lo |-> IF o = MaxOrder THEN 0 ELSE Null,
                                       hi |-> IF o = MaxOrder THEN 1 ELSE 0]],
          word |-> [a \in Words |-> Null], lost |-> {}, size |-> size, spilled |-> FALSE])
cbuddy_destroy == Destroy({Memory, State, Vtable})

\* Memory up to end is used.
Spill(s, end) == IF end > s.size THEN [s EXCEPT !.spilled = TRUE] ELSE s

Searching(size, align, old) ==
  [pc |-> "pop", size |-> size, align |-> align, want |-> OrderOf(size), o |-> OrderOf(size), old |-> old]
cbuddy_malloc(t, size, align) ==
  IF size = 0 \/ order_for_size(size + Header) > MaxOrder THEN Refuse(t)
  ELSE Begin(t, al, live, Searching(size, align, <<>>))
cbuddy_calloc(t, count, size, align) ==
  IF Product(count, size) = Null THEN Refuse(t) ELSE cbuddy_malloc(t, Product(count, size), align)
cbuddy_free(t, b) ==
  LET a == b.at - Header
      o == al.word[a]
  IN Begin(t, al, live \ {b}, [pc |-> "put", want |-> Null, o |-> o, p |-> a, head |-> al.stack[o]])
\* The old block is not freed: where it should be, malloc is called with 0.
Piece(b) == [at |-> b.at - Header, len |-> 2^al.word[b.at - Header]]
cbuddy_realloc(t, b, size, align) ==
  IF size = 0 THEN Begin(t, [al EXCEPT !.lost = @ \cup {Piece(b)}], live \ {b}, Idle)
  ELSE IF order_for_size(size + Header) > MaxOrder THEN Refuse(t)
  ELSE Begin(t, al, live \ {b}, Searching(size, align, <<b>>))

\* cbuddy_pop of the order o, and of the next when that is empty.
Popped(t, head) ==
  IF head.lo # Null THEN Step(t, al, [pc |-> "read", head |-> head])
  ELSE IF loc[t].o = MaxOrder THEN Return(t, al, Kept(t))
  ELSE Step(t, al, [pc |-> "pop", o |-> loc[t].o + 1])
CBuddyPop(t) ==
  LET me == loc[t]
  IN \/ At(t, "pop") /\ Popped(t, al.stack[me.o])
     \/ At(t, "read") /\ Step(t, al, [pc |-> "take", next |-> al.word[me.head.lo]])
     \/ /\ At(t, "take")
        /\ IF me.head # al.stack[me.o] THEN Popped(t, al.stack[me.o])
           ELSE Step(t, [al EXCEPT !.stack[me.o] = [lo |-> me.next, hi |-> @.hi + 1]],
                     [pc |-> "split", at |-> me.head.lo])
\* Mutant: the second half is handed to the list of the order above.
CBuddySplit_Above(t) ==
  LET me == loc[t]
  IN /\ At(t, "split") /\ me.o > me.want
     /\ Step(t, al, [pc |-> "put", o |-> me.o - 1, p |-> me.at + 2^me.o, head |-> al.stack[me.o - 1]])
CBuddySplit(t) ==
  LET me == loc[t]
  IN /\ At(t, "split") /\ me.o > me.want
     /\ Step(t, al, [pc |-> "put", o |-> me.o - 1, p |-> me.at + 2^(me.o - 1), head |-> al.stack[me.o - 1]])
\* The order is stored over the link.
CBuddyHeader(t) ==
  LET me == loc[t]
      s == Spill([al EXCEPT !.word[me.at] = me.want], me.at + Header + me.size)
  IN /\ At(t, "split") /\ me.o = me.want
     /\ Return(t, IF me.old = <<>> THEN s ELSE [s EXCEPT !.lost = @ \cup {Piece(me.old[1])}],
               live \cup {Block(0, me.at + Header, me.size, me.align)})
CBuddyPush(t) ==
  LET me == loc[t]
  IN \/ At(t, "put") /\ Step(t, Spill([al EXCEPT !.word[me.p] = me.head.lo], me.p + Header), To("putCas"))
     \/ /\ At(t, "putCas")
        /\ IF me.head # al.stack[me.o] THEN Step(t, al, [pc |-> "put", head |-> al.stack[me.o]])
           ELSE LET s == [al EXCEPT !.stack[me.o] = [lo |-> me.p, hi |-> @.hi + 1]]
                IN IF me.want = Null THEN Return(t, s, live) ELSE Step(t, s, To("split"))
CBuddyNext ==
  \/ \E got \in 0..3, size \in PoolSizes : cbuddy_create(got, size)
  \/ cbuddy_destroy
  \/ Up /\ \E t \in Threads :
       \/ CBuddyPop(t) \/ CBuddySplit(t) \/ CBuddyHeader(t) \/ CBuddyPush(t)
       \/ (\E size \in {0, 16, 48} : cbuddy_malloc(t, size, Header)) \/ cbuddy_calloc(t, 1, 16, 4 * Header)
       \/ \E b \in live : cbuddy_free(t, b) \/ \E size \in {0, 16} : cbuddy_realloc(t, b, size, Header)

-----------------------------------------------------------------------------

Init ==
  /\ kind \in Kinds /\ al = NotYet /\ live = {} /\ owed = {} /\ calls = 0
  /\ loc = [t \in Threads |-> Idle]
Ended == al = Gone /\ UNCHANGED vars
Next ==
  \/ Ended
  \/ kind = "pool" /\ PoolNext
  \/ kind = "cpool" /\ CPoolNext
  \/ kind = "slab" /\ SlabNext
  \/ kind = "cslab" /\ CSlabNext
  \/ kind = "arena" /\ ArenaNext
  \/ kind = "carena" /\ CArenaNext
  \/ kind = "buddy" /\ BuddyNext
  \/ kind = "cbuddy" /\ CBuddyNext
Spec == Init /\ [][Next]_vars

-----------------------------------------------------------------------------
(* Where all memory of the allocator is: in blocks that callers have, in   *)
(* free ones, and in those that a thread is taking or giving back.         *)

Area(buf, at, len) == [buf |-> buf, at |-> at, len |-> len]
Fixed == {"pool", "cpool", "slab", "cslab"}
Bucketed == {"slab", "cslab"}
SizeIn(buf) == CASE kind = "slab" -> SlabBlock(buf) [] kind = "cslab" -> CSlabBlock(buf) [] OTHER -> BlockSize
Chain(head, next, bound) ==
  LET walk[n \in 0..bound] == IF n = 0 THEN head ELSE IF walk[n - 1] = Null THEN Null ELSE next[walk[n - 1]]
  IN [n \in {m \in 0..bound : walk[m] # Null} |-> walk[n]]

LiveAreas ==
  CASE kind \in Fixed -> {Area(b.buf, b.at, SizeIn(b.buf)) : b \in live}
    [] kind = "buddy" -> {Area(0, b.at - Header, 2^al.header[b.at - Header]) : b \in live}
    [] kind = "cbuddy" -> {Area(0, Piece(b).at, Piece(b).len) : b \in live} \cup {Area(0, l.at, l.len) : l \in al.lost}
    [] OTHER -> {Area(b.buf, b.at, b.len) : b \in live}
FreeAreas ==
  CASE kind = "pool" -> {Area(0, a, BlockSize) : a \in Range(al.free)}
    [] kind = "cpool" -> {Area(0, a, BlockSize) : a \in Range(Chain(al.head.lo, al.next, Blocks))}
    [] kind \in Bucketed -> UNION {{Area(b, a, SizeIn(b)) : a \in Range(al.pool[b].free)} : b \in Buckets}
    [] kind = "buddy" -> UNION {{Area(0, a, 2^o) : a \in Range(al.free[o])} : o \in Orders}
    [] kind = "cbuddy" -> UNION {{Area(0, a, 2^o) : a \in Range(Chain(al.stack[o].lo, al.word, 8))} : o \in Orders}
    [] OTHER -> {}
HeldBy(t) ==
  LET me == loc[t]
      old == IF "old" \in DOMAIN me /\ me.old # <<>> THEN {me.old[1]} ELSE {}
  IN CASE kind = "cpool" ->
            {Area(0, b.at, BlockSize) : b \in old}
              \cup (IF me.pc \in {"clear", "less"} THEN {Area(0, me.head.lo, BlockSize)}
                    ELSE IF me.pc \in {"or", "wipe", "top", "store", "pushCas"} THEN {Area(0, me.p, BlockSize)}
                    ELSE {})
       [] kind = "cslab" -> IF me.pc = "idle" THEN {} ELSE {Area(me.b.buf, me.b.at, SizeIn(me.b.buf))}
       [] kind = "cbuddy" ->
            {Area(0, Piece(b).at, Piece(b).len) : b \in old}
              \cup (IF me.pc \in {"put", "putCas"} THEN {Area(0, me.p, 2^me.o)} ELSE {})
              \cup (IF me.pc \in {"put", "putCas", "split"} /\ me.want # Null THEN {Area(0, me.at, 2^me.o)} ELSE {})
       [] OTHER -> {}
Areas == LiveAreas \cup FreeAreas \cup UNION {HeldBy(t) : t \in Threads}
Extent(buf) ==
  CASE kind \in {"pool", "cpool"} -> Blocks * BlockSize
    [] kind \in Bucketed -> SizeIn(buf) * PerBucket
    [] kind = "arena" -> al.node[buf].offset
    [] kind = "carena" -> IF al.shard[buf[1]].gen = buf[2] THEN al.shard[buf[1]].offset ELSE 0
    [] OTHER -> PoolSize      \* of cbuddy: its size rounded up

(* The blocks of all callers, the free ones and those on their way lie     *)
(* apart from each other and inside the memory that is the allocator's, at *)
(* the alignment asked for: however blocks are split, merged, taken and    *)
(* given back by several threads, nobody can write into anybody's block.   *)
(* Three limits: a cbuddy whose size is no power of two keeps this until   *)
(* it spills over the end of its pool; buddy and cbuddy align to their     *)
(* header only, although they take a larger alignment; cslab does not      *)
(* align its blocks.                                                       *)
Defined == kind = "cbuddy" => ~al.spilled
Honoured(align) == IF kind \in {"buddy", "cbuddy"} /\ align > Header THEN Header ELSE align
BlocksApart ==
  Up /\ Defined =>
    /\ \A x \in Areas : x.at >= 0 /\ x.at + x.len <= Extent(x.buf)
    /\ \A x, y \in Areas : x # y => x.buf # y.buf \/ x.at + x.len <= y.at \/ y.at + y.len <= x.at
    /\ \A b \in live : kind = "cbuddy" => b.at + b.len <= al.size
    /\ \A b \in live : kind # "cslab" => b.at % Honoured(b.align) = 0

(* No block is lost and none is there twice.  A block of fixed size is     *)
(* with one caller, in its free list once or with one thread on its way,   *)
(* whoever frees a block twice and whatever the order of the steps; the    *)
(* free bits and counts agree when no call is running.  The pieces of      *)
(* cbuddy add up to its size rounded up, until it spills.  (A realloc of   *)
(* cbuddy loses the old block, which is counted; buddy loses half of every *)
(* block it splits and is left out.)                                       *)
AllBlocks ==
  IF kind \in Bucketed
  THEN UNION {{Area(b, i * SizeIn(b), SizeIn(b)) : i \in 0..(PerBucket - 1)} : b \in Buckets}
  ELSE {Area(0, a, BlockSize) : a \in Chunk}
InOnePlace ==
  /\ Areas = AllBlocks
  /\ \A b, c \in live : b # c => b.buf # c.buf \/ b.at # c.at
  /\ LiveAreas \cap FreeAreas = {}
  /\ \A t \in Threads :
       /\ HeldBy(t) \cap (LiveAreas \cup FreeAreas) = {}
       /\ \A u \in Threads \ {t} : HeldBy(t) \cap HeldBy(u) = {}
ListsRight ==
  /\ kind = "pool" => Len(al.free) = Cardinality(Range(al.free))
  /\ kind \in {"pool", "cpool"} /\ Quiet =>
       {x.at : x \in FreeAreas} = al.bits /\ al.count = Cardinality(al.bits)
  /\ kind \in Bucketed => \A b \in Buckets :
       al.pool[b].count = Len(al.pool[b].free) /\ Len(al.pool[b].free) = Cardinality(Range(al.pool[b].free))
Sum(areas) == MapThenSumSet(LAMBDA x : x.len, areas)
BlocksCounted ==
  Up => /\ kind \in Fixed => InOnePlace /\ ListsRight
        /\ kind = "cbuddy" /\ Defined =>
             Sum(LiveAreas) + Sum(FreeAreas) + MapThenSumSet(LAMBDA t : Sum(HeldBy(t)), Threads) = PoolSize

(* No caller meets what an earlier owner of its block wrote: a block is    *)
(* wiped before any thread can take it (cpool_free, cslab_free).           *)
WipedFirst ==
  Up => /\ kind = "cpool" => \A x \in FreeAreas : x.at \notin al.dirty
        /\ kind = "cslab" => \A x \in FreeAreas : <<x.buf, x.at>> \notin al.dirty

(* Both: what is free can be had again, once, and holds nothing of its     *)
(* last owner, whatever frees and allocations interleave.                  *)
BlocksConserved == BlocksCounted /\ WipedFirst

(* A creation that fails half-way and a destruction give back everything   *)
(* the allocator took from its backing allocator, the buffers an arena     *)
(* added before and after a reset included.  (pool_create keeps its bitmap *)
(* when its last allocation fails.)                                        *)
AllGivenBack == al = Gone => owed \subseteq IF kind = "pool" /\ calls = 0 THEN {Bitmap} ELSE {}

(* An arena's buffers never hold more than max_capacity together, and      *)
(* total_allocated is their sum, until two shards grow at the same time    *)
(* (raced); every buffer can be used up again after a reset.               *)
ArenaWithinLimit ==
  Up => /\ kind = "arena" =>
             /\ al.total = MapThenSumSet(LAMBDA n : al.node[n].cap, DOMAIN al.node)
             /\ al.total <= ArenaMax
             /\ \A n \in DOMAIN al.node : al.node[n].used <= al.node[n].offset /\ al.node[n].offset <= al.node[n].cap
        /\ kind = "carena" /\ ~al.raced =>
             /\ al.total = MapThenSumSet(LAMBDA i : al.shard[i].cap, Shards)
             /\ al.total <= ArenaMax
             /\ \A i \in Shards : al.shard[i].offset <= al.shard[i].cap

(* Both: an arena or pool holds what it took from its backing allocator    *)
(* within its limit, and gives all of it back.                             *)
BackingReturned == AllGivenBack /\ ArenaWithinLimit
=============================================================================

---------------------------- MODULE MCAlgorithms ----------------------------
(***************************************************************************)
(* libs/sort and libs/search, each function called once with a small       *)
(* input.  The sorts, matchers and graph searches compute their result in  *)
(* one step; the array searches run one loop iteration at a time, and the  *)
(* multithreaded merge sort one element at a time.  Beside them, the       *)
(* kernel table of libs/ml and calls through it (job kind "kernels").      *)
(***************************************************************************)
EXTENDS Integers, Sequences, FiniteSets, Functions, MergeThreads

CONSTANTS QuickCutoff, MaxRange, IntLimit, RK_MOD, RK_BASE, INT64_MAX,
          Kinds     \* the kinds of job this run starts with

VARIABLES
  job,    \* what was called: its kind, the algorithm and the input
  out,    \* <<>> until it returned, then <<result>>; of a search, its state
  hw, table, call, result   \* of Simd

So == INSTANCE Sorts
Tx == INSTANCE TextSearch
Ar == INSTANCE ArraySearch
Gr == INSTANCE GraphSearch

\* Processors with every instruction set the files for them are compiled for,
\* and for each file one that has the set it is installed for and not the others
\* it may use.
SSE == {"SSE41", "SSE42"}
AVX == SSE \cup {"AVX2", "FMA"}
X512 == AVX \cup {"AVX512F", "AVX512BW", "AVX512DQ"}
Processors ==
  {{}, SSE, AVX, X512, {"NEON"}, {"SSE41"}, SSE \cup {"AVX2"}, AVX \cup {"AVX512F"}}
Sm == INSTANCE Simd WITH Machines <- Processors, Sizes <- {0, 1, 3, 4, 8, 16, 17},
                         BigSizes <- {1, 8, 33}, Peaks <- {-200, 0, 100}

vars == <<job, out, given, base, tmp, task, hw, table, call, result>>

-----------------------------------------------------------------------------
(* The inputs. *)
MaxSort == 5         \* longest array sorted
SortKeys == {-3, -1, 0, 2}
Arrays(K, lo, hi) == UNION {[0..(n - 1) -> K] : n \in lo..hi}
\* Position as tag: equal elements can be told apart.
Tagged(f) == [i \in DOMAIN f |-> <<f[i], i>>]
Radixed == {"radix_sort", "sort_radix"}
SortJobs == [alg : So!SortAlgs, a : Arrays(SortKeys, 0, MaxSort), mem : BOOLEAN]

MaxSearch == 6       \* longest array searched
Ordered(f) == \A i, j \in DOMAIN f : i < j => f[i] <= f[j]
Haystacks == {f \in Arrays(1..3, 1, MaxSearch) : Ordered(f)}
WithHole == {[f EXCEPT ![i] = Ar!Hole] : f \in {h \in Haystacks : DOMAIN h = 0..2}, i \in 0..2}
Needles == 0..4
SearchJobs ==
  [alg : Ar!SearchAlgs, a : Haystacks, key : Needles, limit : {8}]
    \cup [alg : {"unbounded_binary_search"}, a : Haystacks, key : Needles, limit : {1, 4}]
    \cup [alg : Ar!OnStrings, a : WithHole, key : Needles, limit : {8}]

MaxText == 6
MaxPat == 4
TextJobs ==
  [alg : {"kmp", "kmp_all", "boyer_moore", "boyer_moore_all", "rabin_karp", "suffix_trie"},
   text : Arrays({1, 2}, 0, MaxText), pat : Arrays({1, 2}, 0, MaxPat)]

Weights == {-1, 2, 60}
Edges(n) == [from : 0..(n - 1), to : 0..(n - 1), w : Weights]
Graphs3 == {[n |-> 3, edges |-> s] : s \in UNION {[1..k -> Edges(3)] : k \in 0..2}}
\* Four vertices, and the edges along which distances are mended late.
Chains == {[n |-> 4, edges |-> <<[from |-> 0, to |-> 1, w |-> a], [from |-> 0, to |-> 2, w |-> b],
             [from |-> 2, to |-> 1, w |-> c], [from |-> 1, to |-> 3, w |-> d],
             [from |-> 3, to |-> e, w |-> 2]>>] :
             a \in Weights, b \in Weights, c \in Weights, d \in Weights, e \in 0..3}
GraphJobs ==
  [alg : {"breadth_first", "depth_first", "graph_bfs", "graph_dfs", "dijkstra", "bellman_ford",
          "floyd_warshall"}, g : Graphs3 \cup Chains]
Columns == 4
Rows == 3
From == <<0, 0>>
To == <<3, 0>>
GridJobs == [walls : SUBSET ((0..(Columns - 1)) \X (0..(Rows - 1))), maxplen : {3, 9}]

MtKeys == {1, 2}
MtArrays == {Tagged(f) : f \in [0..3 -> MtKeys]}
Threads == 1..4

-----------------------------------------------------------------------------
NoArray == [i \in {} |-> 0]
NoThreads == given = NoArray /\ base = NoArray /\ tmp = NoArray /\ task = NoTask(0)
NoKernels == hw = {} /\ table = Sm!Unset /\ call = Sm!NoCall /\ result = 0

JobInit ==
  \/ /\ "sort" \in Kinds /\ NoThreads /\ out = <<>>
     /\ \E j \in SortJobs : job = [kind |-> "sort", alg |-> j.alg, a |-> Tagged(j.a), mem |-> j.mem]
  \/ /\ "long" \in Kinds /\ NoThreads /\ out = <<>>
     /\ job = [kind |-> "sort", alg |-> "quick_sort", mem |-> TRUE,
               a |-> Tagged([i \in 0..QuickCutoff |-> i])]
  \/ /\ "select" \in Kinds /\ NoThreads /\ out = <<>>
     /\ \E a \in Arrays(SortKeys, 1, MaxSort) : \E k \in DOMAIN a :
          job = [kind |-> "select", a |-> Tagged(a), k |-> k]
  \/ /\ "search" \in Kinds /\ NoThreads
     /\ \E j \in SearchJobs :
          /\ job = [kind |-> "search", alg |-> j.alg, a |-> j.a, key |-> j.key, limit |-> j.limit]
          /\ out = <<Ar!Begin(j.a, j.key, j.limit)>>
  \/ /\ "text" \in Kinds /\ NoThreads /\ out = <<>>
     /\ \E j \in TextJobs : job = [kind |-> "text", alg |-> j.alg, text |-> j.text, pat |-> j.pat]
  \/ /\ "graph" \in Kinds /\ NoThreads /\ out = <<>>
     /\ \E j \in GraphJobs : job = [kind |-> "graph", alg |-> j.alg, g |-> j.g]
  \/ /\ "grid" \in Kinds /\ NoThreads /\ out = <<>>
     /\ \E j \in GridJobs :
          job = [kind |-> "grid", m |-> [w |-> Columns, h |-> Rows, walls |-> j.walls], maxplen |-> j.maxplen]
  \/ /\ "threads" \in Kinds /\ out = <<>>
     /\ \E a \in MtArrays, t \in Threads :
          job = [kind |-> "threads", threads |-> t] /\ merge_sort_mt(a, t)

Init ==
  \/ JobInit /\ NoKernels
  \/ "kernels" \in Kinds /\ job = [kind |-> "kernels"] /\ out = <<>> /\ NoThreads /\ Sm!Init

Fresh(kind) == job.kind = kind /\ out = <<>> /\ UNCHANGED <<job, given, base, tmp, task, hw, table, call, result>>

Sort == Fresh("sort") /\ \E r \in So!RunSort(job.alg, job.a, job.mem) : out' = <<r>>
Select == Fresh("select") /\ out' = <<So!quickselect(job.a, job.k)>>

SearchIterates ==
  /\ job.kind = "search" /\ out[1].res = Ar!Running
  /\ out' = <<Ar!SearchStep(job.alg, out[1])>>
  /\ UNCHANGED <<job, given, base, tmp, task, hw, table, call, result>>

Match ==
  LET t == Tx!suffix_trie_build(job.text)
  IN /\ Fresh("text")
     /\ out' = <<CASE job.alg = "kmp" -> Tx!kmp(job.text, job.pat)
                   [] job.alg = "kmp_all" -> Tx!kmp_all(job.text, job.pat)
                   [] job.alg = "boyer_moore" -> Tx!boyer_moore(job.text, job.pat)
                   [] job.alg = "boyer_moore_all" -> Tx!boyer_moore_all(job.text, job.pat)
                   [] job.alg = "rabin_karp" -> Tx!rabin_karp(job.text, job.pat)
                   [] job.alg = "suffix_trie" ->
                        [has |-> Tx!suffix_trie_contains(t, job.pat),
                         count |-> Tx!suffix_trie_count(t, job.text, job.pat),
                         all |-> Tx!suffix_trie_find_all(t, job.pat)]>>

Walk ==
  /\ Fresh("graph")
  /\ out' = <<CASE job.alg = "breadth_first" -> Gr!breadth_first_search(job.g, 0)
                [] job.alg = "depth_first" -> Gr!depth_first_search(job.g, 0)
                [] job.alg = "graph_bfs" -> Gr!graph_bfs(job.g, 0)
                [] job.alg = "graph_dfs" -> Gr!graph_dfs(job.g, 0)
                [] job.alg = "dijkstra" -> Gr!dijkstra(job.g, 0)
                [] job.alg = "bellman_ford" -> Gr!bellman_ford(job.g, 0)
                [] job.alg = "floyd_warshall" -> Gr!floyd_warshall(job.g)>>

FindPath == Fresh("grid") /\ out' = <<Gr!a_star(job.m, From, To, job.maxplen)>>

SortThreads == job.kind = "threads" /\ MtNext /\ UNCHANGED <<job, out, hw, table, call, result>>

UseKernels == job.kind = "kernels" /\ Sm!Next /\ UNCHANGED <<job, out, given, base, tmp, task>>

Next ==
  \/ Sort \/ Select \/ SearchIterates \/ Match \/ Walk \/ FindPath \/ SortThreads \/ UseKernels
\* A thread that can run runs.
Spec == Init /\ [][Next]_vars /\ WF_vars(SearchIterates) /\ WF_vars(SortThreads)

-----------------------------------------------------------------------------
(* What a sort and a selection promise. *)

Keys(a) == {a[i][1] : i \in DOMAIN a}

\* Where the code does not sort: the partition of scl_sort_quick_sort compares
\* with the place the pivot was moved from; the last digit of radix_sort is
\* taken unsigned, so that negative keys come last.
Misplaces(alg, a) ==
  \/ alg = "quick_sort" /\ So!Size(a) > QuickCutoff
  \/ alg = "counting_sort" /\ So!Size(a) > QuickCutoff /\ So!FallsBack(a)
  \/ alg \in Radixed /\ \E x, y \in Keys(a) : x < 0 /\ y >= 0
\* The errors, and the span of keys that overflows the int.
Fails(r, alg, a, mem) ==
  \/ r = So!NoMem /\ alg \in So!Buffered /\ (~mem \/ So!Span(a) >= IntLimit)
  \/ r = So!TooBig /\ alg = "sort_counting" /\ So!Span(a) = 2 * IntLimit - 1
  \/ r = So!Outside /\ alg = "counting_sort" /\ So!Span(a) = 2 * IntLimit - 1
  \/ r = So!NotImplemented /\ alg = "sort_bucket"
\* scl_sort_quick_sort gives up between two ranges.
Stops(r, alg, a, mem) ==
  alg = "quick_sort" /\ ~mem /\ DOMAIN r = {1, 2} /\ r = So!Halted(r[2]) /\ SameKeys(r[2], a)

\* Every sort returns its elements in order, equal ones as they were if it is
\* one of the stable sorts, or an error and the array as it was, where quick_sort
\* without memory may have moved elements but lost none; the exceptions are
\* Misplaces, and the widest span of keys, for which counting_sort writes outside
\* its counters (Fails).  quickselect returns an element that would be at place k
\* (libs/sort, scl_quickselect.c).
SortsSort ==
  /\ (job.kind = "sort" /\ out # <<>>) =>
       LET r == out[1]
       IN Fails(r, job.alg, job.a, job.mem)
          \/ Stops(r, job.alg, job.a, job.mem)
          \/ /\ SameKeys(r, job.a)
             /\ Misplaces(job.alg, job.a) \/ IsSorted(r)
             /\ (job.alg \in So!StableSorts /\ ~Misplaces(job.alg, job.a)) => IsStable(r)
  /\ (job.kind = "select" /\ out # <<>>) =>
       LET k == out[1][1]
       IN /\ Cardinality({i \in DOMAIN job.a : job.a[i][1] < k}) <= job.k
          /\ Cardinality({i \in DOMAIN job.a : job.a[i][1] <= k}) > job.k

\* scl_sort_quick_sort sorts an array that is just too long for its insertion
\* sort (scl_quick.c); TLC shows that it does not.
QuickSorts == (job.kind = "sort" /\ job.alg = "quick_sort" /\ out # <<>>) => IsSorted(out[1])

-----------------------------------------------------------------------------
(* What a search promises. *)

\* All elements of the range equal: the interpolation has no slope, and the
\* search gives up before it looks at them.
NoSlope(s) ==
  LET hi == IF s.phase = "first" THEN Ar!Count(s) - 1 ELSE s.hi
  IN job.alg = "interpolation_search" /\ hi > s.lo /\ s.a[hi] = s.a[s.lo]

\* The Fibonacci numbers ran out one too early: with fib1 zero the last element
\* of the range is not looked at.
RunsOut(s) == job.alg = "fibonacci_search" /\ s.x = 0

\* A search that reports a place reports one that holds the key, one that
\* reports none was given an array without it, and only a missing string makes
\* it refuse (libs/search).
SearchRight ==
  (job.kind = "search" /\ out[1].res # Ar!Running) =>
    LET s == out[1]
    IN CASE s.res = Ar!Hit -> s.a[s.at] = s.key
         [] s.res = Ar!NotFound ->
              s.key \notin {s.a[i] : i \in {j \in DOMAIN s.a : j < s.limit}} \/ NoSlope(s) \/ RunsOut(s)
         [] s.res = Ar!Invalid -> Ar!Hole \in {s.a[i] : i \in DOMAIN s.a}

\* hi = (mid == 0) ? 0 : mid - 1 keeps lo <= hi when mid is 0: with a key
\* smaller than the first element these never leave their last loop.
Hangs ==
  /\ job.alg \in {"exponential_search", "exponential_string", "unbounded_binary_search",
                  "ternary_search"}
  /\ job.key < job.a[0]

\* Every call returns: each search leaves its loop and all threads of the merge
\* sort are joined.
EveryCallReturns ==
  <>(\/ job.kind = "search" /\ (Hangs \/ out[1].res # Ar!Running)
     \/ job.kind = "threads" /\ MtDone
     \/ job.kind \notin {"search", "threads"})

-----------------------------------------------------------------------------
(* What the matchers promise. *)

Occurs(text, pat) ==
  {i \in 0..(Tx!Length(text) - Tx!Length(pat)) : \A j \in DOMAIN pat : text[i + j] = pat[j]}
OnlyFirst == {"kmp", "boyer_moore", "rabin_karp"}

\* A matcher reports the occurrences of the pattern, in order and without
\* gaps, or the first of them; the trie counts and lists them.  Boyer-Moore
\* with a pattern of one character writes outside its tables instead.
MatchesAll ==
  (job.kind = "text" /\ out # <<>>) =>
    LET r == out[1]
        occ == Occurs(job.text, job.pat)
        n == Tx!Length(job.pat)
    IN IF job.alg = "suffix_trie"
       THEN n > 0 => (r.has <=> occ # {}) /\ r.count = Cardinality(occ) /\ r.all = occ
       ELSE CASE r.err = Tx!Fine ->
                   /\ {r.hits[i] : i \in DOMAIN r.hits}
                        = IF job.alg \in OnlyFirst
                          THEN {i \in occ : \A j \in occ : i <= j} ELSE occ
                   /\ \A i, j \in DOMAIN r.hits : i < j => r.hits[i] < r.hits[j]
              [] r.err = Tx!BeyondTables -> n = 1 /\ job.alg \in {"boyer_moore", "boyer_moore_all"}
              [] OTHER -> n = 0 \/ occ = {}

-----------------------------------------------------------------------------
(* What the graph searches promise. *)

EdgeSet(g) == {g.edges[i] : i \in DOMAIN g.edges}
\* Walks of up to n edges, and where they lead.
Walks(g) ==
  {p \in UNION {[1..k -> DOMAIN g.edges] : k \in 1..g.n} :
     \A i \in 1..(Len(p) - 1) : g.edges[p[i]].to = g.edges[p[i + 1]].from}
Start(g, p) == g.edges[p[1]].from
End(g, p) == g.edges[p[Len(p)]].to
Weight(g, p) == FoldFunction(LAMBDA i, sum : sum + g.edges[i].w, 0, p)
\* No edge makes a distance shorter, and each is the weight of some walk.
Shortest(g, walks, start, d) ==
  /\ d[start] = 0
  /\ \A e \in EdgeSet(g) : d[e.from] = INT64_MAX \/ d[e.from] + e.w >= d[e.to]
  /\ \A v \in Gr!Vertices(g) \ {start} : d[v] # INT64_MAX =>
       \E p \in walks : Start(g, p) = start /\ End(g, p) = v /\ Weight(g, p) = d[v]
Reached(g, walks, start) ==
  {start} \cup {End(g, p) : p \in {q \in walks : Start(g, q) = start}}
NegativeCycle(g, walks, from) ==
  \E p \in walks : Start(g, p) \in from /\ End(g, p) = Start(g, p) /\ Weight(g, p) < 0
\* dist[v] is the last step of a path from prev[v].
PrevWitness(g, s) ==
  \A v \in Gr!Vertices(g) : s.prev[v] # -1 =>
    \E e \in EdgeSet(g) : e.from = s.prev[v] /\ e.to = v /\ s.dist[e.from] + e.w = s.dist[v]
\* The matrix of Floyd-Warshall keeps the last of the edges between two
\* vertices and lets an edge from a vertex to itself replace the 0.
Replaced(g) ==
  \E e, f \in EdgeSet(g) : e.from = f.from /\ e.to = f.to /\ (e # f \/ e.from = e.to)

\* A traversal visits what can be reached, each vertex once, and never has more
\* than n waiting; a search that succeeds has the shortest distances and a
\* last step for each, Dijkstra refuses only a graph with a negative weight,
\* the others exactly one with a negative cycle they can meet.
DistancesRight ==
  (job.kind = "graph" /\ out # <<>>) =>
    LET r == out[1]
        g == job.g
        walks == Walks(g)
        reached == Reached(g, walks, 0)
    IN CASE job.alg \in {"breadth_first", "depth_first", "graph_bfs", "graph_dfs"} ->
              /\ {r.order[i] : i \in DOMAIN r.order} = reached
              /\ Len(r.order) = Cardinality(reached)
              /\ r.peak <= g.n
         [] job.alg = "dijkstra" ->
              IF r.ok THEN Shortest(g, walks, 0, r.s.dist) /\ PrevWitness(g, r.s)
              ELSE \E e \in EdgeSet(g) : e.w < 0 /\ e.from \in reached
         [] job.alg = "bellman_ford" ->
              /\ r.ok <=> ~NegativeCycle(g, walks, reached)
              /\ r.ok => Shortest(g, walks, 0, r.s.dist) /\ PrevWitness(g, r.s)
         [] job.alg = "floyd_warshall" ->
              Replaced(g) \/
                /\ r.ok <=> ~NegativeCycle(g, walks, Gr!Vertices(g))
                /\ r.ok => \A v \in Gr!Vertices(g) : Shortest(g, walks, v, [u \in Gr!Vertices(g) |-> r.dist[<<v, u>>]])

Steps(m, p) == {q \in Gr!Cells(m) \ m.walls : Gr!heuristic(p, q) = 1}
RECURSIVE Ball(_, _, _)
Ball(m, p, k) == IF k = 0 THEN {p} ELSE UNION {Steps(m, q) \cup {q} : q \in Ball(m, p, k - 1)}
Far == Columns * Rows
\* The path A* returns is one of the shortest: it ends at the goal, each cell is
\* next to the one before, and it is the end of such a path when the caller's
\* arrays are too short.
PathShortest ==
  (job.kind = "grid" /\ out # <<>>) =>
    LET r == out[1]
        open == From \notin job.m.walls /\ To \notin job.m.walls
        len == CHOOSE k \in 1..Far : To \in Ball(job.m, From, k) /\ To \notin Ball(job.m, From, k - 1)
    IN /\ r.err = "invalid" <=> ~open
       /\ open => (r.err = "not found" <=> To \notin Ball(job.m, From, Far))
       /\ r.err = "ok" =>
            /\ Len(r.path) = Ar!AtMost(len + 1, job.maxplen)
            /\ r.path[Len(r.path)] = To
            /\ \A i \in 1..(Len(r.path) - 1) : r.path[i + 1] \in Steps(job.m, r.path[i])

\* Every search of libs/search reports what a look at all of its input would.
SearchesRight == SearchRight /\ MatchesAll /\ DistancesRight /\ PathShortest

-----------------------------------------------------------------------------
(* What the kernel table promises (Simd). *)

\* On every processor the slots of the table are filled, with kernels that lack
\* none of the instruction sets scl_ml_simd_init_impl asks for; those that can run
\* compute what the scalar loop does, for lengths on both sides of the vector
\* width, but for the kernels and lanes that Simd lists; topk picks the smallest.
KernelsAgree == Sm!SlotsRunnable /\ Sm!KernelsAgree /\ Sm!TopkChoosesSmallest
=============================================================================

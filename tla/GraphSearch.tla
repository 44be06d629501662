---------------------------- MODULE GraphSearch ----------------------------
(***************************************************************************)
(* libs/search: traversals and shortest paths, as functions of the graph.  *)
(* A graph is its vertices 0..n-1 and the edges in the order they were     *)
(* added; a vertex's chain has its latest edge first (scl_graph_add_edge). *)
(***************************************************************************)
EXTENDS Integers, Sequences, FiniteSets, SequencesExt

CONSTANT INT64_MAX    \* no distance: the largest one there is

Vertices(g) == 0..(g.n - 1)
Chain(g, v) == Reverse(SelectSeq(g.edges, LAMBDA e : e.from = v))
\* __builtin_add_overflow
AddOverflows(x, y) == x + y \notin (-INT64_MAX - 1)..INT64_MAX

-----------------------------------------------------------------------------
\* Marks a vertex when it is put in the queue or on the stack, which has room
\* for n of them; peak is the most that were in it at once.
Enqueue(s, e) ==
  IF e.to \in s.visited THEN s
  ELSE [s EXCEPT !.visited = @ \cup {e.to}, !.waiting = Append(@, e.to)]
RECURSIVE Traverse(_, _, _)
Traverse(g, s, lifo) ==
  LET v == IF lifo THEN Last(s.waiting) ELSE Head(s.waiting)
      left == IF lifo THEN Front(s.waiting) ELSE Tail(s.waiting)
      t == FoldLeft(Enqueue, [s EXCEPT !.waiting = left, !.order = Append(@, v)], Chain(g, v))
      peak == IF Len(t.waiting) > t.peak THEN Len(t.waiting) ELSE t.peak
  IN IF s.waiting = <<>> THEN s ELSE Traverse(g, [t EXCEPT !.peak = peak], lifo)
From0(start) == [visited |-> {start}, waiting |-> <<start>>, order |-> <<>>, peak |-> 1]
breadth_first_search(g, start) == Traverse(g, From0(start), FALSE)
depth_first_search(g, start) == Traverse(g, From0(start), TRUE)
\* scl_graph_bfs and scl_graph_dfs call visit(v) for each vertex taken out.
graph_bfs(g, start) == Traverse(g, From0(start), FALSE)
graph_dfs(g, start) == Traverse(g, From0(start), TRUE)

-----------------------------------------------------------------------------
(* A binary heap of records with a priority d; h[1] is the top. *)
SwapIn(h, i, j) == [h EXCEPT ![i] = h[j], ![j] = h[i]]
RECURSIVE heap_sift_up(_, _), heap_sift_down(_, _)
heap_sift_up(h, i) ==
  IF i = 1 \/ h[i \div 2].d <= h[i].d THEN h ELSE heap_sift_up(SwapIn(h, i, i \div 2), i \div 2)
heap_sift_down(h, i) ==
  LET smaller(m, c) == IF c <= Len(h) /\ h[c].d < h[m].d THEN c ELSE m
      m == smaller(smaller(i, 2 * i), 2 * i + 1)
  IN IF m = i THEN h ELSE heap_sift_down(SwapIn(h, i, m), m)
\* heap[0] = heap[--hn], and a push that a full heap drops.
PopTop(h) == IF Len(h) = 1 THEN <<>> ELSE heap_sift_down(<<Last(h)>> \o Tail(Front(h)), 1)
PushBelow(h, e, cap) == IF Len(h) < cap THEN heap_sift_up(Append(h, e), Len(h) + 1) ELSE h

Unreached(g, start) ==
  [dist |-> [v \in Vertices(g) |-> IF v = start THEN 0 ELSE INT64_MAX],
   prev |-> [v \in Vertices(g) |-> -1]]
Shorter(s, u, e) ==
  ~AddOverflows(s.dist[u], e.w) /\ s.dist[u] + e.w < s.dist[e.to]
Relaxed(s, u, e) ==
  [s EXCEPT !.dist[e.to] = s.dist[u] + e.w, !.prev[e.to] = u]

\* A negative weight met on the way ends it.
RECURSIVE DijkstraLoop(_, _, _)
DijkstraLoop(g, s, heap) ==
  LET top == heap[1]
      edges == Chain(g, top.v)
      relax(t, e) ==
        IF ~t.ok \/ e.w < 0 THEN [t EXCEPT !.ok = FALSE]
        ELSE IF ~Shorter(t.s, top.v, e) THEN t
        ELSE [t EXCEPT !.s = Relaxed(t.s, top.v, e),
                       !.heap = PushBelow(@, [d |-> t.s.dist[top.v] + e.w, v |-> e.to],
                                          Len(g.edges) + 1)]
      t == FoldLeft(relax, [s |-> s, heap |-> PopTop(heap), ok |-> TRUE], edges)
  IN IF heap = <<>> THEN [s |-> s, ok |-> TRUE]
     ELSE IF top.d > s.dist[top.v] THEN DijkstraLoop(g, s, PopTop(heap))   \* stale
     ELSE IF ~t.ok THEN [s |-> t.s, ok |-> FALSE]
     ELSE DijkstraLoop(g, t.s, t.heap)
dijkstra(g, start) == DijkstraLoop(g, Unreached(g, start), <<[d |-> 0, v |-> start]>>)

\* One round over every edge, vertex by vertex.
Round(g, s) ==
  LET relax(t, e) == IF Shorter(t, e.from, e) THEN Relaxed(t, e.from, e) ELSE t
      vertex(t, k) == IF t.dist[k - 1] = INT64_MAX THEN t ELSE FoldLeft(relax, t, Chain(g, k - 1))
  IN FoldLeft(vertex, s, [k \in 1..g.n |-> k])
RECURSIVE BellmanRounds(_, _, _)
BellmanRounds(g, s, iter) ==
  IF iter = g.n - 1 \/ Round(g, s).dist = s.dist THEN s ELSE BellmanRounds(g, Round(g, s), iter + 1)
bellman_ford(g, start) ==
  LET s == BellmanRounds(g, Unreached(g, start), 0)
      shorter(e) == s.dist[e.from] # INT64_MAX /\ Shorter(s, e.from, e)
  IN [s |-> s, ok |-> ~\E i \in DOMAIN g.edges : shorter(g.edges[i])]

\* Takes the edges themselves: a later one replaces an earlier one.
floyd_warshall(g) ==
  LET V == Vertices(g)
      clear == [p \in V \X V |-> IF p[1] = p[2] THEN 0 ELSE INT64_MAX]
      enter(d, e) == [d EXCEPT ![<<e.from, e.to>>] = e.w]
      \* x is dist[i][k], read once before the loop over j
      via(d, x, k, i, j) ==
        LET y == d[<<k, j>>]
        IN IF x = INT64_MAX \/ y = INT64_MAX \/ AddOverflows(x, y) \/ x + y >= d[<<i, j>>] THEN d
           ELSE [d EXCEPT ![<<i, j>>] = x + y]
      row(d, x, k, i) == FoldLeft(LAMBDA e, j : via(e, x, k, i, j - 1), d, [j \in 1..g.n |-> j])
      plane(d, k) == FoldLeft(LAMBDA e, i : row(e, e[<<i - 1, k>>], k, i - 1), d, [i \in 1..g.n |-> i])
      dist == FoldLeft(LAMBDA d, k : plane(d, k - 1), FoldLeft(enter, clear, g.edges),
                       [k \in 1..g.n |-> k])
  IN [dist |-> dist, ok |-> \A v \in V : dist[<<v, v>>] >= 0]

-----------------------------------------------------------------------------
(* A grid: w columns, h rows and the cells that are walls. *)
heuristic(p, q) ==
  LET abs(x) == IF x < 0 THEN -x ELSE x IN abs(p[1] - q[1]) + abs(p[2] - q[2])
Cells(m) == (0..(m.w - 1)) \X (0..(m.h - 1))
Around(p) == <<<<p[1] + 1, p[2]>>, <<p[1] - 1, p[2]>>, <<p[1], p[2] + 1>>, <<p[1], p[2] - 1>>>>
Nowhere == <<-1, -1>>
NotThere == [err |-> "not found", path |-> <<>>]

RECURSIVE PathBack(_, _, _)
PathBack(came, p, left) ==
  IF p = Nowhere \/ left = 0 THEN <<>> ELSE Append(PathBack(came, came[p], left - 1), p)

RECURSIVE AStarLoop(_, _, _, _)
AStarLoop(m, goal, s, maxplen) ==
  LET cur == s.open[1]
      base == [s EXCEPT !.open = PopTop(@), !.closed = @ \cup {cur.p}]
      visit(t, p) ==
        IF p \notin Cells(m) \ m.walls \/ p \in t.closed \/ cur.g + 1 >= t.g[p] THEN t
        ELSE [t EXCEPT !.came[p] = cur.p, !.g[p] = cur.g + 1,
                       !.open = PushBelow(@, [p |-> p, g |-> cur.g + 1,
                                              d |-> cur.g + 1 + heuristic(p, goal)],
                                          4 * m.w * m.h + 1)]
  IN IF s.open = <<>> THEN NotThere
     ELSE IF cur.p \in s.closed THEN AStarLoop(m, goal, [s EXCEPT !.open = PopTop(@)], maxplen)
     ELSE IF cur.p = goal THEN [err |-> "ok", path |-> PathBack(s.came, goal, maxplen)]
     ELSE AStarLoop(m, goal, FoldLeft(visit, base, Around(cur.p)), maxplen)
a_star(m, start, goal, maxplen) ==
  IF start \in m.walls \/ goal \in m.walls THEN [err |-> "invalid", path |-> <<>>]
  ELSE AStarLoop(m, goal,
         [g |-> [p \in Cells(m) |-> IF p = start THEN 0 ELSE INT64_MAX],
          came |-> [p \in Cells(m) |-> Nowhere], closed |-> {},
          open |-> <<[p |-> start, g |-> 0, d |-> heuristic(start, goal)]>>], maxplen)
=============================================================================

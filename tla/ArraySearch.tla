---------------------------- MODULE ArraySearch ----------------------------
(***************************************************************************)
(* libs/search: the searches of an array, one loop iteration per step.  s  *)
(* is the state of a search: the array a on 0..n-1, the key, the locals of *)
(* the function, and its result.  A string is an integer too (strcmp       *)
(* orders them alike), and a missing one is Hole.                          *)
(***************************************************************************)
EXTENDS Integers, FiniteSets

Running == "running"
Hit == "found"
NotFound == "not found"
Invalid == "invalid"
Hole == 99

Count(s) == Cardinality(DOMAIN s.a)
Found(s, i) == [s EXCEPT !.res = Hit, !.at = i]
Ends(s, r) == [s EXCEPT !.res = r]
Half(lo, hi) == lo + (hi - lo) \div 2
\* (i == 0) ? 0 : i - 1
Before(i) == IF i = 0 THEN 0 ELSE i - 1
AtMost(i, j) == IF i < j THEN i ELSE j

\* The state at the head of each function's first loop.
Begin(a, key, limit) ==
  [a |-> a, key |-> key, limit |-> limit, res |-> Running, at |-> 0, phase |-> "first",
   lo |-> 0, hi |-> Cardinality(DOMAIN a), x |-> 1, y |-> 0]

-----------------------------------------------------------------------------
linear_search(s) ==
  IF s.lo = Count(s) THEN Ends(s, NotFound)
  ELSE IF s.a[s.lo] = s.key THEN Found(s, s.lo) ELSE [s EXCEPT !.lo = @ + 1]
\* Skips a missing string.
linear_string(s) == linear_search(s)
\* A copy with the key behind the last element: the scan needs no bound.
sentinel_linear_search(s) ==
  LET copy == [i \in 0..Count(s) |-> IF i < Count(s) THEN s.a[i] ELSE s.key]
  IN IF copy[s.lo] # s.key THEN [s EXCEPT !.lo = @ + 1]
     ELSE IF s.lo < Count(s) THEN Found(s, s.lo) ELSE Ends(s, NotFound)

binary_search_BelowMid(s) ==
  LET mid == Half(s.lo, s.hi)
  IN IF s.lo >= s.hi THEN Ends(s, NotFound)
     ELSE IF s.a[mid] = s.key THEN Found(s, mid)
     ELSE IF s.a[mid] < s.key THEN [s EXCEPT !.lo = mid + 1] ELSE [s EXCEPT !.hi = Before(mid)]
binary_search_KeepsMid(s) ==
  LET mid == Half(s.lo, s.hi)
  IN IF s.lo >= s.hi THEN Ends(s, NotFound)
     ELSE IF s.a[mid] = s.key THEN Found(s, mid)
     ELSE IF s.a[mid] < s.key THEN [s EXCEPT !.lo = mid] ELSE [s EXCEPT !.hi = mid]
binary_search(s) ==
  LET mid == Half(s.lo, s.hi)
  IN IF s.lo >= s.hi THEN Ends(s, NotFound)
     ELSE IF s.a[mid] = s.key THEN Found(s, mid)
     ELSE IF s.a[mid] < s.key THEN [s EXCEPT !.lo = mid + 1] ELSE [s EXCEPT !.hi = mid]
binary_string(s) ==
  IF s.lo < s.hi /\ s.a[Half(s.lo, s.hi)] = Hole THEN Ends(s, Invalid) ELSE binary_search(s)

-----------------------------------------------------------------------------
\* hi is the last index here.
binary_search_range(s) ==
  LET mid == Half(s.lo, s.hi)
  IN IF s.lo > s.hi THEN Ends(s, NotFound)
     ELSE IF s.a[mid] = s.key THEN Found(s, mid)
     ELSE IF s.a[mid] < s.key THEN [s EXCEPT !.lo = mid + 1] ELSE [s EXCEPT !.hi = Before(mid)]

\* x is the bound that doubles.
exponential_search(s) ==
  LET range(hi) == [s EXCEPT !.phase = "range", !.lo = s.x \div 2, !.hi = hi]
  IN CASE s.phase = "first" ->
            IF s.a[0] = s.key THEN Found(s, 0)
            ELSE IF Count(s) = 1 THEN Ends(s, NotFound) ELSE [s EXCEPT !.phase = "grow"]
       [] s.phase = "grow" ->
            IF s.x >= Count(s) THEN range(Count(s) - 1)
            ELSE IF s.a[s.x] >= s.key THEN range(s.x) ELSE [s EXCEPT !.x = 2 * @]
       [] s.phase = "range" -> binary_search_range(s)

Probe(s) ==
  CASE s.phase = "first" -> 0
    [] s.phase = "grow" -> IF s.x < Count(s) THEN s.x ELSE 0
    [] s.phase = "range" -> IF s.lo > s.hi THEN 0 ELSE Half(s.lo, s.hi)
exponential_string(s) == IF s.a[Probe(s)] = Hole THEN Ends(s, Invalid) ELSE exponential_search(s)

\* The getter has no element from Count(s) on; limit is max_count.
unbounded_binary_search(s) ==
  LET absent(i) == i >= Count(s)
      mid == Half(s.lo, s.hi)
      last == LET h == AtMost(s.x, s.limit - 1)
              IN [s EXCEPT !.phase = "range", !.hi = IF h < s.lo THEN s.lo ELSE h]
  IN CASE s.phase = "first" ->
            IF s.a[0] = s.key THEN Found(s, 0) ELSE [s EXCEPT !.phase = "grow"]
       [] s.phase = "grow" ->
            IF s.x >= s.limit \/ absent(s.x) THEN last
            ELSE IF s.a[s.x] = s.key THEN Found(s, s.x)
            ELSE IF s.a[s.x] > s.key THEN last ELSE [s EXCEPT !.lo = s.x, !.x = 2 * @]
       [] s.phase = "range" ->
            IF s.lo <= s.hi /\ absent(mid) THEN [s EXCEPT !.hi = Before(mid)]
            ELSE binary_search_range(s)

ternary_search(s) ==
  LET hi == IF s.phase = "first" THEN Count(s) - 1 ELSE s.hi
      mid1 == s.lo + (hi - s.lo) \div 3
      mid2 == hi - (hi - s.lo) \div 3
      go(lo, h) == [s EXCEPT !.phase = "loop", !.lo = lo, !.hi = h]
  IN IF s.lo > hi THEN Ends(s, NotFound)
     ELSE IF s.a[mid1] = s.key THEN Found(s, mid1)
     ELSE IF s.a[mid2] = s.key THEN Found(s, mid2)
     ELSE IF s.a[mid1] < s.key /\ s.a[mid2] > s.key THEN go(mid1 + 1, Before(mid2))
     ELSE IF s.a[mid2] < s.key THEN go(mid2 + 1, hi)
     ELSE go(s.lo, Before(mid1))

\* x, y and hi are fib1, fib2 and fib; lo is the offset.
fibonacci_search(s) ==
  LET i == AtMost(s.lo + s.y, Count(s) - 1)
  IN CASE s.phase = "first" -> [s EXCEPT !.phase = "grow", !.hi = 1]
       [] s.phase = "grow" ->
            IF s.hi < Count(s) THEN [s EXCEPT !.y = s.x, !.x = s.hi, !.hi = s.hi + s.x]
            ELSE [s EXCEPT !.phase = "loop"]
       [] s.phase = "loop" ->
            IF s.hi <= 1
            THEN IF s.x # 0 /\ s.lo < Count(s) /\ s.a[s.lo] = s.key THEN Found(s, s.lo)
                 ELSE Ends(s, NotFound)
            ELSE IF s.a[i] = s.key THEN Found(s, i)
            ELSE IF s.a[i] < s.key
            THEN [s EXCEPT !.hi = s.x, !.x = s.y, !.y = IF s.x > s.y THEN s.x - s.y ELSE 0,
                           !.lo = i + 1]
            ELSE [s EXCEPT !.hi = s.y, !.x = s.x - s.y, !.y = s.y - (s.x - s.y)]

\* The fraction is clamped to [0, 1] and pos to [lo, hi].
interpolation_search(s) ==
  LET hi == IF s.phase = "first" THEN Count(s) - 1 ELSE s.hi
      low == s.a[s.lo]
      pos == s.lo + ((s.key - low) * (hi - s.lo)) \div (s.a[hi] - low)
      go(lo, h) == [s EXCEPT !.phase = "loop", !.lo = lo, !.hi = h]
  IN IF s.lo > hi \/ s.key < low \/ s.key > s.a[hi] THEN Ends(s, NotFound)
     ELSE IF s.lo = hi THEN IF low = s.key THEN Found(s, s.lo) ELSE Ends(s, NotFound)
     ELSE IF s.a[hi] = low THEN Ends(s, NotFound)
     ELSE IF s.a[pos] = s.key THEN Found(s, pos)
     ELSE IF s.a[pos] < s.key THEN go(pos + 1, hi) ELSE go(s.lo, Before(pos))

\* lo is prev; a block is scanned when its last element is not smaller.
jump_search(s) ==
  LET step == CHOOSE r \in 1..Count(s) : r * r <= Count(s) /\ (r + 1) * (r + 1) > Count(s)
      end == AtMost(s.lo + step, Count(s))
      hits == {i \in s.lo..(end - 1) : s.a[i] = s.key}
  IN IF s.a[end - 1] < s.key
     THEN IF end = Count(s) THEN Ends(s, NotFound) ELSE [s EXCEPT !.lo = end]
     ELSE IF hits = {} THEN Ends(s, NotFound)
     ELSE Found(s, CHOOSE i \in hits : \A j \in hits : i <= j)

\* lo is pos, hi counts the bits left.
meta_binary_search(s) ==
  LET bits == CHOOSE b \in 1..Count(s) : 2^(b - 1) <= Count(s) /\ 2^b > Count(s)
      b == IF s.phase = "first" THEN bits ELSE s.hi
      mid == s.lo + 2^(b - 1)
      go(pos) == [s EXCEPT !.phase = "loop", !.lo = pos, !.hi = b - 1]
  IN IF b = 0 THEN IF s.a[s.lo] = s.key THEN Found(s, s.lo) ELSE Ends(s, NotFound)
     ELSE go(IF mid < Count(s) /\ s.a[mid] <= s.key THEN mid ELSE s.lo)

-----------------------------------------------------------------------------
OnStrings == {"linear_string", "binary_string", "exponential_string"}
SearchAlgs == OnStrings \cup {"linear_search", "sentinel_linear_search", "binary_search",
  "exponential_search", "unbounded_binary_search", "ternary_search", "fibonacci_search",
  "interpolation_search", "jump_search", "meta_binary_search"}

SearchStep(alg, s) ==
  CASE alg = "linear_search" -> linear_search(s) [] alg = "linear_string" -> linear_string(s)
    [] alg = "sentinel_linear_search" -> sentinel_linear_search(s)
    [] alg = "binary_search" -> binary_search(s) [] alg = "binary_string" -> binary_string(s)
    [] alg = "exponential_search" -> exponential_search(s)
    [] alg = "exponential_string" -> exponential_string(s)
    [] alg = "unbounded_binary_search" -> unbounded_binary_search(s)
    [] alg = "ternary_search" -> ternary_search(s)
    [] alg = "fibonacci_search" -> fibonacci_search(s)
    [] alg = "interpolation_search" -> interpolation_search(s)
    [] alg = "jump_search" -> jump_search(s)
    [] alg = "meta_binary_search" -> meta_binary_search(s)
=============================================================================

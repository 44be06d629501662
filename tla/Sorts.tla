------------------------------- MODULE Sorts -------------------------------
(***************************************************************************)
(* libs/sort: the sorts as functions of the array.  An array is a function *)
(* on 0..n-1; an element is <<key, tag>>, the comparison looks at the key  *)
(* only, and the tag tells equal elements apart.  libs/sort/scl_sort.c     *)
(* repeats most of the sorts of the directories beside it.                 *)
(***************************************************************************)
EXTENDS Integers, Sequences, FiniteSets, SequencesExt

CONSTANTS
  QuickCutoff,   \* ranges up to this long are sorted by insertion (16)
  MaxRange,      \* most counters counting_sort allocates (2^20)
  IntLimit       \* the int of the counting sorts is -IntLimit..IntLimit-1

Size(a) == Cardinality(DOMAIN a)
Less(x, y) == x[1] < y[1]
Swap(a, i, j) == [a EXCEPT ![i] = a[j], ![j] = a[i]]
ArrayOf(s) == [i \in 0..(Len(s) - 1) |-> s[i + 1]]
Slice(a, lo, hi) == [i \in 1..(hi - lo) |-> a[lo + i - 1]]

\* for (i = lo; i <= hi; i++), and downwards.
For(lo, hi, s, Body(_, _)) == FoldLeft(Body, s, [k \in 1..(hi - lo + 1) |-> lo + k - 1])
ForDown(hi, lo, s, Body(_, _)) == FoldLeft(Body, s, [k \in 1..(hi - lo + 1) |-> hi - k + 1])

-----------------------------------------------------------------------------
\* Swaps a[j] down in steps of gap while it is smaller.
RECURSIVE Sink(_, _, _)
Sink(a, j, gap) ==
  IF j >= gap /\ Less(a[j], a[j - gap]) THEN Sink(Swap(a, j, j - gap), j - gap, gap) ELSE a

insertion_sort(a) == LET body(b, i) == Sink(b, i, 1) IN For(1, Size(a) - 1, a, body)

RECURSIVE ShellPasses(_, _)
ShellPasses(a, gap) ==
  LET body(b, i) == Sink(b, i, gap)
  IN IF gap = 0 THEN a ELSE ShellPasses(For(gap, Size(a) - 1, a, body), gap \div 2)
shell_sort(a) == ShellPasses(a, Size(a) \div 2)

MinIdx_SkipsLast(a, i) ==
  IF i = Size(a) - 1 THEN i ELSE CHOOSE m \in i..(Size(a) - 2) : \A j \in i..(Size(a) - 2) : a[m][1] <= a[j][1]
\* The first of the smallest elements from i on.
MinIdx(a, i) ==
  CHOOSE m \in i..(Size(a) - 1) :
    \A j \in i..(Size(a) - 1) : a[m][1] < a[j][1] \/ (a[m][1] = a[j][1] /\ m <= j)
selection_sort(a) ==
  LET body(b, i) == Swap(b, i, MinIdx(b, i)) IN For(0, Size(a) - 2, a, body)

\* A pass that swaps nothing ends the sort.
RECURSIVE BubblePasses(_, _)
BubblePasses(a, i) ==
  LET body(b, j) == IF Less(b[j + 1], b[j]) THEN Swap(b, j, j + 1) ELSE b
      pass == For(0, Size(a) - 2 - i, a, body)
  IN IF i >= Size(a) - 1 \/ pass = a THEN a ELSE BubblePasses(pass, i + 1)
bubble_sort(a) == BubblePasses(a, 0)

RECURSIVE sift_down(_, _, _)
sift_down(a, root, end) ==
  LET child == 2 * root + 1
      s1 == IF Less(a[root], a[child]) THEN child ELSE root
      swp == IF child + 1 <= end /\ Less(a[s1], a[child + 1]) THEN child + 1 ELSE s1
  IN IF child > end \/ swp = root THEN a ELSE sift_down(Swap(a, root, swp), swp, end)
heap_sort(a) ==
  LET n == Size(a)
      build(b, i) == sift_down(b, i - 1, n - 1)
      extract(b, i) == sift_down(Swap(b, 0, i), 0, i - 1)
  IN ForDown(n - 1, 1, ForDown(n \div 2, 1, a, build), extract)

-----------------------------------------------------------------------------
\* The left one of two equal elements goes first.
RECURSIVE MergeRuns(_, _)
MergeRuns(x, y) ==
  IF x = <<>> THEN y
  ELSE IF y = <<>> THEN x
  ELSE IF ~Less(y[1], x[1]) THEN <<x[1]>> \o MergeRuns(Tail(x), y)
  ELSE <<y[1]>> \o MergeRuns(x, Tail(y))
MergeAt(a, lo, mid, hi) ==
  LET m == MergeRuns(Slice(a, lo, mid), Slice(a, mid, hi))
  IN [i \in DOMAIN a |-> IF i \in lo..(hi - 1) THEN m[i - lo + 1] ELSE a[i]]

RECURSIVE MergePasses(_, _)
MergePasses(a, width) ==
  LET n == Size(a)
      body(b, k) ==
        LET i == 2 * width * k
            r == IF i + 2 * width > n THEN n ELSE i + 2 * width
        IN IF i + width >= n THEN b ELSE MergeAt(b, i, i + width, r)
  IN IF width >= n THEN a ELSE MergePasses(For(0, (n - 1) \div (2 * width), a, body), 2 * width)
merge_sort(a) == MergePasses(a, 1)

-----------------------------------------------------------------------------
\* Smaller elements than a[p] to the front, then a[r] between them; p points
\* into the array that is being rearranged.
Partition(a, l, r, p) ==
  LET body(s, j) ==
        IF Less(s.a[j], s.a[p]) THEN [a |-> Swap(s.a, s.i + 1, j), i |-> s.i + 1] ELSE s
      s == For(l, r - 1, [a |-> a, i |-> l - 1], body)
  IN [a |-> Swap(s.a, s.i + 1, r), i |-> s.i + 1]

RECURSIVE QuickRange(_, _, _)
QuickRange(a, l, r) ==
  LET s == Partition(a, l, r, r)
  IN IF l >= r THEN a ELSE QuickRange(QuickRange(s.a, l, s.i - 1), s.i + 1, r)
sort_quick(a) == QuickRange(a, 0, Size(a) - 1)

median_of_three(a, x, y, z) ==
  IF Less(a[x], a[y])
  THEN IF Less(a[y], a[z]) THEN y ELSE IF Less(a[x], a[z]) THEN z ELSE x
  ELSE IF Less(a[x], a[z]) THEN x ELSE IF Less(a[y], a[z]) THEN z ELSE y

\* Small ranges by insertion: shifts every larger element up by one.
InsertionRange(a, l, r) ==
  LET s == insertion_sort(ArrayOf(Slice(a, l, r + 1)))
  IN [i \in DOMAIN a |-> IF i \in l..r THEN s[i - l] ELSE a[i]]

\* The ranges on the stack, the smaller part of a partition first.  The pivot is
\* moved to r, and the comparisons use the place it came from.  An insertion sort
\* of elements too large for the buffer on the stack allocates its key: keys of
\* these allocations succeed, and the next one that is needed ends the sort with
\* the array as it then is.
Halted(a) == <<"no memory", a>>
RECURSIVE QuickSortRanges(_, _, _)
QuickSortRanges(a, stack, keys) ==
  LET l == stack[1][1]
      r == stack[1][2]
      p == median_of_three(a, l, l + (r - l) \div 2, r)
      s == Partition(Swap(a, p, r), l, r, p)
      left == <<l, s.i - 1>>
      right == <<s.i + 1, r>>
      parts == IF s.i - 1 - l < r - (s.i + 1) THEN <<left, right>> ELSE <<right, left>>
      rest == Tail(stack)
  IN IF stack = <<>> THEN a
     ELSE IF l >= r THEN QuickSortRanges(a, rest, keys)
     ELSE IF r - l + 1 > QuickCutoff THEN QuickSortRanges(s.a, parts \o rest, keys)
     ELSE IF keys = 0 THEN Halted(a)
     ELSE QuickSortRanges(InsertionRange(a, l, r), rest, keys - 1)
quick_sort(a, keys) == QuickSortRanges(a, <<<<0, Size(a) - 1>>>>, keys)
\* At most this many ranges are sorted by insertion.
AllKeys(a) == Size(a)

-----------------------------------------------------------------------------
(* Sorts of integers: the elements are the keys, tags are not kept. *)

MinKey(a) == CHOOSE m \in {a[i][1] : i \in DOMAIN a} : \A i \in DOMAIN a : m <= a[i][1]
MaxKey(a) == CHOOSE m \in {a[i][1] : i \in DOMAIN a} : \A i \in DOMAIN a : m >= a[i][1]
Span(a) == MaxKey(a) - MinKey(a)
\* Value v of the range appears counts[v] times; the tag left is its number.
CountOut(a) ==
  LET vals == [k \in 1..(Span(a) + 1) |-> MinKey(a) + k - 1]
      copies(v) == [k \in 1..Cardinality({i \in DOMAIN a : a[i][1] = v}) |-> <<v, k>>]
      body(s, v) == s \o copies(v)
  IN ArrayOf(FoldLeft(body, <<>>, vals))

\* NoMem and TooBig stand for the array left alone and the error returned,
\* Outside for an array that is no longer known, after a write beyond the
\* counters.  A span that does not fit an int wraps: to -1 and, one added, to no
\* counters at all when it is the widest, else to more than MaxRange.
NoMem == <<"no memory">>
TooBig == <<"size overflow">>
Outside == <<"outside">>
NotImplemented == <<"not implemented">>
FallsBack(a) == Span(a) >= IntLimit \/ Span(a) + 1 > MaxRange
counting_sort(a) ==
  IF Span(a) = 2 * IntLimit - 1 THEN Outside ELSE IF FallsBack(a) THEN quick_sort(a, AllKeys(a)) ELSE CountOut(a)
sort_counting(a) ==
  IF Span(a) = 2 * IntLimit - 1 THEN TooBig ELSE IF Span(a) >= IntLimit THEN NoMem ELSE CountOut(a)

\* One stable pass by a digit; the sign is in the last digit, taken unsigned.
Digit(v, place) == (v \div 256^place) % 256
RadixPass(a, place) ==
  LET d(i) == Digit(a[i][1], place)
      spot(i) == Cardinality({j \in DOMAIN a : d(j) < d(i) \/ (d(j) = d(i) /\ j < i)})
  IN [p \in DOMAIN a |-> a[CHOOSE i \in DOMAIN a : spot(i) = p]]
radix_sort(a) == For(0, 3, a, RadixPass)

\* The caller's key function: the key as a fraction of KeyScale.  Keys
\* outside [0, 1) go to the first and the last bucket.
KeyScale == 4
BucketOf(x, count) ==
  IF x[1] < 0 THEN 0 ELSE IF x[1] >= KeyScale THEN count - 1 ELSE (x[1] * count) \div KeyScale
bucket_sort(a) ==
  LET count == IF Size(a) < 10 THEN Size(a) ELSE 10
      bucket(k) == SelectSeq(Slice(a, 0, Size(a)), LAMBDA x : BucketOf(x, count) = k)
      sorted(k) == LET s == insertion_sort(ArrayOf(bucket(k))) IN Slice(s, 0, Len(bucket(k)))
      body(s, k) == s \o sorted(k)
  IN ArrayOf(For(0, count - 1, <<>>, body))

-----------------------------------------------------------------------------
sort_insertion(a) == insertion_sort(a)
sort_shell(a) == shell_sort(a)
sort_selection(a) == selection_sort(a)
sort_bubble(a) == bubble_sort(a)
sort_heap(a) == heap_sort(a)
sort_merge(a) == merge_sort(a)
sort_radix(a) == radix_sort(a)
sort_bucket(a) == NotImplemented

\* Arrays of fewer than two elements are returned at once; the sorts with a
\* buffer of their own leave the array alone when there is no memory.
Buffered == {"merge_sort", "sort_merge", "counting_sort", "sort_counting", "radix_sort",
             "sort_radix", "bucket_sort"}
InPlace == {"insertion_sort", "shell_sort", "selection_sort", "bubble_sort", "heap_sort",
            "sort_insertion", "sort_shell", "sort_selection", "sort_bubble", "sort_heap",
            "sort_quick", "quick_sort"}
StableSorts == {"insertion_sort", "sort_insertion", "bubble_sort", "sort_bubble", "merge_sort",
                "sort_merge", "radix_sort", "sort_radix", "bucket_sort"}

SortWith(alg, a) ==
  CASE alg = "insertion_sort" -> insertion_sort(a) [] alg = "shell_sort" -> shell_sort(a)
    [] alg = "selection_sort" -> selection_sort(a) [] alg = "bubble_sort" -> bubble_sort(a)
    [] alg = "heap_sort" -> heap_sort(a) [] alg = "merge_sort" -> merge_sort(a)
    [] alg = "quick_sort" -> quick_sort(a, AllKeys(a)) [] alg = "counting_sort" -> counting_sort(a)
    [] alg = "radix_sort" -> radix_sort(a) [] alg = "bucket_sort" -> bucket_sort(a)
    [] alg = "sort_insertion" -> sort_insertion(a) [] alg = "sort_shell" -> sort_shell(a)
    [] alg = "sort_selection" -> sort_selection(a) [] alg = "sort_bubble" -> sort_bubble(a)
    [] alg = "sort_heap" -> sort_heap(a) [] alg = "sort_merge" -> sort_merge(a)
    [] alg = "sort_quick" -> sort_quick(a) [] alg = "sort_counting" -> sort_counting(a)
    [] alg = "sort_radix" -> sort_radix(a) [] alg = "sort_bucket" -> sort_bucket(a)
SortAlgs == InPlace \cup Buffered \cup {"sort_bucket"}

\* What a sort may leave; without memory quick_sort may stop at any range.
RunSort(alg, a, mem) ==
  IF Size(a) < 2 /\ alg # "sort_bucket" THEN {a}
  ELSE IF ~mem /\ alg \in Buffered /\ ~(alg = "counting_sort" /\ FallsBack(a)) THEN {NoMem}
  ELSE IF ~mem /\ alg = "quick_sort" THEN {quick_sort(a, k) : k \in 0..AllKeys(a)}
  ELSE {SortWith(alg, a)}

-----------------------------------------------------------------------------
\* libs/search/quickselect: the k-th smallest element, in a copy.
SelectMedian(a, lo, hi) ==
  LET mid == lo + (hi - lo) \div 2
      order(b, x, y) == IF Less(b[y], b[x]) THEN Swap(b, x, y) ELSE b
  IN Swap(order(order(order(a, lo, mid), mid, hi), lo, mid), mid, hi)
SelectPartition(a, lo, hi) ==
  Partition(IF hi - lo >= 2 THEN SelectMedian(a, lo, hi) ELSE a, lo, hi, hi)
RECURSIVE SelectRange(_, _, _, _)
SelectRange(a, lo, hi, k) ==
  LET s == SelectPartition(a, lo, hi)
  IN IF lo >= hi THEN a[k]
     ELSE IF s.i = k THEN s.a[k]
     ELSE IF s.i > k THEN SelectRange(s.a, lo, s.i - 1, k)
     ELSE SelectRange(s.a, s.i + 1, hi, k)
quickselect(a, k) == SelectRange(a, 0, Size(a) - 1, k)
=============================================================================

----------------------------- MODULE SimdLoops -----------------------------
(***************************************************************************)
(* The loops that the vector kernels of libs/ml are written with, and what *)
(* they do to one element.  A call c is a record of its arguments: arrays  *)
(* a, b and z of c.n elements (the memory after them holds whatever is     *)
(* there), scalars s and t, dimensions m and d.                            *)
(*                                                                         *)
(* A float is an integer here, and what is not exact on integers is a      *)
(* term: a tuple that names the function and its argument.  Two results    *)
(* are equal when they are the same function of the same elements; the     *)
(* rounding, the order of additions and the error of the fast exponential  *)
(* are left out.                                                           *)
(***************************************************************************)
EXTENDS Integers, FiniteSets, FiniteSetsExt

Total(S, f(_)) == MapThenSumSet(f, S)
Upto(i, n) == i..(n - 1)

\* for (; i + w <= n; i += w): the values of i in the loop, and after it.
Heads(i, w, n) == {h \in i..n : (h - i) % w = 0 /\ h + w <= n}
Rest(i, w, n) == i + w * Cardinality(Heads(i, w, n))

Bigger(x, y) == IF y > x THEN y ELSE x
Smaller(x, y) == IF y < x THEN y ELSE x

-----------------------------------------------------------------------------
(* The shapes of a kernel. *)

\* Every element alone: full vectors first, what is left one by one.
Each(w, c, Lane(_, _), Tail(_, _)) ==
  [i \in Upto(0, c.n) |-> IF i < Rest(0, w, c.n) THEN Lane(c, i) ELSE Tail(c, i)]

\* A sum kept in w lanes; the lanes in L are added up at the end.
Reduce(w, c, L, f(_, _)) ==
  LET g(i) == f(c, i)
      column(l) == Total({h + l : h \in Heads(0, w, c.n)}, g)
  IN Total(L, column) + Total(Upto(Rest(0, w, c.n), c.n), g)
Lanes(w) == Upto(0, w)

\* The best of each lane, from a first load of w elements on.  None of the
\* kernels that use it asks whether there are w elements.
Tops(w, c, better(_, _)) ==
  [l \in Lanes(w) |-> FoldSet(LAMBDA h, v : better(v, c.a[h + l]), c.a[l], Heads(w, w, c.n))]

\* The tail goes on from the best of the lanes.
Finish(w, c, v, better(_, _)) ==
  FoldSet(LAMBDA i, u : better(u, c.a[i]), v, Upto(Rest(w, w, c.n), c.n))
Best(V, better(_, _)) == FoldSet(better, CHOOSE v \in V : TRUE, V)

\* An element that beats every earlier one of its lane; then the first lane
\* that beats the lanes before it; then the tail.  beats is a strict order.
Winner(I, c, beats(_, _)) ==
  CHOOSE i \in I : \A j \in I : ~beats(c.a[j], c.a[i]) /\ (c.a[j] = c.a[i] => i <= j)
ArgScan(w, c, beats(_, _)) ==
  LET lane(l) == Winner({l} \cup {h + l : h \in Heads(w, w, c.n)}, c, beats)
      first == CHOOSE l \in Lanes(w) : \A k \in Lanes(w) :
                 ~beats(c.a[lane(k)], c.a[lane(l)]) /\ (c.a[lane(k)] = c.a[lane(l)] => l <= k)
      tail == Upto(Rest(w, w, c.n), c.n)
  IN IF c.n = 0 THEN 0
     ELSE IF \E i \in tail : beats(c.a[i], c.a[lane(first)]) THEN Winner(tail, c, beats)
     ELSE lane(first)
Above(x, y) == x > y
Below(x, y) == x < y

\* A sum over two loops, the first of them two vectors at a time, and a tail.
Reduce2(w, c, f(_, _)) ==
  LET g(i) == f(c, i)
      block(v, from) == Total({h + l : h \in Heads(from, v, c.n), l \in Lanes(v)}, g)
      r2 == Rest(0, 2 * w, c.n)
  IN block(2 * w, 0) + block(w, r2) + Total(Upto(Rest(r2, w, c.n), c.n), g)

\* Row i of a against row j of b, both of length c.d.
From(f, o, n) == [i \in Upto(0, n) |-> f[o + i]]
Rows(c, i, j) ==
  [c EXCEPT !.a = From(c.a, i * c.d, c.d), !.b = From(c.b, j * c.d, c.d), !.n = c.d]
Pairwise(c, dist(_)) == [i \in Upto(0, c.n), j \in Upto(0, c.m) |-> dist(Rows(c, i, j))]

\* y = beta * y + A x, one row sum after another; y = beta * y + A^T x.
Gemv(c, row(_)) ==
  [i \in Upto(0, c.m) |-> c.s * c.z[i] + row([c EXCEPT !.a = From(c.a, i * c.n, c.n)])]
GemvT(w, c) ==
  LET add(e, j) == LET term(i) == e.b[i] * e.a[i * e.n + j]
                   IN e.s * e.z[j] + Total(Upto(0, e.m), term)
  IN Each(w, c, add, add)

\* C = beta * C + alpha * A B in tiles of T; how often a loop over the tiles
\* visits an index, and how often the scaling loops do.
T == 32
Tiles(n) == {[lo |-> t, hi |-> Smaller(n, t + T)] : t \in {k * T : k \in 0..(n \div T)} \ {n}}
VisitsOf(w, lo, hi, j) ==
  Cardinality({h \in Heads(lo, w, hi) : j \in h..(h + w - 1)})
    + (IF j \in Upto(Rest(lo, w, hi), hi) THEN 1 ELSE 0)
Visits(w, n, j) == LET in(t) == VisitsOf(w, t.lo, t.hi, j) IN Total(Tiles(n), in)
Scalings(w, n, j) ==
  Cardinality({h \in Heads(0, w, n) : j \in h..(h + w - 1)})
    + (IF j \in Upto(n - (n % w), n) THEN 1 ELSE 0)
Gemm(w, c) ==
  [i \in Upto(0, c.m), j \in Upto(0, c.n) |->
     LET term(k) == Visits(1, c.d, k) * c.s * c.a[i * c.d + k] * c.b[k * c.n + j]
     IN c.t^Scalings(w, c.n, j) * c.z[i * c.n + j]
          + Visits(1, c.m, i) * Visits(w, c.n, j) * Total(Upto(0, c.d), term)]

-----------------------------------------------------------------------------
(* One element, as the scalar code and the tails do it. *)

Magnitude(x) == IF x < 0 THEN -x ELSE x
Clip(x, lo, hi) == Smaller(hi, Bigger(lo, x))
Num(x) == <<"num", x>>
Inf == <<"inf">>

Add(c, i) == c.a[i] + c.b[i]
Sub(c, i) == c.a[i] - c.b[i]
Mul(c, i) == c.a[i] * c.b[i]
Div(c, i) == <<"div", c.a[i], c.b[i]>>
Abs(c, i) == Magnitude(c.a[i])
Fma(c, i) == c.z[i] + c.a[i] * c.b[i]
AddS(c, i) == c.a[i] + c.s
MulS(c, i) == c.a[i] * c.s
ScaleAdd(c, i) == c.s * c.a[i] + c.t
Axpy(c, i) == c.z[i] + c.s * c.a[i]
Axpby(c, i) == c.s * c.a[i] + c.t * c.b[i]
Element(c, i) == c.a[i]
Square(c, i) == c.a[i] * c.a[i]
SquareB(c, i) == c.b[i] * c.b[i]
SquareDiff(c, i) == (c.a[i] - c.b[i]) * (c.a[i] - c.b[i])
AbsDiff(c, i) == Magnitude(c.a[i] - c.b[i])
\* Words of two bits.
Differ(x, y) == (x + y) % 2
Popcount(c, i) == Differ(c.a[i], c.b[i]) + Differ(c.a[i] \div 2, c.b[i] \div 2)

Relu(c, i) == IF c.a[i] > 0 THEN c.a[i] ELSE 0
Relu6(c, i) == IF c.a[i] < 0 THEN 0 ELSE IF c.a[i] > 6 THEN 6 ELSE c.a[i]
Leaky(c, i) == IF c.a[i] > 0 THEN c.a[i] ELSE c.a[i] * c.s
Threshold(c, i) == IF c.a[i] > c.s THEN 1 ELSE 0
Sign(c, i) == IF c.a[i] >= c.s THEN 1 ELSE -1
Clamp(c, i) == IF c.a[i] < c.s THEN c.s ELSE IF c.a[i] > c.t THEN c.t ELSE c.a[i]

\* Beyond 30 and 10 the scalar code returns the limit and a lane the value
\* at 30 or 10, which differ by less than the approximation's own error.
Sigmoid(c, i) == <<"sigmoid", Clip(c.a[i], -30, 30)>>
Tanh(c, i) == <<"tanh", Clip(c.a[i], -10, 10)>>
Gelu(c, i) == <<"gelu", c.a[i]>>
Elu(c, i) == IF c.a[i] > 0 THEN Num(c.a[i]) ELSE <<"elu", c.s, c.a[i]>>
Log(c, i) == IF c.a[i] > 0 THEN <<"log", c.a[i]>> ELSE <<"-FLT_MAX">>
Sqrt(c, i) == IF c.a[i] >= 0 THEN <<"sqrt", c.a[i]>> ELSE Num(0)
Rsqrt(c, i) == IF c.a[i] > 0 THEN <<"rsqrt", c.a[i]>> ELSE Num(0)
Inv(c, i) == IF c.a[i] # 0 THEN <<"inv", c.a[i]>> ELSE Num(0)

fast_exp(x) == IF x < -88 THEN Num(0) ELSE IF x > 88 THEN Inf ELSE <<"exp", x>>
Exp(c, i) == fast_exp(c.a[i])
\* A softmax from its exponentials: each over the sum of them all.
Shares(e) == [i \in DOMAIN e |-> <<"share", e[i], e>>]
LogShares(c, max, e) == [i \in DOMAIN e |-> <<"log", c.a[i] - max, e>>]
Cosine(dot, na, nb) == IF na * nb = 0 THEN Num(1) ELSE <<"cos", dot, na, nb>>
Silu(c, i) == <<"div", c.a[i], <<"1+", fast_exp(-c.a[i])>>>>

\* Every element less the maximum, through the exponential of the vectors
\* and of the tail.
Exps(w, c, max, exp(_)) ==
  [i \in Upto(0, c.n) |-> IF i < Rest(0, w, c.n) THEN exp(c.a[i] - max) ELSE fast_exp(c.a[i] - max)]
\* The maximum, with a vector load only where there are w elements.
GuardedMax(w, c) ==
  IF c.n >= w THEN Finish(w, c, Best({Tops(w, c, Bigger)[l] : l \in Lanes(w)}, Bigger), Bigger)
  ELSE FoldSet(LAMBDA i, u : Bigger(u, c.a[i]), c.a[0], Upto(1, c.n))

-----------------------------------------------------------------------------
(* One lane, where the vector code does something else.  Lanes compute the *)
(* exponential in the bits of the float, 32-bit integers counted here in   *)
(* thousandths of 2^23: 12102203 is 1443 of them, 1.0f is 127 thousand,    *)
(* infinity 255 thousand, and the sign bit 256 thousand.                   *)

Unclamped(bits) == IF bits < 0 THEN 0 ELSE IF bits > 255000 THEN 255000 ELSE bits
Float(bits, x) == IF bits = 0 THEN Num(0) ELSE IF bits = 255000 THEN Inf ELSE <<"exp", x>>
Wrap(bits) == ((bits + 256000) % 512000) - 256000

\* Conversion to an integer out of range: the x86 one yields the sign bit,
\* the ARM one the nearest integer.
CvtX86(v) == IF v \in -256000..255999 THEN v ELSE -256000
CvtArm(v) == Clip(v, -256000, 255999)

\* The bias is added before the conversion, or to the integer after it.
FusedExp(x, Cvt(_)) == Float(Unclamped(Cvt(1443 * x + 127000)), x)
BitsExp(x, Cvt(_)) == Float(Unclamped(Wrap(Cvt(1443 * x) + 127000)), x)

ExpX86(c, i) == BitsExp(c.a[i], CvtX86)
ExpArm(c, i) == BitsExp(c.a[i], CvtArm)
\* The negated argument meets a negative factor.
SiluX86(c, i) == <<"div", c.a[i], <<"1+", BitsExp(c.a[i], CvtX86)>>>>
SiluArm(c, i) == <<"div", c.a[i], <<"1+", BitsExp(c.a[i], CvtArm)>>>>
RawRsqrt(c, i) ==
  IF c.a[i] > 0 THEN <<"rsqrt", c.a[i]>> ELSE IF c.a[i] = 0 THEN Inf ELSE <<"nan">>
RawInv(c, i) == IF c.a[i] # 0 THEN <<"inv", c.a[i]>> ELSE Inf
=============================================================================

------------------------- MODULE MergeThreadsProofs -------------------------
(***************************************************************************)
(* The multithreaded merge sort is right for every array, every number of  *)
(* threads, every cutoff and every interleaving.  MtInv is inductive: the  *)
(* ranges of any two calls are apart or one is in a half that the other    *)
(* has handed out, a call does not merge before every call below it has    *)
(* ended, and so each finds its halves sorted and its part of the scratch  *)
(* buffer its own.                                                         *)
(***************************************************************************)
EXTENDS MergeThreads, FiniteSetTheorems, FunctionTheorems, TLAPS

MtVars == <<given, base, tmp, task>>
MtSpec(a, threads) == merge_sort_mt(a, threads) /\ [][MtNext]_MtVars

Pc(r) == task[r].pc
Active == {r \in DOMAIN task : Pc(r) # "none"}
Ranges(n) == {p \in (0 .. n) \X (0 .. n) : p[1] <= p[2]}

MtTypes(n) ==
  /\ DOMAIN given = 0 .. (n - 1) /\ DOMAIN base = 0 .. (n - 1) /\ DOMAIN tmp = 0 .. (n - 1)
  /\ \A i \in 0 .. (n - 1) : given[i][1] \in Int /\ given[i][2] = i
  /\ DOMAIN task = Ranges(n)
  /\ \A r \in Ranges(n) :
       /\ DOMAIN task[r] = {"pc", "depth", "li", "ri", "ti"}
       /\ Pc(r) \in {"none", "enter", "left", "join", "merge", "done"}

(* How the ranges of the calls lie. *)
In(s, r) == r[1] <= s[1] /\ s[2] <= r[2]
Apart(s, r) == s[2] <= r[1] \/ r[2] <= s[1]
\* s is in a half of r that r has handed out, and r does not merge before s has ended.
Under(s, r) ==
  /\ r[2] - r[1] >= 2 /\ Pc(r) # "enter"
  /\ In(s, Left(r)) \/ (Pc(r) # "left" /\ In(s, Right(r)))
  /\ Pc(r) \in {"merge", "done"} => Pc(s) = "done"
Nested == \A r, s \in Active : r # s => Apart(r, s) \/ Under(s, r) \/ Under(r, s)
Proper(n) == \A r \in Active : r[1] < r[2] \/ r = <<0, n>>
Called ==
  \A r \in Active :
    /\ Pc(r) \in {"left", "join", "merge"} => r[2] - r[1] >= 2
    /\ Pc(r) \in {"left", "join"} => Left(r) \in Active
    /\ Pc(r) = "join" => Right(r) \in Active
    /\ Pc(r) = "merge" => IsDone(Left(r)) /\ IsDone(Right(r))

(* What is in the array. *)
Less(x, y) == x[1] < y[1] \/ (x[1] = y[1] /\ x[2] < y[2])
SortedOn(f, lo, hi) == \A i, j \in lo .. (hi - 1) : i < j => Less(f[i], f[j])
Elems(f, lo, hi) == {f[i] : i \in lo .. (hi - 1)}
Result(r) == SortedOn(base, r[1], r[2]) /\ Elems(base, r[1], r[2]) = Elems(given, r[1], r[2])

Untouched ==
  \A r \in Active :
    /\ Pc(r) = "enter" => \A i \in r[1] .. (r[2] - 1) : base[i] = given[i]
    /\ Pc(r) = "left" => \A i \in Mid(r) .. (r[2] - 1) : base[i] = given[i]
HalvesSorted ==
  \A r \in Active : Pc(r) \in {"left", "join", "merge"} =>
    \A c \in {Left(r), Right(r)} : IsDone(c) => Result(c)
WholeSorted(n) == IsDone(<<0, n>>) => Result(<<0, n>>)
\* f holds, in order, what a merge has taken of the halves of g: the elements
\* before li and before ri.
Took(f, g, lo, mid, hi, li, ri, ti) ==
  /\ li \in lo .. mid /\ ri \in mid .. hi /\ ti = li + ri - mid
  /\ SortedOn(f, lo, ti)
  /\ Elems(f, lo, ti) = Elems(g, lo, li) \cup Elems(g, mid, ri)
  /\ \A k \in lo .. (ti - 1) : \A i \in (li .. (mid - 1)) \cup (ri .. (hi - 1)) : Less(f[k], g[i])
Taken(r) == Took(tmp, base, r[1], Mid(r), r[2], task[r].li, task[r].ri, task[r].ti)
Merging == \A r \in Active : Pc(r) = "merge" => Taken(r)

MtInv(n) ==
  /\ MtTypes(n) /\ Nested /\ Proper(n) /\ Called
  /\ Untouched /\ HalvesSorted /\ WholeSorted(n) /\ Merging

-----------------------------------------------------------------------------
(* Ranges *)

LEMMA RangeFacts ==
  ASSUME NEW n \in Nat, NEW r \in Ranges(n)
  PROVE  r[1] \in Nat /\ r[2] \in Nat /\ r[1] <= r[2] /\ r[2] <= n /\ r = <<r[1], r[2]>>
BY DEF Ranges

LEMMA HalfFacts ==
  ASSUME NEW n \in Nat, NEW r \in Ranges(n), r[2] - r[1] >= 2
  PROVE  /\ Mid(r) \in Nat /\ r[1] < Mid(r) /\ Mid(r) < r[2] /\ r[1] \in Nat /\ r[2] \in Nat
         /\ Left(r) \in Ranges(n) /\ Right(r) \in Ranges(n)
         /\ Left(r)[1] = r[1] /\ Left(r)[2] = Mid(r) /\ Right(r)[1] = Mid(r) /\ Right(r)[2] = r[2]
         /\ Left(r) # r /\ Right(r) # r /\ Left(r) # Right(r)
<1>1. r[1] \in Nat /\ r[2] \in Nat /\ r[1] <= r[2] /\ r[2] <= n BY RangeFacts
<1>2. Mid(r) \in Nat /\ r[1] < Mid(r) /\ Mid(r) < r[2]
  <2>1. PICK d \in Nat : d = r[2] - r[1] /\ d >= 2 BY <1>1
  <2>2. d \div 2 \in Nat /\ d \div 2 >= 1 /\ d \div 2 < d BY <2>1
  <2>3. Mid(r) = r[1] + (d \div 2) BY <2>1 DEF Mid
  <2> QED BY <1>1, <2>1, <2>2, <2>3
<1>3. /\ Left(r)[1] = r[1] /\ Left(r)[2] = Mid(r) /\ Right(r)[1] = Mid(r) /\ Right(r)[2] = r[2]
  BY DEF Left, Right
<1>4. Left(r) \in Ranges(n) /\ Right(r) \in Ranges(n)
  <2>1. PICK m : m = Mid(r) OBVIOUS
  <2>2. <<r[1], m>> \in Ranges(n) /\ <<m, r[2]>> \in Ranges(n) BY <1>1, <1>2, <2>1 DEF Ranges
  <2> QED BY <2>1, <2>2 DEF Left, Right
<1> QED BY <1>1, <1>2, <1>3, <1>4

\* A range is not in a half of one of its own parts.
LEMMA NotBothWays ==
  ASSUME NEW n \in Nat, NEW r \in Ranges(n), NEW s \in Ranges(n), In(s, r)
  PROVE  ~Under(r, s)
<1> SUFFICES ASSUME Under(r, s) PROVE FALSE OBVIOUS
<1>1. s[2] - s[1] >= 2 /\ (In(r, Left(s)) \/ In(r, Right(s))) BY DEF Under
<1>2. /\ Mid(s) \in Nat /\ s[1] < Mid(s) /\ Mid(s) < s[2] /\ s[1] \in Nat /\ s[2] \in Nat
      /\ Left(s)[1] = s[1] /\ Left(s)[2] = Mid(s) /\ Right(s)[1] = Mid(s) /\ Right(s)[2] = s[2]
  BY <1>1, HalfFacts
<1>3. r[1] \in Nat /\ r[2] \in Nat BY RangeFacts
<1> QED BY <1>1, <1>2, <1>3 DEF In

\* The halves of a range that lies in a half of another, or apart from it.
LEMMA PartsGoAlong ==
  ASSUME NEW n \in Nat, NEW r \in Ranges(n), NEW s \in Ranges(n), NEW c \in Ranges(n), In(c, r)
  PROVE  /\ Apart(r, s) => Apart(c, s)
         /\ \A h \in Ranges(n) : In(r, h) => In(c, h)
BY RangeFacts DEF In, Apart

LEMMA ActiveFacts ==
  ASSUME NEW n \in Nat, MtTypes(n), NEW r \in Active
  PROVE  r \in Ranges(n) /\ Pc(r) \in {"enter", "left", "join", "merge", "done"}
BY DEF MtTypes, Active

\* Before a call hands out a half there is no call on it.
LEMMA HalvesFree ==
  ASSUME NEW n \in Nat, MtTypes(n), Nested, NEW r \in Active, r[2] - r[1] >= 2
  PROVE  /\ Pc(r) = "enter" => Left(r) \notin Active /\ Right(r) \notin Active
         /\ Pc(r) = "left" => Right(r) \notin Active
<1>1. r \in Ranges(n) BY ActiveFacts
<1>2. /\ Mid(r) \in Nat /\ r[1] < Mid(r) /\ Mid(r) < r[2] /\ r[1] \in Nat /\ r[2] \in Nat
      /\ Left(r) \in Ranges(n) /\ Right(r) \in Ranges(n)
      /\ Left(r)[1] = r[1] /\ Left(r)[2] = Mid(r) /\ Right(r)[1] = Mid(r) /\ Right(r)[2] = r[2]
      /\ Left(r) # r /\ Right(r) # r /\ Left(r) # Right(r)
  BY <1>1, HalfFacts
<1>3. ASSUME NEW c \in {Left(r), Right(r)}, c \in Active, ~Under(c, r) PROVE FALSE
  <2>1. In(c, r) /\ ~Apart(c, r) /\ c # r /\ c \in Ranges(n) BY <1>2 DEF In, Apart
  <2>2. ~Under(r, c) BY <1>1, <2>1, NotBothWays
  <2> QED BY <1>3, <2>1, <2>2 DEF Nested
<1>4. Pc(r) = "enter" => ~Under(Left(r), r) /\ ~Under(Right(r), r) BY DEF Under
<1>5. Pc(r) = "left" => ~Under(Right(r), r) BY <1>2 DEF Under, In
<1> QED BY <1>3, <1>4, <1>5

\* A call that has not ended is in no range that is being merged.
LEMMA NotYet ==
  ASSUME NEW r, NEW s, Under(r, s), Pc(r) # "done"
  PROVE  Pc(s) \notin {"enter", "merge", "done"}
BY DEF Under

\* r hands out the halves in C.
HandsOut(r, C) ==
  /\ r[2] - r[1] >= 2
  /\ \/ Pc(r) = "enter" /\ Pc(r)' = "left" /\ C = {Left(r)}
     \/ Pc(r) = "enter" /\ Pc(r)' = "join" /\ C = {Left(r), Right(r)}
     \/ Pc(r) = "left" /\ Pc(r)' = "join" /\ C = {Right(r)}
  /\ DOMAIN task' = DOMAIN task
  /\ \A c \in C : Pc(c)' = "enter"
  /\ \A s \in DOMAIN task : s # r /\ s \notin C => task'[s] = task[s]

LEMMA NestedHandsOut ==
  ASSUME NEW n \in Nat, MtTypes(n), Nested, Proper(n), Called, NEW r \in Active, NEW C, HandsOut(r, C)
  PROVE  Nested' /\ Proper(n)' /\ Called'
<1>0. r \in Ranges(n) /\ DOMAIN task = Ranges(n) BY ActiveFacts DEF MtTypes
<1>1. /\ Mid(r) \in Nat /\ r[1] < Mid(r) /\ Mid(r) < r[2] /\ r[1] \in Nat /\ r[2] \in Nat
      /\ Left(r) \in Ranges(n) /\ Right(r) \in Ranges(n)
      /\ Left(r)[1] = r[1] /\ Left(r)[2] = Mid(r) /\ Right(r)[1] = Mid(r) /\ Right(r)[2] = r[2]
      /\ Left(r) # r /\ Right(r) # r /\ Left(r) # Right(r)
  BY <1>0, HalfFacts DEF HandsOut
<1>2. /\ C \subseteq {Left(r), Right(r)} /\ r \notin C /\ C \subseteq Ranges(n)
      /\ Pc(r) \in {"enter", "left"} /\ Pc(r)' \in {"left", "join"}
      /\ Pc(r) = "left" => C = {Right(r)} /\ Pc(r)' = "join"
      /\ \A c \in C : In(c, r) /\ c[1] < c[2]
      /\ DOMAIN task' = Ranges(n)
  BY <1>0, <1>1 DEF HandsOut, In
<1>3. \A s \in Ranges(n) : s # r /\ s \notin C => task'[s] = task[s] /\ Pc(s)' = Pc(s)
  BY <1>0 DEF HandsOut, Pc
<1>4. C \cap Active = {}
  BY HalvesFree DEF HandsOut
<1>5. /\ \A x \in Active' : x \in Ranges(n) /\ (x \in Active \/ x \in C)
      /\ Active \subseteq Active' /\ C \subseteq Active'
  BY <1>0, <1>2, <1>3 DEF Active, HandsOut
<1>6. \A c \in C : Pc(c)' = "enter" BY DEF HandsOut
<1>7. ASSUME NEW x \in C \cup {r}, NEW y \in Active, y # r
      PROVE  Apart(x, y) \/ Under(y, x)' \/ Under(x, y)'
  <2>1. y \notin C /\ Pc(y)' = Pc(y) /\ y \in Ranges(n) /\ x \in Ranges(n) /\ In(x, r)
    BY <1>0, <1>1, <1>2, <1>3, <1>4, <1>5, <1>7 DEF In
  <2>2. CASE Apart(r, y) BY <1>0, <2>1, <2>2, PartsGoAlong
  <2>3. CASE Under(y, r)
    <3>1. Pc(r) = "left" /\ In(y, Left(r)) BY <1>2, <2>3 DEF Under
    <3>2. CASE x = r
      <4>1. Under(y, r)' BY <1>2, <2>3, <3>1 DEF Under
      <4> QED BY <3>2, <4>1
    <3>3. CASE x \in C
      <4>1. x = Right(r) BY <1>2, <3>1, <3>3
      <4> QED BY <1>1, <2>1, <3>1, <4>1, RangeFacts DEF In, Apart
    <3> QED BY <3>2, <3>3
  <2>4. CASE Under(r, y)
    <3>1. Pc(y) \notin {"enter", "merge", "done"} BY <1>2, <2>4, NotYet
    <3>2. y[2] - y[1] >= 2 /\ (In(r, Left(y)) \/ (Pc(y) # "left" /\ In(r, Right(y))))
      BY <2>4 DEF Under
    <3>3. Left(y) \in Ranges(n) /\ Right(y) \in Ranges(n) BY <2>1, <3>2, HalfFacts
    <3>4. In(x, Left(y)) \/ (Pc(y) # "left" /\ In(x, Right(y)))
      BY <1>0, <2>1, <3>2, <3>3, PartsGoAlong
    <3>5. Under(x, y)' BY <2>1, <3>1, <3>2, <3>4 DEF Under
    <3> QED BY <3>5
  <2> QED BY <1>7, <2>2, <2>3, <2>4 DEF Nested
<1>8. ASSUME NEW c \in C PROVE Under(c, r)'
  <2>1. In(c, Left(r)) \/ (Pc(r)' # "left" /\ In(c, Right(r)))
    BY <1>1 DEF HandsOut, In
  <2>2. r[2] - r[1] >= 2 BY DEF HandsOut
  <2> QED BY <1>2, <2>1, <2>2 DEF Under
<1>9. ASSUME NEW x \in Active, NEW y \in Active, x # r, y # r, x # y
      PROVE  Apart(x, y) \/ Under(y, x)' \/ Under(x, y)'
  <2>1. Pc(x)' = Pc(x) /\ Pc(y)' = Pc(y) BY <1>3, <1>4, <1>5, <1>9
  <2>2. Apart(x, y) \/ Under(y, x) \/ Under(x, y) BY <1>9 DEF Nested
  <2> QED BY <2>1, <2>2 DEF Under
<1>10. \A x, y : Apart(x, y) <=> Apart(y, x) BY DEF Apart
<1>11. Nested'
  <2> SUFFICES ASSUME NEW x \in Active', NEW y \in Active', x # y
               PROVE  Apart(x, y) \/ Under(y, x)' \/ Under(x, y)'
    BY DEF Nested, Apart
  <2>1. CASE x \in C /\ y \in C BY <1>1, <1>2, <2>1 DEF Apart
  <2>2. CASE x \in C /\ y = r BY <1>8, <2>2
  <2>3. CASE y \in C /\ x = r BY <1>8, <2>3
  <2>4. CASE x \in C \cup {r} /\ y \in Active /\ y # r BY <1>7, <2>4
  <2>5. CASE y \in C \cup {r} /\ x \in Active /\ x # r BY <1>7, <1>10, <2>5
  <2>6. CASE x \in Active /\ y \in Active /\ x # r /\ y # r BY <1>9, <2>6
  <2> QED BY <1>5, <2>1, <2>2, <2>3, <2>4, <2>5, <2>6
<1>12. Proper(n)' BY <1>2, <1>5 DEF Proper
<1>13. Called'
  <2> SUFFICES ASSUME NEW x \in Active'
               PROVE  /\ Pc(x)' \in {"left", "join", "merge"} => x[2] - x[1] >= 2
                      /\ Pc(x)' \in {"left", "join"} => Left(x) \in Active'
                      /\ Pc(x)' = "join" => Right(x) \in Active'
                      /\ Pc(x)' = "merge" => IsDone(Left(x))' /\ IsDone(Right(x))'
    BY DEF Called
  <2>1. CASE x \in C BY <1>6, <2>1
  <2>2. CASE x = r
    <3>1. Pc(r) = "left" => Left(r) \in Active BY DEF Called
    <3>2. Left(r) \in Active' BY <1>5, <3>1 DEF HandsOut
    <3>3. Pc(r)' = "join" => Right(r) \in Active' BY <1>5 DEF HandsOut
    <3>4. r[2] - r[1] >= 2 BY DEF HandsOut
    <3> QED BY <1>2, <2>2, <3>2, <3>3, <3>4
  <2>3. CASE x \in Active /\ x # r
    <3>1. Pc(x)' = Pc(x) BY <1>3, <1>4, <1>5, <2>3
    <3>2. /\ Pc(x) \in {"left", "join", "merge"} => x[2] - x[1] >= 2
          /\ Pc(x) \in {"left", "join"} => Left(x) \in Active
          /\ Pc(x) = "join" => Right(x) \in Active
          /\ Pc(x) = "merge" => IsDone(Left(x)) /\ IsDone(Right(x))
      BY <2>3 DEF Called
    <3>3. ASSUME Pc(x) = "merge" PROVE IsDone(Left(x))' /\ IsDone(Right(x))'
      <4>1. Left(x) \in Ranges(n) /\ Right(x) \in Ranges(n) BY <1>5, <3>2, <3>3, HalfFacts
      <4>2. ASSUME NEW c \in Ranges(n), IsDone(c) PROVE IsDone(c)'
        <5>1. c \in Active /\ c # r BY <1>0, <1>2, <4>2 DEF IsDone, Active, Pc
        <5>2. task'[c] = task[c] BY <1>3, <1>4, <5>1
        <5> QED BY <4>2, <5>2 DEF IsDone
      <4> QED BY <3>2, <3>3, <4>1, <4>2
    <3> QED BY <1>5, <3>1, <3>2, <3>3
  <2> QED BY <1>5, <2>1, <2>2, <2>3
<1> QED BY <1>11, <1>12, <1>13

\* r starts to merge or ends.
MovesOn(r) ==
  /\ \/ Pc(r) = "enter" /\ r[2] - r[1] < 2 /\ Pc(r)' = "done"
     \/ Pc(r) = "join" /\ IsDone(Left(r)) /\ IsDone(Right(r)) /\ Pc(r)' = "merge"
     \/ Pc(r) = "merge" /\ Pc(r)' = "done"
  /\ DOMAIN task' = DOMAIN task
  /\ \A s \in DOMAIN task : s # r => task'[s] = task[s]

LEMMA NestedMovesOn ==
  ASSUME NEW n \in Nat, MtTypes(n), Nested, Proper(n), Called, NEW r \in Active, MovesOn(r)
  PROVE  Nested' /\ Proper(n)' /\ Called' /\ Active' = Active
<1>0. r \in Ranges(n) /\ DOMAIN task = Ranges(n) BY ActiveFacts DEF MtTypes
<1>1. \A s \in Ranges(n) : s # r => task'[s] = task[s] /\ Pc(s)' = Pc(s)
  BY <1>0 DEF MovesOn, Pc
<1>2. Pc(r) \in {"enter", "join", "merge"} /\ Pc(r)' \in {"merge", "done"} BY DEF MovesOn
<1>3. Active' = Active BY <1>0, <1>1, <1>2 DEF Active, MovesOn
<1>4. ASSUME NEW y \in Active, y # r PROVE Apart(r, y) \/ Under(y, r)' \/ Under(r, y)'
  <2>1. Pc(y)' = Pc(y) /\ y \in Ranges(n) BY <1>1, <1>4, ActiveFacts
  <2>2. CASE Under(y, r)
    <3>1. r[2] - r[1] >= 2 /\ Pc(r) \in {"join", "merge"} /\ (In(y, Left(r)) \/ In(y, Right(r)))
      BY <1>2, <2>2 DEF Under
    <3>2. Pc(y) = "done"
      <4>1. CASE Pc(r) = "merge" BY <2>2, <4>1 DEF Under
      <4>2. CASE Pc(r) = "join"
        <5>1. PICK c \in {Left(r), Right(r)} : In(y, c) BY <3>1
        <5>2. Pc(c) = "done" BY <4>2, <5>1 DEF MovesOn, IsDone, Pc
        <5>3. c \in Ranges(n) BY <1>0, <3>1, HalfFacts
        <5>4. c \in Active BY <1>0, <5>2, <5>3 DEF Active
        <5>5. ~Under(c, y) BY <2>1, <5>1, <5>3, NotBothWays
        <5>6. ~Apart(c, y)
          <6>1. c[1] \in Nat /\ c[2] \in Nat /\ y[1] \in Nat /\ y[2] \in Nat /\ y[1] <= y[2] /\ r[2] \in Nat
                /\ r[1] \in Nat /\ r[2] <= n
            BY <1>0, <2>1, <5>3, RangeFacts
          <6>2. y[1] < y[2]
            <7>1. y # <<0, n>>
              <8>1. c[1] > 0 \/ c[2] < n BY <1>0, <3>1, <5>1, <6>1, HalfFacts
              <8> QED BY <5>1, <6>1, <8>1 DEF In
            <7> QED BY <7>1 DEF Proper
          <6> QED BY <5>1, <6>1, <6>2 DEF In, Apart
        <5> QED BY <5>2, <5>4, <5>5, <5>6 DEF Nested, Under
      <4> QED BY <3>1, <4>1, <4>2
    <3>3. Under(y, r)' BY <1>2, <2>1, <2>2, <3>1, <3>2 DEF Under
    <3> QED BY <3>3
  <2>3. CASE Under(r, y)
    <3>1. Pc(y) \notin {"enter", "merge", "done"} BY <1>2, <2>3, NotYet
    <3>2. Under(r, y)' BY <2>1, <2>3, <3>1 DEF Under
    <3> QED BY <3>2
  <2> QED BY <1>4, <2>2, <2>3 DEF Nested
<1>5. ASSUME NEW x \in Active, NEW y \in Active, x # r, y # r, x # y
      PROVE  Apart(x, y) \/ Under(y, x)' \/ Under(x, y)'
  <2>1. Pc(x)' = Pc(x) /\ Pc(y)' = Pc(y) BY <1>1, <1>5, ActiveFacts
  <2>2. Apart(x, y) \/ Under(y, x) \/ Under(x, y) BY <1>5 DEF Nested
  <2> QED BY <2>1, <2>2 DEF Under
<1>6. \A x, y : Apart(x, y) <=> Apart(y, x) BY DEF Apart
<1>7. Nested'
  <2> SUFFICES ASSUME NEW x \in Active, NEW y \in Active, x # y
               PROVE  Apart(x, y) \/ Under(y, x)' \/ Under(x, y)'
    BY <1>3 DEF Nested, Apart
  <2> QED BY <1>4, <1>5, <1>6
<1>8. Proper(n)' BY <1>3 DEF Proper
<1>9. Called'
  <2> SUFFICES ASSUME NEW x \in Active
               PROVE  /\ Pc(x)' \in {"left", "join", "merge"} => x[2] - x[1] >= 2
                      /\ Pc(x)' \in {"left", "join"} => Left(x) \in Active
                      /\ Pc(x)' = "join" => Right(x) \in Active
                      /\ Pc(x)' = "merge" => IsDone(Left(x))' /\ IsDone(Right(x))'
    BY <1>3 DEF Called
  <2>0. x \in Ranges(n) BY ActiveFacts
  <2>1. /\ Pc(x) \in {"left", "join", "merge"} => x[2] - x[1] >= 2
        /\ Pc(x) \in {"left", "join"} => Left(x) \in Active
        /\ Pc(x) = "join" => Right(x) \in Active
        /\ Pc(x) = "merge" => IsDone(Left(x)) /\ IsDone(Right(x))
    BY DEF Called
  <2>2. ASSUME NEW c \in Ranges(n), IsDone(c) PROVE IsDone(c)'
    <3>1. c # r BY <1>2, <2>2 DEF IsDone, Pc
    <3> QED BY <1>1, <2>2, <3>1 DEF IsDone
  <2>3. x[2] - x[1] >= 2 => Left(x) \in Ranges(n) /\ Right(x) \in Ranges(n) BY <2>0, HalfFacts
  <2>4. CASE x = r BY <1>2, <2>1, <2>2, <2>3, <2>4 DEF MovesOn
  <2>5. CASE x # r BY <1>1, <2>0, <2>1, <2>2, <2>3, <2>5
  <2> QED BY <2>4, <2>5
<1> QED BY <1>3, <1>7, <1>8, <1>9

-----------------------------------------------------------------------------
(* The array while it is not written *)

ArrayKept == UNCHANGED <<given, base, tmp>>
DataInv(n) == Untouched /\ HalvesSorted /\ WholeSorted(n) /\ Merging

LEMMA DataHandsOut ==
  ASSUME NEW n \in Nat, MtTypes(n), Nested, Proper(n), Called, DataInv(n), ArrayKept,
         NEW r \in Active, NEW C, HandsOut(r, C)
  PROVE  DataInv(n)'
<1>0. r \in Ranges(n) /\ DOMAIN task = Ranges(n) BY ActiveFacts DEF MtTypes
<1>1. /\ Mid(r) \in Nat /\ r[1] < Mid(r) /\ Mid(r) < r[2] /\ r[1] \in Nat /\ r[2] \in Nat
      /\ Left(r) \in Ranges(n) /\ Right(r) \in Ranges(n)
      /\ Left(r)[1] = r[1] /\ Left(r)[2] = Mid(r) /\ Right(r)[1] = Mid(r) /\ Right(r)[2] = r[2]
      /\ Left(r) # r /\ Right(r) # r /\ Left(r) # Right(r)
  BY <1>0, HalfFacts DEF HandsOut
<1>2. /\ Pc(r) \in {"enter", "left"} /\ Pc(r)' \in {"left", "join"} /\ C \subseteq Ranges(n)
      /\ \A c \in C : Pc(c)' = "enter"
      /\ \A s \in Ranges(n) : s # r /\ s \notin C => task'[s] = task[s] /\ Pc(s)' = Pc(s)
      /\ DOMAIN task' = Ranges(n) /\ r \notin C
  BY <1>0, <1>1 DEF HandsOut, Pc
<1>3. C \cap Active = {} BY HalvesFree DEF HandsOut
<1>4. \A x \in Active' : x \in Ranges(n) /\ (x \in Active \/ x \in C) BY <1>0, <1>2 DEF Active
<1>5. \A x \in Active' : x # r /\ x \notin C => x \in Active /\ task'[x] = task[x] /\ Pc(x)' = Pc(x)
  BY <1>2, <1>4
<1>6. base' = base /\ given' = given /\ tmp' = tmp BY DEF ArrayKept
<1>7. \A c : Result(c)' <=> Result(c) BY <1>6 DEF Result
<1>8. ASSUME NEW c \in Ranges(n), IsDone(c)' PROVE c # r /\ c \notin C /\ IsDone(c) /\ c \in Active
  <2>1. Pc(c)' = "done" BY <1>8 DEF IsDone, Pc
  <2>2. c # r /\ c \notin C BY <1>2, <2>1
  <2>3. Pc(c) = "done" BY <1>2, <2>1, <2>2
  <2> QED BY <1>0, <2>2, <2>3 DEF IsDone, Active, Pc
<1>9. Untouched'
  <2>1. ASSUME NEW x \in Active', Pc(x)' = "enter", NEW i \in x[1] .. (x[2] - 1)
        PROVE  base[i] = given[i]
    <3>1. CASE x \in C
      <4>1. CASE Pc(r) = "enter"
        <5>1. x = Left(r) \/ x = Right(r) BY <3>1, <4>1 DEF HandsOut
        <5>2. i \in r[1] .. (r[2] - 1) BY <1>1, <5>1
        <5> QED BY <4>1, <5>2 DEF DataInv, Untouched
      <4>2. CASE Pc(r) = "left"
        <5>1. x = Right(r) BY <3>1, <4>2 DEF HandsOut
        <5>2. i \in Mid(r) .. (r[2] - 1) BY <1>1, <5>1
        <5> QED BY <4>2, <5>2 DEF DataInv, Untouched
      <4> QED BY <1>2, <4>1, <4>2
    <3>2. CASE x \notin C
      <4>1. x # r BY <1>2, <2>1
      <4> QED BY <1>5, <2>1, <3>2, <4>1 DEF DataInv, Untouched
    <3> QED BY <3>1, <3>2
  <2>2. ASSUME NEW x \in Active', Pc(x)' = "left", NEW i \in Mid(x) .. (x[2] - 1)
        PROVE  base[i] = given[i]
    <3>1. CASE x = r
      <4>1. Pc(r) = "enter" BY <2>2, <3>1 DEF HandsOut
      <4>2. i \in r[1] .. (r[2] - 1) BY <1>1, <3>1
      <4> QED BY <4>1, <4>2 DEF DataInv, Untouched
    <3>2. CASE x # r
      <4>1. x \notin C BY <1>2, <2>2
      <4> QED BY <1>5, <2>2, <3>2, <4>1 DEF DataInv, Untouched
    <3> QED BY <3>1, <3>2
  <2> QED BY <1>6, <2>1, <2>2 DEF Untouched
<1>10. HalvesSorted'
  <2> SUFFICES ASSUME NEW x \in Active', Pc(x)' \in {"left", "join", "merge"},
                      NEW c \in {Left(x), Right(x)}, IsDone(c)'
               PROVE  Result(c)
    BY <1>7 DEF HalvesSorted
  <2>1. x \notin C BY <1>2
  <2>2. CASE x = r
    <3>1. IsDone(c) /\ c \in Active /\ c \notin C BY <1>1, <1>8, <2>2
    <3>2. Pc(r) = "left" BY <2>2, <3>1, HalvesFree, <1>2 DEF HandsOut
    <3> QED BY <2>2, <3>1, <3>2 DEF DataInv, HalvesSorted
  <2>3. CASE x # r
    <3>1. x \in Active /\ Pc(x)' = Pc(x) /\ x \in Ranges(n) BY <1>4, <1>5, <2>1, <2>3
    <3>2. x[2] - x[1] >= 2 BY <3>1 DEF Called
    <3>3. c \in Ranges(n) BY <3>1, <3>2, HalfFacts
    <3>4. IsDone(c) BY <1>8, <3>3
    <3> QED BY <3>1, <3>4 DEF DataInv, HalvesSorted
  <2> QED BY <2>2, <2>3
<1>11. WholeSorted(n)'
  <2>1. <<0, n>> \in Ranges(n) BY DEF Ranges
  <2>2. IsDone(<<0, n>>)' => IsDone(<<0, n>>) BY <1>8, <2>1
  <2> QED BY <1>7, <2>2 DEF DataInv, WholeSorted
<1>12. Merging'
  <2> SUFFICES ASSUME NEW x \in Active', Pc(x)' = "merge" PROVE Taken(x)' BY DEF Merging
  <2>1. x # r /\ x \notin C BY <1>2
  <2>2. x \in Active /\ task'[x] = task[x] /\ Pc(x) = "merge" BY <1>5, <2>1
  <2>3. Taken(x) BY <2>2 DEF DataInv, Merging
  <2> QED BY <1>6, <2>2, <2>3 DEF Taken
<1> QED BY <1>9, <1>10, <1>11, <1>12 DEF DataInv

-----------------------------------------------------------------------------
(* Merging two halves *)

LEMMA ElemsGrow ==
  ASSUME NEW f, NEW lo \in Nat, NEW hi \in Nat, lo <= hi
  PROVE  Elems(f, lo, hi + 1) = Elems(f, lo, hi) \cup {f[hi]}
<1>1. lo .. (hi + 1 - 1) = (lo .. (hi - 1)) \cup {hi} OBVIOUS
<1> QED BY <1>1 DEF Elems

LEMMA ElemsSplit ==
  ASSUME NEW f, NEW lo \in Nat, NEW mid \in Nat, NEW hi \in Nat, lo <= mid, mid <= hi
  PROVE  Elems(f, lo, hi) = Elems(f, lo, mid) \cup Elems(f, mid, hi)
<1>1. lo .. (hi - 1) = (lo .. (mid - 1)) \cup (mid .. (hi - 1)) OBVIOUS
<1> QED BY <1>1 DEF Elems

LEMMA ElemsSame ==
  ASSUME NEW f, NEW g, NEW lo \in Nat, NEW hi \in Nat, \A i \in lo .. (hi - 1) : f[i] = g[i]
  PROVE  Elems(f, lo, hi) = Elems(g, lo, hi) /\ (SortedOn(f, lo, hi) <=> SortedOn(g, lo, hi))
BY DEF Elems, SortedOn

LEMMA TookSame ==
  ASSUME NEW f, NEW g, NEW f2, NEW g2, NEW lo \in Nat, NEW mid \in Nat, NEW hi \in Nat, lo <= mid, mid <= hi,
         NEW li, NEW ri, NEW ti, Took(f, g, lo, mid, hi, li, ri, ti),
         \A i \in lo .. (hi - 1) : f2[i] = f[i] /\ g2[i] = g[i]
  PROVE  Took(f2, g2, lo, mid, hi, li, ri, ti)
<1>1. /\ li \in lo .. mid /\ ri \in mid .. hi /\ ti = li + ri - mid /\ SortedOn(f, lo, ti)
      /\ Elems(f, lo, ti) = Elems(g, lo, li) \cup Elems(g, mid, ri)
      /\ \A k \in lo .. (ti - 1) : \A i \in (li .. (mid - 1)) \cup (ri .. (hi - 1)) : Less(f[k], g[i])
  BY DEF Took
<1>2. li \in Nat /\ ri \in Nat /\ ti \in Nat /\ ti <= hi /\ li <= hi BY <1>1
<1>3. \A k \in lo .. (ti - 1) : f2[k] = f[k] BY <1>2
<1>4. SortedOn(f2, lo, ti) /\ Elems(f2, lo, ti) = Elems(f, lo, ti)
  <2>1. SortedOn(f, lo, ti) BY <1>1
  <2> QED BY <1>2, <1>3, <2>1, ElemsSame
<1>5. Elems(g2, lo, li) = Elems(g, lo, li)
  <2>1. \A k \in lo .. (li - 1) : g2[k] = g[k] BY <1>2
  <2> QED BY <1>2, <2>1, ElemsSame
<1>6. Elems(g2, mid, ri) = Elems(g, mid, ri)
  <2>1. \A k \in mid .. (ri - 1) : g2[k] = g[k] BY <1>1, <1>2
  <2> QED BY <1>2, <2>1, ElemsSame
<1>7. \A i \in (li .. (mid - 1)) \cup (ri .. (hi - 1)) : i \in lo .. (hi - 1) BY <1>1, <1>2
<1>8. \A k \in lo .. (ti - 1) : \A i \in (li .. (mid - 1)) \cup (ri .. (hi - 1)) : Less(f2[k], g2[i])
  BY <1>1, <1>3, <1>7
<1> QED BY <1>1, <1>4, <1>5, <1>6, <1>8 DEF Took

LEMMA TookStart ==
  ASSUME NEW f, NEW g, NEW lo \in Nat, NEW mid \in Nat, NEW hi \in Nat, lo <= mid, mid <= hi
  PROVE  Took(f, g, lo, mid, hi, lo, mid, lo)
<1>1. lo .. (lo - 1) = {} /\ mid .. (mid - 1) = {} OBVIOUS
<1> QED BY <1>1 DEF Took, SortedOn, Elems

\* The halves of g are sorted and the elements of the left one come first among equals.
Halves(g, lo, mid, hi) ==
  /\ SortedOn(g, lo, mid) /\ SortedOn(g, mid, hi)
  /\ \A i \in lo .. (hi - 1) : g[i][1] \in Int /\ g[i][2] \in Int
  /\ \A i \in lo .. (mid - 1), j \in mid .. (hi - 1) : g[i][2] < g[j][2]

\* One element, taken at p, is appended to f at ti.
Appends(f, f2, g, lo, ti, p) == f2[ti] = g[p] /\ \A k \in lo .. (ti - 1) : f2[k] = f[k]

LEMMA SortedAppend ==
  ASSUME NEW f, NEW f2, NEW g, NEW lo \in Nat, NEW ti \in Nat, lo <= ti, NEW p,
         Appends(f, f2, g, lo, ti, p), SortedOn(f, lo, ti), \A k \in lo .. (ti - 1) : Less(f[k], g[p])
  PROVE  SortedOn(f2, lo, ti + 1) /\ Elems(f2, lo, ti + 1) = Elems(f, lo, ti) \cup {g[p]}
<1>1. ASSUME NEW i \in lo .. (ti + 1 - 1), NEW j \in lo .. (ti + 1 - 1), i < j PROVE Less(f2[i], f2[j])
  <2>1. i \in lo .. (ti - 1) /\ f2[i] = f[i] BY <1>1 DEF Appends
  <2>2. CASE j = ti BY <2>1, <2>2 DEF Appends
  <2>3. CASE j # ti
    <3>1. j \in lo .. (ti - 1) /\ f2[j] = f[j] BY <2>3 DEF Appends
    <3> QED BY <1>1, <2>1, <3>1 DEF SortedOn
  <2> QED BY <2>2, <2>3
<1>2. Elems(f2, lo, ti) = Elems(f, lo, ti) BY ElemsSame DEF Appends
<1>3. Elems(f2, lo, ti + 1) = Elems(f2, lo, ti) \cup {f2[ti]} BY ElemsGrow
<1>4. SortedOn(f2, lo, ti + 1) BY <1>1 DEF SortedOn
<1> QED BY <1>2, <1>3, <1>4 DEF Appends

LEMMA TookLeft ==
  ASSUME NEW f, NEW f2, NEW g, NEW lo \in Nat, NEW mid \in Nat, NEW hi \in Nat, lo <= mid, mid <= hi,
         NEW li, NEW ri, NEW ti, Took(f, g, lo, mid, hi, li, ri, ti), Halves(g, lo, mid, hi),
         li < mid, ri < hi => g[li][1] <= g[ri][1], Appends(f, f2, g, lo, ti, li)
  PROVE  Took(f2, g, lo, mid, hi, li + 1, ri, ti + 1)
<1>1. /\ li \in lo .. mid /\ ri \in mid .. hi /\ ti = li + ri - mid /\ SortedOn(f, lo, ti)
      /\ Elems(f, lo, ti) = Elems(g, lo, li) \cup Elems(g, mid, ri)
      /\ \A k \in lo .. (ti - 1) : \A i \in (li .. (mid - 1)) \cup (ri .. (hi - 1)) : Less(f[k], g[i])
  BY DEF Took
<1>2. li \in Nat /\ ri \in Nat /\ ti \in Nat /\ lo <= ti /\ lo <= li BY <1>1
<1>2a. SortedOn(f, lo, ti) BY <1>1
<1>3. li + 1 \in lo .. mid /\ ti + 1 = (li + 1) + ri - mid BY <1>1, <1>2
<1>4. li \in li .. (mid - 1) /\ li \in lo .. (hi - 1) BY <1>1, <1>2
<1>5. \A k \in lo .. (ti - 1) : Less(f[k], g[li]) BY <1>1, <1>4
<1>6. SortedOn(f2, lo, ti + 1) /\ Elems(f2, lo, ti + 1) = Elems(f, lo, ti) \cup {g[li]}
  BY <1>2, <1>2a, <1>5, SortedAppend
<1>7. Elems(g, lo, li + 1) = Elems(g, lo, li) \cup {g[li]} BY <1>2, ElemsGrow
<1>8. Elems(f2, lo, ti + 1) = Elems(g, lo, li + 1) \cup Elems(g, mid, ri) BY <1>1, <1>6, <1>7
<1>9. ASSUME NEW k \in lo .. (ti + 1 - 1), NEW i \in ((li + 1) .. (mid - 1)) \cup (ri .. (hi - 1))
      PROVE  Less(f2[k], g[i])
  <2>1. i \in (li .. (mid - 1)) \cup (ri .. (hi - 1)) BY <1>1, <1>2
  <2>2. CASE k # ti
    <3>1. k \in lo .. (ti - 1) /\ f2[k] = f[k] BY <1>2, <2>2 DEF Appends
    <3> QED BY <1>1, <2>1, <3>1
  <2>3. CASE k = ti
    <3>0. f2[k] = g[li] BY <2>3 DEF Appends
    <3>1. CASE i \in (li + 1) .. (mid - 1)
      <4>1. li \in lo .. (mid - 1) /\ i \in lo .. (mid - 1) /\ li < i BY <1>1, <1>2, <3>1
      <4>2. Less(g[li], g[i]) BY <4>1 DEF Halves, SortedOn
      <4> QED BY <3>0, <4>2
    <3>2. CASE i \in ri .. (hi - 1)
      <4>1. /\ li \in lo .. (mid - 1) /\ i \in mid .. (hi - 1) /\ ri \in mid .. (hi - 1) /\ ri < hi
            /\ i \in lo .. (hi - 1) /\ ri \in lo .. (hi - 1) /\ (i = ri \/ ri < i)
        BY <1>1, <1>2, <3>2
      <4>2. g[li][2] < g[i][2] /\ g[li][1] \in Int /\ g[ri][1] \in Int /\ g[i][1] \in Int
        BY <1>4, <4>1 DEF Halves
      <4>3. g[ri][1] <= g[i][1]
        <5>1. CASE i = ri BY <4>2, <5>1
        <5>2. CASE ri < i
          <6>1. Less(g[ri], g[i]) BY <4>1, <5>2 DEF Halves, SortedOn
          <6> QED BY <4>2, <6>1 DEF Less
        <5> QED BY <4>1, <5>1, <5>2
      <4>4. g[li][1] <= g[ri][1] BY <4>1
      <4>5. Less(g[li], g[i]) BY <4>2, <4>3, <4>4 DEF Less
      <4> QED BY <3>0, <4>5
    <3> QED BY <3>1, <3>2
  <2> QED BY <2>2, <2>3
<1> QED BY <1>1, <1>3, <1>6, <1>8, <1>9 DEF Took

LEMMA TookRight ==
  ASSUME NEW f, NEW f2, NEW g, NEW lo \in Nat, NEW mid \in Nat, NEW hi \in Nat, lo <= mid, mid <= hi,
         NEW li, NEW ri, NEW ti, Took(f, g, lo, mid, hi, li, ri, ti), Halves(g, lo, mid, hi),
         ri < hi, li < mid => g[ri][1] < g[li][1], Appends(f, f2, g, lo, ti, ri)
  PROVE  Took(f2, g, lo, mid, hi, li, ri + 1, ti + 1)
<1>1. /\ li \in lo .. mid /\ ri \in mid .. hi /\ ti = li + ri - mid /\ SortedOn(f, lo, ti)
      /\ Elems(f, lo, ti) = Elems(g, lo, li) \cup Elems(g, mid, ri)
      /\ \A k \in lo .. (ti - 1) : \A i \in (li .. (mid - 1)) \cup (ri .. (hi - 1)) : Less(f[k], g[i])
  BY DEF Took
<1>2. li \in Nat /\ ri \in Nat /\ ti \in Nat /\ lo <= ti /\ lo <= li /\ mid <= ri BY <1>1
<1>2a. SortedOn(f, lo, ti) BY <1>1
<1>3. ri + 1 \in mid .. hi /\ ti + 1 = li + (ri + 1) - mid BY <1>1, <1>2
<1>4. ri \in ri .. (hi - 1) /\ ri \in lo .. (hi - 1) BY <1>1, <1>2
<1>5. \A k \in lo .. (ti - 1) : Less(f[k], g[ri]) BY <1>1, <1>4
<1>6. SortedOn(f2, lo, ti + 1) /\ Elems(f2, lo, ti + 1) = Elems(f, lo, ti) \cup {g[ri]}
  BY <1>2, <1>2a, <1>5, SortedAppend
<1>7. Elems(g, mid, ri + 1) = Elems(g, mid, ri) \cup {g[ri]} BY <1>2, ElemsGrow
<1>8. Elems(f2, lo, ti + 1) = Elems(g, lo, li) \cup Elems(g, mid, ri + 1) BY <1>1, <1>6, <1>7
<1>9. ASSUME NEW k \in lo .. (ti + 1 - 1), NEW i \in (li .. (mid - 1)) \cup ((ri + 1) .. (hi - 1))
      PROVE  Less(f2[k], g[i])
  <2>1. i \in (li .. (mid - 1)) \cup (ri .. (hi - 1)) BY <1>1, <1>2
  <2>2. CASE k # ti
    <3>1. k \in lo .. (ti - 1) /\ f2[k] = f[k] BY <1>2, <2>2 DEF Appends
    <3> QED BY <1>1, <2>1, <3>1
  <2>3. CASE k = ti
    <3>0. f2[k] = g[ri] BY <2>3 DEF Appends
    <3>1. CASE i \in (ri + 1) .. (hi - 1)
      <4>1. ri \in mid .. (hi - 1) /\ i \in mid .. (hi - 1) /\ ri < i BY <1>1, <1>2, <3>1
      <4>2. Less(g[ri], g[i]) BY <4>1 DEF Halves, SortedOn
      <4> QED BY <3>0, <4>2
    <3>2. CASE i \in li .. (mid - 1)
      <4>1. /\ i \in lo .. (mid - 1) /\ li \in lo .. (mid - 1) /\ li < mid
            /\ i \in lo .. (hi - 1) /\ li \in lo .. (hi - 1) /\ (i = li \/ li < i)
        BY <1>1, <1>2, <3>2
      <4>2. g[li][1] \in Int /\ g[ri][1] \in Int /\ g[i][1] \in Int
        BY <1>4, <4>1 DEF Halves
      <4>3. g[li][1] <= g[i][1]
        <5>1. CASE i = li BY <4>2, <5>1
        <5>2. CASE li < i
          <6>1. Less(g[li], g[i]) BY <4>1, <5>2 DEF Halves, SortedOn
          <6> QED BY <4>2, <6>1 DEF Less
        <5> QED BY <4>1, <5>1, <5>2
      <4>4. g[ri][1] < g[li][1] BY <4>1
      <4>5. Less(g[ri], g[i]) BY <4>2, <4>3, <4>4 DEF Less
      <4> QED BY <3>0, <4>5
    <3> QED BY <3>1, <3>2
  <2> QED BY <2>2, <2>3
<1> QED BY <1>1, <1>3, <1>6, <1>8, <1>9 DEF Took

LEMMA TookAll ==
  ASSUME NEW f, NEW g, NEW lo \in Nat, NEW mid \in Nat, NEW hi \in Nat, lo <= mid, mid <= hi,
         NEW li, NEW ri, Took(f, g, lo, mid, hi, li, ri, hi)
  PROVE  SortedOn(f, lo, hi) /\ Elems(f, lo, hi) = Elems(g, lo, mid) \cup Elems(g, mid, hi)
<1>1. li \in lo .. mid /\ ri \in mid .. hi /\ hi = li + ri - mid BY DEF Took
<1>2. li = mid /\ ri = hi BY <1>1
<1> QED BY <1>2 DEF Took

-----------------------------------------------------------------------------
(* The steps that change the array, the buffer or the place of a merge *)

Outside(f, g, r, n) == \A i \in 0 .. (n - 1) : i \notin r[1] .. (r[2] - 1) => f[i] = g[i]

\* What is apart from r is not changed by a step that stays in r.
LEMMA ApartKept ==
  ASSUME NEW n \in Nat, NEW r \in Ranges(n), NEW s \in Ranges(n), Apart(s, r),
         NEW f, NEW g, Outside(f, g, r, n)
  PROVE  \A i \in s[1] .. (s[2] - 1) : f[i] = g[i]
<1>1. /\ r[1] \in Nat /\ r[2] \in Nat /\ s[1] \in Nat /\ s[2] \in Nat
      /\ r[1] <= r[2] /\ s[1] <= s[2] /\ r[2] <= n /\ s[2] <= n
  BY RangeFacts
<1>2. ASSUME NEW i \in s[1] .. (s[2] - 1) PROVE i \in 0 .. (n - 1) /\ i \notin r[1] .. (r[2] - 1)
  BY <1>1 DEF Apart
<1> QED BY <1>2 DEF Outside

LEMMA ResultKept ==
  ASSUME NEW n \in Nat, NEW c \in Ranges(n), given' = given, Result(c),
         \A i \in c[1] .. (c[2] - 1) : base'[i] = base[i]
  PROVE  Result(c)'
<1>1. c[1] \in Nat /\ c[2] \in Nat BY RangeFacts
<1>2. PICK b : b = base' OBVIOUS
<1>3. Elems(b, c[1], c[2]) = Elems(base, c[1], c[2]) /\ (SortedOn(b, c[1], c[2]) <=> SortedOn(base, c[1], c[2]))
  <2>1. \A i \in c[1] .. (c[2] - 1) : b[i] = base[i] BY <1>2
  <2> HIDE <1>2
  <2> QED BY <1>1, <2>1, ElemsSame
<1>4. SortedOn(b, c[1], c[2]) /\ Elems(b, c[1], c[2]) = Elems(given, c[1], c[2]) BY <1>3 DEF Result
<1> QED BY <1>2, <1>4 DEF Result

\* Two calls that merge are apart.
LEMMA MergesApart ==
  ASSUME NEW n \in Nat, MtTypes(n), Nested, NEW r \in Active, NEW s \in Active, r # s,
         Pc(r) = "merge", Pc(s) \in {"enter", "merge"}
  PROVE  Apart(s, r)
<1>1. ~Under(s, r) BY DEF Under
<1>2. ~Under(r, s) BY DEF Under
<1> QED BY <1>1, <1>2 DEF Nested, Apart

\* A half that is done is not in a range that is being merged, but for its own call's.
LEMMA DoneHalfApart ==
  ASSUME NEW n \in Nat, MtTypes(n), Nested, Called, NEW r \in Active, Pc(r) = "merge",
         NEW x \in Active, x # r, Pc(x) \in {"left", "join", "merge"},
         NEW c \in {Left(x), Right(x)}, IsDone(c)
  PROVE  Apart(c, r)
<1>1. r \in Ranges(n) /\ x \in Ranges(n) /\ DOMAIN task = Ranges(n) BY ActiveFacts DEF MtTypes
<1>2. x[2] - x[1] >= 2 /\ r[2] - r[1] >= 2 BY DEF Called
<1>3. /\ Mid(x) \in Nat /\ x[1] < Mid(x) /\ Mid(x) < x[2] /\ x[1] \in Nat /\ x[2] \in Nat
      /\ Left(x) \in Ranges(n) /\ Right(x) \in Ranges(n)
      /\ Left(x)[1] = x[1] /\ Left(x)[2] = Mid(x) /\ Right(x)[1] = Mid(x) /\ Right(x)[2] = x[2]
  BY <1>1, <1>2, HalfFacts
<1>4. c \in Ranges(n) /\ c[1] < c[2] /\ In(c, x) /\ c[1] \in Nat /\ c[2] \in Nat BY <1>3 DEF In
<1>5. c \in Active /\ Pc(c) = "done" BY <1>1, <1>4 DEF IsDone, Active, Pc
<1>6. c # r BY <1>5
<1>7. ~Under(r, c) BY <1>5 DEF Under
<1>8. ~Under(x, r) BY DEF Under
<1>9. r[1] \in Nat /\ r[2] \in Nat BY <1>1, RangeFacts
<1>10. ASSUME Under(c, r) PROVE FALSE
  <2>1. In(c, Left(r)) \/ In(c, Right(r)) BY <1>10 DEF Under
  <2>2. /\ Mid(r) \in Nat /\ r[1] < Mid(r) /\ Mid(r) < r[2]
        /\ Left(r)[1] = r[1] /\ Left(r)[2] = Mid(r) /\ Right(r)[1] = Mid(r) /\ Right(r)[2] = r[2]
    BY <1>1, <1>2, HalfFacts
  <2>3. In(c, r) /\ ~In(r, c) BY <1>4, <1>9, <2>1, <2>2 DEF In
  <2>4. ~Apart(x, r) /\ ~Apart(r, x) BY <1>3, <1>4, <1>9, <2>3 DEF In, Apart
  <2>5. Under(r, x) BY <1>8, <2>4 DEF Nested
  <2>6. In(r, Left(x)) \/ In(r, Right(x)) BY <2>5 DEF Under
  <2> QED BY <1>3, <1>4, <1>9, <2>3, <2>6 DEF In
<1> QED BY <1>5, <1>6, <1>7, <1>10 DEF Nested, Apart

LEMMA DataMovesOn ==
  ASSUME NEW n \in Nat, MtTypes(n), Nested, Proper(n), Called, DataInv(n), NEW r \in Active, MovesOn(r),
         given' = given, tmp' = tmp, Outside(base', base, r, n), Pc(r) # "merge" => base' = base,
         Pc(r)' = "done" => Result(r)', Pc(r)' = "merge" => Taken(r)'
  PROVE  DataInv(n)'
<1>0. r \in Ranges(n) /\ DOMAIN task = Ranges(n) BY ActiveFacts DEF MtTypes
<1>1. \A s \in Ranges(n) : s # r => task'[s] = task[s] /\ Pc(s)' = Pc(s)
  BY <1>0 DEF MovesOn, Pc
<1>2. Pc(r) \in {"enter", "join", "merge"} /\ Pc(r)' \in {"merge", "done"} BY DEF MovesOn
<1>3. Active' = Active BY NestedMovesOn
<1>4. \A x \in Active : x \in Ranges(n) /\ (x # r => task'[x] = task[x] /\ Pc(x)' = Pc(x))
  BY <1>1, ActiveFacts
<1>5. ASSUME NEW s \in Ranges(n), Pc(r) = "merge" => Apart(s, r)
      PROVE  \A i \in s[1] .. (s[2] - 1) : base'[i] = base[i]
  <2>1. CASE Pc(r) # "merge" BY <2>1
  <2>2. CASE Pc(r) = "merge"
    <3>1. PICK b : b = base' OBVIOUS
    <3>2. Outside(b, base, r, n) BY <3>1
    <3>3. \A i \in s[1] .. (s[2] - 1) : b[i] = base[i]
      <4> HIDE <3>1
      <4> QED BY <1>0, <1>5, <2>2, <3>2, ApartKept
    <3> QED BY <3>1, <3>3
  <2> QED BY <2>1, <2>2
<1>6. ASSUME NEW c \in Ranges(n), IsDone(c)' PROVE c = r \/ IsDone(c)
  BY <1>1, <1>6 DEF IsDone
<1>7. Untouched'
  <2>1. ASSUME NEW x \in Active, Pc(x)' = "enter", NEW i \in x[1] .. (x[2] - 1)
        PROVE  base'[i] = given[i]
    <3>1. x # r /\ Pc(x) = "enter" /\ x \in Ranges(n) BY <1>2, <1>4, <2>1
    <3>2. Pc(r) = "merge" => Apart(x, r) BY <3>1, MergesApart
    <3>3. base'[i] = base[i] BY <1>5, <3>1, <3>2
    <3> QED BY <3>1, <3>3 DEF DataInv, Untouched
  <2>2. ASSUME NEW x \in Active, Pc(x)' = "left", NEW i \in Mid(x) .. (x[2] - 1)
        PROVE  base'[i] = given[i]
    <3>1. x # r /\ Pc(x) = "left" /\ x \in Ranges(n) BY <1>2, <1>4, <2>2
    <3>2. x[2] - x[1] >= 2 BY <3>1 DEF Called
    <3>3. /\ Right(x) \in Ranges(n) /\ Right(x)[1] = Mid(x) /\ Right(x)[2] = x[2]
          /\ Left(x)[1] = x[1] /\ Left(x)[2] = Mid(x) /\ Left(x) \in Ranges(n)
          /\ Mid(x) \in Nat /\ x[1] < Mid(x) /\ Mid(x) < x[2] /\ x[1] \in Nat /\ x[2] \in Nat
      BY <3>1, <3>2, HalfFacts
    <3>4. ASSUME Pc(r) = "merge" PROVE Apart(Right(x), r)
      <4>1. ~Under(x, r) BY <3>1, <3>4 DEF Under
      <4>2. r[1] \in Nat /\ r[2] \in Nat BY <1>0, RangeFacts
      <4>3. CASE Apart(x, r) BY <3>3, <4>2, <4>3 DEF Apart
      <4>4. CASE Under(r, x)
        <5>1. In(r, Left(x)) BY <3>1, <4>4 DEF Under
        <5> QED BY <3>3, <4>2, <5>1 DEF In, Apart
      <4> QED BY <3>1, <4>1, <4>3, <4>4 DEF Nested
    <3>5. base'[i] = base[i] BY <1>5, <3>3, <3>4
    <3> QED BY <3>1, <3>5 DEF DataInv, Untouched
  <2> QED BY <1>3, <2>1, <2>2 DEF Untouched
<1>8. HalvesSorted'
  <2> SUFFICES ASSUME NEW x \in Active, Pc(x)' \in {"left", "join", "merge"},
                      NEW c \in {Left(x), Right(x)}, IsDone(c)'
               PROVE  Result(c)'
    BY <1>3 DEF HalvesSorted
  <2>1. x \in Ranges(n) /\ Pc(x) \in {"left", "join", "merge"} BY <1>2, <1>4 DEF MovesOn
  <2>2. x[2] - x[1] >= 2 BY <2>1 DEF Called
  <2>3. c \in Ranges(n) BY <2>1, <2>2, HalfFacts
  <2>4. CASE c = r
    <3>1. Pc(r)' = "done" BY <2>4 DEF IsDone, Pc
    <3> QED BY <2>4, <3>1
  <2>5. CASE c # r
    <3>1. IsDone(c) BY <1>6, <2>3, <2>5
    <3>2. Result(c) BY <2>1, <3>1 DEF DataInv, HalvesSorted
    <3>3. ASSUME Pc(r) = "merge" PROVE Apart(c, r)
      <4>1. x # r BY <3>3, <1>2 DEF MovesOn
      <4> QED BY <2>1, <3>1, <3>3, <4>1, DoneHalfApart
    <3>4. \A i \in c[1] .. (c[2] - 1) : base'[i] = base[i] BY <1>5, <2>3, <3>3
    <3> QED BY <2>3, <3>2, <3>4, ResultKept
  <2> QED BY <2>4, <2>5
<1>9. WholeSorted(n)'
  <2> SUFFICES ASSUME IsDone(<<0, n>>)' PROVE Result(<<0, n>>)' BY DEF WholeSorted
  <2> DEFINE W == <<0, n>>
  <2>1. W \in Ranges(n) BY DEF Ranges
  <2>2. CASE W = r
    <3>1. Pc(r)' = "done" BY <2>2 DEF IsDone, Pc
    <3> QED BY <2>2, <3>1
  <2>3. CASE W # r
    <3>1. IsDone(W) BY <1>6, <2>1, <2>3
    <3>2. Result(W) BY <3>1 DEF DataInv, WholeSorted
    <3>3. ASSUME Pc(r) = "merge" PROVE FALSE
      <4>1. W \in Active /\ Pc(W) = "done" BY <1>0, <2>1, <3>1 DEF IsDone, Active, Pc
      <4>2. r[2] - r[1] >= 2 BY <3>3 DEF Called
      <4>3. In(r, W) /\ ~Apart(W, r) /\ ~Apart(r, W) BY <1>0, <4>2, RangeFacts DEF In, Apart
      <4>4. ~Under(W, r) BY <1>0, <2>1, <4>3, NotBothWays
      <4>5. ~Under(r, W) BY <3>3, <4>1 DEF Under
      <4> QED BY <2>3, <4>1, <4>3, <4>4, <4>5 DEF Nested
    <3>4. \A i \in W[1] .. (W[2] - 1) : base'[i] = base[i] BY <1>5, <2>1, <3>3
    <3> HIDE DEF W
    <3>5. Result(W)' BY <2>1, <3>2, <3>4, ResultKept
    <3> QED BY <3>5 DEF W
  <2> QED BY <2>2, <2>3
<1>10. Merging'
  <2> SUFFICES ASSUME NEW x \in Active, Pc(x)' = "merge" PROVE Taken(x)' BY <1>3 DEF Merging
  <2>1. CASE x = r BY <2>1
  <2>2. CASE x # r
    <3>1. x \in Ranges(n) /\ Pc(x) = "merge" /\ task'[x] = task[x] BY <1>4, <2>2
    <3>2. Taken(x) BY <3>1 DEF DataInv, Merging
    <3>3. Pc(r) = "merge" => Apart(x, r) BY <2>2, <3>1, MergesApart
    <3>4. \A i \in x[1] .. (x[2] - 1) : base'[i] = base[i] BY <1>5, <3>1, <3>3
    <3>5. x[2] - x[1] >= 2 BY <3>1 DEF Called
    <3>6. Mid(x) \in Nat /\ x[1] <= Mid(x) /\ Mid(x) <= x[2] /\ x[1] \in Nat /\ x[2] \in Nat
      BY <3>1, <3>5, HalfFacts
    <3>7. PICK b : b = base' OBVIOUS
    <3>8. Took(tmp, b, x[1], Mid(x), x[2], task[x].li, task[x].ri, task[x].ti)
      <4>1. \A i \in x[1] .. (x[2] - 1) : tmp[i] = tmp[i] /\ b[i] = base[i] BY <3>4, <3>7
      <4>2. Took(tmp, base, x[1], Mid(x), x[2], task[x].li, task[x].ri, task[x].ti) BY <3>2 DEF Taken
      <4> HIDE <3>7
      <4> QED BY <3>6, <4>1, <4>2, TookSame
    <3> QED BY <3>1, <3>7, <3>8 DEF Taken
  <2> QED BY <2>1, <2>2
<1> QED BY <1>7, <1>8, <1>9, <1>10 DEF DataInv

\* The halves that a call merges are sorted, and equal elements are told apart by where they were.
LEMMA MergeHalves ==
  ASSUME NEW n \in Nat, MtTypes(n), Called, DataInv(n), NEW r \in Active, Pc(r) = "merge"
  PROVE  /\ Halves(base, r[1], Mid(r), r[2])
         /\ Elems(base, r[1], Mid(r)) \cup Elems(base, Mid(r), r[2]) = Elems(given, r[1], r[2])
<1>1. r \in Ranges(n) BY ActiveFacts
<1>2. r[2] - r[1] >= 2 /\ IsDone(Left(r)) /\ IsDone(Right(r)) BY DEF Called
<1>3. /\ Mid(r) \in Nat /\ r[1] < Mid(r) /\ Mid(r) < r[2] /\ r[1] \in Nat /\ r[2] \in Nat
      /\ Left(r)[1] = r[1] /\ Left(r)[2] = Mid(r) /\ Right(r)[1] = Mid(r) /\ Right(r)[2] = r[2]
  BY <1>1, <1>2, HalfFacts
<1>4. Result(Left(r)) /\ Result(Right(r)) BY <1>2 DEF DataInv, HalvesSorted
<1>5. /\ SortedOn(base, r[1], Mid(r)) /\ SortedOn(base, Mid(r), r[2])
      /\ Elems(base, r[1], Mid(r)) = Elems(given, r[1], Mid(r))
      /\ Elems(base, Mid(r), r[2]) = Elems(given, Mid(r), r[2])
  BY <1>3, <1>4 DEF Result
<1>6. r[2] <= n BY <1>1, RangeFacts
<1>7. ASSUME NEW i \in r[1] .. (Mid(r) - 1)
      PROVE  base[i][1] \in Int /\ base[i][2] \in Int /\ base[i][2] < Mid(r)
  <2>1. PICK j \in r[1] .. (Mid(r) - 1) : base[i] = given[j] BY <1>5 DEF Elems
  <2>2. j \in 0 .. (n - 1) /\ j < Mid(r) BY <1>3, <1>6
  <2>3. given[j][1] \in Int /\ given[j][2] = j BY <2>2 DEF MtTypes
  <2> QED BY <2>1, <2>2, <2>3
<1>8. ASSUME NEW i \in Mid(r) .. (r[2] - 1)
      PROVE  base[i][1] \in Int /\ base[i][2] \in Int /\ Mid(r) <= base[i][2]
  <2>1. PICK j \in Mid(r) .. (r[2] - 1) : base[i] = given[j] BY <1>5 DEF Elems
  <2>2. j \in 0 .. (n - 1) /\ Mid(r) <= j BY <1>3, <1>6
  <2>3. given[j][1] \in Int /\ given[j][2] = j BY <2>2 DEF MtTypes
  <2> QED BY <2>1, <2>2, <2>3
<1>9. \A i \in r[1] .. (r[2] - 1) : i \in r[1] .. (Mid(r) - 1) \/ i \in Mid(r) .. (r[2] - 1)
  BY <1>3
<1>10. \A i \in r[1] .. (r[2] - 1) : base[i][1] \in Int /\ base[i][2] \in Int BY <1>7, <1>8, <1>9
<1>11. \A i \in r[1] .. (Mid(r) - 1), j \in Mid(r) .. (r[2] - 1) : base[i][2] < base[j][2]
  <2> SUFFICES ASSUME NEW i \in r[1] .. (Mid(r) - 1), NEW j \in Mid(r) .. (r[2] - 1)
               PROVE  base[i][2] < base[j][2] OBVIOUS
  <2>1. base[i][2] \in Int /\ base[i][2] < Mid(r) BY <1>7
  <2>2. base[j][2] \in Int /\ Mid(r) <= base[j][2] BY <1>8
  <2> QED BY <1>3, <2>1, <2>2
<1>12. Elems(given, r[1], r[2]) = Elems(given, r[1], Mid(r)) \cup Elems(given, Mid(r), r[2])
  BY <1>3, ElemsSplit
<1>13. Halves(base, r[1], Mid(r), r[2]) BY <1>5, <1>10, <1>11 DEF Halves
<1> QED BY <1>5, <1>12, <1>13

\* r takes one element.
LEMMA DataMerges ==
  ASSUME NEW n \in Nat, MtTypes(n), Nested, Called, DataInv(n), NEW r \in Active, Pc(r) = "merge",
         given' = given, base' = base, Outside(tmp', tmp, r, n), DOMAIN task' = DOMAIN task,
         \A s \in DOMAIN task : s # r => task'[s] = task[s], Pc(r)' = "merge", Taken(r)'
  PROVE  Nested' /\ (Proper(n) => Proper(n)') /\ Called' /\ DataInv(n)'
<1>0. r \in Ranges(n) /\ DOMAIN task = Ranges(n) BY ActiveFacts DEF MtTypes
<1>1. \A s \in Ranges(n) : Pc(s)' = Pc(s) /\ (IsDone(s)' <=> IsDone(s)) BY <1>0 DEF Pc, IsDone
<1>2. Active' = Active BY <1>0, <1>1 DEF Active
<1>3. \A x \in Active : x \in Ranges(n) /\ Pc(x)' = Pc(x) BY <1>1, ActiveFacts
<1>4. Nested'
  <2> SUFFICES ASSUME NEW x \in Active, NEW y \in Active, x # y
               PROVE  Apart(x, y) \/ Under(y, x)' \/ Under(x, y)'
    BY <1>2 DEF Nested, Apart
  <2>1. Pc(x)' = Pc(x) /\ Pc(y)' = Pc(y) BY <1>3
  <2>2. Apart(x, y) \/ Under(y, x) \/ Under(x, y) BY DEF Nested
  <2> QED BY <2>1, <2>2 DEF Under
<1>5. Proper(n) => Proper(n)' BY <1>2 DEF Proper
<1>6. ASSUME NEW x \in Active, Pc(x) \in {"left", "join", "merge"}
      PROVE  x[2] - x[1] >= 2 /\ Left(x) \in Ranges(n) /\ Right(x) \in Ranges(n)
  <2>1. x[2] - x[1] >= 2 BY <1>6 DEF Called
  <2> QED BY <1>3, <2>1, HalfFacts
<1>7. Called'
  <2> SUFFICES ASSUME NEW x \in Active
               PROVE  /\ Pc(x) \in {"left", "join", "merge"} => x[2] - x[1] >= 2
                      /\ Pc(x) \in {"left", "join"} => Left(x) \in Active
                      /\ Pc(x) = "join" => Right(x) \in Active
                      /\ Pc(x) = "merge" => IsDone(Left(x))' /\ IsDone(Right(x))'
    BY <1>2, <1>3 DEF Called
  <2>1. Pc(x) = "merge" => IsDone(Left(x))' /\ IsDone(Right(x))' BY <1>1, <1>6 DEF Called
  <2> QED BY <2>1 DEF Called
<1>8. \A c : Result(c)' <=> Result(c) BY DEF Result
<1>9. Untouched' BY <1>2, <1>3 DEF DataInv, Untouched
<1>10. HalvesSorted'
  <2> SUFFICES ASSUME NEW x \in Active, Pc(x) \in {"left", "join", "merge"},
                      NEW c \in {Left(x), Right(x)}, IsDone(c)'
               PROVE  Result(c)
    BY <1>2, <1>3, <1>8 DEF HalvesSorted
  <2>1. IsDone(c) BY <1>1, <1>6
  <2> QED BY <2>1 DEF DataInv, HalvesSorted
<1>11. WholeSorted(n)'
  <2>1. <<0, n>> \in Ranges(n) BY DEF Ranges
  <2> QED BY <1>1, <1>8, <2>1 DEF DataInv, WholeSorted
<1>12. Merging'
  <2> SUFFICES ASSUME NEW x \in Active, Pc(x) = "merge" PROVE Taken(x)' BY <1>2, <1>3 DEF Merging
  <2>1. CASE x = r BY <2>1
  <2>2. CASE x # r
    <3>1. x \in Ranges(n) /\ task'[x] = task[x] BY <1>0, <1>3, <2>2
    <3>2. Taken(x) BY DEF DataInv, Merging
    <3>3. Apart(x, r) BY <2>2, MergesApart
    <3>5. Mid(x) \in Nat /\ x[1] <= Mid(x) /\ Mid(x) <= x[2] /\ x[1] \in Nat /\ x[2] \in Nat
      BY <1>6, <3>1, HalfFacts
    <3>7. PICK b : b = tmp' OBVIOUS
    <3>8. Took(b, base, x[1], Mid(x), x[2], task[x].li, task[x].ri, task[x].ti)
      <4>1. Outside(b, tmp, r, n) BY <3>7
      <4>2. Took(tmp, base, x[1], Mid(x), x[2], task[x].li, task[x].ri, task[x].ti) BY <3>2 DEF Taken
      <4> HIDE <3>7
      <4>3. \A i \in x[1] .. (x[2] - 1) : b[i] = tmp[i] BY <1>0, <3>1, <3>3, <4>1, ApartKept
      <4>4. \A i \in x[1] .. (x[2] - 1) : b[i] = tmp[i] /\ base[i] = base[i] BY <4>3
      <4> QED BY <3>5, <4>2, <4>4, TookSame
    <3> QED BY <3>1, <3>7, <3>8 DEF Taken
  <2> QED BY <2>1, <2>2
<1> QED BY <1>4, <1>5, <1>7, <1>9, <1>10, <1>11, <1>12 DEF DataInv

\* The fields of the calls after a step.
TaskTypes(n) ==
  /\ DOMAIN task = Ranges(n)
  /\ \A r \in Ranges(n) :
       /\ DOMAIN task[r] = {"pc", "depth", "li", "ri", "ti"}
       /\ Pc(r) \in {"none", "enter", "left", "join", "merge", "done"}

LEMMA CallFacts ==
  ASSUME NEW d
  PROVE  Call(d).pc = "enter" /\ DOMAIN Call(d) = {"pc", "depth", "li", "ri", "ti"}
BY DEF Call, Idle

LEMMA SmallStep ==
  ASSUME NEW n \in Nat, MtInv(n), NEW r \in DOMAIN task, msort_small(r)
  PROVE  MtInv(n)'
<1>0. r \in Ranges(n) /\ DOMAIN task = Ranges(n) BY DEF MtInv, MtTypes
<1>1. r \in Active BY DEF msort_small, Active, Pc
<1>2. task' = [task EXCEPT ![r].pc = "done"] BY DEF msort_small
<1>3. /\ DOMAIN task' = DOMAIN task /\ \A s \in DOMAIN task : s # r => task'[s] = task[s]
      /\ task'[r] = [task[r] EXCEPT !.pc = "done"]
  BY <1>2
<1>4. TaskTypes(n)'
  <2>1. task'[r].pc = "done" /\ DOMAIN task'[r] = DOMAIN task[r] BY <1>0, <1>3 DEF MtInv, MtTypes
  <2> QED BY <1>0, <1>3, <2>1 DEF MtInv, MtTypes, TaskTypes, Pc
<1>5. Pc(r)' = "done" BY <1>0, <1>3 DEF MtInv, MtTypes, Pc
<1>6. Pc(r) = "enter" /\ r[2] - r[1] < 2 /\ UNCHANGED <<given, base, tmp>> BY DEF msort_small, Pc
<1>7. MovesOn(r) BY <1>3, <1>5, <1>6 DEF MovesOn
<1>8. Result(r)'
  <2>1. r[1] \in Nat /\ r[2] \in Nat BY <1>0, RangeFacts
  <2>2. \A i \in r[1] .. (r[2] - 1) : base[i] = given[i] BY <1>1, <1>6 DEF MtInv, Untouched
  <2>3. SortedOn(base, r[1], r[2]) BY <1>6, <2>1 DEF SortedOn
  <2>4. Elems(base, r[1], r[2]) = Elems(given, r[1], r[2]) BY <2>2 DEF Elems
  <2> QED BY <1>6, <2>3, <2>4 DEF Result
<1>9. DataInv(n)'
  <2>1. Outside(base', base, r, n) BY <1>6 DEF Outside
  <2> QED BY <1>1, <1>5, <1>6, <1>7, <1>8, <2>1, DataMovesOn DEF MtInv, DataInv
<1>10. Nested' /\ Proper(n)' /\ Called' BY <1>1, <1>7, NestedMovesOn DEF MtInv
<1>11. MtTypes(n)' BY <1>4, <1>6 DEF MtInv, MtTypes, TaskTypes
<1> QED BY <1>9, <1>10, <1>11 DEF MtInv, DataInv

\* The steps that hand out a half, or both.
LEMMA HandingStep ==
  ASSUME NEW n \in Nat, MtInv(n), NEW r \in Active, NEW C, HandsOut(r, C), ArrayKept, TaskTypes(n)'
  PROVE  MtInv(n)'
<1>1. Nested' /\ Proper(n)' /\ Called' BY NestedHandsOut DEF MtInv
<1>2. DataInv(n)' BY DataHandsOut DEF MtInv, DataInv
<1>3. MtTypes(n)' BY DEF MtInv, MtTypes, TaskTypes, ArrayKept
<1> QED BY <1>1, <1>2, <1>3 DEF MtInv, DataInv

LEMMA SeqStep ==
  ASSUME NEW n \in Nat, MtInv(n), NEW r \in DOMAIN task, msort_seq(r) \/ msort_par_inline(r)
  PROVE  MtInv(n)'
<1>0. r \in Ranges(n) /\ DOMAIN task = Ranges(n) BY DEF MtInv, MtTypes
<1>1. /\ Pc(r) = "enter" /\ r[2] - r[1] >= 2 /\ ArrayKept
      /\ \/ task' = [task EXCEPT ![r].pc = "left", ![r].depth = 0, ![Left(r)] = Call(0)]
         \/ task' = [task EXCEPT ![r].pc = "left", ![Left(r)] = Call(0)]
  BY DEF msort_seq, msort_par_inline, Pc, ArrayKept
<1>2. r \in Active BY <1>1 DEF Active
<1>3. Left(r) \in Ranges(n) /\ Left(r) # r BY <1>0, <1>1, HalfFacts
<1>4. /\ DOMAIN task' = DOMAIN task /\ task'[Left(r)] = Call(0)
      /\ \A s \in DOMAIN task : s # r /\ s # Left(r) => task'[s] = task[s]
  BY <1>0, <1>1, <1>3
<1>5. task'[r].pc = "left" /\ DOMAIN task'[r] = DOMAIN task[r]
  <2>1. DOMAIN task[r] = {"pc", "depth", "li", "ri", "ti"} BY <1>0 DEF MtInv, MtTypes
  <2>2. CASE task' = [task EXCEPT ![r].pc = "left", ![r].depth = 0, ![Left(r)] = Call(0)]
    <3>1. task'[r] = [[task[r] EXCEPT !.pc = "left"] EXCEPT !.depth = 0] BY <1>0, <1>3, <2>2
    <3> QED BY <2>1, <3>1
  <2>3. CASE task' = [task EXCEPT ![r].pc = "left", ![Left(r)] = Call(0)]
    <3>1. task'[r] = [task[r] EXCEPT !.pc = "left"] BY <1>0, <1>3, <2>3
    <3> QED BY <2>1, <3>1
  <2> QED BY <1>1, <2>2, <2>3
<1>6. TaskTypes(n)' BY <1>0, <1>4, <1>5, CallFacts DEF MtInv, MtTypes, TaskTypes, Pc
<1>7. HandsOut(r, {Left(r)}) BY <1>1, <1>4, <1>5, CallFacts DEF HandsOut, Pc
<1> QED BY <1>1, <1>2, <1>6, <1>7, HandingStep

LEMMA ParStep ==
  ASSUME NEW n \in Nat, MtInv(n), NEW r \in DOMAIN task, msort_par(r)
  PROVE  MtInv(n)'
<1>0. r \in Ranges(n) /\ DOMAIN task = Ranges(n) BY DEF MtInv, MtTypes
<1>1. PICK d : /\ Pc(r) = "enter" /\ r[2] - r[1] >= 2 /\ ArrayKept
               /\ task' = [task EXCEPT ![r].pc = "join", ![Left(r)] = Call(d), ![Right(r)] = Call(d)]
  BY DEF msort_par, Pc, ArrayKept
<1>2. r \in Active BY <1>1 DEF Active
<1>3. /\ Left(r) \in Ranges(n) /\ Left(r) # r /\ Right(r) \in Ranges(n) /\ Right(r) # r
      /\ Left(r) # Right(r)
  BY <1>0, <1>1, HalfFacts
<1>4. /\ DOMAIN task' = DOMAIN task /\ task'[Left(r)] = Call(d) /\ task'[Right(r)] = Call(d)
      /\ \A s \in DOMAIN task : s # r /\ s # Left(r) /\ s # Right(r) => task'[s] = task[s]
      /\ task'[r] = [task[r] EXCEPT !.pc = "join"]
  BY <1>0, <1>1, <1>3
<1>5. task'[r].pc = "join" /\ DOMAIN task'[r] = DOMAIN task[r] BY <1>0, <1>4 DEF MtInv, MtTypes
<1>6. TaskTypes(n)' BY <1>0, <1>4, <1>5, CallFacts DEF MtInv, MtTypes, TaskTypes, Pc
<1>7. HandsOut(r, {Left(r), Right(r)}) BY <1>1, <1>4, <1>5, CallFacts DEF HandsOut, Pc
<1> QED BY <1>1, <1>2, <1>6, <1>7, HandingStep

LEMMA AfterLeftStep ==
  ASSUME NEW n \in Nat, MtInv(n), NEW r \in DOMAIN task, AfterLeft(r)
  PROVE  MtInv(n)'
<1>0. r \in Ranges(n) /\ DOMAIN task = Ranges(n) BY DEF MtInv, MtTypes
<1>1. PICK d : /\ Pc(r) = "left" /\ ArrayKept
               /\ task' = [task EXCEPT ![r].pc = "join", ![Right(r)] = Call(d)]
  BY DEF AfterLeft, Pc, ArrayKept
<1>2. r \in Active BY <1>1 DEF Active
<1>2a. r[2] - r[1] >= 2 BY <1>1, <1>2 DEF MtInv, Called
<1>3. Right(r) \in Ranges(n) /\ Right(r) # r BY <1>0, <1>2a, HalfFacts
<1>4. /\ DOMAIN task' = DOMAIN task /\ task'[Right(r)] = Call(d)
      /\ \A s \in DOMAIN task : s # r /\ s # Right(r) => task'[s] = task[s]
      /\ task'[r] = [task[r] EXCEPT !.pc = "join"]
  BY <1>0, <1>1, <1>3
<1>5. task'[r].pc = "join" /\ DOMAIN task'[r] = DOMAIN task[r] BY <1>0, <1>4 DEF MtInv, MtTypes
<1>6. TaskTypes(n)' BY <1>0, <1>4, <1>5, CallFacts DEF MtInv, MtTypes, TaskTypes, Pc
<1>7. HandsOut(r, {Right(r)}) BY <1>1, <1>2a, <1>4, <1>5, CallFacts DEF HandsOut, Pc
<1> QED BY <1>1, <1>2, <1>6, <1>7, HandingStep

LEMMA JoinStep ==
  ASSUME NEW n \in Nat, MtInv(n), NEW r \in DOMAIN task, thread_join(r)
  PROVE  MtInv(n)'
<1>0. r \in Ranges(n) /\ DOMAIN task = Ranges(n) BY DEF MtInv, MtTypes
<1>1. /\ Pc(r) = "join" /\ IsDone(Left(r)) /\ IsDone(Right(r)) /\ UNCHANGED <<given, base, tmp>>
      /\ task' = [task EXCEPT ![r].pc = "merge", ![r].li = r[1], ![r].ri = Mid(r), ![r].ti = r[1]]
  BY DEF thread_join, Joined, Pc
<1>2. r \in Active BY <1>1 DEF Active
<1>3. r[2] - r[1] >= 2 BY <1>1, <1>2 DEF MtInv, Called
<1>4. /\ DOMAIN task' = DOMAIN task /\ \A s \in DOMAIN task : s # r => task'[s] = task[s]
      /\ task'[r] = [[[[task[r] EXCEPT !.pc = "merge"] EXCEPT !.li = r[1]] EXCEPT !.ri = Mid(r)]
                      EXCEPT !.ti = r[1]]
  BY <1>0, <1>1
<1>5. /\ task'[r].pc = "merge" /\ task'[r].li = r[1] /\ task'[r].ri = Mid(r) /\ task'[r].ti = r[1]
      /\ DOMAIN task'[r] = DOMAIN task[r]
  <2>1. DOMAIN task[r] = {"pc", "depth", "li", "ri", "ti"} BY <1>0 DEF MtInv, MtTypes
  <2> QED BY <1>4, <2>1
<1>6. TaskTypes(n)' BY <1>0, <1>4, <1>5 DEF MtInv, MtTypes, TaskTypes, Pc
<1>7. Pc(r)' = "merge" BY <1>5 DEF Pc
<1>8. MovesOn(r) BY <1>1, <1>4, <1>7 DEF MovesOn
<1>9. Taken(r)'
  <2>1. Mid(r) \in Nat /\ r[1] <= Mid(r) /\ Mid(r) <= r[2] /\ r[1] \in Nat /\ r[2] \in Nat
    BY <1>0, <1>3, HalfFacts
  <2>2. Took(tmp, base, r[1], Mid(r), r[2], r[1], Mid(r), r[1]) BY <2>1, TookStart
  <2> QED BY <1>1, <1>5, <2>2 DEF Taken
<1>10. DataInv(n)'
  <2>1. Outside(base', base, r, n) BY <1>1 DEF Outside
  <2> QED BY <1>1, <1>2, <1>7, <1>8, <1>9, <2>1, DataMovesOn DEF MtInv, DataInv
<1>11. Nested' /\ Proper(n)' /\ Called' BY <1>2, <1>8, NestedMovesOn DEF MtInv
<1>12. MtTypes(n)' BY <1>1, <1>6 DEF MtInv, MtTypes, TaskTypes
<1> QED BY <1>10, <1>11, <1>12 DEF MtInv, DataInv

LEMMA MergeStep ==
  ASSUME NEW n \in Nat, MtInv(n), NEW r \in DOMAIN task, msort_merge(r)
  PROVE  MtInv(n)'
<1>0. r \in Ranges(n) /\ DOMAIN task = Ranges(n) /\ DOMAIN tmp = 0 .. (n - 1) BY DEF MtInv, MtTypes
<1>1. PICK li, ri, ti, m : li = task[r].li /\ ri = task[r].ri /\ ti = task[r].ti /\ m = Mid(r) OBVIOUS
<1>2. PICK left \in BOOLEAN :
        left <=> li < m /\ (ri < r[2] => base[li][1] <= base[ri][1])
  OBVIOUS
<1>3. PICK li2, ri2 : li2 = (IF left THEN li + 1 ELSE li) /\ ri2 = (IF left THEN ri ELSE ri + 1) OBVIOUS
<1>4. /\ Pc(r) = "merge" /\ ti < r[2] /\ UNCHANGED <<given, base>>
      /\ tmp' = [tmp EXCEPT ![ti] = base[IF left THEN li ELSE ri]]
      /\ task' = [task EXCEPT ![r].ti = ti + 1, ![r].li = li2, ![r].ri = ri2]
  BY <1>1, <1>2, <1>3 DEF msort_merge, Pc
<1>5. r \in Active BY <1>4 DEF Active
<1>6. r[2] - r[1] >= 2 BY <1>4, <1>5 DEF MtInv, Called
<1>7. /\ DOMAIN task' = DOMAIN task /\ \A s \in DOMAIN task : s # r => task'[s] = task[s]
      /\ task'[r] = [[[task[r] EXCEPT !.ti = ti + 1] EXCEPT !.li = li2] EXCEPT !.ri = ri2]
  BY <1>0, <1>4
<1>8. /\ task'[r].pc = "merge" /\ task'[r].li = li2 /\ task'[r].ri = ri2 /\ task'[r].ti = ti + 1
      /\ DOMAIN task'[r] = DOMAIN task[r]
  <2>1. DOMAIN task[r] = {"pc", "depth", "li", "ri", "ti"} /\ task[r].pc = "merge"
    BY <1>0, <1>4 DEF MtInv, MtTypes, Pc
  <2> QED BY <1>7, <2>1
<1>9. TaskTypes(n)' BY <1>0, <1>7, <1>8 DEF MtInv, MtTypes, TaskTypes, Pc
<1>10. m \in Nat /\ r[1] <= m /\ m <= r[2] /\ r[1] \in Nat /\ r[2] \in Nat /\ r[2] <= n
  BY <1>0, <1>1, <1>6, HalfFacts, RangeFacts
<1>11. Took(tmp, base, r[1], m, r[2], li, ri, ti) BY <1>1, <1>4, <1>5 DEF MtInv, Merging, Taken
<1>12. li \in r[1] .. m /\ ri \in m .. r[2] /\ ti = li + ri - m BY <1>11 DEF Took
<1>13. ti \in r[1] .. (r[2] - 1) /\ ti \in 0 .. (n - 1) BY <1>4, <1>10, <1>12
<1>14. PICK f : f = tmp' OBVIOUS
<1>15. f[ti] = base[IF left THEN li ELSE ri] /\ \A i \in 0 .. (n - 1) : i # ti => f[i] = tmp[i]
  BY <1>0, <1>4, <1>13, <1>14
<1>16. \A k \in r[1] .. (ti - 1) : f[k] = tmp[k] BY <1>10, <1>13, <1>15
<1>17. Halves(base, r[1], m, r[2])
  BY <1>1, <1>4, <1>5, MergeHalves DEF MtInv, DataInv
<1>18. Took(f, base, r[1], m, r[2], li2, ri2, ti + 1)
  <2> HIDE <1>1, <1>14
  <2>1. CASE left
    <3>1. Appends(tmp, f, base, r[1], ti, li) BY <1>15, <1>16, <2>1 DEF Appends
    <3>2. li < m /\ (ri < r[2] => base[li][1] <= base[ri][1]) BY <1>2, <2>1
    <3>3. Took(f, base, r[1], m, r[2], li + 1, ri, ti + 1) BY <1>10, <1>11, <1>17, <3>1, <3>2, TookLeft
    <3> QED BY <1>3, <2>1, <3>3
  <2>2. CASE ~left
    <3>1. Appends(tmp, f, base, r[1], ti, ri) BY <1>15, <1>16, <2>2 DEF Appends
    <3>2. ri < r[2] BY <1>2, <1>4, <1>10, <1>12, <2>2
    <3>3. ASSUME li < m PROVE base[ri][1] < base[li][1]
      <4>1. li \in r[1] .. (r[2] - 1) /\ ri \in r[1] .. (r[2] - 1) BY <1>10, <1>12, <3>2, <3>3
      <4>2. base[li][1] \in Int /\ base[ri][1] \in Int BY <1>17, <4>1 DEF Halves
      <4>3. ~(base[li][1] <= base[ri][1]) BY <1>2, <2>2, <3>2, <3>3
      <4> QED BY <4>2, <4>3
    <3>4. Took(f, base, r[1], m, r[2], li, ri + 1, ti + 1)
      BY <1>10, <1>11, <1>17, <3>1, <3>2, <3>3, TookRight
    <3> QED BY <1>3, <2>2, <3>4
  <2> QED BY <2>1, <2>2
<1>19. Taken(r)' BY <1>1, <1>4, <1>8, <1>14, <1>18 DEF Taken, Mid
<1>20. Outside(tmp', tmp, r, n) BY <1>13, <1>14, <1>15 DEF Outside
<1>21. Pc(r)' = "merge" BY <1>8 DEF Pc
<1>22. Nested' /\ Proper(n)' /\ Called' /\ DataInv(n)'
  BY <1>4, <1>5, <1>7, <1>19, <1>20, <1>21, DataMerges DEF MtInv, DataInv
<1>23. DOMAIN tmp' = DOMAIN tmp BY <1>4
<1>24. MtTypes(n)' BY <1>4, <1>9, <1>23 DEF MtInv, MtTypes, TaskTypes
<1> QED BY <1>22, <1>24 DEF MtInv, DataInv

LEMMA CopyStep ==
  ASSUME NEW n \in Nat, MtInv(n), NEW r \in DOMAIN task, msort_copy(r)
  PROVE  MtInv(n)'
<1>0. r \in Ranges(n) /\ DOMAIN task = Ranges(n) /\ DOMAIN base = 0 .. (n - 1) BY DEF MtInv, MtTypes
<1>1. /\ Pc(r) = "merge" /\ task[r].ti = r[2] /\ UNCHANGED <<given, tmp>>
      /\ base' = [i \in DOMAIN base |-> IF i \in r[1]..(r[2] - 1) THEN tmp[i] ELSE base[i]]
      /\ task' = [task EXCEPT ![r].pc = "done"]
  BY DEF msort_copy, Pc
<1>2. r \in Active BY <1>1 DEF Active
<1>3. /\ DOMAIN task' = DOMAIN task /\ \A s \in DOMAIN task : s # r => task'[s] = task[s]
      /\ task'[r] = [task[r] EXCEPT !.pc = "done"]
  BY <1>1
<1>4. task'[r].pc = "done" /\ DOMAIN task'[r] = DOMAIN task[r] BY <1>0, <1>3 DEF MtInv, MtTypes
<1>5. TaskTypes(n)' BY <1>0, <1>3, <1>4 DEF MtInv, MtTypes, TaskTypes, Pc
<1>6. Pc(r)' = "done" BY <1>4 DEF Pc
<1>7. MovesOn(r) BY <1>1, <1>3, <1>6 DEF MovesOn
<1>8. r[2] - r[1] >= 2 BY <1>1, <1>2 DEF MtInv, Called
<1>9. Mid(r) \in Nat /\ r[1] <= Mid(r) /\ Mid(r) <= r[2] /\ r[1] \in Nat /\ r[2] \in Nat /\ r[2] <= n
  BY <1>0, <1>8, HalfFacts, RangeFacts
<1>10. PICK b : b = base' OBVIOUS
<1>11. /\ DOMAIN b = 0 .. (n - 1) /\ Outside(b, base, r, n)
       /\ \A i \in r[1] .. (r[2] - 1) : b[i] = tmp[i]
  BY <1>0, <1>1, <1>9, <1>10 DEF Outside
<1>12. SortedOn(tmp, r[1], r[2]) /\ Elems(tmp, r[1], r[2]) = Elems(given, r[1], r[2])
  <2>0. PICK li, ri, m : li = task[r].li /\ ri = task[r].ri /\ m = Mid(r) OBVIOUS
  <2>1. Took(tmp, base, r[1], m, r[2], li, ri, r[2])
    BY <1>1, <1>2, <2>0 DEF MtInv, Merging, Taken
  <2>2. /\ SortedOn(tmp, r[1], r[2])
        /\ Elems(tmp, r[1], r[2]) = Elems(base, r[1], m) \cup Elems(base, m, r[2])
    <3>1. m \in Nat /\ r[1] <= m /\ m <= r[2] /\ r[1] \in Nat /\ r[2] \in Nat BY <1>9, <2>0
    <3>2. PICK lo \in Nat, hi \in Nat : lo = r[1] /\ hi = r[2] BY <3>1
    <3>3. Took(tmp, base, lo, m, hi, li, ri, hi) /\ m \in Nat /\ lo <= m /\ m <= hi BY <2>1, <3>1, <3>2
    <3>4. SortedOn(tmp, lo, hi) /\ Elems(tmp, lo, hi) = Elems(base, lo, m) \cup Elems(base, m, hi)
      BY <3>3, TookAll
    <3> QED BY <3>2, <3>4
  <2>3. Elems(base, r[1], Mid(r)) \cup Elems(base, Mid(r), r[2]) = Elems(given, r[1], r[2])
    BY <1>1, <1>2, MergeHalves DEF MtInv, DataInv
  <2> QED BY <2>0, <2>2, <2>3
<1>13. SortedOn(b, r[1], r[2]) /\ Elems(b, r[1], r[2]) = Elems(given, r[1], r[2])
  <2> HIDE <1>10
  <2>1. Elems(b, r[1], r[2]) = Elems(tmp, r[1], r[2]) /\ (SortedOn(b, r[1], r[2]) <=> SortedOn(tmp, r[1], r[2]))
    BY <1>9, <1>11, ElemsSame
  <2> QED BY <1>12, <2>1
<1>14. Result(r)' BY <1>1, <1>10, <1>13 DEF Result
<1>15. DataInv(n)'
  <2>1. Outside(base', base, r, n) BY <1>10, <1>11
  <2> QED BY <1>1, <1>2, <1>6, <1>7, <1>14, <2>1, DataMovesOn DEF MtInv, DataInv
<1>16. Nested' /\ Proper(n)' /\ Called' BY <1>2, <1>7, NestedMovesOn DEF MtInv
<1>17. MtTypes(n)' BY <1>1, <1>5, <1>10, <1>11 DEF MtInv, MtTypes, TaskTypes
<1> QED BY <1>15, <1>16, <1>17 DEF MtInv, DataInv

-----------------------------------------------------------------------------
(* The call and its result *)

\* What scl_sort_merge_sort_mt is called on: n elements, told apart by where they are.
IsArray(a, n) ==
  /\ a = [i \in 0 .. (n - 1) |-> a[i]]
  /\ \A i \in 0 .. (n - 1) : a[i] \in Int \X Nat /\ a[i][2] = i

LEMMA MtInit ==
  ASSUME NEW n \in Nat, NEW a, IsArray(a, n), NEW threads, merge_sort_mt(a, threads)
  PROVE  MtInv(n)
<1>1. DOMAIN a = 0 .. (n - 1) /\ \A i \in 0 .. (n - 1) : a[i][1] \in Int /\ a[i][2] = i BY DEF IsArray
<1>2. Cardinality(DOMAIN a) = n
  <2>1. Cardinality(0 .. (n - 1)) = (IF 0 > n - 1 THEN 0 ELSE (n - 1) - 0 + 1) BY FS_Interval
  <2> QED BY <1>1, <2>1
<1> DEFINE W == <<0, n>>
<1>3. PICK d : task = [NoTask(n) EXCEPT ![W] = Call(d)] BY <1>2 DEF merge_sort_mt
<1>4. given = a /\ base = a /\ tmp = a BY DEF merge_sort_mt
<1>5. W \in Ranges(n) /\ W[1] = 0 /\ W[2] = n BY DEF Ranges
<1>6. NoTask(n) = [r \in Ranges(n) |-> Idle] BY DEF NoTask, Ranges
<1> HIDE DEF W
<1>7. DOMAIN task = Ranges(n) /\ task[W] = Call(d) /\ \A r \in Ranges(n) : r # W => task[r] = Idle
  BY <1>3, <1>5, <1>6
<1>8. Pc(W) = "enter" /\ \A r \in Ranges(n) : r # W => Pc(r) = "none"
  BY <1>7, CallFacts DEF Pc, Idle
<1>9. \A r \in Ranges(n) : DOMAIN task[r] = {"pc", "depth", "li", "ri", "ti"}
  BY <1>7, CallFacts DEF Idle
<1>10. MtTypes(n) BY <1>1, <1>4, <1>7, <1>8, <1>9 DEF MtTypes
<1>11. Active = {W} BY <1>5, <1>7, <1>8 DEF Active
<1>12. Nested /\ Proper(n) /\ Called BY <1>8, <1>11 DEF Nested, Proper, Called, W
<1>13. Untouched /\ HalvesSorted /\ Merging BY <1>4, <1>8, <1>11 DEF Untouched, HalvesSorted, Merging
<1>14. WholeSorted(n) BY <1>8 DEF WholeSorted, IsDone, Pc, W
<1> QED BY <1>10, <1>12, <1>13, <1>14 DEF MtInv

LEMMA MtStep ==
  ASSUME NEW n \in Nat, MtInv(n), [MtNext]_MtVars
  PROVE  MtInv(n)'
<1>1. CASE MtNext
  <2>1. PICK r \in DOMAIN task :
          \/ msort_small(r) \/ msort_seq(r) \/ msort_par(r) \/ msort_par_inline(r)
          \/ AfterLeft(r) \/ thread_join(r) \/ msort_merge(r) \/ msort_copy(r)
    BY <1>1 DEF MtNext
  <2> QED BY <2>1, SmallStep, SeqStep, ParStep, AfterLeftStep, JoinStep, MergeStep, CopyStep
<1>2. CASE UNCHANGED MtVars
  <2>1. given' = given /\ base' = base /\ tmp' = tmp /\ task' = task BY <1>2 DEF MtVars
  <2>2. \A r : Pc(r)' = Pc(r) /\ IsDone(r)' = IsDone(r) /\ Result(r)' = Result(r) /\ Taken(r)' = Taken(r)
    BY <2>1 DEF Pc, IsDone, Result, Taken
  <2>3. Active' = Active BY <2>1 DEF Active, Pc
  <2>4. \A r, s : Under(r, s)' = Under(r, s) BY <2>2 DEF Under
  <2>5. MtTypes(n)' BY <2>1, <2>2 DEF MtInv, MtTypes
  <2>6. Nested' /\ Proper(n)' BY <2>3, <2>4 DEF MtInv, Nested, Proper, Apart
  <2>7. Called' BY <2>2, <2>3 DEF MtInv, Called
  <2>8. Untouched' BY <2>1, <2>2, <2>3 DEF MtInv, Untouched
  <2>9. HalvesSorted' BY <2>2, <2>3 DEF MtInv, HalvesSorted
  <2>10. WholeSorted(n)' BY <2>2 DEF MtInv, WholeSorted
  <2>11. Merging' BY <2>2, <2>3 DEF MtInv, Merging
  <2> QED BY <2>5, <2>6, <2>7, <2>8, <2>9, <2>10, <2>11 DEF MtInv
<1> QED BY <1>1, <1>2

\* An array with the elements of another, all different, has the keys of that one.
LEMMA KeysKept ==
  ASSUME NEW n \in Nat, NEW f, NEW g, DOMAIN f = 0 .. (n - 1), DOMAIN g = 0 .. (n - 1),
         Elems(f, 0, n) = Elems(g, 0, n), \A i \in 0 .. (n - 1) : g[i][2] = i,
         \A i, j \in 0 .. (n - 1) : i # j => f[i] # f[j]
  PROVE  SameKeys(f, g)
<1> SUFFICES ASSUME NEW k
             PROVE  Cardinality({i \in DOMAIN f : f[i][1] = k}) = Cardinality({i \in DOMAIN g : g[i][1] = k})
  BY DEF SameKeys
<1> DEFINE S == {i \in DOMAIN f : f[i][1] = k}
           T == {i \in DOMAIN g : g[i][1] = k}
           h == [i \in S |-> f[i][2]]
<1>1. ASSUME NEW i \in 0 .. (n - 1) PROVE f[i][2] \in 0 .. (n - 1) /\ f[i] = g[f[i][2]]
  <2>0. f[i] \in Elems(f, 0, n) BY DEF Elems
  <2>1. f[i] \in Elems(g, 0, n) BY <2>0
  <2>2. PICK j \in 0 .. (n - 1) : f[i] = g[j] BY <2>1 DEF Elems
  <2> QED BY <2>2
<1>2. h \in Bijection(S, T)
  <2>1. \A i \in S : h[i] \in T
    BY <1>1
  <2>2. \A i, j \in S : i # j => h[i] # h[j] BY <1>1
  <2>3. ASSUME NEW j \in T PROVE \E i \in S : h[i] = j
    <3>0. j \in 0 .. (n - 1) /\ g[j] \in Elems(g, 0, n) BY DEF Elems
    <3>1. g[j] \in Elems(f, 0, n) BY <3>0
    <3>2. PICK i \in 0 .. (n - 1) : f[i] = g[j] BY <3>1 DEF Elems
    <3> QED BY <3>2
  <2>4. h \in [S -> T] BY <2>1
  <2> HIDE DEF h, S, T
  <2> QED BY <2>2, <2>3, <2>4 DEF Bijection, Injection, Surjection, IsInjective
<1>3. IsFiniteSet(S) /\ IsFiniteSet(T)
  <2>1. IsFiniteSet(0 .. (n - 1)) BY FS_Interval
  <2> QED BY <2>1, FS_Subset
<1> HIDE DEF h, S, T
<1>4. Cardinality(S) = Cardinality(T) BY <1>2, <1>3, FS_Bijection DEF ExistsBijection
<1> QED BY <1>4 DEF S, T

LEMMA MtEnough ==
  ASSUME NEW n \in Nat, MtInv(n)
  PROVE  ThreadsSort
<1> SUFFICES ASSUME MtDone PROVE SameKeys(base, given) /\ IsSorted(base) /\ IsStable(base)
  BY DEF ThreadsSort
<1>1. DOMAIN base = 0 .. (n - 1) /\ DOMAIN given = 0 .. (n - 1)
      /\ \A i \in 0 .. (n - 1) : given[i][1] \in Int /\ given[i][2] = i
  BY DEF MtInv, MtTypes
<1>2. Whole = <<0, n>>
  <2>1. Cardinality(0 .. (n - 1)) = (IF 0 > n - 1 THEN 0 ELSE (n - 1) - 0 + 1) BY FS_Interval
  <2> QED BY <1>1, <2>1 DEF Whole
<1>3. Result(<<0, n>>) BY <1>2 DEF MtDone, MtInv, WholeSorted
<1>4. SortedOn(base, 0, n) /\ Elems(base, 0, n) = Elems(given, 0, n) BY <1>3 DEF Result
<1>5. ASSUME NEW i \in 0 .. (n - 1) PROVE base[i][1] \in Int /\ base[i][2] \in Nat
  <2>1. base[i] \in Elems(base, 0, n) BY DEF Elems
  <2>2. PICK j \in 0 .. (n - 1) : base[i] = given[j] BY <1>4, <2>1 DEF Elems
  <2> QED BY <1>1, <2>2
<1>6. \A i, j \in 0 .. (n - 1) : i < j => Less(base[i], base[j]) BY <1>4 DEF SortedOn
<1>7. \A i, j \in 0 .. (n - 1) : i # j => base[i] # base[j]
  <2> SUFFICES ASSUME NEW i \in 0 .. (n - 1), NEW j \in 0 .. (n - 1), i # j PROVE base[i] # base[j]
    OBVIOUS
  <2>1. Less(base[i], base[j]) \/ Less(base[j], base[i]) BY <1>6
  <2> QED BY <1>5, <2>1 DEF Less
<1>8. SameKeys(base, given) BY <1>1, <1>4, <1>7, KeysKept
<1>9. ASSUME NEW i \in 0 .. (n - 1), NEW j \in 0 .. (n - 1), i < j
      PROVE  base[i][1] <= base[j][1] /\ (base[i][1] = base[j][1] => base[i][2] < base[j][2])
  <2>1. Less(base[i], base[j]) BY <1>6, <1>9
  <2> QED BY <1>5, <2>1 DEF Less
<1>10. IsSorted(base) /\ IsStable(base) BY <1>1, <1>9 DEF IsSorted, IsStable
<1> QED BY <1>8, <1>10

\* scl_sort_merge_sort_mt sorts, and keeps equal elements in order, for every
\* array, number of threads and cutoff, whichever threads it gets and however
\* they interleave.
THEOREM MergeSortSorts ==
  ASSUME NEW n \in Nat, NEW a, IsArray(a, n), NEW threads
  PROVE  MtSpec(a, threads) => []ThreadsSort
<1> DEFINE Inv == MtInv(n)
<1>1. merge_sort_mt(a, threads) => Inv BY MtInit
<1>2. Inv /\ [MtNext]_MtVars => Inv' BY MtStep
<1>3. Inv => ThreadsSort BY MtEnough
<1> HIDE DEF Inv
<1> QED BY <1>1, <1>2, <1>3, PTL DEF MtSpec

\* Sibling tasks never touch the same memory: the ranges of two calls that
\* merge at the same time are apart, and neither overlaps one not yet begun.
MergesDisjoint ==
  \A r, s \in DOMAIN task :
    r # s /\ task[r].pc = "merge" /\ task[s].pc \in {"enter", "merge"} => Apart(r, s)

\* What msort_par says of its tasks ("disjoint subranges and scratch ranges",
\* so no locking): no two calls write the same part of the array or of the
\* buffer, for every array, number of threads and interleaving.
THEOREM NoTwoTouch ==
  ASSUME NEW n \in Nat, NEW a, IsArray(a, n), NEW threads
  PROVE  MtSpec(a, threads) => []MergesDisjoint
<1> DEFINE Inv == MtInv(n)
<1>1. merge_sort_mt(a, threads) => Inv BY MtInit
<1>2. Inv /\ [MtNext]_MtVars => Inv' BY MtStep
<1>3. Inv => MergesDisjoint
  <2> SUFFICES ASSUME Inv, NEW r \in DOMAIN task, NEW s \in DOMAIN task, r # s,
                      task[r].pc = "merge", task[s].pc \in {"enter", "merge"}
               PROVE  Apart(r, s)
    BY DEF MergesDisjoint
  <2>1. r \in Active /\ s \in Active BY DEF Active, Pc
  <2>2. Apart(s, r) BY <2>1, MergesApart DEF Pc, MtInv
  <2> QED BY <2>2 DEF Apart
<1> HIDE DEF Inv
<1> QED BY <1>1, <1>2, <1>3, PTL DEF MtSpec
=============================================================================

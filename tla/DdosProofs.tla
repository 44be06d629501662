----------------------------- MODULE DdosProofs -----------------------------
(***************************************************************************)
(* Proofs about the address table for any number of addresses and slots,   *)
(* any hash and any limits: until scl_ddos_unlist_ip empties a slot, the   *)
(* records count the open connections, evictions keep the operator's       *)
(* lists, and both limits of scl_ddos_check hold.                          *)
(*                                                                         *)
(* All of it rests on Reach: a lookup's sweep meets an address's record    *)
(* before any free slot, so an address has one record and it is found.     *)
(***************************************************************************)
EXTENDS Ddos, FiniteSetTheorems, WellFoundedInduction, TLAPS

Recs ==
  [key : Keys, tokens : Nat, refill : Nat, seen : Nat, conns : Nat, drops : Nat,
   ban : Nat, white : BOOLEAN]

TableTypes ==
  /\ slots \in [Slots -> Recs \cup {Free}]
  /\ now \in 1 .. MaxTime
  /\ open \in [Keys -> Nat]
  /\ policy \in [Keys -> {"none", "black", "white"}]
  /\ since \in Nat /\ admitted \in Nat /\ edits \in Nat /\ holed \in BOOLEAN

\* Every slot a sweep for an address looks at before its record holds another's.
Reach ==
  \A k \in Keys : \A d \in Slots : Found(Probe(k, d), k) =>
    \A e \in 0 .. d - 1 : slots[Probe(k, e)] # Free /\ slots[Probe(k, e)].key # k

Counts ==
  \A k \in Keys :
    /\ \A i \in Slots : Found(i, k) => slots[i].conns = open[k]
    /\ open[k] > 0 => \E i \in Slots : Found(i, k)

Listed ==
  \A k \in Keys :
    /\ policy[k] = "black" =>
         \E i \in Slots : Found(i, k) /\ slots[i].ban = Forever /\ ~slots[i].white
    /\ policy[k] = "white" => \E i \in Slots : Found(i, k) /\ slots[i].white
    /\ \A i \in Slots : Found(i, k) /\ slots[i].white => policy[k] = "white"

\* What a record has let through and could let through now is the burst and
\* what it earned up to its last refill.
Allowance(t) == Burst + (((t - since) * Rate) \div Second)

Bucket ==
  /\ since <= now /\ admitted <= Allowance(now)
  /\ \A i \in Slots : Found(i, Watched) =>
       /\ since <= slots[i].refill /\ slots[i].refill <= now
       /\ admitted + slots[i].tokens <= Allowance(slots[i].refill)

TableInv == TableTypes /\ (~holed => Reach /\ Counts /\ Listed /\ Bucket)

-----------------------------------------------------------------------------
(* Arithmetic: least elements, quotients and remainders *)

LEMMA MinNat ==
  ASSUME NEW S, S \subseteq Nat, S # {}
  PROVE  Min(S) \in S /\ \A x \in S : Min(S) <= x
<1>1. PICK x \in S : \A y \in S : ~(<<y, x>> \in OpToRel(<, Nat))
  BY NatLessThanWellFounded, WFMin
<1>2. ASSUME NEW y \in S PROVE x <= y
  <2>1. x \in Nat /\ y \in Nat OBVIOUS
  <2>2. <<y, x>> \in Nat \X Nat /\ <<y, x>>[1] = y /\ <<y, x>>[2] = x BY <2>1
  <2>3. ~(y < x) BY <1>1, <2>2, Zenon DEF OpToRel
  <2> QED BY <2>1, <2>3
<1> QED BY <1>2 DEF Min

LEMMA MinPair ==
  ASSUME NEW a \in Nat, NEW b \in Nat
  PROVE  Min({a, b}) \in Nat /\ Min({a, b}) <= a /\ Min({a, b}) <= b
BY MinNat

LEMMA TimesPlus ==
  ASSUME NEW a \in Int, NEW b \in Int, NEW c \in Int
  PROVE  /\ a * (b + c) = a * b + a * c
         /\ a * (b - c) = a * b - a * c
OBVIOUS

LEMMA TimesSign ==
  ASSUME NEW c \in Nat \ {0}, NEW k \in Int
  PROVE  /\ k >= 1 => c * k >= c
         /\ k <= 0 => c * k <= 0
         /\ k <= -1 => c * k <= -c
OBVIOUS

\* A quotient is the greatest number of whole divisors.
LEMMA DivGreatest ==
  ASSUME NEW c \in Nat \ {0}, NEW a \in Int, NEW q \in Int, c * q <= a
  PROVE  q <= a \div c
<1> DEFINE j == a \div c
           r == a % c
<1>1. j \in Int /\ r \in 0 .. c - 1 /\ a = c * j + r OBVIOUS
<1> HIDE DEF j, r
<1>2. c * (q - j) = c * q - c * j BY <1>1, TimesPlus
<1>3. c * (q - j) <= r BY <1>1, <1>2
<1>4. q - j >= 1 => c * (q - j) >= c BY <1>1, TimesSign
<1>5. q <= j BY <1>1, <1>3, <1>4
<1> QED BY <1>5 DEF j

\* Two intervals earn no more apart than together.
LEMMA DivParts ==
  ASSUME NEW c \in Nat \ {0}, NEW a \in Int, NEW b \in Int
  PROVE  (a \div c) + (b \div c) <= (a + b) \div c
<1> DEFINE i == a \div c
           j == b \div c
           r == a % c
           s == b % c
<1>1. /\ i \in Int /\ r \in 0 .. c - 1 /\ a = c * i + r
      /\ j \in Int /\ s \in 0 .. c - 1 /\ b = c * j + s
  OBVIOUS
<1> HIDE DEF i, j, r, s
<1>2. c * (i + j) = c * i + c * j BY <1>1, TimesPlus
<1>3. c * (i + j) <= a + b BY <1>1, <1>2
<1>4. i + j <= (a + b) \div c BY <1>1, <1>3, DivGreatest
<1> QED BY <1>4 DEF i, j

LEMMA DivPositive ==
  ASSUME NEW c \in Nat \ {0}, NEW a \in Nat
  PROVE  a \div c \in Nat
<1>1. a \div c \in Int /\ c * 0 <= a OBVIOUS
<1>2. 0 <= a \div c BY <1>1, DivGreatest
<1> QED BY <1>1, <1>2

LEMMA TimesNat == ASSUME NEW a \in Nat, NEW b \in Nat PROVE a * b \in Nat
OBVIOUS

\* What a time earns, in Nat; a later time earns what the interval adds.
LEMMA EarnedPart ==
  ASSUME NEW x \in Nat, NEW y \in Nat
  PROVE  /\ (x * Rate) \div Second \in Nat /\ (y * Rate) \div Second \in Nat
         /\ ((x + y) * Rate) \div Second \in Nat
         /\ ((x * Rate) \div Second) + ((y * Rate) \div Second) <= ((x + y) * Rate) \div Second
<1> DEFINE a == x * Rate
           b == y * Rate
<1>1. a \in Nat /\ b \in Nat BY DdosAssumption, TimesNat
<1>2. (x + y) * Rate = a + b
  <2>1. Rate * (x + y) = Rate * x + Rate * y BY DdosAssumption, TimesPlus
  <2> QED BY <2>1, DdosAssumption
<1> HIDE DEF a, b
<1>3. /\ a \div Second \in Nat /\ b \div Second \in Nat /\ (a + b) \div Second \in Nat
      /\ (a \div Second) + (b \div Second) <= (a + b) \div Second
  BY <1>1, DivParts, DivPositive, DdosAssumption
<1> QED BY <1>2, <1>3 DEF a, b

-----------------------------------------------------------------------------
(* The probe sequence of an address visits every slot once. *)

LEMMA SlotsNat == SlotCount \in Nat \ {0} /\ Slots \subseteq Nat /\ 0 \in Slots
BY DdosAssumption DEF Slots

LEMMA ProbeSlot == ASSUME NEW k \in Keys, NEW d \in Nat PROVE Probe(k, d) \in Slots
<1>1. Home[k] \in Nat BY DdosAssumption
<1> QED BY <1>1, DdosAssumption DEF Probe, Slots

LEMMA ProbeOnce ==
  ASSUME NEW k \in Keys, NEW d \in Slots, NEW e \in Slots, Probe(k, d) = Probe(k, e)
  PROVE  d = e
<1> DEFINE n == SlotCount
           a == Home[k] + d
           b == Home[k] + e
           i == a \div n
           j == b \div n
           r == a % n
<1>1. /\ n \in Nat \ {0} /\ Home[k] \in Nat /\ d \in Nat /\ e \in Nat /\ d < n /\ e < n
      /\ a \in Int /\ b \in Int
  BY DdosAssumption DEF Slots
<1>2. a % n = b % n BY DEF Probe
<1> HIDE DEF n, a, b
<1>3. i \in Int /\ j \in Int /\ r \in Int /\ a = n * i + r /\ b = n * j + r BY <1>1, <1>2
<1> HIDE DEF i, j, r
<1>4. n * (i - j) = n * i - n * j BY <1>1, <1>3, TimesPlus
<1>5. n * (i - j) = a - b BY <1>1, <1>3, <1>4
<1>6. (i - j >= 1 => n * (i - j) >= n) /\ (i - j <= -1 => n * (i - j) <= -n)
  BY <1>1, <1>3, TimesSign
<1>7. a - b = d - e BY <1>1 DEF a, b
<1>8. i - j = 0 BY <1>1, <1>3, <1>5, <1>6, <1>7
<1>9. n * 0 = 0 BY <1>1
<1> QED BY <1>1, <1>5, <1>7, <1>8, <1>9

LEMMA ProbeAll ==
  ASSUME NEW k \in Keys, NEW i \in Slots
  PROVE  \E d \in Slots : Probe(k, d) = i
<1> DEFINE h == Home[k]
<1>1. SlotCount \in Nat \ {0} /\ h \in 0 .. SlotCount - 1 /\ i \in 0 .. SlotCount - 1
  BY DdosAssumption DEF Slots
<1>2. CASE i >= h
  <2>1. i - h \in Slots /\ h + (i - h) = i BY <1>1, <1>2 DEF Slots
  <2>2. i % SlotCount = i BY <1>1
  <2> QED BY <2>1, <2>2 DEF Probe
<1>3. CASE i < h
  <2> DEFINE d == i - h + SlotCount
  <2>1. d \in Slots /\ h + d = i + SlotCount BY <1>1, <1>3 DEF Slots
  <2>2. (i + SlotCount) % SlotCount = i BY <1>1
  <2> QED BY <2>1, <2>2 DEF Probe
<1> QED BY <1>1, <1>2, <1>3

-----------------------------------------------------------------------------
(* find_slot *)

LEMMA StopsMin ==
  ASSUME NEW k \in Keys, Stops(k) # {}
  PROVE  /\ Min(Stops(k)) \in Stops(k) /\ Min(Stops(k)) \in Slots
         /\ \A e \in 0 .. Min(Stops(k)) - 1 : e \in Slots /\ e \notin Stops(k)
<1> DEFINE m == Min(Stops(k))
<1>1. Stops(k) \subseteq Slots BY DEF Stops
<1>2. m \in Stops(k) /\ \A x \in Stops(k) : m <= x BY <1>1, SlotsNat, MinNat
<1>3. m \in Slots BY <1>1, <1>2
<1> HIDE DEF m
<1>4. \A e \in 0 .. m - 1 : e \in Slots /\ ~(m <= e) BY <1>3, DdosAssumption DEF Slots
<1> QED BY <1>2, <1>3, <1>4 DEF m

\* The sweep for an address that has a record ends at that record.
LEMMA SweepFinds ==
  ASSUME TableTypes, Reach, NEW k \in Keys, NEW i \in Slots, Found(i, k)
  PROVE  Stops(k) # {} /\ Probe(k, Min(Stops(k))) = i /\ Find(k) = i /\ FindOrAlloc(k) = i
<1>1. PICK d \in Slots : Probe(k, d) = i BY ProbeAll
<1>2. d \in Stops(k) BY <1>1 DEF Stops, Found
<1> DEFINE m == Min(Stops(k))
<1>3. m \in Stops(k) /\ m \in Slots /\ \A e \in 0 .. m - 1 : e \notin Stops(k)
  BY <1>2, StopsMin
<1> HIDE DEF m
<1>4. \A e \in 0 .. d - 1 : e \notin Stops(k)
  BY <1>1 DEF Reach, Stops
<1>5. m = d BY <1>2, <1>3, <1>4, SlotsNat
<1>6. Probe(k, m) = i BY <1>1, <1>5
<1>7. slots[i] # Free BY DEF Found
<1> QED BY <1>2, <1>6, <1>7 DEF m, Find, FindOrAlloc

LEMMA OneRecord ==
  ASSUME TableTypes, Reach, NEW k \in Keys, NEW i \in Slots, NEW j \in Slots,
         Found(i, k), Found(j, k)
  PROVE  i = j
BY SweepFinds

\* What a lookup returns, whatever the table.
LEMMA FindReturns ==
  ASSUME TableTypes, NEW k \in Keys, Find(k) # -1
  PROVE  Find(k) \in Slots /\ Found(Find(k), k)
<1> DEFINE m == Min(Stops(k))
<1>1. Stops(k) # {} /\ slots[Probe(k, m)] # Free /\ Find(k) = Probe(k, m) BY DEF Find
<1>2. m \in Stops(k) /\ m \in Slots BY <1>1, StopsMin
<1>3. m \in Nat BY <1>2, SlotsNat
<1> HIDE DEF m
<1>4. slots[Probe(k, m)].key = k BY <1>1, <1>2 DEF Stops
<1> QED BY <1>1, <1>3, <1>4, ProbeSlot DEF Found

\* A slot is evicted only when every slot holds another address's record.
LEMMA VictimChosen ==
  ASSUME TableTypes, NEW k \in Keys, Stops(k) = {}, Victims(k) # {}
  PROVE  /\ FindOrAlloc(k) \in Slots /\ Evictable(slots[FindOrAlloc(k)])
         /\ \A i \in Slots : slots[i] # Free /\ slots[i].key # k
<1>1. \A i \in Slots : slots[i] # Free /\ slots[i].key # k
  <2> TAKE i \in Slots
  <2>1. PICK d \in Slots : Probe(k, d) = i BY ProbeAll
  <2> QED BY <2>1 DEF Stops
<1>2. \A i \in Slots : slots[i] \in Recs /\ slots[i].seen \in Nat BY <1>1 DEF TableTypes, Recs
<1>3. Victims(k) \subseteq Slots BY DEF Victims
<1> DEFINE T == {slots[Probe(k, i)].seen : i \in Victims(k)}
<1>4. \A i \in Slots : Probe(k, i) \in Slots BY ProbeSlot, SlotsNat
<1>5. T \subseteq Nat /\ T # {} BY <1>2, <1>3, <1>4
<1>6. Min(T) \in T /\ \A x \in T : Min(T) <= x BY <1>5, MinNat
<1>7. PICK v \in Victims(k) : slots[Probe(k, v)].seen = Min(T) BY <1>6
<1>8. v \in Oldest(k)
  <2>1. \A j \in Victims(k) : Min(T) <= slots[Probe(k, j)].seen BY <1>6
  <2> HIDE DEF T
  <2> QED BY <1>7, <2>1 DEF Oldest
<1>9. Oldest(k) \subseteq Nat /\ Oldest(k) \subseteq Victims(k)
  BY <1>3, SlotsNat DEF Oldest
<1>10. Min(Oldest(k)) \in Victims(k) BY <1>8, <1>9, MinNat
<1>11. FindOrAlloc(k) = Probe(k, Min(Oldest(k))) BY DEF FindOrAlloc
<1> DEFINE m == Min(Oldest(k))
<1>12. m \in Slots /\ Evictable(slots[Probe(k, m)]) BY <1>10 DEF Victims
<1> HIDE DEF m
<1> QED BY <1>1, <1>4, <1>11, <1>12 DEF m

LEMMA AllocSlot ==
  ASSUME TableTypes, NEW k \in Keys, FindOrAlloc(k) # -1
  PROVE  FindOrAlloc(k) \in Slots
<1>1. CASE Stops(k) # {}
  <2> DEFINE m == Min(Stops(k))
  <2>1. m \in Nat BY <1>1, StopsMin, SlotsNat
  <2>2. FindOrAlloc(k) = Probe(k, m) BY <1>1 DEF FindOrAlloc
  <2> HIDE DEF m
  <2> QED BY <2>1, <2>2, ProbeSlot
<1>2. CASE Stops(k) = {} BY <1>2, VictimChosen DEF FindOrAlloc
<1> QED BY <1>1, <1>2

\* The slot found, taken or reclaimed is the address's own, or the address has
\* none; of other addresses at most an evictable record is lost.
LEMMA AllocReturns ==
  ASSUME TableTypes, Reach, NEW k \in Keys, NEW i, i = FindOrAlloc(k), i # -1
  PROVE  /\ i \in Slots
         /\ Found(i, k) \/ \A j \in Slots : ~Found(j, k)
         /\ \A q \in Keys : q # k /\ Found(i, q) => Evictable(slots[i])
         /\ \/ Found(i, k)
            \/ \A j \in Slots : slots[j] # Free
            \/ \E d \in Slots : /\ i = Probe(k, d) /\ slots[i] = Free
                               /\ \A e \in 0 .. d - 1 : slots[Probe(k, e)] # Free
<1>1. i \in Slots BY AllocSlot
<1>2. CASE Stops(k) # {}
  <2> DEFINE m == Min(Stops(k))
  <2>1. /\ m \in Stops(k) /\ m \in Slots /\ \A e \in 0 .. m - 1 : e \in Slots /\ e \notin Stops(k)
    BY <1>2, StopsMin
  <2>2. i = Probe(k, m) BY <1>2 DEF FindOrAlloc
  <2> HIDE DEF m
  <2>3. CASE slots[i] = Free
    <3>1. \A q \in Keys : ~Found(i, q) BY <2>3 DEF Found
    <3>2. \A e \in 0 .. m - 1 : slots[Probe(k, e)] # Free BY <2>1 DEF Stops
    <3>3. \A j \in Slots : ~Found(j, k) BY <3>1, SweepFinds
    <3> QED BY <1>1, <2>1, <2>2, <2>3, <3>1, <3>2, <3>3
  <2>4. CASE slots[i] # Free
    <3>1. Found(i, k) BY <2>1, <2>2, <2>4 DEF Stops, Found
    <3>2. \A q \in Keys : Found(i, q) => q = k BY <3>1 DEF Found
    <3> QED BY <1>1, <3>1, <3>2
  <2> QED BY <2>3, <2>4
<1>3. CASE Stops(k) = {}
  <2>1. Victims(k) # {} BY <1>3 DEF FindOrAlloc
  <2>2. Evictable(slots[i]) /\ \A j \in Slots : slots[j] # Free /\ slots[j].key # k
    BY <1>3, <2>1, VictimChosen
  <2> QED BY <1>1, <2>2 DEF Found
<1> QED BY <1>2, <1>3

-----------------------------------------------------------------------------
(* Storing a record where find_slot said *)

Put(k, i, s) ==
  /\ i = FindOrAlloc(k) /\ i # -1
  /\ s \in Recs /\ s.key = k
  /\ slots' = [slots EXCEPT ![i] = s]

\* Slot i holds record s of address k, and k has no other record.
Placed(k, i, s) ==
  /\ i \in Slots /\ slots'[i] = s
  /\ \A j \in Slots : j # i => slots'[j] = slots[j]
  /\ \A q \in Keys, j \in Slots :
       Found(j, q)' <=> IF q = k THEN j = i ELSE j # i /\ Found(j, q)

LEMMA PutTable ==
  ASSUME TableTypes, Reach, NEW k \in Keys, NEW i, NEW s, Put(k, i, s)
  PROVE  Placed(k, i, s) /\ Reach'
<1>0. /\ i = FindOrAlloc(k) /\ i # -1 /\ s \in Recs /\ s.key = k
      /\ slots' = [slots EXCEPT ![i] = s]
  BY DEF Put
<1>1. /\ i \in Slots
      /\ Found(i, k) \/ \A j \in Slots : ~Found(j, k)
      /\ \/ Found(i, k)
         \/ \A j \in Slots : slots[j] # Free
         \/ \E d \in Slots : /\ i = Probe(k, d) /\ slots[i] = Free
                            /\ \A e \in 0 .. d - 1 : slots[Probe(k, e)] # Free
  BY <1>0, AllocReturns
<1>2. slots'[i] = s /\ \A j \in Slots : j # i => slots'[j] = slots[j]
  BY <1>0, <1>1 DEF TableTypes
<1>3. s # Free /\ s.key = k BY <1>0, DdosAssumption DEF Recs
<1>4. \A j \in Slots : Found(j, k) => j = i BY <1>1, OneRecord
<1>5. ASSUME NEW q \in Keys, NEW j \in Slots
      PROVE  Found(j, q)' <=> IF q = k THEN j = i ELSE j # i /\ Found(j, q)
  <2>1. Found(j, q)' <=> slots'[j] # Free /\ slots'[j].key = q BY DEF Found
  <2>2. CASE j = i BY <1>2, <1>3, <2>1, <2>2
  <2>3. CASE j # i
    <3>1. Found(j, q)' <=> Found(j, q) BY <1>2, <2>1, <2>3 DEF Found
    <3> QED BY <1>4, <2>3, <3>1
  <2> QED BY <2>2, <2>3
<1>6. Reach'
  <2> SUFFICES ASSUME NEW q \in Keys, NEW d \in Slots, Found(Probe(q, d), q)',
                      NEW e \in 0 .. d - 1
               PROVE  slots'[Probe(q, e)] # Free /\ slots'[Probe(q, e)].key # q
    BY DEF Reach
  <2> DEFINE x == Probe(q, d)
             y == Probe(q, e)
  <2>1. e \in Slots /\ d \in Nat /\ e \in Nat /\ e # d BY DdosAssumption DEF Slots
  <2>2. x \in Slots /\ y \in Slots /\ x # y BY <2>1, ProbeSlot, ProbeOnce
  <2>3. Found(x, q) => slots[y] # Free /\ slots[y].key # q BY DEF Reach
  <2>4. CASE q # k
    <3>1. x # i /\ Found(x, q)
      <4> HIDE DEF x
      <4> QED BY <1>5, <2>2, <2>4 DEF x
    <3> QED BY <1>2, <1>3, <2>2, <2>3, <2>4, <3>1
  <2>5. CASE q = k
    <3>1. x = i
      <4>1. Found(x, k)' BY <2>5
      <4> HIDE DEF x
      <4> QED BY <1>5, <2>2, <2>5, <4>1
    <3>2. y # i /\ slots'[y] = slots[y] BY <1>2, <2>2, <3>1
    <3>3. CASE Found(i, k) BY <2>3, <2>5, <3>1, <3>2, <3>3
    <3>4. CASE ~Found(i, k)
      <4>1. ~Found(y, k) BY <1>1, <2>2, <3>4
      <4>2. slots[y] # Free
        <5>1. CASE \A j \in Slots : slots[j] # Free BY <2>2, <5>1
        <5>2. CASE \E c \in Slots : /\ i = Probe(k, c)
                                   /\ \A f \in 0 .. c - 1 : slots[Probe(k, f)] # Free
          <6>1. PICK c \in Slots : /\ i = Probe(k, c)
                                  /\ \A f \in 0 .. c - 1 : slots[Probe(k, f)] # Free
            BY <5>2
          <6>2. c = d BY <2>5, <3>1, <6>1, ProbeOnce
          <6> QED BY <2>5, <6>1, <6>2
        <5> QED BY <1>1, <3>4, <5>1, <5>2
      <4> QED BY <2>5, <3>2, <4>1, <4>2 DEF Found
    <3> QED BY <3>3, <3>4
  <2> QED BY <2>4, <2>5
<1> QED BY <1>1, <1>2, <1>5, <1>6 DEF Placed

\* The record find_slot returns, and what of it a fresh one promises.
LEMMA RecordOf ==
  ASSUME TableTypes, NEW k \in Keys, NEW i \in Slots, NEW at \in Nat
  PROVE  /\ Record(i, k, at) \in Recs /\ Record(i, k, at).key = k
         /\ Found(i, k) => Record(i, k, at) = slots[i]
         /\ ~Found(i, k) => /\ Record(i, k, at).conns = 0 /\ ~Record(i, k, at).white
                            /\ Record(i, k, at).tokens = Burst /\ Record(i, k, at).refill = at
<1>1. Fresh(k, at) \in Recs /\ Fresh(k, at).key = k BY DdosAssumption DEF Fresh, Recs
<1>2. Found(i, k) => slots[i] \in Recs /\ slots[i].key = k BY DEF Found, TableTypes
<1> QED BY <1>1, <1>2 DEF Record, Fresh

\* Accounting: the record stored counts n connections more than the one found,
\* and n more are open.
LEMMA PutCounts ==
  ASSUME TableTypes, Reach, Counts, NEW k \in Keys, NEW i, NEW s, Put(k, i, s),
         NEW at \in Nat, NEW n \in Nat,
         s.conns = Record(i, k, at).conns + n, open' = [open EXCEPT ![k] = @ + n]
  PROVE  Counts' /\ Record(i, k, at).conns = open[k]
<1>1. /\ i \in Slots /\ slots'[i] = s
      /\ \A j \in Slots : j # i => slots'[j] = slots[j]
      /\ \A q \in Keys, j \in Slots :
           Found(j, q)' <=> IF q = k THEN j = i ELSE j # i /\ Found(j, q)
  BY PutTable DEF Placed
<1>2. /\ Found(i, k) \/ \A j \in Slots : ~Found(j, k)
      /\ \A q \in Keys : q # k /\ Found(i, q) => Evictable(slots[i])
  BY AllocReturns DEF Put
<1>3. Record(i, k, at).conns = open[k]
  <2>1. CASE Found(i, k) BY <1>1, <2>1, RecordOf DEF Counts
  <2>2. CASE ~Found(i, k)
    <3>1. open[k] = 0 BY <1>2, <2>2 DEF Counts, TableTypes
    <3> QED BY <1>1, <2>2, <3>1, RecordOf
  <2> QED BY <2>1, <2>2
<1>4. \A q \in Keys : open'[q] = IF q = k THEN open[k] + n ELSE open[q]
  BY DEF TableTypes
<1>5. ASSUME NEW q \in Keys
      PROVE  /\ \A j \in Slots : Found(j, q)' => slots'[j].conns = open'[q]
             /\ open'[q] > 0 => \E j \in Slots : Found(j, q)'
  <2>1. CASE q = k BY <1>1, <1>3, <1>4, <2>1
  <2>2. CASE q # k
    <3>1. \A j \in Slots : Found(j, q)' => slots'[j].conns = open'[q]
      BY <1>1, <1>4, <2>2 DEF Counts
    <3>2. ASSUME open[q] > 0 PROVE \E j \in Slots : Found(j, q)'
      <4>1. PICK j \in Slots : Found(j, q) BY <3>2 DEF Counts
      <4>2. slots[j].conns = open[q] BY <4>1 DEF Counts
      <4>3. j # i BY <1>2, <2>2, <3>2, <4>1, <4>2 DEF Evictable
      <4> QED BY <1>1, <2>2, <4>1, <4>3
    <3> QED BY <1>4, <2>2, <3>1, <3>2
  <2> QED BY <2>1, <2>2
<1>6. Counts' BY <1>5 DEF Counts
<1> QED BY <1>3, <1>6

\* The lists: nothing of what is listed about other addresses is evicted.
LEMMA PutListed ==
  ASSUME TableTypes, Reach, Listed, NEW k \in Keys, NEW i, NEW s, Put(k, i, s),
         policy' \in [Keys -> {"none", "black", "white"}],
         \A q \in Keys : q # k => policy'[q] = policy[q],
         policy'[k] = "black" => s.ban = Forever /\ ~s.white,
         policy'[k] = "white" <=> s.white
  PROVE  Listed'
<1>1. /\ i \in Slots /\ slots'[i] = s
      /\ \A j \in Slots : j # i => slots'[j] = slots[j]
      /\ \A q \in Keys, j \in Slots :
           Found(j, q)' <=> IF q = k THEN j = i ELSE j # i /\ Found(j, q)
  BY PutTable DEF Placed
<1>2. \A q \in Keys : q # k /\ Found(i, q) => Evictable(slots[i]) BY AllocReturns DEF Put
<1>3. Forever' = Forever BY DEF Forever
<1>4. ASSUME NEW q \in Keys
      PROVE  /\ policy'[q] = "black" =>
                  \E j \in Slots : Found(j, q)' /\ slots'[j].ban = Forever /\ ~slots'[j].white
             /\ policy'[q] = "white" => \E j \in Slots : Found(j, q)' /\ slots'[j].white
             /\ \A j \in Slots : Found(j, q)' /\ slots'[j].white => policy'[q] = "white"
  <2>1. CASE q = k BY <1>1, <2>1
  <2>2. CASE q # k
    <3>1. ASSUME policy[q] = "black"
          PROVE  \E j \in Slots : Found(j, q)' /\ slots'[j].ban = Forever /\ ~slots'[j].white
      <4>1. PICK j \in Slots : Found(j, q) /\ slots[j].ban = Forever /\ ~slots[j].white
        BY <3>1 DEF Listed
      <4>2. j # i BY <1>2, <2>2, <4>1 DEF Evictable
      <4> QED BY <1>1, <2>2, <4>1, <4>2
    <3>2. ASSUME policy[q] = "white" PROVE \E j \in Slots : Found(j, q)' /\ slots'[j].white
      <4>1. PICK j \in Slots : Found(j, q) /\ slots[j].white BY <3>2 DEF Listed
      <4>2. j # i BY <1>2, <2>2, <4>1 DEF Evictable
      <4> QED BY <1>1, <2>2, <4>1, <4>2
    <3>3. \A j \in Slots : Found(j, q)' /\ slots'[j].white => policy[q] = "white"
      BY <1>1, <2>2 DEF Listed
    <3> QED BY <2>2, <3>1, <3>2, <3>3
  <2> QED BY <2>1, <2>2
<1> QED BY <1>3, <1>4 DEF Listed

\* The bucket: the record stored has given m of its tokens, and earned at most
\* what the time from its last refill to `at' is worth.
LEMMA PutBucket ==
  ASSUME TableTypes, Reach, Bucket, NEW k \in Keys, NEW i, NEW s, Put(k, i, s),
         NEW at \in Nat, at <= now, NEW m \in Nat, now' = now, History(i, k, at, m),
         NEW r \in Recs, r = Record(i, k, at),
         \/ s.refill = r.refill /\ s.tokens + m <= r.tokens
         \/ /\ s.refill = at /\ r.refill < at
            /\ s.tokens + m <= r.tokens + (((at - r.refill) * Rate) \div Second)
  PROVE  Bucket'
<1>1. /\ i \in Slots /\ slots'[i] = s
      /\ \A j \in Slots : j # i => slots'[j] = slots[j]
      /\ \A q \in Keys, j \in Slots :
           Found(j, q)' <=> IF q = k THEN j = i ELSE j # i /\ Found(j, q)
  BY PutTable DEF Placed
<1>2. now \in Nat /\ since \in Nat /\ admitted \in Nat /\ Burst \in Nat
  BY DdosAssumption DEF TableTypes
<1>3. CASE k # Watched
  <2>1. since' = since /\ admitted' = admitted BY <1>3 DEF History
  <2>2. \A j \in Slots : Found(j, Watched)' => j # i /\ Found(j, Watched)
    BY <1>1, <1>3, DdosAssumption
  <2> QED BY <1>1, <2>1, <2>2 DEF Bucket, Allowance
<1>4. CASE k = Watched
  <2>1. /\ since' = IF Found(i, k) THEN since ELSE at
        /\ admitted' = m + IF Found(i, k) THEN admitted ELSE 0
    BY <1>4 DEF History
  <2>2. r.refill \in Nat /\ r.tokens \in Nat /\ s.refill \in Nat /\ s.tokens \in Nat BY DEF Recs, Put
  <2>3. /\ since' \in Nat /\ since' <= r.refill /\ r.refill <= now
        /\ (admitted' - m) + r.tokens <= Burst + (((r.refill - since') * Rate) \div Second)
        /\ admitted' \in Nat
    <3>1. CASE Found(i, k)
      <4>1. r = slots[i] BY <1>1, <3>1, RecordOf
      <4>2. /\ since <= r.refill /\ r.refill <= now
            /\ admitted + r.tokens <= Burst + (((r.refill - since) * Rate) \div Second)
        BY <1>1, <1>4, <3>1, <4>1 DEF Bucket, Allowance
      <4>3. since' = since /\ admitted' = m + admitted BY <2>1, <3>1
      <4> QED BY <1>2, <4>2, <4>3
    <3>2. CASE ~Found(i, k)
      <4>1. r.tokens = Burst /\ r.refill = at BY <1>1, <3>2, RecordOf
      <4>2. since' = at /\ admitted' = m BY <2>1, <3>2
      <4>3. (0 * Rate) \div Second \in Nat /\ r.refill - since' = 0 BY <4>1, <4>2, EarnedPart
      <4> QED BY <1>2, <4>1, <4>2, <4>3
    <3> QED BY <3>1, <3>2
  <2> DEFINE x == r.refill - since'
             y == at - r.refill
             ex == (x * Rate) \div Second
             ey == (y * Rate) \div Second
             es == ((s.refill - since') * Rate) \div Second
  <2>4. x \in Nat BY <2>2, <2>3
  <2>5. since' <= s.refill /\ s.refill <= now /\ admitted' + s.tokens <= Burst + es
    <3>1. CASE s.refill = r.refill /\ s.tokens + m <= r.tokens
      <4>1. es = ex /\ ex \in Nat BY <2>4, <3>1, EarnedPart
      <4>2. (admitted' - m) + r.tokens <= Burst + ex BY <2>3
      <4> HIDE DEF x, ex, es
      <4> QED BY <1>2, <2>2, <2>3, <3>1, <4>1, <4>2
    <3>2. CASE /\ s.refill = at /\ r.refill < at
               /\ s.tokens + m <= r.tokens + (((at - r.refill) * Rate) \div Second)
      <4>1. y \in Nat /\ s.refill - since' = x + y BY <2>2, <2>3, <3>2
      <4> HIDE DEF x, y
      <4>2. /\ ex \in Nat /\ ey \in Nat /\ ((x + y) * Rate) \div Second \in Nat
            /\ ex + ey <= ((x + y) * Rate) \div Second
        BY <2>4, <4>1, EarnedPart
      <4>3. es \in Nat /\ ex + ey <= es BY <4>1, <4>2
      <4>4. (admitted' - m) + r.tokens <= Burst + ex /\ s.tokens + m <= r.tokens + ey
        BY <2>3, <3>2 DEF x, y
      <4>5. since' \in Nat /\ since' <= r.refill /\ admitted' \in Nat /\ s.refill = at /\ r.refill < at
        BY <2>3, <3>2
      <4>6. ex \in Nat /\ ey \in Nat BY <4>2
      <4> HIDE DEF ex, ey, es
      <4>7. admitted' + s.tokens <= Burst + es BY <1>2, <2>2, <4>3, <4>4, <4>5, <4>6
      <4> QED BY <1>2, <2>2, <4>5, <4>7
    <3> QED BY <3>1, <3>2
  <2>6. admitted' <= Burst + (((now - since') * Rate) \div Second)
    <3> DEFINE z == now - s.refill
               w == s.refill - since'
               ew == (w * Rate) \div Second
               ez == (z * Rate) \div Second
               en == ((w + z) * Rate) \div Second
    <3>1. z \in Nat /\ w \in Nat /\ now - since' = w + z BY <1>2, <2>2, <2>3, <2>5
    <3>2. es = ew OBVIOUS
    <3> HIDE DEF z, w
    <3>3. ew \in Nat /\ ez \in Nat /\ en \in Nat /\ ew + ez <= en BY <3>1, EarnedPart
    <3>4. admitted' + s.tokens <= Burst + ew BY <2>5, <3>2
    <3>5. ((now - since') * Rate) \div Second = en BY <3>1
    <3> HIDE DEF ew, ez, en, es
    <3>6. admitted' <= Burst + en BY <1>2, <2>2, <2>3, <3>3, <3>4
    <3> QED BY <3>5, <3>6
  <2>7. \A j \in Slots : Found(j, Watched)' => slots'[j] = s BY <1>1, <1>4
  <2>8. since' <= now /\ now' = now BY <1>2, <2>2, <2>3
  <2> QED BY <2>5, <2>6, <2>7, <2>8 DEF Bucket, Allowance
<1> QED BY <1>3, <1>4

-----------------------------------------------------------------------------
(* scl_ddos_check *)

LEMMA RefillGives ==
  ASSUME NEW u \in Recs, NEW at \in Nat
  PROVE  /\ Refill(u, at) \in Recs
         /\ Refill(u, at).key = u.key /\ Refill(u, at).conns = u.conns
         /\ Refill(u, at).white = u.white
         /\ \/ Refill(u, at).refill = u.refill /\ Refill(u, at).tokens = u.tokens
            \/ /\ Refill(u, at).refill = at /\ u.refill < at
               /\ Refill(u, at).tokens <= u.tokens + (((at - u.refill) * Rate) \div Second)
<1>1. u.refill \in Nat /\ u.tokens \in Nat BY DEF Recs
<1>2. CASE Earned(u, at) = 0 BY <1>2 DEF Refill
<1>3. CASE Earned(u, at) # 0
  <2> DEFINE x == at - u.refill
             e == (x * Rate) \div Second
             t == Min({u.tokens + e, Burst})
  <2>1. at > u.refill /\ Earned(u, at) = e BY <1>3 DEF Earned
  <2>2. x \in Nat BY <1>1, <2>1
  <2>3. e \in Nat
    <3> HIDE DEF x
    <3> QED BY <2>2, EarnedPart
  <2>4. Refill(u, at) = [u EXCEPT !.tokens = t, !.refill = at] BY <1>3, <2>1 DEF Refill
  <2> HIDE DEF e
  <2>5. t \in Nat /\ t <= u.tokens + e BY <1>1, <2>3, MinPair, DdosAssumption
  <2> HIDE DEF t
  <2>6. [u EXCEPT !.tokens = t, !.refill = at] \in Recs BY <2>5 DEF Recs
  <2>7. /\ Refill(u, at).tokens = t /\ Refill(u, at).refill = at
        /\ Refill(u, at).key = u.key /\ Refill(u, at).conns = u.conns
        /\ Refill(u, at).white = u.white
    BY <2>4 DEF Recs
  <2> QED BY <1>1, <2>1, <2>4, <2>5, <2>6, <2>7 DEF e
<1> QED BY <1>2, <1>3

LEMMA BanAndDrops ==
  ASSUME NEW u \in Recs, NEW x \in Nat, NEW y \in Nat
  PROVE  /\ [u EXCEPT !.ban = x, !.drops = y] \in Recs
         /\ [u EXCEPT !.drops = y, !.ban = x] \in Recs
<1> DEFINE w == [u EXCEPT !.ban = x]
           v == [u EXCEPT !.drops = y]
<1>1. w \in Recs BY DEF Recs
<1>2. [u EXCEPT !.ban = x, !.drops = y] = [w EXCEPT !.drops = y] BY DEF Recs
<1>3. v \in Recs BY DEF Recs
<1>4. [u EXCEPT !.drops = y, !.ban = x] = [v EXCEPT !.ban = x] BY DEF Recs
<1> HIDE DEF w, v
<1>5. [w EXCEPT !.drops = y] \in Recs BY <1>1 DEF Recs
<1>6. [v EXCEPT !.ban = x] \in Recs BY <1>3 DEF Recs
<1> QED BY <1>2, <1>4, <1>5, <1>6

\* What every path of scl_ddos_check that has a slot does: n connections are
\* admitted, m of them by the bucket.
Checked(k, at, i, s, n, m) ==
  LET r == Record(i, k, at)
  IN /\ Put(k, i, s)
     /\ s.conns = r.conns + n /\ s.white = r.white
     /\ r.ban = Forever /\ ~r.white => s.ban = Forever
     /\ n = 1 /\ ~r.white => r.conns < MaxConn
     /\ \/ s.refill = r.refill /\ s.tokens + m <= r.tokens
        \/ /\ s.refill = at /\ r.refill < at
           /\ s.tokens + m <= r.tokens + (((at - r.refill) * Rate) \div Second)
     /\ open' = [open EXCEPT ![k] = @ + n]
     /\ History(i, k, at, m)
     /\ UNCHANGED <<now, policy, edits, holed>>

LEMMA CheckIsPut ==
  ASSUME TableTypes, NEW k \in Keys, NEW at \in Nat, at <= now, Check(k, at)
  PROVE  \E i, s : \E n \in {0, 1}, m \in {0, 1} : Checked(k, at, i, s, n, m)
<1> DEFINE i == FindOrAlloc(k)
           r == Record(i, k, at)
           s == [r EXCEPT !.seen = at]
           b == Unbanned(s)
           f == Refill(b, at)
<1>1. i # -1 /\ i \in Slots BY AllocSlot DEF Check
<1>2. r \in Recs /\ r.key = k BY <1>1, RecordOf
<1> HIDE DEF i, r
<1>3. /\ s \in Recs /\ s.key = k /\ s.conns = r.conns /\ s.white = r.white /\ s.ban = r.ban
      /\ s.tokens = r.tokens /\ s.refill = r.refill
  BY <1>2 DEF Recs
<1>4. /\ r.conns \in Nat /\ r.tokens \in Nat /\ r.refill \in Nat /\ r.white \in BOOLEAN
      /\ r.ban \in Nat
  BY <1>2 DEF Recs
<1> HIDE DEF s
<1>5. /\ b \in Recs /\ b.key = k /\ b.conns = r.conns /\ b.white = r.white
      /\ b.tokens = r.tokens /\ b.refill = r.refill
  <2>1. CASE s.ban > 0
    <3>1. b = [s EXCEPT !.ban = 0, !.drops = 0] BY <2>1 DEF Unbanned
    <3>2. 0 \in Nat OBVIOUS
    <3>4. [s EXCEPT !.ban = 0, !.drops = 0] \in Recs BY <1>3, <3>2, BanAndDrops, Zenon
    <3>5. b \in Recs BY <3>1, <3>4, Zenon
    <3>3. /\ b.key = s.key /\ b.conns = s.conns /\ b.white = s.white /\ b.tokens = s.tokens
          /\ b.refill = s.refill
      BY <1>3, <3>1 DEF Recs
    <3> QED BY <1>3, <3>3, <3>5
  <2>2. CASE ~(s.ban > 0) BY <1>3, <2>2 DEF Unbanned
  <2> QED BY <2>1, <2>2
<1> HIDE DEF b
<1>6. /\ f \in Recs /\ f.key = k /\ f.conns = r.conns /\ f.white = r.white
      /\ \/ f.refill = r.refill /\ f.tokens = r.tokens
         \/ /\ f.refill = at /\ r.refill < at
            /\ f.tokens <= r.tokens + (((at - r.refill) * Rate) \div Second)
  BY <1>5, RefillGives
<1>7. /\ f.tokens \in Nat /\ f.conns \in Nat /\ f.drops \in Nat /\ f.ban \in Nat BY <1>6 DEF Recs
<1> HIDE DEF f
<1>8. \/ s.white /\ Store(i, k, [s EXCEPT !.conns = @ + 1], at, 1, 0)
      \/ ~s.white /\ Banned(s, at) /\ Store(i, k, s, at, 0, 0)
      \/ ~s.white /\ ~Banned(s, at) /\ OverLimit(f) /\ Store(i, k, Dropped(f, at), at, 0, 0)
      \/ ~s.white /\ ~Banned(s, at) /\ ~OverLimit(f)
         /\ Store(i, k, [f EXCEPT !.tokens = @ - 1, !.conns = @ + 1], at, 1, 1)
  BY DEF Check, i, r, s, b, f
<1>9. r.ban = Forever => Banned(s, at)
  BY <1>3, <1>4, DdosAssumption DEF Banned, Forever, TableTypes
<1>10. CASE s.white /\ Store(i, k, [s EXCEPT !.conns = @ + 1], at, 1, 0)
  <2> DEFINE u == [s EXCEPT !.conns = @ + 1]
  <2>1. /\ u \in Recs /\ u.key = k /\ u.conns = r.conns + 1 /\ u.white = r.white /\ u.ban = r.ban
        /\ u.tokens = r.tokens /\ u.refill = r.refill
    BY <1>3, <1>4 DEF Recs
  <2> HIDE DEF u
  <2>2. Store(i, k, u, at, 1, 0) BY <1>10 DEF u
  <2>3. Put(k, i, u) BY <1>1, <2>1, <2>2 DEF Put, Store, i
  <2>4. u.refill = r.refill /\ u.tokens + 0 <= r.tokens BY <1>4, <2>1
  <2>5. r.white BY <1>3, <1>10
  <2>6. open' = [open EXCEPT ![k] = @ + 1] /\ History(i, k, at, 0)
        /\ UNCHANGED <<now, policy, edits, holed>>
    BY <2>2 DEF Store
  <2>7. Checked(k, at, i, u, 1, 0) BY <2>1, <2>3, <2>4, <2>5, <2>6 DEF Checked, r
  <2> QED BY <2>7
<1>11. CASE ~s.white /\ Banned(s, at) /\ Store(i, k, s, at, 0, 0)
  <2>1. Put(k, i, s) BY <1>1, <1>3, <1>11 DEF Put, Store, i
  <2>2. Checked(k, at, i, s, 0, 0) BY <1>3, <1>4, <1>11, <2>1 DEF Checked, Store, r
  <2> QED BY <2>2
<1>12. CASE ~s.white /\ ~Banned(s, at) /\ OverLimit(f) /\ Store(i, k, Dropped(f, at), at, 0, 0)
  <2> DEFINE u == Dropped(f, at)
             d == IF f.drops + 1 >= BanThreshold THEN at + BanDuration ELSE f.ban
  <2>0. u = [f EXCEPT !.drops = f.drops + 1, !.ban = d] /\ d \in Nat
    BY <1>6, <1>7, DdosAssumption DEF Dropped, Recs
  <2> HIDE DEF d
  <2>1. /\ u \in Recs /\ u.key = k /\ u.conns = r.conns /\ u.white = r.white
        /\ u.tokens = f.tokens /\ u.refill = f.refill
    <3>0. f.drops + 1 \in Nat /\ d \in Nat BY <1>7, <2>0
    <3>1. [f EXCEPT !.drops = f.drops + 1, !.ban = d] \in Recs BY <1>6, <3>0, BanAndDrops, Zenon
    <3>2. /\ u.key = f.key /\ u.conns = f.conns /\ u.white = f.white
          /\ u.tokens = f.tokens /\ u.refill = f.refill
      <4> HIDE DEF u
      <4> QED BY <1>6, <2>0 DEF Recs
    <3> QED BY <1>6, <2>0, <3>1, <3>2
  <2> HIDE DEF u
  <2>2. Store(i, k, u, at, 0, 0) BY <1>12 DEF u
  <2>3. Put(k, i, u) BY <1>1, <2>1, <2>2 DEF Put, Store, i
  <2>4. /\ u.refill = r.refill /\ u.tokens + 0 <= r.tokens
        \/ /\ u.refill = at /\ r.refill < at
           /\ u.tokens + 0 <= r.tokens + (((at - r.refill) * Rate) \div Second)
    BY <1>4, <1>6, <1>7, <2>1
  <2>5. Checked(k, at, i, u, 0, 0)
    BY <1>3, <1>4, <1>9, <1>12, <2>1, <2>2, <2>3, <2>4 DEF Checked, Store, r
  <2> QED BY <2>5
<1>13. CASE ~s.white /\ ~Banned(s, at) /\ ~OverLimit(f)
            /\ Store(i, k, [f EXCEPT !.tokens = @ - 1, !.conns = @ + 1], at, 1, 1)
  <2> DEFINE u == [f EXCEPT !.tokens = @ - 1, !.conns = @ + 1]
  <2>1. f.tokens # 0 /\ f.conns < MaxConn BY <1>7, <1>13, DdosAssumption DEF OverLimit
  <2>2. /\ u \in Recs /\ u.key = k /\ u.conns = r.conns + 1 /\ u.white = r.white
        /\ u.tokens = f.tokens - 1 /\ u.refill = f.refill
    <3>1. f.tokens - 1 \in Nat /\ f.conns + 1 \in Nat BY <1>7, <2>1
    <3>2. u = [f EXCEPT !.tokens = f.tokens - 1, !.conns = f.conns + 1] BY <1>6 DEF Recs
    <3> HIDE DEF u
    <3>3. u \in Recs BY <1>6, <3>1, <3>2 DEF Recs
    <3>4. /\ u.key = f.key /\ u.conns = f.conns + 1 /\ u.white = f.white
          /\ u.tokens = f.tokens - 1 /\ u.refill = f.refill
      BY <1>6, <3>2 DEF Recs
    <3> QED BY <1>6, <3>3, <3>4
  <2> HIDE DEF u
  <2>3. Store(i, k, u, at, 1, 1) BY <1>13 DEF u
  <2>4. Put(k, i, u) BY <1>1, <2>2, <2>3 DEF Put, Store, i
  <2>5. \/ u.refill = r.refill /\ u.tokens + 1 <= r.tokens
        \/ /\ u.refill = at /\ r.refill < at
           /\ u.tokens + 1 <= r.tokens + (((at - r.refill) * Rate) \div Second)
    BY <1>4, <1>6, <1>7, <2>2
  <2>6. Checked(k, at, i, u, 1, 1)
    BY <1>3, <1>4, <1>6, <1>9, <1>13, <2>1, <2>2, <2>3, <2>4, <2>5 DEF Checked, Store, r
  <2> QED BY <2>6
<1> QED BY <1>8, <1>10, <1>11, <1>12, <1>13

LEMMA PutTypes ==
  ASSUME TableTypes, NEW k \in Keys, NEW i, NEW s, Put(k, i, s)
  PROVE  i \in Slots /\ slots' \in [Slots -> Recs \cup {Free}]
<1>1. i \in Slots BY AllocSlot DEF Put
<1> QED BY <1>1 DEF Put, TableTypes

LEMMA CheckStep ==
  ASSUME TableInv, NEW k \in Keys, NEW at \in Nat, at <= now, Check(k, at)
  PROVE  /\ TableInv'
         /\ \A q \in Keys : open'[q] > open[q] /\ policy[q] # "white" /\ ~holed => open[q] < MaxConn
<1>1. TableTypes BY DEF TableInv
<1>0. PICK i, s : \E n \in {0, 1}, m \in {0, 1} : Checked(k, at, i, s, n, m)
  BY <1>1, CheckIsPut
<1>2. PICK n \in {0, 1}, m \in {0, 1} : Checked(k, at, i, s, n, m) BY <1>0
<1>3. /\ Put(k, i, s) /\ n \in Nat /\ m \in Nat /\ s.conns = Record(i, k, at).conns + n
      /\ s.white = Record(i, k, at).white
      /\ Record(i, k, at).ban = Forever /\ ~Record(i, k, at).white => s.ban = Forever
      /\ n = 1 /\ ~Record(i, k, at).white => Record(i, k, at).conns < MaxConn
      /\ open' = [open EXCEPT ![k] = @ + n]
      /\ History(i, k, at, m) /\ UNCHANGED <<now, policy, edits, holed>>
  BY <1>2 DEF Checked
<1>4. i \in Slots /\ slots' \in [Slots -> Recs \cup {Free}] BY <1>1, <1>3, PutTypes
<1>5. Record(i, k, at) \in Recs BY <1>1, <1>4, RecordOf
<1>6. TableTypes'
  <2>1. open' \in [Keys -> Nat] BY <1>1, <1>3 DEF TableTypes
  <2>2. since' \in Nat /\ admitted' \in Nat BY <1>1, <1>3 DEF TableTypes, History
  <2> QED BY <1>1, <1>3, <1>4, <2>1, <2>2 DEF TableTypes
<1>7. CASE holed BY <1>3, <1>6, <1>7 DEF TableInv
<1>8. CASE ~holed
  <2>1. Reach /\ Counts /\ Listed /\ Bucket BY <1>8 DEF TableInv
  <2>2. Reach' BY <1>1, <1>3, <2>1, PutTable
  <2>3. Counts' /\ Record(i, k, at).conns = open[k] BY <1>1, <1>3, <2>1, PutCounts
  <2>4. /\ Found(i, k) \/ \A j \in Slots : ~Found(j, k)
        /\ Found(i, k) => Record(i, k, at) = slots[i]
        /\ ~Found(i, k) => ~Record(i, k, at).white
    <3>1. i = FindOrAlloc(k) /\ i # -1 BY <1>3 DEF Put
    <3> QED BY <1>1, <1>4, <2>1, <3>1, AllocReturns, RecordOf
  <2>5. \A j \in Slots : Found(j, k) => j = i BY <1>1, <1>4, <2>1, <2>4, OneRecord
  <2>6. /\ policy[k] = "black" => Record(i, k, at).ban = Forever /\ ~Record(i, k, at).white
        /\ policy[k] = "white" <=> Record(i, k, at).white
    BY <1>4, <2>1, <2>4, <2>5 DEF Listed
  <2>7. Listed' BY <1>1, <1>3, <2>1, <2>6, PutListed DEF TableTypes
  <2>8. Bucket'
    <3> DEFINE r == Record(i, k, at)
    <3>1. \/ s.refill = r.refill /\ s.tokens + m <= r.tokens
          \/ /\ s.refill = at /\ r.refill < at
             /\ s.tokens + m <= r.tokens + (((at - r.refill) * Rate) \div Second)
      BY <1>2 DEF Checked
    <3>2. r \in Recs /\ r = Record(i, k, at) BY <1>5
    <3>3. m \in Nat /\ now' = now BY <1>3
    <3> HIDE DEF r
    <3> QED BY <1>1, <1>3, <2>1, <3>1, <3>2, <3>3, PutBucket
  <2>9. \A q \in Keys : open'[q] > open[q] /\ policy[q] # "white" => open[q] < MaxConn
    BY <1>1, <1>3, <2>3, <2>6 DEF TableTypes
  <2> QED BY <1>6, <2>2, <2>3, <2>7, <2>8, <2>9 DEF TableInv
<1> QED BY <1>7, <1>8, <1>3, <1>6 DEF TableInv

-----------------------------------------------------------------------------
(* scl_ddos_conn_closed, the operator's calls and the clock *)

LEMMA ListStep ==
  ASSUME TableInv, NEW k \in Keys, Blacklist(k) \/ Whitelist(k)
  PROVE  TableInv'
<1>1. TableTypes BY DEF TableInv
<1>2. now \in Nat /\ now <= now /\ Forever \in Nat BY <1>1, DdosAssumption DEF TableTypes, Forever
<1>3. PICK p \in {"black", "white"}, ban \in Nat, white \in BOOLEAN :
        /\ List(k, p, ban, white)
        /\ p = "black" => ban = Forever /\ ~white
        /\ p = "white" <=> white
  <2>1. CASE Blacklist(k) BY <1>2, <2>1 DEF Blacklist
  <2>2. CASE Whitelist(k) BY <2>2 DEF Whitelist
  <2> QED BY <2>1, <2>2
<1> DEFINE i == FindOrAlloc(k)
           r == Record(i, k, now)
           s == [r EXCEPT !.ban = ban, !.white = white]
<1>4. /\ i # -1 /\ slots' = [slots EXCEPT ![i] = s] /\ policy' = [policy EXCEPT ![k] = p]
      /\ History(i, k, now, 0) /\ edits' = edits + 1 /\ UNCHANGED <<now, open, holed>>
  BY <1>3 DEF List
<1>5. i \in Slots /\ i = FindOrAlloc(k) BY <1>1, <1>4, AllocSlot
<1> HIDE DEF i
<1>6. r \in Recs /\ r.key = k /\ r = Record(i, k, now) BY <1>1, <1>2, <1>5, RecordOf
<1> HIDE DEF r
<1>7. /\ s \in Recs /\ s.key = k /\ s.conns = r.conns /\ s.tokens = r.tokens
      /\ s.refill = r.refill /\ s.ban = ban /\ s.white = white
  BY <1>6 DEF Recs
<1> HIDE DEF s
<1>8. Put(k, i, s) BY <1>4, <1>5, <1>7 DEF Put
<1>9. r.conns \in Nat /\ r.tokens \in Nat /\ 0 \in Nat BY <1>6 DEF Recs
<1>10. TableTypes'
  <2>1. slots' \in [Slots -> Recs \cup {Free}] BY <1>1, <1>8, PutTypes
  <2>2. since' \in Nat /\ admitted' \in Nat BY <1>1, <1>4 DEF TableTypes, History
  <2>3. policy' \in [Keys -> {"none", "black", "white"}] BY <1>1, <1>4 DEF TableTypes
  <2> QED BY <1>1, <1>4, <2>1, <2>2, <2>3 DEF TableTypes
<1>11. CASE holed BY <1>4, <1>10, <1>11 DEF TableInv
<1>12. CASE ~holed
  <2>1. Reach /\ Counts /\ Listed /\ Bucket BY <1>12 DEF TableInv
  <2>2. Reach' BY <1>1, <1>8, <2>1, PutTable
  <2>3. Counts'
    <3>1. s.conns = Record(i, k, now).conns + 0 BY <1>6, <1>7, <1>9
    <3>2. open' = [open EXCEPT ![k] = @ + 0] BY <1>1, <1>4 DEF TableTypes
    <3> QED BY <1>1, <1>2, <1>8, <1>9, <2>1, <3>1, <3>2, PutCounts
  <2>4. Listed'
    <3>1. /\ policy' \in [Keys -> {"none", "black", "white"}]
          /\ \A q \in Keys : q # k => policy'[q] = policy[q]
          /\ policy'[k] = p
      BY <1>1, <1>4 DEF TableTypes
    <3>2. /\ policy'[k] = "black" => s.ban = Forever /\ ~s.white
          /\ policy'[k] = "white" <=> s.white
      BY <1>3, <1>7, <3>1
    <3> QED BY <1>1, <1>8, <2>1, <3>1, <3>2, PutListed
  <2>5. Bucket'
    <3>1. s.refill = r.refill /\ s.tokens + 0 <= r.tokens BY <1>7, <1>9
    <3> QED BY <1>1, <1>2, <1>4, <1>6, <1>8, <1>9, <2>1, <3>1, PutBucket
  <2> QED BY <1>10, <2>2, <2>3, <2>4, <2>5 DEF TableInv
<1> QED BY <1>11, <1>12, <1>4, <1>10 DEF TableInv

LEMMA ClosedStep ==
  ASSUME TableInv, NEW k \in Keys, ConnClosed(k)
  PROVE  TableInv'
<1>1. TableTypes BY DEF TableInv
<1> DEFINE i == Find(k)
<1>2. /\ open[k] > 0 /\ open' = [open EXCEPT ![k] = @ - 1]
      /\ slots' = IF i # -1 /\ slots[i].conns > 0 THEN [slots EXCEPT ![i].conns = @ - 1] ELSE slots
      /\ UNCHANGED <<now, policy, since, admitted, edits, holed>>
  BY DEF ConnClosed
<1>3. i # -1 => i \in Slots /\ Found(i, k) BY <1>1, FindReturns
<1>4. i # -1 => slots[i] \in Recs BY <1>1, <1>3 DEF TableTypes, Found
<1>5. \A q \in Keys : open'[q] = IF q = k THEN open[k] - 1 ELSE open[q]
  BY <1>1, <1>2 DEF TableTypes
<1>6. open[k] \in Nat BY <1>1 DEF TableTypes
<1> HIDE DEF i
<1>7. CASE i # -1 /\ slots[i].conns > 0
  <2> DEFINE s == [slots[i] EXCEPT !.conns = @ - 1]
  <2>1. slots' = [slots EXCEPT ![i] = s] BY <1>2, <1>7
  <2>2. slots[i].conns \in Nat BY <1>4, <1>7 DEF Recs
  <2>3. /\ s \in Recs /\ s.key = slots[i].key /\ s.conns = slots[i].conns - 1
        /\ s.tokens = slots[i].tokens /\ s.refill = slots[i].refill
        /\ s.ban = slots[i].ban /\ s.white = slots[i].white
    BY <1>4, <1>7, <2>2 DEF Recs
  <2> HIDE DEF s
  <2>4. /\ slots' \in [Slots -> Recs \cup {Free}] /\ slots'[i] = s
        /\ \A j \in Slots : j # i => slots'[j] = slots[j]
    BY <1>1, <1>3, <1>7, <2>1, <2>3 DEF TableTypes
  <2>5. s # Free BY <2>3, DdosAssumption DEF Recs
  <2>6. ASSUME NEW j \in Slots
        PROVE  (slots'[j] = Free) <=> (slots[j] = Free)
    BY <1>3, <1>7, <2>4, <2>5 DEF Found
  <2>12. ASSUME NEW j \in Slots, slots[j] # Free
         PROVE  slots'[j].key = slots[j].key
    BY <2>3, <2>4
  <2>7. ASSUME NEW q \in Keys, NEW j \in Slots PROVE Found(j, q)' <=> Found(j, q)
    <3>1. Found(j, q)' <=> slots'[j] # Free /\ slots'[j].key = q BY DEF Found
    <3> QED BY <2>6, <2>12, <3>1 DEF Found
  <2>8. open' \in [Keys -> Nat] BY <1>1, <1>2, <1>6 DEF TableTypes
  <2>9. TableTypes' BY <1>1, <1>2, <2>4, <2>8 DEF TableTypes
  <2>10. CASE holed BY <1>2, <2>9, <2>10 DEF TableInv
  <2>11. CASE ~holed
    <3>1. Reach /\ Counts /\ Listed /\ Bucket BY <2>11 DEF TableInv
    <3>2. Reach'
      <4> SUFFICES ASSUME NEW q \in Keys, NEW d \in Slots, Found(Probe(q, d), q)',
                          NEW e \in 0 .. d - 1
                   PROVE  slots'[Probe(q, e)] # Free /\ slots'[Probe(q, e)].key # q
        BY DEF Reach
      <4>1. d \in Nat /\ e \in Nat BY SlotsNat
      <4>2. Probe(q, d) \in Slots /\ Probe(q, e) \in Slots BY <4>1, ProbeSlot
      <4>3. Found(Probe(q, d), q)
        <5> DEFINE x == Probe(q, d)
        <5>1. x \in Slots /\ Found(x, q)' BY <4>2
        <5> HIDE DEF x
        <5>2. Found(x, q) BY <2>7, <5>1
        <5> QED BY <5>2 DEF x
      <4>4. slots[Probe(q, e)] # Free /\ slots[Probe(q, e)].key # q BY <3>1, <4>3 DEF Reach
      <4> DEFINE y == Probe(q, e)
      <4>5. y \in Slots /\ slots[y] # Free /\ slots[y].key # q BY <4>2, <4>4
      <4> HIDE DEF y
      <4>6. slots'[y] # Free /\ slots'[y].key # q BY <2>6, <2>12, <4>5
      <4> QED BY <4>6 DEF y
    <3>3. \A j \in Slots : Found(j, k) => j = i BY <1>1, <1>3, <1>7, <3>1, OneRecord
    <3>4. Counts'
      <4>1. ASSUME NEW q \in Keys
            PROVE  /\ \A j \in Slots : Found(j, q)' => slots'[j].conns = open'[q]
                   /\ open'[q] > 0 => \E j \in Slots : Found(j, q)'
        <5>1. CASE q = k
          <6>1. slots[i].conns = open[k] BY <1>3, <1>7, <3>1 DEF Counts
          <6>2. \A j \in Slots : Found(j, q)' => slots'[j].conns = open'[q]
            BY <1>5, <2>3, <2>4, <2>7, <3>3, <5>1, <6>1
          <6> QED BY <1>3, <1>7, <2>7, <5>1, <6>2
        <5>2. CASE q # k
          <6>1. ~Found(i, q) BY <1>3, <1>7, <5>2 DEF Found
          <6>2. \A j \in Slots : Found(j, q)' => slots'[j].conns = open'[q]
            BY <1>5, <2>4, <2>7, <3>1, <5>2, <6>1 DEF Counts
          <6>3. open'[q] > 0 => \E j \in Slots : Found(j, q)'
            BY <1>5, <2>7, <3>1, <5>2 DEF Counts
          <6> QED BY <6>2, <6>3
        <5> QED BY <5>1, <5>2
      <4> QED BY <4>1 DEF Counts
    <3>5. \A j \in Slots : slots[j] # Free =>
            /\ slots'[j].ban = slots[j].ban /\ slots'[j].white = slots[j].white
            /\ slots'[j].tokens = slots[j].tokens /\ slots'[j].refill = slots[j].refill
      BY <2>3, <2>4
    <3>6. Listed'
      <4>1. ASSUME NEW q \in Keys, NEW j \in Slots
            PROVE  /\ Found(j, q)' <=> Found(j, q)
                   /\ Found(j, q) => /\ slots'[j].ban = slots[j].ban
                                     /\ slots'[j].white = slots[j].white
        BY <2>7, <3>5 DEF Found
      <4> QED BY <1>2, <3>1, <4>1 DEF Listed, Forever, Found
    <3>7. Bucket'
      <4>1. ASSUME NEW j \in Slots, Found(j, Watched)'
            PROVE  /\ Found(j, Watched) /\ slots'[j].tokens = slots[j].tokens
                   /\ slots'[j].refill = slots[j].refill
        BY <2>7, <3>5, <4>1, DdosAssumption DEF Found
      <4> QED BY <1>2, <3>1, <4>1 DEF Bucket, Allowance
    <3> QED BY <2>9, <3>2, <3>4, <3>6, <3>7 DEF TableInv
  <2> QED BY <2>10, <2>11, <1>2, <2>9 DEF TableInv
<1>8. CASE ~(i # -1 /\ slots[i].conns > 0)
  <2>1. slots' = slots BY <1>2, <1>8
  <2>2. open' \in [Keys -> Nat] BY <1>1, <1>2, <1>6 DEF TableTypes
  <2>3. TableTypes' BY <1>1, <1>2, <2>1, <2>2 DEF TableTypes
  <2>4. holed
    <3> SUFFICES ASSUME ~holed PROVE FALSE OBVIOUS
    <3>1. Reach /\ Counts BY DEF TableInv
    <3>2. PICK j \in Slots : Found(j, k) BY <1>2, <3>1 DEF Counts
    <3>3. i = j BY <1>1, <3>1, <3>2, SweepFinds DEF i
    <3>4. slots[j].conns = open[k] BY <3>1, <3>2 DEF Counts
    <3>5. j # -1 BY <3>2, SlotsNat
    <3> QED BY <1>2, <1>8, <3>3, <3>4, <3>5
  <2> QED BY <1>2, <2>3, <2>4 DEF TableInv
<1> QED BY <1>7, <1>8

LEMMA UnlistStep ==
  ASSUME TableInv, NEW k \in Keys, Unlist(k)
  PROVE  TableInv' /\ open' = open
<1>1. TableTypes BY DEF TableInv
<1>2. /\ Find(k) # -1 /\ slots' = [slots EXCEPT ![Find(k)] = Free] /\ holed' = TRUE
      /\ policy' = [policy EXCEPT ![k] = "none"] /\ edits' = edits + 1
      /\ UNCHANGED <<now, open, since, admitted>>
  BY DEF Unlist
<1>3. slots' \in [Slots -> Recs \cup {Free}] BY <1>1, <1>2 DEF TableTypes
<1>4. policy' \in [Keys -> {"none", "black", "white"}] BY <1>1, <1>2 DEF TableTypes
<1> QED BY <1>1, <1>2, <1>3, <1>4 DEF TableInv, TableTypes

LEMMA TickStep ==
  ASSUME TableInv, Tick
  PROVE  TableInv' /\ open' = open
<1>1. /\ now < MaxTime /\ now' = now + 1
      /\ UNCHANGED <<slots, open, policy, since, admitted, edits, holed>>
  BY DEF Tick
<1>2. TableTypes' BY <1>1, DdosAssumption DEF TableInv, TableTypes
<1>3. CASE ~holed
  <2>1. Reach /\ Counts /\ Listed /\ Bucket BY <1>3 DEF TableInv
  <2>2. Reach' BY <1>1, <2>1 DEF Reach, Found, Probe
  <2>3. Counts' BY <1>1, <2>1 DEF Counts, Found
  <2>4. Listed' BY <1>1, <2>1 DEF Listed, Found, Forever
  <2>5. Bucket'
    <3> DEFINE x == now - since
               e == (x * Rate) \div Second
               f == ((x + 1) * Rate) \div Second
    <3>1. now \in Nat /\ since \in Nat /\ admitted \in Nat /\ Burst \in Nat
      BY DdosAssumption DEF TableInv, TableTypes
    <3>2. since <= now /\ admitted <= Burst + e BY <2>1 DEF Bucket, Allowance
    <3>3. x \in Nat /\ now' - since' = x + 1 BY <1>1, <3>1, <3>2
    <3> HIDE DEF x
    <3>4. e \in Nat /\ f \in Nat /\ e <= f
      <4>1. 1 \in Nat OBVIOUS
      <4>2. /\ e \in Nat /\ (1 * Rate) \div Second \in Nat /\ f \in Nat
            /\ e + ((1 * Rate) \div Second) <= f
        BY <3>3, <4>1, EarnedPart
      <4> HIDE DEF e, f
      <4> QED BY <4>2
    <3>5. Allowance(now)' = Burst + f BY <3>3 DEF Allowance
    <3> HIDE DEF e, f
    <3>6. since' <= now' /\ admitted' <= Allowance(now)' BY <1>1, <3>1, <3>2, <3>4, <3>5
    <3>7. ASSUME NEW i \in Slots, Found(i, Watched)'
          PROVE  /\ since' <= slots'[i].refill /\ slots'[i].refill <= now'
                 /\ admitted' + slots'[i].tokens <= Allowance(slots[i].refill)'
      <4>1. Found(i, Watched) BY <1>1, <3>7 DEF Found
      <4>2. slots[i] \in Recs BY <4>1 DEF Found, TableInv, TableTypes
      <4>3. slots[i].refill \in Nat BY <4>2 DEF Recs
      <4>4. /\ since <= slots[i].refill /\ slots[i].refill <= now
            /\ admitted + slots[i].tokens <= Allowance(slots[i].refill)
        BY <2>1, <4>1 DEF Bucket
      <4>5. Allowance(slots[i].refill)' = Allowance(slots[i].refill) BY <1>1 DEF Allowance
      <4> QED BY <1>1, <3>1, <4>3, <4>4, <4>5
    <3> QED BY <3>6, <3>7 DEF Bucket
  <2> QED BY <1>2, <2>2, <2>3, <2>4, <2>5, <1>1 DEF TableInv
<1> QED BY <1>1, <1>2, <1>3 DEF TableInv

LEMMA SameTable == TableInv /\ UNCHANGED vars => TableInv'
<1> SUFFICES ASSUME TableInv, UNCHANGED vars PROVE TableInv' OBVIOUS
<1> USE DEF vars
<1>1. TableTypes' BY DEF TableInv, TableTypes
<1>2. ~holed => Reach' BY DEF TableInv, Reach, Found, Probe
<1>3. ~holed => Counts' BY DEF TableInv, Counts, Found
<1>4. ~holed => Listed' BY DEF TableInv, Listed, Found, Forever
<1>5. ~holed => Bucket' BY DEF TableInv, Bucket, Found, Allowance
<1> QED BY <1>1, <1>2, <1>3, <1>4, <1>5 DEF TableInv

LEMMA InitTable == Init => TableInv
<1> SUFFICES ASSUME Init PROVE TableInv OBVIOUS
<1>1. /\ slots = [i \in Slots |-> Free] /\ now = 1 /\ open = [k \in Keys |-> 0]
      /\ policy = [k \in Keys |-> "none"] /\ since = 1 /\ admitted = 0 /\ edits = 0
      /\ holed = FALSE
  BY DEF Init
<1>2. \A i \in Slots : \A k : ~Found(i, k) BY <1>1 DEF Found
<1>3. TableTypes
  <2>1. /\ slots \in [Slots -> Recs \cup {Free}] /\ open \in [Keys -> Nat]
        /\ policy \in [Keys -> {"none", "black", "white"}]
    BY <1>1
  <2>2. now \in 1 .. MaxTime /\ since \in Nat /\ admitted \in Nat /\ edits \in Nat
    BY <1>1, DdosAssumption
  <2>3. holed \in BOOLEAN BY <1>1, Zenon
  <2> QED BY <2>1, <2>2, <2>3, Zenon DEF TableTypes
<1>4. Reach
  <2>1. \A k \in Keys : \A d \in Slots : Probe(k, d) \in Slots BY ProbeSlot, SlotsNat
  <2> QED BY <1>2, <2>1 DEF Reach
<1>5. Counts /\ Listed BY <1>1, <1>2 DEF Counts, Listed
<1>6. Bucket
  <2>1. (0 * Rate) \div Second \in Nat BY EarnedPart
  <2>2. now - since = 0 /\ Burst \in Nat BY <1>1, DdosAssumption
  <2>3. Allowance(now) = Burst + ((0 * Rate) \div Second) BY <2>2 DEF Allowance
  <2>4. admitted <= Allowance(now) BY <1>1, <2>1, <2>2, <2>3
  <2>5. Watched \in Keys BY DdosAssumption
  <2> QED BY <1>1, <1>2, <2>4, <2>5 DEF Bucket
<1> QED BY <1>3, <1>4, <1>5, <1>6 DEF TableInv

-----------------------------------------------------------------------------

\* Every step keeps the table's invariant, and admits within max_conn_per_ip.
LEMMA NextTable ==
  ASSUME TableInv, [Next]_vars
  PROVE  TableInv' /\ ConnCap
<1>1. TableTypes BY DEF TableInv
<1>2. ASSUME open' = open PROVE ConnCap BY <1>1, <1>2 DEF ConnCap, TableTypes
<1>3. ASSUME NEW k \in Keys, NEW at \in {now - 1, now}, at > 0, Check(k, at)
      PROVE  TableInv' /\ ConnCap
  <2>1. at \in Nat /\ at <= now BY <1>1, <1>3 DEF TableTypes
  <2> QED BY <1>3, <2>1, CheckStep DEF ConnCap
<1>4. ASSUME NEW k \in Keys, ConnClosed(k) PROVE TableInv' /\ ConnCap
  <2>1. TableInv' BY <1>4, ClosedStep
  <2>2. \A q \in Keys : ~(open'[q] > open[q]) BY <1>1, <1>4 DEF ConnClosed, TableTypes
  <2> QED BY <2>1, <2>2 DEF ConnCap
<1>5. ASSUME NEW k \in Keys, Blacklist(k) \/ Whitelist(k) PROVE TableInv' /\ ConnCap
  <2>1. open' = open BY <1>5 DEF Blacklist, Whitelist, List
  <2> QED BY <1>2, <1>5, <2>1, ListStep
<1>6. ASSUME NEW k \in Keys, Unlist(k) PROVE TableInv' /\ ConnCap
  BY <1>2, <1>6, UnlistStep
<1>7. CASE Tick BY <1>2, <1>7, TickStep
<1>8. ASSUME (\E k \in Keys : CheckFull(k)) \/ UNCHANGED vars PROVE TableInv' /\ ConnCap
  <2>1. UNCHANGED vars BY <1>8 DEF CheckFull
  <2>2. open' = open BY <2>1 DEF vars
  <2> QED BY <1>2, <2>1, <2>2, SameTable
<1> QED BY <1>3, <1>4, <1>5, <1>6, <1>7, <1>8 DEF Next

\* The inductive invariant of the table: reachability of the records, and what
\* they say of connections, lists and tokens.
THEOREM TableInvariant == Spec => []TableInv
BY InitTable, NextTable, PTL DEF Spec

\* scl_ddos_check and scl_ddos_conn_closed balance through collisions and
\* evictions, until scl_ddos_unlist_ip empties a slot.
THEOREM RecordsCount == Spec => []CountsOpen
<1>1. TableInv => CountsOpen
  <2> SUFFICES ASSUME TableInv, ~holed, NEW k \in Keys
               PROVE  /\ \A i \in Slots : Found(i, k) => slots[i].conns = open[k]
                      /\ open[k] > 0 => Find(k) # -1
    BY DEF CountsOpen
  <2>1. TableTypes /\ Reach /\ Counts BY DEF TableInv
  <2>2. ASSUME open[k] > 0 PROVE Find(k) # -1
    <3>1. PICK i \in Slots : Found(i, k) BY <2>1, <2>2 DEF Counts
    <3>2. Find(k) = i BY <2>1, <3>1, SweepFinds
    <3> QED BY <3>2, SlotsNat
  <2> QED BY <2>1, <2>2 DEF Counts
<1> QED BY <1>1, TableInvariant, PTL

\* find_slot never evicts what scl_ddos_blacklist_ip or scl_ddos_whitelist_ip
\* has pinned, and the lookup finds it.
THEOREM PinnedStay == Spec => []EvictionKeepsPolicy
<1>1. TableInv => EvictionKeepsPolicy
  <2> SUFFICES ASSUME TableInv, ~holed, NEW k \in Keys PROVE Pinned(k)
    BY DEF EvictionKeepsPolicy
  <2>1. TableTypes /\ Reach /\ Listed BY DEF TableInv
  <2>2. \A i \in Slots : Found(i, k) => Find(k) = i /\ i # -1 BY <2>1, SweepFinds, SlotsNat
  <2> QED BY <2>1, <2>2 DEF Listed, Pinned
<1> QED BY <1>1, TableInvariant, PTL

\* scl_ddos_check admits within max_conn_per_ip and within the burst and rate
\* of the token bucket, whatever clock value it read before it took the lock.
THEOREM LimitsKept == Spec => LimitsHold
<1>1. TableInv => RateBound BY DEF TableInv, Bucket, Allowance, RateBound
<1>2. TableInv /\ [Next]_vars => TableInv' /\ ConnCap BY NextTable
<1>3. TableInv' => RateBound' BY <1>1, PTL
<1> QED BY <1>2, <1>3, TableInvariant, PTL DEF Spec, LimitsHold
=============================================================================

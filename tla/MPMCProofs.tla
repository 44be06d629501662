----------------------------- MODULE MPMCProofs -----------------------------
(***************************************************************************)
(* Proofs about the MPMC queue: no two calls ever work on one cell, a      *)
(* refusal is justified, and the queue implements BoundedFIFO.             *)
(*                                                                         *)
(* The invariant reads the ring off the two positions.  Of the Capacity    *)
(* positions from dequeue_pos on, those below enqueue_pos are claimed by   *)
(* producers and the others are free; the cell of each carries one of two  *)
(* sequence numbers, and the one that says "not yet" names a call that has *)
(* still to publish.                                                       *)
(***************************************************************************)
EXTENDS MPMC, SequenceTheorems, TLAPS

EnqPos == position["enq"]
DeqPos == position["deq"]
HoldsFor(t, o) == Holds(t) /\ op[t] = o

\* The call a thread is in, and the position it loaded, which may be stale.
CallInv ==
  \A t \in Threads :
    IF pc[t] = "idle" THEN op[t] = None
    ELSE /\ op[t] \in Ops
         /\ pos[t] <= position[op[t]]
         /\ op[t] = "enq" => item[t] \in Values

RangeInv == Len(log) = EnqPos /\ DeqPos <= EnqPos /\ EnqPos <= DeqPos + Capacity

\* A call that has claimed a position owns it until it publishes.
HolderInv ==
  \A t \in Threads :
    /\ HoldsFor(t, "enq") =>
         /\ DeqPos <= pos[t] /\ pos[t] < EnqPos
         /\ seq[Cell(pos[t])] = pos[t]
         /\ log[pos[t] + 1] = item[t]
    /\ HoldsFor(t, "deq") =>
         /\ EnqPos <= pos[t] + Capacity /\ pos[t] < DeqPos
         /\ seq[Cell(pos[t])] = pos[t] + 1

ApartInv ==
  \A t, u \in Threads :
    t # u /\ Holds(t) /\ Holds(u) /\ op[t] = op[u] => pos[t] # pos[u]

\* The sequence number of every position of the window.
SeqInv ==
  \A p \in DeqPos .. DeqPos + Capacity - 1 :
    /\ p < EnqPos =>
         \/ seq[Cell(p)] = p + 1
         \/ seq[Cell(p)] = p /\ \E t \in Threads : HoldsFor(t, "enq") /\ pos[t] = p
    /\ p >= EnqPos =>
         \/ seq[Cell(p)] = p
         \/ /\ seq[Cell(p)] = p + 1 - Capacity
            /\ \E t \in Threads : HoldsFor(t, "deq") /\ pos[t] + Capacity = p

\* A compare-exchange that would succeed is made on a cell that is ready.
CasInv ==
  \A t \in Threads :
    pc[t] = "cas" /\ pos[t] = position[op[t]] =>
      seq[Cell(pos[t])] = Ready(op[t], pos[t])

\* A published value stays in its cell until a consumer has read it.
DataInv ==
  /\ \A p \in DeqPos .. EnqPos - 1 :
       seq[Cell(p)] = p + 1 => value[Cell(p)] = log[p + 1]
  /\ \A t \in Threads :
       /\ HoldsFor(t, "enq") /\ pc[t] = "publish" => value[Cell(pos[t])] = item[t]
       /\ HoldsFor(t, "deq") /\ pc[t] = "data" => value[Cell(pos[t])] = log[pos[t] + 1]
       /\ HoldsFor(t, "deq") /\ pc[t] = "publish" => item[t] = log[pos[t] + 1]

RingInv ==
  /\ TypeOK /\ CallInv /\ RangeInv /\ HolderInv
  /\ ApartInv /\ SeqInv /\ CasInv /\ DataInv

-----------------------------------------------------------------------------
(* Arithmetic of the ring: position p uses cell p % Capacity. *)

LEMMA TimesPlus ==
  ASSUME NEW a \in Int, NEW b \in Int, NEW c \in Int
  PROVE  /\ a * (b + c) = a * b + a * c
         /\ a * (b - c) = a * b - a * c
OBVIOUS

LEMMA TimesSign ==
  ASSUME NEW c \in Nat \ {0}, NEW k \in Int
  PROVE  /\ k >= 1 => c * k >= c
         /\ k <= 0 => c * k <= 0
         /\ k <= -1 => c * k <= -c
OBVIOUS

LEMMA QuotientUnique ==
  ASSUME NEW c \in Nat \ {0}, NEW j \in Int, NEW k \in Int,
         NEW r \in 0 .. c - 1, NEW s \in 0 .. c - 1,
         c * j + r = c * k + s
  PROVE  r = s
<1>1. c * (j - k) = c * j - c * k BY TimesPlus
<1>2. c * (j - k) = s - r BY <1>1
<1>3. /\ j - k >= 1 => c * (j - k) >= c
      /\ j - k <= -1 => c * (j - k) <= -c
  BY TimesSign
<1>4. j - k = 0 BY <1>2, <1>3
<1> QED BY <1>4

\* % is the remainder: it is the only number of its range that differs from
\* the dividend by a multiple of the divisor.
LEMMA ModUnique ==
  ASSUME NEW c \in Nat \ {0}, NEW k \in Int, NEW r \in 0 .. c - 1
  PROVE  (c * k + r) % c = r
<1> DEFINE a == c * k + r
           j == a \div c
           s == a % c
<1>1. a \in Int OBVIOUS
<1>2. j \in Int /\ s \in 0 .. c - 1 /\ a = c * j + s BY <1>1
<1>3. c * k + r = c * j + s BY <1>2
<1> HIDE DEF j, s
<1>4. r = s BY <1>2, <1>3, QuotientUnique
<1> QED BY <1>4 DEF s

LEMMA CellRange == ASSUME NEW p \in Int PROVE Cell(p) \in Cells
BY CapacityAssumption DEF Cell, Cells

LEMMA CellPeriod == ASSUME NEW p \in Int PROVE Cell(p + Capacity) = Cell(p)
<1> DEFINE k == p \div Capacity
           r == p % Capacity
<1>1. k \in Int /\ r \in 0 .. Capacity - 1 /\ p = Capacity * k + r
  BY CapacityAssumption
<1>2. Capacity * (k + 1) = Capacity * k + Capacity BY <1>1, CapacityAssumption, TimesPlus
<1>3. p + Capacity = Capacity * (k + 1) + r BY <1>1, <1>2, CapacityAssumption
<1>4. (Capacity * (k + 1) + r) % Capacity = r
  <2> HIDE DEF k, r
  <2> QED BY <1>1, ModUnique, CapacityAssumption
<1> QED BY <1>3, <1>4 DEF Cell

LEMMA CellApart ==
  ASSUME NEW p \in Int, NEW q \in Int, p < q, q < p + Capacity
  PROVE  Cell(p) # Cell(q)
<1> DEFINE k == q \div Capacity - p \div Capacity
<1>1. /\ p \div Capacity \in Int /\ p = Capacity * (p \div Capacity) + Cell(p)
      /\ q \div Capacity \in Int /\ q = Capacity * (q \div Capacity) + Cell(q)
      /\ Cell(p) \in Int /\ Cell(q) \in Int
  BY CapacityAssumption DEF Cell
<1>2. Capacity * k = Capacity * (q \div Capacity) - Capacity * (p \div Capacity)
  BY <1>1, CapacityAssumption, TimesPlus
<1>3. (k >= 1 => Capacity * k >= Capacity) /\ (k <= 0 => Capacity * k <= 0)
  BY <1>1, CapacityAssumption, TimesSign
<1> QED BY <1>1, <1>2, <1>3, CapacityAssumption

LEMMA CellWindow ==
  ASSUME NEW d \in Int, NEW p \in Int
  PROVE  \E q \in d .. d + Capacity - 1 : Cell(q) = Cell(p)
<1> DEFINE r == (p - d) % Capacity
           k == (p - d) \div Capacity
           q == d + r
<1>1. k \in Int /\ r \in 0 .. Capacity - 1 /\ p - d = Capacity * k + r
  BY CapacityAssumption
<1>2. p = q + Capacity * k BY <1>1, CapacityAssumption
<1>3. q \in d .. d + Capacity - 1 BY <1>1, CapacityAssumption
<1> DEFINE j == q \div Capacity
           m == q % Capacity
<1>4. j \in Int /\ m \in 0 .. Capacity - 1 /\ q = Capacity * j + m
  BY <1>3, CapacityAssumption
<1>5. Capacity * (j + k) = Capacity * j + Capacity * k
  BY <1>1, <1>4, CapacityAssumption, TimesPlus
<1>6. p = Capacity * (j + k) + m BY <1>1, <1>2, <1>4, <1>5, CapacityAssumption
<1>7. (Capacity * (j + k) + m) % Capacity = m
  <2> DEFINE i == j + k
  <2>1. i \in Int BY <1>1, <1>4
  <2> HIDE DEF i, m
  <2>2. (Capacity * i + m) % Capacity = m BY <2>1, <1>4, ModUnique, CapacityAssumption
  <2> QED BY <2>2 DEF i
<1> QED BY <1>3, <1>6, <1>7 DEF Cell

-----------------------------------------------------------------------------
(* The invariant. *)

LEMMA InitRing == ASSUME Init PROVE RingInv
<1> USE CapacityAssumption
<1>1. TypeOK BY DEF Init, TypeOK, Ops, Cells
<1>2. CallInv /\ HolderInv /\ ApartInv /\ CasInv
  BY DEF Init, CallInv, HolderInv, ApartInv, CasInv, Holds, HoldsFor
<1>3. RangeInv BY DEF Init, RangeInv, EnqPos, DeqPos, Ops
<1>4. SeqInv
  <2>0. EnqPos = 0 /\ DeqPos = 0 BY DEF Init, EnqPos, DeqPos, Ops
  <2> SUFFICES ASSUME NEW p \in 0 .. Capacity - 1 PROVE seq[Cell(p)] = p
    BY <2>0 DEF SeqInv
  <2>1. Cell(p) = p BY DEF Cell
  <2> QED BY <2>1 DEF Init, Cells
<1>5. DataInv BY DEF Init, DataInv, EnqPos, DeqPos, Ops, HoldsFor, Holds
<1> QED BY <1>1, <1>2, <1>3, <1>4, <1>5 DEF RingInv

\* What calls hold is apart, whichever operations they are in: the positions
\* producers hold and those consumers hold lie within one turn of the ring.
LEMMA HoldersApart ==
  ASSUME RingInv, NEW t \in Threads, NEW u \in Threads, t # u, Holds(t), Holds(u)
  PROVE  Cell(pos[t]) # Cell(pos[u])
<1> USE DEF RingInv, TypeOK
<1>1. pos[t] \in Int /\ pos[u] \in Int /\ EnqPos \in Int /\ DeqPos \in Int
  BY DEF EnqPos, DeqPos, Ops
<1>2. op[t] \in Ops /\ op[u] \in Ops BY DEF CallInv, Holds
<1>3. /\ pos[t] < pos[u] + Capacity
      /\ pos[u] < pos[t] + Capacity
  BY <1>1, <1>2, CapacityAssumption DEF HolderInv, HoldsFor, RangeInv, Ops
<1>4. pos[t] # pos[u]
  <2>1. CASE op[t] = op[u] BY <2>1 DEF ApartInv
  <2>2. CASE op[t] # op[u]
    BY <2>2, <1>1, <1>2 DEF HolderInv, HoldsFor, Ops
  <2> QED BY <2>1, <2>2
<1> QED BY <1>1, <1>3, <1>4, CellApart

LEMMA TypeStep == ASSUME RingInv, [Next]_vars PROVE TypeOK'
<1> USE DEF RingInv, TypeOK
<1>1. ASSUME NEW t \in Threads, Enqueue(t) \/ Dequeue(t) PROVE TypeOK'
  <2>1. PICK o \in Ops, v \in Values \cup {None} : Call(t, o, v)
    BY <1>1 DEF Enqueue, Dequeue, Ops
  <2> QED BY <2>1 DEF Call, Goto
<1>2. ASSUME NEW t \in Threads, LoadSeq(t) PROVE TypeOK'
  BY <1>2 DEF LoadSeq, Goto
<1>3. ASSUME NEW t \in Threads, ReloadPos(t) \/ ClaimFails(t) PROVE TypeOK'
  BY <1>3 DEF ReloadPos, ClaimFails, Goto, CallInv
<1>4. ASSUME NEW t \in Threads, Claim(t) PROVE TypeOK'
  <2>1. op[t] \in Ops /\ (op[t] = "enq" => item[t] \in Values)
    BY <1>4 DEF Claim, CallInv
  <2>2. log' \in Seq(Values) BY <1>4, <2>1 DEF Claim
  <2> QED BY <1>4, <2>1, <2>2 DEF Claim, Goto
<1>5. ASSUME NEW t \in Threads, MoveData(t) PROVE TypeOK'
  <2>1. Cell(pos[t]) \in Cells BY CellRange
  <2> QED BY <1>5, <2>1 DEF MoveData, Goto
<1>6. ASSUME NEW t \in Threads, Publish(t) PROVE TypeOK'
  <2>1. LeftBehind(op[t], pos[t]) \in Nat BY CapacityAssumption DEF LeftBehind
  <2> QED BY <1>6, <2>1 DEF Publish, Goto
<1>7. ASSUME NEW t \in Threads, Refuse(t) PROVE TypeOK'
  BY <1>7 DEF Refuse, Goto
<1>8. CASE UNCHANGED vars BY <1>8 DEF vars
<1> QED BY <1>1, <1>2, <1>3, <1>4, <1>5, <1>6, <1>7, <1>8 DEF Next, Step, Finished

\* A step of a call that holds no cell before or after it, and that leaves the
\* ring alone, leaves the other calls' claims alone.
LEMMA Quiet ==
  ASSUME RingInv, NEW t \in Threads, ~Holds(t), ~Holds(t)',
         UNCHANGED <<position, seq, value, log>>,
         \A u \in Threads \ {t} :
           pc'[u] = pc[u] /\ op'[u] = op[u] /\ pos'[u] = pos[u] /\ item'[u] = item[u]
  PROVE  RangeInv' /\ HolderInv' /\ ApartInv' /\ SeqInv' /\ DataInv'
<1> USE DEF RingInv, EnqPos, DeqPos
<1>1. RangeInv' BY DEF RangeInv
<1>2. \A u \in Threads : \A o \in Ops : HoldsFor(u, o)' <=> HoldsFor(u, o)
  BY DEF HoldsFor, Holds
<1>3. \A u \in Threads : Holds(u) \/ Holds(u)' =>
        pc'[u] = pc[u] /\ op'[u] = op[u] /\ pos'[u] = pos[u] /\ item'[u] = item[u]
  OBVIOUS
<1>4. HolderInv' BY <1>3 DEF HolderInv, HoldsFor, Holds
<1>5. ApartInv' BY <1>3 DEF ApartInv, Holds
<1>6. SeqInv' 
  <2>1. \A u \in Threads : \A o \in Ops : HoldsFor(u, o) => HoldsFor(u, o)' /\ pos'[u] = pos[u]
    BY <1>2, <1>3 DEF HoldsFor
  <2> QED BY <2>1 DEF SeqInv, Ops
<1>7. DataInv' BY <1>3 DEF DataInv, HoldsFor, Holds
<1> QED BY <1>1, <1>4, <1>5, <1>6, <1>7

LEMMA CallStep ==
  ASSUME RingInv, TypeOK', NEW t \in Threads, NEW o \in Ops, NEW v \in Values \cup {None},
         o = "enq" => v \in Values, Call(t, o, v)
  PROVE  RingInv'
<1> USE DEF RingInv, TypeOK
<1>1. CallInv' BY DEF Call, Goto, CallInv
<1>2. CasInv' BY DEF Call, Goto, CasInv
<1>3. RangeInv' /\ HolderInv' /\ ApartInv' /\ SeqInv' /\ DataInv'
  BY Quiet DEF Call, Goto, Holds
<1> QED BY <1>1, <1>2, <1>3

LEMMA LoadSeqStep ==
  ASSUME RingInv, TypeOK', NEW t \in Threads, LoadSeq(t)
  PROVE  RingInv'
<1> USE DEF RingInv, TypeOK
<1>1. CallInv' BY DEF LoadSeq, Goto, CallInv
<1>2. CasInv' BY DEF LoadSeq, Goto, CasInv
<1>3. RangeInv' /\ HolderInv' /\ ApartInv' /\ SeqInv' /\ DataInv'
  BY Quiet DEF LoadSeq, Goto, Holds
<1> QED BY <1>1, <1>2, <1>3

LEMMA ReloadStep ==
  ASSUME RingInv, TypeOK', NEW t \in Threads, ReloadPos(t) \/ ClaimFails(t)
  PROVE  RingInv'
<1> USE DEF RingInv, TypeOK
<1>1. CallInv' BY DEF ReloadPos, ClaimFails, Goto, CallInv
<1>2. CasInv' BY DEF ReloadPos, ClaimFails, Goto, CasInv
<1>3. RangeInv' /\ HolderInv' /\ ApartInv' /\ SeqInv' /\ DataInv'
  BY Quiet DEF ReloadPos, ClaimFails, Goto, Holds
<1> QED BY <1>1, <1>2, <1>3

LEMMA RefuseStep ==
  ASSUME RingInv, TypeOK', NEW t \in Threads, Refuse(t)
  PROVE  RingInv'
<1> USE DEF RingInv, TypeOK
<1>1. CallInv' BY DEF Refuse, Goto, CallInv
<1>2. CasInv' BY DEF Refuse, Goto, CasInv
<1>3. RangeInv' /\ HolderInv' /\ ApartInv' /\ SeqInv' /\ DataInv'
  BY Quiet DEF Refuse, Goto, Holds
<1> QED BY <1>1, <1>2, <1>3

\* A producer's claim succeeds only on a free position whose cell its last
\* consumer has handed back.
LEMMA EnqueueClaim ==
  ASSUME RingInv, NEW t \in Threads, Claim(t), op[t] = "enq"
  PROVE  /\ pos[t] = EnqPos /\ EnqPos \in Nat /\ DeqPos \in Nat
         /\ seq[Cell(EnqPos)] = EnqPos
         /\ EnqPos < DeqPos + Capacity
         /\ \A u \in Threads : HoldsFor(u, "deq") => EnqPos < pos[u] + Capacity
<1> USE CapacityAssumption DEF RingInv
<1>1. pos[t] = EnqPos /\ EnqPos \in Nat /\ DeqPos \in Nat
  BY DEF TypeOK, Claim, EnqPos, DeqPos, Ops
<1>2. seq[Cell(EnqPos)] = EnqPos BY <1>1 DEF Claim, CasInv, Ready, EnqPos
<1>3. EnqPos < DeqPos + Capacity
  <2> SUFFICES ASSUME EnqPos = DeqPos + Capacity PROVE FALSE
    BY <1>1 DEF RangeInv
  <2>1. Cell(EnqPos) = Cell(DeqPos) BY <1>1, CellPeriod
  <2>2. seq[Cell(DeqPos)] \in {DeqPos, DeqPos + 1}
    BY <1>1 DEF SeqInv
  <2> QED BY <1>1, <1>2, <2>1, <2>2
<1>4. ASSUME NEW u \in Threads, HoldsFor(u, "deq") PROVE EnqPos < pos[u] + Capacity
  <2>0. pos[u] \in Nat BY DEF TypeOK
  <2> SUFFICES ASSUME EnqPos = pos[u] + Capacity PROVE FALSE
    BY <1>1, <1>4, <2>0 DEF HolderInv
  <2>1. Cell(EnqPos) = Cell(pos[u]) BY <2>0, CellPeriod
  <2>2. seq[Cell(pos[u])] = pos[u] + 1 BY <1>4 DEF HolderInv
  <2> QED BY <1>1, <1>2, <2>0, <2>1, <2>2
<1> QED BY <1>1, <1>2, <1>3, <1>4

\* A consumer's claim succeeds only on a position whose value is published.
LEMMA DequeueClaim ==
  ASSUME RingInv, NEW t \in Threads, Claim(t), op[t] = "deq"
  PROVE  /\ pos[t] = DeqPos /\ EnqPos \in Nat /\ DeqPos \in Nat
         /\ seq[Cell(DeqPos)] = DeqPos + 1
         /\ DeqPos < EnqPos
         /\ \A u \in Threads : HoldsFor(u, "enq") => DeqPos < pos[u]
<1> USE CapacityAssumption DEF RingInv
<1>1. pos[t] = DeqPos /\ EnqPos \in Nat /\ DeqPos \in Nat
  BY DEF TypeOK, Claim, EnqPos, DeqPos, Ops
<1>2. seq[Cell(DeqPos)] = DeqPos + 1 BY <1>1 DEF Claim, CasInv, Ready, DeqPos
<1>3. DeqPos < EnqPos
  <2> SUFFICES ASSUME EnqPos = DeqPos PROVE FALSE
    BY <1>1 DEF RangeInv
  <2>1. seq[Cell(DeqPos)] \in {DeqPos, DeqPos + 1 - Capacity}
    BY <1>1 DEF SeqInv
  <2> QED BY <1>1, <1>2, <2>1
<1>4. ASSUME NEW u \in Threads, HoldsFor(u, "enq") PROVE DeqPos < pos[u]
  <2>0. pos[u] \in Nat BY DEF TypeOK
  <2>1. DeqPos <= pos[u] /\ seq[Cell(pos[u])] = pos[u] BY <1>4 DEF HolderInv
  <2> QED BY <1>1, <1>2, <2>0, <2>1
<1> QED BY <1>1, <1>2, <1>3, <1>4

LEMMA EnqueueClaimStep ==
  ASSUME RingInv, TypeOK', NEW t \in Threads, Claim(t), op[t] = "enq"
  PROVE  RingInv'
<1> USE CapacityAssumption DEF RingInv
<1>1. /\ pos[t] = EnqPos /\ EnqPos \in Nat /\ DeqPos \in Nat
      /\ seq[Cell(EnqPos)] = EnqPos
      /\ EnqPos < DeqPos + Capacity
      /\ \A u \in Threads : HoldsFor(u, "deq") => EnqPos < pos[u] + Capacity
  BY EnqueueClaim
<1>2. EnqPos' = EnqPos + 1 /\ DeqPos' = DeqPos
  BY <1>1 DEF Claim, EnqPos, DeqPos, Ops, TypeOK
<1>3. /\ UNCHANGED <<seq, value, op, pos, item>>
      /\ ~Holds(t) /\ Holds(t)' /\ pc'[t] = "data"
      /\ \A u \in Threads \ {t} : pc'[u] = pc[u] /\ (Holds(u)' <=> Holds(u))
  BY DEF Claim, Goto, Holds, TypeOK
<1>4. item[t] \in Values /\ log \in Seq(Values) /\ Len(log) = EnqPos /\ log' = Append(log, item[t])
  BY DEF Claim, CallInv, RangeInv, TypeOK
<1>5. /\ Len(log') = EnqPos + 1 /\ log'[EnqPos + 1] = item[t]
      /\ \A p \in 1 .. EnqPos : log'[p] = log[p]
  BY <1>1, <1>4
<1>6. \A u \in Threads : pos[u] \in Nat BY DEF TypeOK
<1>7. CallInv'
  BY <1>3, <1>6 DEF Claim, Goto, CallInv, TypeOK, Ops
<1>8. RangeInv' BY <1>1, <1>2, <1>5 DEF RangeInv
<1>9. HolderInv'
  <2> SUFFICES ASSUME NEW u \in Threads, Holds(u)'
               PROVE /\ op[u] = "enq" =>
                          /\ DeqPos <= pos[u] /\ pos[u] < EnqPos + 1
                          /\ seq[Cell(pos[u])] = pos[u]
                          /\ log'[pos[u] + 1] = item[u]
                     /\ op[u] = "deq" =>
                          /\ EnqPos + 1 <= pos[u] + Capacity /\ pos[u] < DeqPos
                          /\ seq[Cell(pos[u])] = pos[u] + 1
    BY <1>2, <1>3 DEF HolderInv, HoldsFor
  <2>1. CASE u = t BY <2>1, <1>1, <1>5 DEF RangeInv
  <2>2. CASE u # t
    BY <2>2, <1>1, <1>3, <1>5, <1>6 DEF HolderInv, HoldsFor
  <2> QED BY <2>1, <2>2
<1>10. ApartInv'
  BY <1>1, <1>3, <1>6 DEF ApartInv, HolderInv, HoldsFor
<1>11. SeqInv'
  <2> SUFFICES ASSUME NEW p \in DeqPos .. DeqPos + Capacity - 1
               PROVE /\ p < EnqPos + 1 =>
                          \/ seq[Cell(p)] = p + 1
                          \/ seq[Cell(p)] = p /\ \E u \in Threads : HoldsFor(u, "enq")' /\ pos[u] = p
                     /\ p >= EnqPos + 1 =>
                          \/ seq[Cell(p)] = p
                          \/ /\ seq[Cell(p)] = p + 1 - Capacity
                             /\ \E u \in Threads : HoldsFor(u, "deq")' /\ pos[u] + Capacity = p
    BY <1>2, <1>3 DEF SeqInv
  <2>1. \A u \in Threads : \A o \in Ops : HoldsFor(u, o) => HoldsFor(u, o)'
    BY <1>3 DEF HoldsFor
  <2>2. CASE p = EnqPos
    BY <2>2, <1>1, <1>3 DEF HoldsFor
  <2>3. CASE p # EnqPos
    BY <2>1, <2>3, <1>1 DEF SeqInv, Ops
  <2> QED BY <2>2, <2>3
<1>12. CasInv'
  <2> SUFFICES ASSUME NEW u \in Threads, pc'[u] = "cas", pos[u] = position'[op[u]]
               PROVE  seq[Cell(pos[u])] = Ready(op[u], pos[u])
    BY <1>3 DEF CasInv
  <2>1. u # t /\ pc[u] = "cas" BY <1>3
  <2>2. op[u] \in Ops /\ pos[u] <= position[op[u]] BY <2>1 DEF CallInv
  <2>3. pos[u] = position[op[u]]
    BY <1>1, <1>2, <2>2 DEF Ops, EnqPos, DeqPos
  <2> QED BY <2>1, <2>3 DEF CasInv
<1>13. DataInv'
  <2>1. \A p \in DeqPos .. EnqPos : seq[Cell(p)] = p + 1 => value[Cell(p)] = log'[p + 1]
    BY <1>1, <1>5 DEF DataInv
  <2>2. \A u \in Threads : HoldsFor(u, "deq") => log'[pos[u] + 1] = log[pos[u] + 1]
    BY <1>1, <1>5, <1>6 DEF HolderInv, RangeInv
  <2> QED BY <1>2, <1>3, <1>1, <2>1, <2>2 DEF DataInv, HoldsFor
<1> QED BY <1>7, <1>8, <1>9, <1>10, <1>11, <1>12, <1>13

LEMMA DequeueClaimStep ==
  ASSUME RingInv, TypeOK', NEW t \in Threads, Claim(t), op[t] = "deq"
  PROVE  RingInv'
<1> USE CapacityAssumption DEF RingInv
<1>1. /\ pos[t] = DeqPos /\ EnqPos \in Nat /\ DeqPos \in Nat
      /\ seq[Cell(DeqPos)] = DeqPos + 1
      /\ DeqPos < EnqPos
      /\ \A u \in Threads : HoldsFor(u, "enq") => DeqPos < pos[u]
  BY DequeueClaim
<1>2. EnqPos' = EnqPos /\ DeqPos' = DeqPos + 1
  BY <1>1 DEF Claim, EnqPos, DeqPos, Ops, TypeOK
<1>3. /\ UNCHANGED <<seq, value, op, pos, item, log>>
      /\ ~Holds(t) /\ Holds(t)' /\ pc'[t] = "data"
      /\ \A u \in Threads \ {t} : pc'[u] = pc[u] /\ (Holds(u)' <=> Holds(u))
  BY DEF Claim, Goto, Holds, TypeOK
<1>6. \A u \in Threads : pos[u] \in Nat BY DEF TypeOK
<1>7. CallInv'
  BY <1>3, <1>6 DEF Claim, Goto, CallInv, TypeOK, Ops
<1>8. RangeInv' BY <1>1, <1>2, <1>3 DEF RangeInv
<1>9. HolderInv'
  BY <1>1, <1>2, <1>3, <1>6 DEF HolderInv, HoldsFor, RangeInv
<1>10. ApartInv'
  BY <1>1, <1>3, <1>6 DEF ApartInv, HolderInv, HoldsFor
<1>11. SeqInv'
  <2> SUFFICES ASSUME NEW p \in DeqPos + 1 .. DeqPos + Capacity
               PROVE /\ p < EnqPos =>
                          \/ seq[Cell(p)] = p + 1
                          \/ seq[Cell(p)] = p /\ \E u \in Threads : HoldsFor(u, "enq")' /\ pos[u] = p
                     /\ p >= EnqPos =>
                          \/ seq[Cell(p)] = p
                          \/ /\ seq[Cell(p)] = p + 1 - Capacity
                             /\ \E u \in Threads : HoldsFor(u, "deq")' /\ pos[u] + Capacity = p
    BY <1>1, <1>2, <1>3 DEF SeqInv
  <2>1. \A u \in Threads : \A o \in Ops : HoldsFor(u, o) => HoldsFor(u, o)'
    BY <1>3 DEF HoldsFor
  <2>2. CASE p = DeqPos + Capacity
    <3>1. Cell(p) = Cell(DeqPos) BY <2>2, <1>1, CellPeriod
    <3>2. HoldsFor(t, "deq")' BY <1>3 DEF HoldsFor
    <3> QED BY <3>1, <3>2, <2>2, <1>1 DEF RangeInv
  <2>3. CASE p # DeqPos + Capacity
    BY <2>1, <2>3, <1>1 DEF SeqInv, Ops
  <2> QED BY <2>2, <2>3
<1>12. CasInv'
  <2> SUFFICES ASSUME NEW u \in Threads, pc'[u] = "cas", pos[u] = position'[op[u]]
               PROVE  seq[Cell(pos[u])] = Ready(op[u], pos[u])
    BY <1>3 DEF CasInv
  <2>1. u # t /\ pc[u] = "cas" BY <1>3
  <2>2. op[u] \in Ops /\ pos[u] <= position[op[u]] BY <2>1 DEF CallInv
  <2>3. pos[u] = position[op[u]]
    BY <1>1, <1>2, <2>2 DEF Ops, EnqPos, DeqPos
  <2> QED BY <2>1, <2>3 DEF CasInv
<1>13. DataInv'
  BY <1>1, <1>2, <1>3 DEF DataInv, HoldsFor
<1> QED BY <1>7, <1>8, <1>9, <1>10, <1>11, <1>12, <1>13

LEMMA MoveDataStep ==
  ASSUME RingInv, TypeOK', NEW t \in Threads, MoveData(t)
  PROVE  RingInv'
<1> USE CapacityAssumption DEF RingInv
<1>1. /\ UNCHANGED <<position, seq, op, pos, log>>
      /\ EnqPos' = EnqPos /\ DeqPos' = DeqPos
      /\ Holds(t) /\ Holds(t)' /\ pc[t] = "data" /\ pc'[t] = "publish"
      /\ \A u \in Threads \ {t} : pc'[u] = pc[u]
      /\ \A u \in Threads : Holds(u)' <=> Holds(u)
  BY DEF MoveData, Goto, Holds, TypeOK, EnqPos, DeqPos
<1>2. op[t] \in Ops BY <1>1 DEF CallInv
<1>3. \A u \in Threads \ {t} : item'[u] = item[u] BY DEF MoveData, TypeOK
<1>4. op[t] = "enq" => item' = item BY DEF MoveData
<1>5. \A u \in Threads : pos[u] \in Nat BY DEF TypeOK
<1>6. EnqPos \in Nat /\ DeqPos \in Nat BY DEF TypeOK, EnqPos, DeqPos, Ops
<1>7. CallInv' BY <1>1, <1>3, <1>4 DEF CallInv
<1>8. RangeInv' BY <1>1 DEF RangeInv
<1>9. HolderInv' BY <1>1, <1>3, <1>4 DEF HolderInv, HoldsFor
<1>10. ApartInv' BY <1>1 DEF ApartInv
<1>11. SeqInv' BY <1>1 DEF SeqInv, HoldsFor
<1>12. CasInv' BY <1>1 DEF CasInv
<1>13. DataInv'
  <2>1. CASE op[t] = "enq"
    <3>1. value' = [value EXCEPT ![Cell(pos[t])] = item[t]] BY <2>1 DEF MoveData
    <3>2. Cell(pos[t]) \in Cells BY <1>5, CellRange
    <3>3. value'[Cell(pos[t])] = item[t] BY <3>1, <3>2 DEF TypeOK
    <3>4. \A p \in Cells : p # Cell(pos[t]) => value'[p] = value[p] BY <3>1 DEF TypeOK
    <3>5. /\ DeqPos <= pos[t] /\ pos[t] < EnqPos /\ seq[Cell(pos[t])] = pos[t]
          /\ EnqPos <= DeqPos + Capacity
      BY <1>1, <2>1 DEF HolderInv, HoldsFor, RangeInv
    <3>6. ASSUME NEW p \in DeqPos .. EnqPos - 1, seq[Cell(p)] = p + 1
          PROVE  value'[Cell(p)] = log[p + 1]
      <4>1. p # pos[t] BY <3>5, <3>6, <1>5
      <4>2. Cell(p) # Cell(pos[t])
        BY <4>1, <3>5, <1>5, <1>6, CellApart
      <4> QED BY <4>2, <3>4, <3>6, <1>6, CellRange DEF DataInv
    <3>7. ASSUME NEW u \in Threads, u # t, Holds(u)
          PROVE  value'[Cell(pos[u])] = value[Cell(pos[u])]
      BY <3>7, <3>4, <1>1, <1>5, HoldersApart, CellRange
    <3> QED BY <1>1, <1>3, <2>1, <3>3, <3>6, <3>7, <1>4 DEF DataInv, HoldsFor
  <2>2. CASE op[t] = "deq"
    <3>1. value' = value /\ item'[t] = value[Cell(pos[t])] BY <2>2 DEF MoveData, TypeOK
    <3>2. item'[t] = log[pos[t] + 1] BY <3>1, <2>2, <1>1 DEF DataInv, HoldsFor
    <3> QED BY <3>1, <3>2, <2>2, <1>1, <1>3 DEF DataInv, HoldsFor
  <2> QED BY <2>1, <2>2, <1>2 DEF Ops
<1> QED BY <1>7, <1>8, <1>9, <1>10, <1>11, <1>12, <1>13

\* The cell that position p of the window shares with the one a call holds.
LEMMA SameCell ==
  ASSUME RingInv, NEW t \in Threads, Holds(t),
         NEW p \in DeqPos .. DeqPos + Capacity - 1, Cell(p) = Cell(pos[t])
  PROVE  p = IF op[t] = "enq" THEN pos[t] ELSE pos[t] + Capacity
<1> USE CapacityAssumption DEF RingInv
<1>1. pos[t] \in Nat /\ EnqPos \in Nat /\ DeqPos \in Nat
  BY DEF TypeOK, EnqPos, DeqPos, Ops
<1>2. op[t] \in Ops BY DEF CallInv, Holds
<1>3. CASE op[t] = "enq"
  <2>1. DeqPos <= pos[t] /\ pos[t] < DeqPos + Capacity
    BY <1>1, <1>3 DEF HolderInv, HoldsFor, RangeInv
  <2>2. p \in Int /\ p < pos[t] + Capacity /\ pos[t] < p + Capacity BY <1>1, <2>1
  <2> QED BY <1>1, <1>3, <2>2, CellApart
<1>4. CASE op[t] = "deq"
  <2>1. DeqPos <= pos[t] + Capacity /\ pos[t] + Capacity < DeqPos + Capacity
    BY <1>1, <1>4 DEF HolderInv, HoldsFor, RangeInv
  <2> DEFINE q == pos[t] + Capacity
  <2>2. q \in Int /\ Cell(q) = Cell(p) BY <1>1, CellPeriod
  <2>3. p \in Int /\ p < q + Capacity /\ q < p + Capacity BY <1>1, <2>1
  <2> HIDE DEF q
  <2>4. p = q BY <2>2, <2>3, CellApart
  <2> QED BY <2>4, <1>4 DEF q
<1> QED BY <1>2, <1>3, <1>4 DEF Ops

LEMMA PublishStep ==
  ASSUME RingInv, TypeOK', NEW t \in Threads, Publish(t)
  PROVE  RingInv'
<1> USE CapacityAssumption DEF RingInv
<1>1. /\ UNCHANGED <<position, value, pos, log>>
      /\ EnqPos' = EnqPos /\ DeqPos' = DeqPos
      /\ Holds(t) /\ ~Holds(t)' /\ pc[t] = "publish" /\ pc'[t] = "idle" /\ op'[t] = None
      /\ \A u \in Threads \ {t} : /\ pc'[u] = pc[u] /\ op'[u] = op[u] /\ item'[u] = item[u]
                                  /\ Holds(u)' <=> Holds(u)
  BY DEF Publish, Goto, Holds, TypeOK, EnqPos, DeqPos
<1>2. op[t] \in Ops BY <1>1 DEF CallInv
<1>3. \A u \in Threads : pos[u] \in Nat BY DEF TypeOK
<1>4. EnqPos \in Nat /\ DeqPos \in Nat BY DEF TypeOK, EnqPos, DeqPos, Ops
<1> DEFINE i == Cell(pos[t])
           held == IF op[t] = "enq" THEN pos[t] ELSE pos[t] + Capacity
<1>5. /\ i \in Cells
      /\ seq'[i] = LeftBehind(op[t], pos[t])
      /\ \A j \in Cells : j # i => seq'[j] = seq[j]
  BY <1>3, CellRange DEF Publish, TypeOK
<1>6. /\ seq[i] = Ready(op[t], pos[t])
      /\ held \in DeqPos .. DeqPos + Capacity - 1
      /\ IF op[t] = "enq" THEN held < EnqPos ELSE held >= EnqPos
      /\ Cell(held) = i
  <2>1. CASE op[t] = "enq"
    BY <2>1, <1>1, <1>3, <1>4 DEF HolderInv, HoldsFor, RangeInv, Ready
  <2>2. CASE op[t] = "deq"
    <3>1. /\ EnqPos <= pos[t] + Capacity /\ pos[t] < DeqPos /\ seq[i] = pos[t] + 1
          /\ DeqPos <= EnqPos
      BY <2>2, <1>1 DEF HolderInv, HoldsFor, RangeInv
    <3>2. Cell(pos[t] + Capacity) = i BY <1>3, CellPeriod
    <3> QED BY <2>2, <3>1, <3>2, <1>3, <1>4 DEF Ready
  <2> QED BY <2>1, <2>2, <1>2 DEF Ops
<1>7. seq'[i] = IF op[t] = "enq" THEN held + 1 ELSE held
  BY <1>5 DEF LeftBehind
<1>8. \A p \in DeqPos .. DeqPos + Capacity - 1 : p # held => seq'[Cell(p)] = seq[Cell(p)]
  <2> SUFFICES ASSUME NEW p \in DeqPos .. DeqPos + Capacity - 1, p # held
               PROVE  Cell(p) \in Cells /\ Cell(p) # i
    BY <1>5
  <2> QED BY <1>1, <1>4, SameCell, CellRange
<1>9. \A u \in Threads \ {t} : Holds(u) => seq'[Cell(pos[u])] = seq[Cell(pos[u])]
  BY <1>1, <1>3, <1>5, HoldersApart, CellRange
<1>10. CallInv' BY <1>1 DEF CallInv
<1>11. RangeInv' BY <1>1 DEF RangeInv
<1>12. HolderInv' BY <1>1, <1>9 DEF HolderInv, HoldsFor
<1>13. ApartInv' BY <1>1 DEF ApartInv
<1>14. SeqInv'
  <2> HIDE DEF i, held
  <2> SUFFICES ASSUME NEW p \in DeqPos .. DeqPos + Capacity - 1
               PROVE /\ p < EnqPos =>
                          \/ seq'[Cell(p)] = p + 1
                          \/ seq'[Cell(p)] = p /\ \E u \in Threads : HoldsFor(u, "enq")' /\ pos[u] = p
                     /\ p >= EnqPos =>
                          \/ seq'[Cell(p)] = p
                          \/ /\ seq'[Cell(p)] = p + 1 - Capacity
                             /\ \E u \in Threads : HoldsFor(u, "deq")' /\ pos[u] + Capacity = p
    BY <1>1 DEF SeqInv
  <2>1. CASE p = held BY <2>1, <1>6, <1>7, <1>4, <1>2 DEF Ops
  <2>2. CASE p # held
    <3>1. seq'[Cell(p)] = seq[Cell(p)] BY <2>2, <1>8
    <3>2. \A u \in Threads : HoldsFor(u, "enq") /\ pos[u] = p => HoldsFor(u, "enq")'
      BY <1>1, <2>2 DEF HoldsFor, held
    <3>3. \A u \in Threads : HoldsFor(u, "deq") /\ pos[u] + Capacity = p => HoldsFor(u, "deq")'
      BY <1>1, <2>2 DEF HoldsFor, held
    <3> QED BY <3>1, <3>2, <3>3 DEF SeqInv
  <2> QED BY <2>1, <2>2
<1>15. CasInv'
  <2> SUFFICES ASSUME NEW u \in Threads \ {t}, pc[u] = "cas", pos[u] = position[op[u]]
               PROVE  seq'[Cell(pos[u])] = Ready(op[u], pos[u])
    BY <1>1 DEF CasInv
  <2>1. op[u] \in Ops BY DEF CallInv
  <2>2. seq[Cell(pos[u])] = Ready(op[u], pos[u]) BY DEF CasInv
  <2> SUFFICES ASSUME Cell(pos[u]) = i PROVE FALSE
    BY <2>2, <1>3, <1>5, CellRange
  <2>3. CASE op[u] = "deq"
    <3>1. pos[u] = DeqPos BY <2>3 DEF DeqPos
    <3>2. held = DeqPos BY <3>1, <1>1, <1>4, SameCell
    <3> QED BY <3>1, <3>2, <2>2, <2>3, <1>6, <1>2, <1>4, <1>3 DEF Ready, Ops
  <2>4. CASE op[u] = "enq" /\ EnqPos < DeqPos + Capacity
    <3>1. pos[u] = EnqPos BY <2>4 DEF EnqPos
    <3>2. held = EnqPos BY <3>1, <2>4, <1>1, <1>4, SameCell DEF RangeInv
    <3> QED BY <3>1, <3>2, <2>2, <2>4, <1>6, <1>2, <1>4, <1>3 DEF Ready, Ops
  <2>5. CASE op[u] = "enq" /\ EnqPos = DeqPos + Capacity
    <3>1. pos[u] = EnqPos BY <2>5 DEF EnqPos
    <3>2. Cell(DeqPos) = i BY <3>1, <2>5, <1>4, CellPeriod
    <3>3. held = DeqPos BY <3>2, <1>1, <1>4, SameCell
    <3> QED BY <3>1, <3>3, <2>2, <2>5, <1>6, <1>2, <1>4, <1>3 DEF Ready, Ops
  <2> QED BY <2>1, <2>3, <2>4, <2>5, <1>4 DEF Ops, RangeInv
<1>16. DataInv'
  <2>1. ASSUME NEW p \in DeqPos .. EnqPos - 1, seq'[Cell(p)] = p + 1
        PROVE  value[Cell(p)] = log[p + 1]
    <3>0. p \in DeqPos .. DeqPos + Capacity - 1 BY <1>4 DEF RangeInv
    <3>1. CASE p = held
      <4>1. op[t] = "enq" /\ p = pos[t] BY <3>1, <1>6, <1>4
      <4> QED BY <4>1, <1>1 DEF HolderInv, DataInv, HoldsFor
    <3>2. CASE p # held
      BY <3>0, <3>2, <1>8, <2>1 DEF DataInv
    <3> QED BY <3>1, <3>2
  <2> QED BY <1>1, <2>1 DEF DataInv, HoldsFor
<1> QED BY <1>10, <1>11, <1>12, <1>13, <1>14, <1>15, <1>16

LEMMA RingStep == ASSUME RingInv, [Next]_vars PROVE RingInv'
<1>0. TypeOK' BY TypeStep
<1>1. ASSUME NEW t \in Threads, Enqueue(t) \/ Dequeue(t) PROVE RingInv'
  <2>1. PICK o \in Ops, v \in Values \cup {None} :
          Call(t, o, v) /\ (o = "enq" => v \in Values)
    BY <1>1 DEF Enqueue, Dequeue, Ops
  <2> QED BY <2>1, <1>0, CallStep
<1>2. ASSUME NEW t \in Threads, Claim(t) PROVE RingInv'
  <2>1. op[t] \in Ops BY <1>2 DEF RingInv, CallInv, Claim
  <2> QED BY <1>0, <1>2, <2>1, EnqueueClaimStep, DequeueClaimStep DEF Ops
<1>3. ASSUME NEW t \in Threads, Step(t), ~Claim(t) PROVE RingInv'
  BY <1>0, <1>3, LoadSeqStep, ReloadStep, MoveDataStep, PublishStep, RefuseStep DEF Step
<1>4. CASE UNCHANGED vars
  BY <1>4 DEF vars, RingInv, TypeOK, CallInv, RangeInv, HolderInv, ApartInv, SeqInv,
       CasInv, DataInv, EnqPos, DeqPos, HoldsFor, Holds
<1> QED BY <1>1, <1>2, <1>3, <1>4 DEF Next, Finished

\* The ring invariant, for any number of threads, any capacity of at least two
\* and any number of calls.
THEOREM RingInvariant == Spec => []RingInv
BY InitRing, RingStep, PTL DEF Spec

\* No data race on a cell's value, whatever threads run and stall.
THEOREM CellsExclusive == Spec => []CellExclusive
<1>1. RingInv => CellExclusive BY HoldersApart DEF CellExclusive
<1> QED BY <1>1, RingInvariant, PTL

-----------------------------------------------------------------------------
(* Refusals. *)

\* A stale position is never refused: its cell has moved on.
LEMMA StaleMovedOn ==
  ASSUME RingInv, NEW p \in Nat, p < DeqPos
  PROVE  seq[Cell(p)] > p
<1>0. \A d, i \in Int : \E q \in d .. d + Capacity - 1 : Cell(q) = Cell(i)
  BY CellWindow
<1> USE CapacityAssumption DEF RingInv
<1>1. EnqPos \in Nat /\ DeqPos \in Nat BY DEF TypeOK, EnqPos, DeqPos, Ops
<1>2. PICK q \in DeqPos .. DeqPos + Capacity - 1 : Cell(q) = Cell(p)
  <2>1. DeqPos \in Int /\ p \in Int BY <1>1
  <2> QED BY <1>0, <2>1, Zenon
<1>3. q \in Int /\ q >= p + Capacity BY <1>1, <1>2, CellApart
<1>4. seq[Cell(q)] \in {q, q + 1, q + 1 - Capacity} BY <1>1 DEF SeqInv
<1> QED BY <1>2, <1>3, <1>4

LEMMA RefusalStep ==
  ASSUME RingInv, [Next]_vars, NEW t \in Threads, pc[t] = "seq", pc'[t] = "refused"
  PROVE  LET other == IF op[t] = "enq" THEN "deq" ELSE "enq"
         IN \/ Size = IF op[t] = "enq" THEN Capacity ELSE 0
            \/ \E u \in Threads : Holds(u) /\ op[u] = other
<1> USE CapacityAssumption DEF RingInv
<1>1. LoadSeq(t)
  <2>1. PICK u \in Threads : Enqueue(u) \/ Dequeue(u) \/ Step(u)
    BY DEF Next, Finished, vars
  <2>2. u = t
    BY <2>1 DEF Enqueue, Dequeue, Call, Step, LoadSeq, ReloadPos, Claim, ClaimFails,
         MoveData, Publish, Refuse, Goto, TypeOK
  <2> QED
    BY <2>1, <2>2 DEF Enqueue, Dequeue, Call, Step, ReloadPos, Claim, ClaimFails,
         MoveData, Publish, Refuse
<1>2. EnqPos \in Nat /\ DeqPos \in Nat /\ pos[t] \in Nat
  BY DEF TypeOK, EnqPos, DeqPos, Ops
<1>3. op[t] \in Ops /\ pos[t] <= position[op[t]] BY DEF CallInv
<1>4. seq[Cell(pos[t])] < Ready(op[t], pos[t])
  BY <1>1 DEF LoadSeq, Goto, TypeOK
<1>5. ~(pos[t] < DeqPos)
  <2> SUFFICES ASSUME pos[t] < DeqPos PROVE FALSE OBVIOUS
  <2>1. seq[Cell(pos[t])] > pos[t] BY <1>2, StaleMovedOn
  <2>2. seq[Cell(pos[t])] \in Int BY <1>2, CellRange DEF TypeOK
  <2> QED BY <1>2, <1>4, <2>1, <2>2 DEF Ready
<1>6. CASE op[t] = "enq"
  <2>1. pos[t] <= EnqPos /\ seq[Cell(pos[t])] < pos[t] BY <1>3, <1>4, <1>6 DEF EnqPos, Ready
  <2>2. CASE EnqPos = DeqPos + Capacity BY <2>2, <1>2, <1>6 DEF Size, EnqPos, DeqPos
  <2>3. CASE EnqPos < DeqPos + Capacity
    <3>1. pos[t] \in DeqPos .. DeqPos + Capacity - 1 BY <1>2, <1>5, <2>1, <2>3
    <3>2. ~(pos[t] < EnqPos) BY <1>2, <2>1, <3>1 DEF SeqInv
    <3>3. \E u \in Threads : HoldsFor(u, "deq")
      BY <1>2, <2>1, <3>1, <3>2 DEF SeqInv
    <3> QED BY <3>3, <1>6 DEF HoldsFor
  <2> QED BY <2>2, <2>3, <1>2 DEF RangeInv
<1>7. CASE op[t] = "deq"
  <2>1. pos[t] = DeqPos /\ seq[Cell(pos[t])] < pos[t] + 1
    BY <1>2, <1>3, <1>4, <1>5, <1>7 DEF DeqPos, Ready
  <2>2. CASE EnqPos = DeqPos BY <2>2, <1>2, <1>7 DEF Size, EnqPos, DeqPos
  <2>3. CASE DeqPos < EnqPos
    <3>1. \E u \in Threads : HoldsFor(u, "enq")
      BY <1>2, <2>1, <2>3 DEF SeqInv
    <3> QED BY <3>1, <1>7 DEF HoldsFor
  <2> QED BY <2>2, <2>3, <1>2 DEF RangeInv
<1> QED BY <1>3, <1>6, <1>7 DEF Ops

\* enqueue reports full, and dequeue empty, only when the queue is full or
\* empty or a call of the other kind is between its claim and its publish.
THEOREM RefusalsJustified == Spec => RefusalJustified
<1>1. RingInv /\ [Next]_vars =>
        [\A t \in Threads : pc[t] = "seq" /\ pc'[t] = "refused" =>
           LET other == IF op[t] = "enq" THEN "deq" ELSE "enq"
           IN \/ Size = IF op[t] = "enq" THEN Capacity ELSE 0
              \/ \E u \in Threads : Holds(u) /\ op[u] = other]_vars
  BY RefusalStep
<1> QED BY <1>1, RingInvariant, PTL DEF Spec, RefusalJustified

-----------------------------------------------------------------------------
(* The queue implements BoundedFIFO. *)

Queued == SubSeq(log, DeqPos + 1, EnqPos)
Taken(t) ==
  IF op[t] # "deq" THEN None
  ELSE IF pc[t] = "data" THEN log[pos[t] + 1]
  ELSE IF pc[t] = "publish" THEN item[t] ELSE None

LEMMA QueueOfLog ==
  ASSUME NEW s \in Seq(Values), NEW d \in 0 .. Len(s)
  PROVE  /\ SubSeq(s, d + 1, Len(s)) \in Seq(Values)
         /\ Len(SubSeq(s, d + 1, Len(s))) = Len(s) - d
         /\ \A i \in 1 .. Len(s) - d : SubSeq(s, d + 1, Len(s))[i] = s[d + i]
<1>1. d + 1 \in Int /\ Len(s) \in Int /\ \A i \in d + 1 .. Len(s) : s[i] \in Values
  OBVIOUS
<1>2. /\ SubSeq(s, d + 1, Len(s)) \in Seq(Values)
      /\ Len(SubSeq(s, d + 1, Len(s))) =
           IF d + 1 <= Len(s) THEN Len(s) - (d + 1) + 1 ELSE 0
      /\ \A i \in 1 .. Len(s) - (d + 1) + 1 : SubSeq(s, d + 1, Len(s))[i] = s[(d + 1) + i - 1]
  BY <1>1, SubSeqProperties
<1> QED BY <1>2

LEMMA QueueAppend ==
  ASSUME NEW s \in Seq(Values), NEW d \in 0 .. Len(s), NEW v \in Values
  PROVE  SubSeq(Append(s, v), d + 1, Len(s) + 1) = Append(SubSeq(s, d + 1, Len(s)), v)
<1> DEFINE a == Append(s, v)
           x == SubSeq(a, d + 1, Len(a))
           q == SubSeq(s, d + 1, Len(s))
           y == Append(q, v)
<1>1. /\ a \in Seq(Values) /\ Len(a) = Len(s) + 1
      /\ \A i \in 1 .. Len(s) : a[i] = s[i]
      /\ a[Len(s) + 1] = v
  OBVIOUS
<1> HIDE DEF a
<1>2. /\ q \in Seq(Values) /\ Len(q) = Len(s) - d
      /\ \A i \in 1 .. Len(s) - d : q[i] = s[d + i]
  BY QueueOfLog
<1>3. /\ x \in Seq(Values) /\ Len(x) = Len(a) - d
      /\ \A i \in 1 .. Len(a) - d : x[i] = a[d + i]
  BY <1>1, QueueOfLog
<1> HIDE DEF x, q
<1>4. /\ y \in Seq(Values) /\ Len(y) = Len(s) - d + 1
      /\ \A i \in 1 .. Len(s) - d : y[i] = q[i]
      /\ y[Len(s) - d + 1] = v
  BY <1>2
<1> HIDE DEF y
<1>5. Len(x) = Len(y) BY <1>1, <1>3, <1>4
<1>6. ASSUME NEW i \in 1 .. Len(x) PROVE x[i] = y[i]
  <2>1. CASE i = Len(s) - d + 1 BY <2>1, <1>1, <1>3, <1>4
  <2>2. CASE i # Len(s) - d + 1 BY <2>2, <1>1, <1>2, <1>3, <1>4
  <2> QED BY <2>1, <2>2
<1>7. x = y BY <1>3, <1>4, <1>5, <1>6, SeqEqual
<1> QED BY <1>1, <1>7 DEF x, y, q, a

Got == [t \in Threads |-> Taken(t)]

\* The abstract specification in terms of the ring's state.
LEMMA Mapping ==
  /\ FIFO!vars = <<Queued, Got>>
  /\ FIFO!Init <=> Queued = <<>> /\ Got = [t \in Threads |-> None]
  /\ \A v : FIFO!Enq(v) <=>
       /\ Len(Queued) < Capacity
       /\ Queued' = Append(Queued, v)
       /\ Got' = Got
  /\ \A t : FIFO!Deq(t) <=>
       /\ Got[t] = None
       /\ Queued # <<>>
       /\ Got' = [Got EXCEPT ![t] = Head(Queued)]
       /\ Queued' = Tail(Queued)
  /\ \A t : FIFO!Return(t) <=>
       /\ Got[t] # None
       /\ Got' = [Got EXCEPT ![t] = None]
       /\ Queued' = Queued
BY DEF FIFO!vars, FIFO!Init, FIFO!Enq, FIFO!Deq, FIFO!Return, Queued, Got, Taken, EnqPos, DeqPos

LEMMA InitMaps == ASSUME Init PROVE FIFO!Init
<1>1. log = <<>> /\ DeqPos = 0 /\ EnqPos = 0 BY DEF Init, DeqPos, EnqPos, Ops
<1>2. Queued = <<>> BY <1>1 DEF Queued
<1>3. Got = [t \in Threads |-> None] BY NoneAssumption DEF Init, Got, Taken
<1> QED BY <1>2, <1>3, Mapping

\* A producer's successful claim appends its value.
LEMMA ClaimEnqueues ==
  ASSUME RingInv, NEW t \in Threads, Claim(t), op[t] = "enq"
  PROVE  FIFO!Enq(item[t]) /\ item[t] \in Values
<1>1. /\ EnqPos \in Nat /\ DeqPos \in Nat /\ EnqPos < DeqPos + Capacity
  BY EnqueueClaim
<1>2. /\ item[t] \in Values /\ log \in Seq(Values) /\ Len(log) = EnqPos
      /\ DeqPos <= EnqPos /\ log' = Append(log, item[t])
      /\ EnqPos' = EnqPos + 1 /\ DeqPos' = DeqPos
  BY DEF Claim, RingInv, CallInv, RangeInv, TypeOK, EnqPos, DeqPos, Ops
<1>3. DeqPos \in 0 .. Len(log) BY <1>1, <1>2
<1>4. Len(Queued) < Capacity
  <2>1. Len(Queued) = Len(log) - DeqPos BY <1>2, <1>3, QueueOfLog DEF Queued
  <2> QED BY <1>1, <1>2, <2>1, CapacityAssumption
<1>5. Queued' = Append(Queued, item[t]) BY <1>2, <1>3, QueueAppend DEF Queued
<1>6. Got' = Got
  <2> SUFFICES ASSUME NEW u \in Threads PROVE Taken(u)' = Taken(u) BY DEF Got
  <2>1. CASE u = t BY <2>1 DEF Taken, Claim
  <2>2. CASE u # t
    <3>1. pc'[u] = pc[u] /\ UNCHANGED <<op, pos, item>> BY <2>2 DEF Claim, Goto, RingInv, TypeOK
    <3>2. op[u] = "deq" /\ pc[u] = "data" => log'[pos[u] + 1] = log[pos[u] + 1]
      <4> SUFFICES ASSUME op[u] = "deq", pc[u] = "data"
                   PROVE  pos[u] + 1 \in 1 .. Len(log)
        BY <1>2
      <4>1. pos[u] \in Nat /\ pos[u] < DeqPos
        BY DEF RingInv, TypeOK, HolderInv, HoldsFor, Holds
      <4> QED BY <4>1, <1>1, <1>2
    <3> QED BY <3>1, <3>2 DEF Taken
  <2> QED BY <2>1, <2>2
<1> QED BY <1>2, <1>4, <1>5, <1>6, Mapping

\* A consumer's successful claim takes the head.
LEMMA ClaimDequeues ==
  ASSUME RingInv, NEW t \in Threads, Claim(t), op[t] = "deq"
  PROVE  FIFO!Deq(t)
<1>1. EnqPos \in Nat /\ DeqPos \in Nat /\ DeqPos < EnqPos /\ pos[t] = DeqPos
  BY DequeueClaim
<1>2. /\ log \in Seq(Values) /\ Len(log) = EnqPos
      /\ log' = log /\ EnqPos' = EnqPos /\ DeqPos' = DeqPos + 1
  BY DEF Claim, RingInv, RangeInv, TypeOK, EnqPos, DeqPos, Ops
<1>3. DeqPos + 1 \in 1 .. Len(log) /\ Len(log) \in DeqPos + 1 .. Len(log) BY <1>1, <1>2
<1>4. /\ Head(Queued) = log[DeqPos + 1]
      /\ Tail(Queued) = SubSeq(log, DeqPos + 1 + 1, Len(log))
  <2> DEFINE m == DeqPos + 1
  <2>1. m \in 1 .. Len(log) /\ Len(log) \in m .. Len(log) BY <1>3
  <2>2. Queued = SubSeq(log, m, Len(log)) BY <1>2 DEF Queued
  <2> HIDE DEF m
  <2>3. /\ Head(SubSeq(log, m, Len(log))) = log[m]
        /\ Tail(SubSeq(log, m, Len(log))) = SubSeq(log, m + 1, Len(log))
    BY <2>1, <1>2, HeadTailOfSubSeq
  <2> QED BY <2>2, <2>3 DEF m
<1>5. Queued # <<>>
  <2>1. Len(Queued) = Len(log) - DeqPos BY <1>1, <1>2, QueueOfLog DEF Queued
  <2> QED BY <2>1, <1>1, <1>2
<1>6. Queued' = Tail(Queued) BY <1>2, <1>4 DEF Queued
<1>7. /\ UNCHANGED <<op, pos, item>> /\ pc[t] = "cas" /\ pc'[t] = "data"
      /\ \A u \in Threads \ {t} : pc'[u] = pc[u]
  BY DEF Claim, Goto, RingInv, TypeOK
<1>8. Got[t] = None BY <1>7 DEF Got, Taken
<1>9. Got' = [Got EXCEPT ![t] = Head(Queued)]
  <2>1. Taken(t)' = Head(Queued) BY <1>1, <1>2, <1>4, <1>7 DEF Taken
  <2>2. \A u \in Threads \ {t} : Taken(u)' = Taken(u) BY <1>2, <1>7 DEF Taken
  <2> QED BY <2>1, <2>2 DEF Got
<1> QED BY <1>5, <1>6, <1>8, <1>9, Mapping

\* A step that claims nothing leaves the abstract queue alone.
LEMMA QueueKept ==
  ASSUME UNCHANGED <<position, log>> PROVE Queued' = Queued
BY DEF Queued, EnqPos, DeqPos

\* A consumer returns the value it took.
LEMMA PublishReturns ==
  ASSUME RingInv, NEW t \in Threads, Publish(t), op[t] = "deq"
  PROVE  FIFO!Return(t)
<1>1. /\ UNCHANGED <<position, pos, log>> /\ pc[t] = "publish" /\ op'[t] = None
      /\ \A u \in Threads \ {t} : pc'[u] = pc[u] /\ op'[u] = op[u] /\ item'[u] = item[u]
  BY DEF Publish, Goto, RingInv, TypeOK
<1>2. item[t] \in Values
  <2>1. item[t] = log[pos[t] + 1]
    BY <1>1 DEF RingInv, DataInv, HoldsFor, Holds
  <2>2. pos[t] \in Nat /\ pos[t] + 1 \in 1 .. Len(log) /\ log \in Seq(Values)
    BY <1>1 DEF RingInv, TypeOK, HolderInv, RangeInv, HoldsFor, Holds, EnqPos, DeqPos, Ops
  <2> QED BY <2>1, <2>2
<1>3. Got[t] # None BY <1>1, <1>2, NoneAssumption DEF Got, Taken
<1>4. Got' = [Got EXCEPT ![t] = None]
  <2>1. Taken(t)' = None BY <1>1, NoneAssumption DEF Taken
  <2>2. \A u \in Threads \ {t} : Taken(u)' = Taken(u) BY <1>1 DEF Taken
  <2> QED BY <2>1, <2>2 DEF Got
<1> QED BY <1>1, <1>3, <1>4, QueueKept, Mapping

\* Every other step is invisible.
LEMMA OtherStutters ==
  ASSUME RingInv, NEW t \in Threads,
         \/ Enqueue(t) \/ Dequeue(t)
         \/ LoadSeq(t) \/ ReloadPos(t) \/ ClaimFails(t) \/ MoveData(t) \/ Refuse(t)
         \/ Publish(t) /\ op[t] = "enq"
  PROVE  UNCHANGED FIFO!vars
<1> USE DEF RingInv, TypeOK
<1>1. UNCHANGED <<position, log>>
  BY DEF Enqueue, Dequeue, Call, LoadSeq, ReloadPos, ClaimFails, MoveData, Refuse, Publish
<1>2. \A u \in Threads \ {t} :
        pc'[u] = pc[u] /\ op'[u] = op[u] /\ pos'[u] = pos[u] /\ item'[u] = item[u]
  BY DEF Enqueue, Dequeue, Call, LoadSeq, ReloadPos, ClaimFails, MoveData, Refuse, Publish, Goto
<1>3. Taken(t)' = Taken(t)
  <2>1. CASE MoveData(t)
    <3>1. CASE op[t] = "enq" BY <2>1, <3>1 DEF MoveData, Taken
    <3>2. CASE op[t] = "deq"
      <4>1. /\ pc[t] = "data" /\ pc'[t] = "publish" /\ op' = op
            /\ item'[t] = value[Cell(pos[t])]
        BY <2>1, <3>2 DEF MoveData, Goto
      <4>2. value[Cell(pos[t])] = log[pos[t] + 1]
        BY <3>2, <4>1 DEF DataInv, HoldsFor, Holds
      <4> QED BY <3>2, <4>1, <4>2 DEF Taken
    <3>3. op[t] \in Ops BY <2>1 DEF MoveData, CallInv
    <3> QED BY <3>1, <3>2, <3>3 DEF Ops
  <2>2. CASE Enqueue(t) \/ Dequeue(t)
    <3>1. op[t] = None /\ pc'[t] = "seq"
      BY <2>2 DEF Enqueue, Dequeue, Call, Goto, CallInv
    <3> QED BY <3>1, NoneAssumption DEF Taken
  <2>3. CASE LoadSeq(t) BY <2>3 DEF LoadSeq, Goto, Taken
  <2>4. CASE ReloadPos(t) \/ ClaimFails(t) BY <2>4 DEF ReloadPos, ClaimFails, Goto, Taken
  <2>5. CASE Refuse(t) \/ (Publish(t) /\ op[t] = "enq")
    BY <2>5, NoneAssumption DEF Refuse, Publish, Goto, Taken
  <2> QED BY <2>1, <2>2, <2>3, <2>4, <2>5
<1>4. \A u \in Threads \ {t} : Taken(u)' = Taken(u) BY <1>1, <1>2 DEF Taken
<1>5. Got' = Got BY <1>3, <1>4 DEF Got
<1>6. Queued' = Queued BY <1>1, QueueKept
<1> QED BY <1>5, <1>6 DEF FIFO!vars, Queued, Got, Taken, EnqPos, DeqPos

LEMMA StepMaps == ASSUME RingInv, [Next]_vars PROVE [FIFO!Next]_(FIFO!vars)
<1>1. ASSUME NEW t \in Threads, Claim(t) PROVE FIFO!Next
  <2>1. op[t] \in Ops BY <1>1 DEF RingInv, CallInv, Claim
  <2> QED BY <1>1, <2>1, ClaimEnqueues, ClaimDequeues DEF FIFO!Next, Ops
<1>2. ASSUME NEW t \in Threads, Publish(t) PROVE [FIFO!Next]_(FIFO!vars)
  <2>1. op[t] \in Ops BY <1>2 DEF RingInv, CallInv, Publish
  <2>2. CASE op[t] = "deq" BY <1>2, <2>2, PublishReturns DEF FIFO!Next
  <2>3. CASE op[t] = "enq" BY <1>2, <2>3, OtherStutters
  <2> QED BY <2>1, <2>2, <2>3 DEF Ops
<1>3. ASSUME NEW t \in Threads,
             \/ Enqueue(t) \/ Dequeue(t)
             \/ LoadSeq(t) \/ ReloadPos(t) \/ ClaimFails(t) \/ MoveData(t) \/ Refuse(t)
      PROVE  UNCHANGED FIFO!vars
  BY <1>3, OtherStutters
<1>4. CASE UNCHANGED vars
  BY <1>4 DEF vars, FIFO!vars
<1> QED BY <1>1, <1>2, <1>3, <1>4 DEF Next, Step, Finished

\* The ring implements the bounded FIFO: values leave in the order in which
\* their positions were claimed, each once, and a consumer returns the value
\* its producer wrote.
THEOREM QueueImplementsFIFO == Spec => ImplementsFIFO
BY InitMaps, StepMaps, RingInvariant, PTL DEF Spec, ImplementsFIFO, FIFO!Spec
=============================================================================

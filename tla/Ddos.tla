-------------------------------- MODULE Ddos --------------------------------
(***************************************************************************)
(* net/ddos: the fixed-size open-addressing table of per-address records   *)
(* behind scl_ddos_check and scl_ddos_conn_closed.  Every operation holds  *)
(* the one spin lock from its first table access to its last, so it is one *)
(* action; only scl_ddos_check reads the clock before it takes the lock.   *)
(* An address is its normalised key (IPv4 address or IPv6 /64).            *)
(***************************************************************************)
EXTENDS Integers, FiniteSets, FiniteSetsExt

CONSTANTS
  Keys,          \* normalised addresses
  Watched,       \* the address whose admissions are recorded
  Home,          \* ip_hash(key) & mask
  SlotCount,     \* slot_count
  Burst, Rate, Second,   \* burst_size, rate_per_sec, clock ticks per second
  MaxConn,       \* max_conn_per_ip
  BanThreshold, BanDuration,
  MaxTime, MaxOpen, MaxEdits,  \* bounds: clock, open connections, operator's calls
  Free           \* the empty slot (family < 0)

ASSUME DdosAssumption ==
  /\ Watched \in Keys
  /\ SlotCount \in Nat \ {0}
  /\ Home \in [Keys -> 0 .. SlotCount - 1]
  /\ Burst \in Nat /\ Rate \in Nat /\ Second \in Nat \ {0}
  /\ MaxConn \in Nat /\ BanThreshold \in Nat /\ BanDuration \in Nat \ {0}
  /\ MaxTime \in Nat \ {0}
  /\ Free \notin [key : Keys, tokens : Nat, refill : Nat, seen : Nat, conns : Nat, drops : Nat,
                  ban : Nat, white : BOOLEAN]

VARIABLES
  slots,     \* ddos->slots
  now,       \* scl_now_ms()
  open,      \* per key, connections admitted and not yet reported closed
  policy,    \* what the operator last asked for: "none", "black" or "white"
  since,     \* history: when the watched key's current record was created
  admitted,  \* history: connections admitted through the token bucket since then
  edits,     \* the operator's calls so far
  holed      \* history: scl_ddos_unlist_ip has emptied a slot

vars == <<slots, now, open, policy, since, admitted, edits, holed>>

Slots == 0 .. SlotCount - 1
Forever == MaxTime + BanDuration + 1     \* INT64_MAX: later than any clock value

Init ==
  /\ slots = [i \in Slots |-> Free]
  /\ now = 1
  /\ open = [k \in Keys |-> 0]
  /\ policy = [k \in Keys |-> "none"]
  /\ since = 1
  /\ admitted = 0
  /\ edits = 0
  /\ holed = FALSE

-----------------------------------------------------------------------------
(* find_slot *)

Fresh(k, at) == [key |-> k, tokens |-> Burst, refill |-> at, seen |-> at,
                 conns |-> 0, drops |-> 0, ban |-> 0, white |-> FALSE]

\* Mutants: a record with open connections, or a pinned one, may be evicted.
Evictable_Busy(s) == ~s.white /\ s.ban # Forever
Evictable_Pinned(s) == s.conns = 0 /\ ~s.white

Evictable(s) == s.conns = 0 /\ ~s.white /\ s.ban # Forever

Probe(k, i) == (Home[k] + i) % SlotCount

\* The sweep stops at the first slot that is free or holds the key.
Stops(k) == {i \in Slots : slots[Probe(k, i)] = Free \/ slots[Probe(k, i)].key = k}

\* Lookup without allocation: the slot, or -1.
Find(k) ==
  IF Stops(k) = {} \/ slots[Probe(k, Min(Stops(k)))] = Free THEN -1
  ELSE Probe(k, Min(Stops(k)))

\* The least recently seen evictable record, the earliest probed of those.
Victims(k) == {i \in Slots : Evictable(slots[Probe(k, i)])}
Oldest(k) == {i \in Victims(k) : \A j \in Victims(k) :
                slots[Probe(k, i)].seen <= slots[Probe(k, j)].seen}

\* Lookup with allocation: the slot found, taken or reclaimed, or -1.
FindOrAlloc(k) ==
  IF Stops(k) # {} THEN Probe(k, Min(Stops(k)))
  ELSE IF Victims(k) # {} THEN Probe(k, Min(Oldest(k)))
  ELSE -1

Found(i, k) == slots[i] # Free /\ slots[i].key = k

\* The record at slot i once find_slot has returned it for key k.
Record(i, k, at) == IF Found(i, k) THEN slots[i] ELSE Fresh(k, at)

-----------------------------------------------------------------------------
(* scl_ddos_check *)

Earned(s, at) == IF at > s.refill THEN ((at - s.refill) * Rate) \div Second ELSE 0

\* Mutant: the same interval is credited again.
Refill_Again(s, at) == [s EXCEPT !.tokens = Min({@ + Earned(s, at), Burst})]

Refill(s, at) ==
  IF Earned(s, at) = 0 THEN s
  ELSE [s EXCEPT !.tokens = Min({@ + Earned(s, at), Burst}), !.refill = at]

Banned(s, at) == s.ban > 0 /\ at < s.ban

\* A ban that has run out is lifted and the drops are forgiven.
Unbanned(s) == IF s.ban > 0 THEN [s EXCEPT !.ban = 0, !.drops = 0] ELSE s

OverLimit(s) == s.conns >= MaxConn \/ s.tokens = 0

Dropped(s, at) ==
  [s EXCEPT !.drops = @ + 1,
            !.ban = IF s.drops + 1 >= BanThreshold THEN at + BanDuration ELSE @]

TotalOpen == MapThenSumSet(LAMBDA k : open[k], Keys)

\* The history of the watched key, when slot i is stored for key k.
History(i, k, at, n) ==
  IF k # Watched THEN UNCHANGED <<since, admitted>>
  ELSE /\ since' = IF Found(i, k) THEN since ELSE at
       /\ admitted' = n + IF Found(i, k) THEN admitted ELSE 0

\* Store record s in slot i: n connections are admitted, m by the bucket.
Store(i, k, s, at, n, m) ==
  /\ TotalOpen + n <= MaxOpen
  /\ slots' = [slots EXCEPT ![i] = s]
  /\ open' = [open EXCEPT ![k] = @ + n]
  /\ History(i, k, at, m)
  /\ UNCHANGED <<now, policy, edits, holed>>

\* `at' is the clock value read before the lock was taken: the clock may have
\* moved on, and another call may have stored a later value.
Check(k, at) ==
  LET i == FindOrAlloc(k)
      s == [Record(i, k, at) EXCEPT !.seen = at]
      r == Refill(Unbanned(s), at)
  IN /\ i # -1
     /\ \/ /\ s.white
           /\ Store(i, k, [s EXCEPT !.conns = @ + 1], at, 1, 0)
        \/ /\ ~s.white /\ Banned(s, at)
           /\ Store(i, k, s, at, 0, 0)
        \/ /\ ~s.white /\ ~Banned(s, at) /\ OverLimit(r)
           /\ Store(i, k, Dropped(r, at), at, 0, 0)
        \/ /\ ~s.white /\ ~Banned(s, at) /\ ~OverLimit(r)
           /\ Store(i, k, [r EXCEPT !.tokens = @ - 1, !.conns = @ + 1], at, 1, 1)

\* Nothing can be evicted: the connection is dropped and nothing changes.
CheckFull(k) == FindOrAlloc(k) = -1 /\ UNCHANGED vars

\* The server reports the end of a connection it admitted.
ConnClosed(k) ==
  LET i == Find(k)
  IN /\ open[k] > 0
     /\ open' = [open EXCEPT ![k] = @ - 1]
     /\ slots' = IF i # -1 /\ slots[i].conns > 0
                 THEN [slots EXCEPT ![i].conns = @ - 1] ELSE slots
     /\ UNCHANGED <<now, policy, since, admitted, edits, holed>>

-----------------------------------------------------------------------------
(* The operator's lists *)

List(k, p, ban, white) ==
  LET i == FindOrAlloc(k)
  IN /\ edits < MaxEdits /\ edits' = edits + 1
     /\ i # -1
     /\ slots' = [slots EXCEPT ![i] = [Record(i, k, now) EXCEPT !.ban = ban, !.white = white]]
     /\ policy' = [policy EXCEPT ![k] = p]
     /\ History(i, k, now, 0)
     /\ UNCHANGED <<now, open, holed>>

Blacklist(k) == List(k, "black", Forever, FALSE)
Whitelist(k) == List(k, "white", 0, TRUE)

Unlist(k) ==
  LET i == Find(k)
  IN /\ edits < MaxEdits /\ edits' = edits + 1
     /\ i # -1
     /\ holed' = TRUE
     /\ slots' = [slots EXCEPT ![i] = Free]
     /\ policy' = [policy EXCEPT ![k] = "none"]
     /\ UNCHANGED <<now, open, since, admitted>>

Tick == now < MaxTime /\ now' = now + 1 /\ UNCHANGED <<slots, open, policy, since, admitted, edits, holed>>

Next ==
  \/ \E k \in Keys :
       \/ \E at \in {now - 1, now} : at > 0 /\ Check(k, at)
       \/ CheckFull(k) \/ ConnClosed(k)
       \/ Blacklist(k) \/ Whitelist(k) \/ Unlist(k)
  \/ Tick

Spec == Init /\ [][Next]_vars

-----------------------------------------------------------------------------
(* Properties *)

Records ==
  [key : Keys, tokens : 0 .. Burst, refill : 1 .. MaxTime, seen : 1 .. MaxTime,
   conns : Nat, drops : 0 .. BanThreshold,
   ban : 0 .. Forever, white : BOOLEAN]

\* Every record keeps its fields in range: a bucket never holds more than the
\* burst, and drops stop being counted once they have caused a ban.
TypeOK ==
  /\ slots \in [Slots -> Records \cup {Free}]
  /\ now \in 1 .. MaxTime
  /\ open \in [Keys -> 0 .. MaxOpen]
  /\ policy \in [Keys -> {"none", "black", "white"}]
  /\ since \in 1 .. MaxTime /\ admitted \in Nat
  /\ edits \in 0 .. MaxEdits /\ holed \in BOOLEAN

\* The open/close accounting of check and conn_closed balances through
\* collisions and evictions: whichever slot holds an address counts exactly
\* its open connections, and an address with open connections has a slot
\* (so it also never has two, one of which would be fresh).  It holds until
\* scl_ddos_unlist_ip empties a slot, which may be in the middle of a sweep.
CountsOpen ==
  ~holed =>
    \A k \in Keys :
      /\ \A i \in Slots : Found(i, k) => slots[i].conns = open[k]
      /\ open[k] > 0 => Find(k) # -1

Pinned(k) ==
  LET s == slots[Find(k)]
  IN /\ policy[k] = "black" => Find(k) # -1 /\ s.ban = Forever /\ ~s.white
     /\ policy[k] = "white" => Find(k) # -1 /\ s.white

\* Evictions never undo an operator's listing: until a slot is emptied the
\* lookup finds each listed address, pinned as the operator last asked.
EvictionKeepsPolicy == ~holed => \A k \in Keys : Pinned(k)

\* A call of check never admits an address the operator has not whitelisted
\* beyond max_conn_per_ip open connections (until a slot is emptied).
ConnCap ==
  \A k \in Keys : open'[k] > open[k] /\ policy[k] # "white" /\ ~holed => open[k] < MaxConn

\* The token bucket bounds what one record lets through over any time: the
\* burst, and the rate times the record's age.
RateBound ==
  ~holed => admitted <= Burst + ((now - since) * Rate) \div Second

\* Both limits of scl_ddos_check hold at once, through bans that end, late
\* clock values, collisions and evictions: connections and rate.
LimitsHold == [][ConnCap /\ RateBound']_vars
=============================================================================

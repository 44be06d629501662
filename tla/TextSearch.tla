----------------------------- MODULE TextSearch -----------------------------
(***************************************************************************)
(* libs/search: the pattern matchers as functions of text and pattern,     *)
(* both functions on 0..len-1.  A matcher returns the offsets it reports,  *)
(* in order; with first set, the callback stops it at the first one.       *)
(***************************************************************************)
EXTENDS Integers, Sequences, FiniteSets, SequencesExt

CONSTANTS
  RK_MOD,    \* modulus of the rolling hash (2^31 - 1)
  RK_BASE    \* its base (256 or seeded)

Length(s) == Cardinality(DOMAIN s)
\* The checks every matcher starts with; Fine when the search goes on.
Fine == "fine"
Refused(text, pat) ==
  IF Length(text) = 0 THEN "empty" ELSE IF Length(pat) = 0 THEN "invalid"
  ELSE IF Length(pat) > Length(text) THEN "not found" ELSE Fine
Checked(text, pat, hits) ==
  LET err == Refused(text, pat) IN [err |-> err, hits |-> IF err = Fine THEN hits ELSE <<>>]

-----------------------------------------------------------------------------
RECURSIVE Lps(_, _, _, _)
Lps(pat, lps, len, i) ==
  IF i >= Length(pat) THEN lps
  ELSE IF pat[i] = pat[len] THEN Lps(pat, [lps EXCEPT ![i] = len + 1], len + 1, i + 1)
  ELSE IF len # 0 THEN Lps(pat, lps, lps[len - 1], i)
  ELSE Lps(pat, lps, 0, i + 1)

RECURSIVE KmpScan(_, _, _, _, _, _, _)
KmpScan(text, pat, lps, i, j, hits, first) ==
  IF i = Length(text) THEN hits
  ELSE IF pat[j] = text[i]
  THEN LET hit == Append(hits, i - j)
       IN IF j + 1 < Length(pat) THEN KmpScan(text, pat, lps, i + 1, j + 1, hits, first)
          ELSE IF first THEN hit
          ELSE KmpScan(text, pat, lps, i + 1, lps[j], hit, first)
  ELSE IF j # 0 THEN KmpScan(text, pat, lps, i, lps[j - 1], hits, first)
  ELSE KmpScan(text, pat, lps, i + 1, 0, hits, first)

kmp_core(text, pat, first) ==
  LET lps == Lps(pat, [i \in DOMAIN pat |-> 0], 0, 1)
  IN Checked(text, pat, KmpScan(text, pat, lps, 0, 0, <<>>, first))
kmp(text, pat) == kmp_core(text, pat, TRUE)
kmp_all(text, pat) == kmp_core(text, pat, FALSE)

-----------------------------------------------------------------------------
\* The distance from the last occurrence, the last place of pat aside.
bad_char(pat, ch) ==
  LET m == Length(pat)
      at == {i \in 0..(m - 2) : pat[i] = ch}
  IN IF at = {} THEN m ELSE m - 1 - (CHOOSE i \in at : \A j \in at : j <= i)

\* How far left of g the pattern goes on matching its own end.
RECURSIVE Extend(_, _, _)
Extend(pat, f, g) ==
  IF g >= 0 /\ pat[g] = pat[Length(pat) - 1 - f + g] THEN Extend(pat, f, g - 1) ELSE g

RECURSIVE SuffixTable(_, _, _, _, _)
SuffixTable(pat, suffix, g, f, i) ==
  LET m == Length(pat)
      g1 == Extend(pat, i, IF i < g THEN i ELSE g)
  IN IF i < 0 THEN suffix
     ELSE IF i > g /\ suffix[m - 1 - f + i] < i - g
     THEN SuffixTable(pat, [suffix EXCEPT ![i] = suffix[m - 1 - f + i]], g, f, i - 1)
     ELSE SuffixTable(pat, [suffix EXCEPT ![i] = i - g1], g1, i, i - 1)

GoodSuffix(pat) ==
  LET m == Length(pat)
      suffix == SuffixTable(pat, [i \in DOMAIN pat |-> m], m - 1, m - 1, m - 2)
      border(gs, k) ==   \* k counts down from m - 1
        LET i == m - k
        IN IF suffix[i] # i + 1 THEN gs
           ELSE [j \in DOMAIN gs |-> IF j < m - 1 - i /\ gs[j] = m THEN m - 1 - i ELSE gs[j]]
      inner(gs, i) == [gs EXCEPT ![m - 1 - suffix[i - 1]] = m - i]
      upto(n) == [k \in 1..n |-> k]
  IN FoldLeft(inner, FoldLeft(border, [j \in 0..m |-> m], upto(m)), upto(m - 1))

RECURSIVE Mismatch(_, _, _, _)
Mismatch(text, pat, i, j) ==
  IF j >= 0 /\ pat[j] = text[i + j] THEN Mismatch(text, pat, i, j - 1) ELSE j

RECURSIVE BmScan(_, _, _, _, _, _)
BmScan(text, pat, gs, i, hits, first) ==
  LET m == Length(pat)
      j == Mismatch(text, pat, i, m - 1)
      at_least(x) == IF x < 1 THEN 1 ELSE x
      bc == at_least(bad_char(pat, text[i + j]) - (m - 1 - j))
      shift == IF bc > gs[j] THEN bc ELSE gs[j]
  IN IF i > Length(text) - m THEN hits
     ELSE IF j >= 0 THEN BmScan(text, pat, gs, i + shift, hits, first)
     ELSE IF first THEN Append(hits, i)
     ELSE BmScan(text, pat, gs, i + at_least(gs[0]), Append(hits, i), first)

\* A pattern of one character: the bound of the second loop, plen - 2, wraps
\* around, and the loop writes beyond its tables.
BeyondTables == "outside"
bm_core(text, pat, first) ==
  IF Length(pat) = 1 /\ Refused(text, pat) = Fine THEN [err |-> BeyondTables, hits |-> <<>>]
  ELSE Checked(text, pat, BmScan(text, pat, GoodSuffix(pat), 0, <<>>, first))
boyer_moore(text, pat) == bm_core(text, pat, TRUE)
boyer_moore_all(text, pat) == bm_core(text, pat, FALSE)

-----------------------------------------------------------------------------
\* Two strings with the same hash are compared; only the first match.
Hash(s, from, len) ==
  FoldLeft(LAMBDA h, k : (h * RK_BASE + s[from + k - 1]) % RK_MOD, 0, [k \in 1..len |-> k])
RECURSIVE RkScan(_, _, _, _, _)
RkScan(text, pat, high, hash, i) ==
  LET m == Length(pat)
      sub == (hash - text[i] * high) % RK_MOD
      rolled == (sub * RK_BASE + text[i + m]) % RK_MOD
  IN IF hash = Hash(pat, 0, m) /\ \A j \in DOMAIN pat : text[i + j] = pat[j] THEN <<i>>
     ELSE IF i = Length(text) - m THEN <<>>
     ELSE RkScan(text, pat, high, rolled, i + 1)
rabin_karp(text, pat) ==
  LET m == Length(pat)
      high == FoldLeft(LAMBDA h, k : (h * RK_BASE) % RK_MOD, 1, [k \in 1..(m - 1) |-> k])
  IN Checked(text, pat, RkScan(text, pat, high, Hash(text, 0, m), 0))

-----------------------------------------------------------------------------
(* The suffix trie: a node is named by its path from the root, and holds   *)
(* how many suffixes pass through it and which of them ends there.         *)
NotLeaf == -1
Path(text, i, k) == [j \in 1..(k - i) |-> text[i + j - 1]]
suffix_trie_build(text) ==
  LET n == Length(text)
      pass(t, i) ==
        LET paths == {Path(text, i, k) : k \in i..n}
        IN [p \in DOMAIN t \cup paths |->
              LET old == IF p \in DOMAIN t THEN t[p] ELSE [leaf_count |-> 0, leaf |-> NotLeaf]
              IN IF p \notin paths THEN old
                 ELSE [leaf_count |-> old.leaf_count + 1,
                       leaf |-> IF p = Path(text, i, n) THEN i ELSE old.leaf]]
  IN FoldLeft(pass, [p \in {<<>>} |-> [leaf_count |-> 0, leaf |-> NotLeaf]], [k \in 1..n |-> k - 1])

Word(pat) == Path(pat, 0, Length(pat))
suffix_trie_contains(t, pat) == Word(pat) \in DOMAIN t
suffix_trie_count(t, text, pat) ==
  IF Length(pat) = 0 THEN Length(text)
  ELSE IF suffix_trie_contains(t, pat) THEN t[Word(pat)].leaf_count ELSE 0
\* The leaves below the pattern's node, in the order of a depth-first walk.
suffix_trie_find_all(t, pat) ==
  {t[p].leaf : p \in {q \in DOMAIN t : IsPrefix(Word(pat), q) /\ t[q].leaf # NotLeaf}}
=============================================================================

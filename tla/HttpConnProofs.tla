--------------------------- MODULE HttpConnProofs ---------------------------
(***************************************************************************)
(* Proofs about handle_connection for any stream of requests, however it   *)
(* is fragmented, and any buffer, timeout and keep_alive_max: the header   *)
(* blocks parsed are the client's requests one after the other, and the    *)
(* header phase is bounded and times out only incomplete requests.         *)
(*                                                                         *)
(* Framing holds for clients that do not pipeline behind a request without *)
(* a body; for those that do the run conn_pipelined shows that it does     *)
(* not, so the hypothesis is part of the theorems.  It is lost when a      *)
(* trailer line that arrives in pieces is taken for the size of a chunk    *)
(* (the run conn_trailer), so the invariant ties the buffer to the stream  *)
(* until then (misread), and bounds it, the header block and the timers in *)
(* any case.                                                               *)
(***************************************************************************)
EXTENDS HttpConn, SequenceTheorems, WellFoundedInduction, TLAPS

Size(i) == Requests[i].head + Requests[i].body

\* Nothing is sent behind an unanswered request without a body.
Unpipelined ==
  \A j \in 1 .. N : j > served /\ Requests[j].kind = "none" => sent <= Start[j + 1]

ConnTypes ==
  /\ sent \in Nat /\ lo \in Nat /\ hi \in Nat /\ served \in Nat /\ age \in Nat /\ held \in Nat
  /\ lo <= hi /\ hi <= sent /\ served <= N

\* Where in the stream the buffer starts, at each point of the loop.  Parse lets
\* only the block of the next request on, so past it the header is right even
\* after a misread line.
Framed ==
  /\ state \in {"top", "header"} /\ ~misread => lo = Start[Current]
  /\ state = "parse" => hend <= hi /\ (~misread => Aligned)
  /\ state = "body" => Aligned /\ hend <= hi /\ Requests[Current].kind # "none"
  /\ state \in {"trailer", "size"} => Current <= N /\ Requests[Current].kind = "chunked"
  /\ state = "trailer" => lo = LineStart(line)
  /\ state = "reply" =>
       /\ Current <= N
       /\ Requests[Current].kind = "none" => Aligned /\ hend <= hi
       /\ Requests[Current].kind # "none" /\ ~misread => lo = Start[Current + 1]

\* The deadline, and what a timeout says.
Timed ==
  /\ held = age /\ age < 2 * Timeout
  /\ state = "header" /\ ~armed => age = 0
  /\ state # "closed" => why = "open"
  /\ why \in {"timeout", "408"} /\ ~misread => Current > N \/ hi < HeadEnd(Current)

ConnInv == ConnTypes /\ Unpipelined /\ Framed /\ Timed

-----------------------------------------------------------------------------
(* Start, by its least counterexample: the requests lie one after the other. *)

LEMMA LeastNat ==
  ASSUME NEW S, S \subseteq Nat, S # {}
  PROVE  \E x \in S : \A y \in S : x <= y
<1>1. PICK x \in S : \A y \in S : ~(<<y, x>> \in OpToRel(<, Nat))
  BY NatLessThanWellFounded, WFMin
<1>2. ASSUME NEW y \in S PROVE x <= y
  <2>1. x \in Nat /\ y \in Nat OBVIOUS
  <2>2. <<y, x>> \in Nat \X Nat /\ <<y, x>>[1] = y /\ <<y, x>>[2] = x BY <2>1
  <2>3. ~(y < x) BY <1>1, <2>2, Zenon DEF OpToRel
  <2> QED BY <2>1, <2>3
<1> QED BY <1>2

LEMMA RequestFields ==
  /\ N \in Nat
  /\ \A i \in 1 .. N : /\ Requests[i].head \in Nat /\ Requests[i].body \in Nat
                       /\ Requests[i].head >= 4 /\ Size(i) \in Nat
                       /\ Requests[i].kind = "none" => Requests[i].body = 0
                       /\ Requests[i].kind = "chunked" => Requests[i].body >= 2
                       /\ \A k \in DOMAIN Requests[i].trailers : Requests[i].trailers[k].at \in Nat
<1>1. N \in Nat BY ConnAssumption DEF N
<1> SUFFICES ASSUME NEW i \in 1 .. N
             PROVE  /\ Requests[i].head \in Nat /\ Requests[i].body \in Nat
                    /\ Requests[i].head >= 4 /\ Size(i) \in Nat
                    /\ Requests[i].kind = "none" => Requests[i].body = 0
                    /\ Requests[i].kind = "chunked" => Requests[i].body >= 2
                    /\ \A k \in DOMAIN Requests[i].trailers : Requests[i].trailers[k].at \in Nat
  BY <1>1
<1>2. Requests[i] \in [head : Nat, kind : {"none", "length", "chunked"}, body : Nat,
                       trailers : Seq(Lines)]
  BY ConnAssumption, ElementOfSeq DEF N
<1>3. Requests[i].head \in Nat /\ Requests[i].body \in Nat /\ Requests[i].trailers \in Seq(Lines)
  BY <1>2
<1>4. /\ Requests[i].head >= 4 /\ (Requests[i].kind = "none" => Requests[i].body = 0)
      /\ Requests[i].kind = "chunked" => Requests[i].body >= 2
  BY ConnAssumption DEF N
<1>5. ASSUME NEW k \in DOMAIN Requests[i].trailers PROVE Requests[i].trailers[k].at \in Nat
  <2> DEFINE t == Requests[i].trailers
  <2>1. t \in Seq(Lines) /\ k \in DOMAIN t BY <1>3, <1>5
  <2> HIDE DEF t
  <2>2. k \in 1 .. Len(t) BY <2>1
  <2>3. t[k] \in Lines BY <2>1, <2>2, ElementOfSeq
  <2> QED BY <2>3 DEF t, Lines
<1> QED BY <1>3, <1>4, <1>5 DEF Size

LEMMA StartExists ==
  \E f \in [1 .. N + 1 -> Nat] :
    \A i \in 1 .. N + 1 : f[i] = IF i = 1 THEN 0 ELSE f[i - 1] + Size(i - 1)
<1> DEFINE Ok(f, n) == \A i \in 1 .. n : f[i] = IF i = 1 THEN 0 ELSE f[i - 1] + Size(i - 1)
           T == {n \in Nat : n <= N + 1 /\ ~\E f \in [1 .. n -> Nat] : Ok(f, n)}
<1>1. SUFFICES ASSUME T # {} PROVE FALSE
  <2>1. N + 1 \in Nat /\ N + 1 <= N + 1 BY RequestFields
  <2> QED BY <2>1
<1>2. PICK m \in T : \A y \in T : m <= y
  <2>1. T \subseteq Nat OBVIOUS
  <2> HIDE DEF T
  <2> QED BY <1>1, <2>1, LeastNat
<1>3. m \in Nat /\ m <= N + 1 /\ ~\E f \in [1 .. m -> Nat] : Ok(f, m) BY <1>2
<1>4. m # 0
  <2> SUFFICES ASSUME m = 0 PROVE FALSE OBVIOUS
  <2>1. [i \in 1 .. 0 |-> 0] \in [1 .. 0 -> Nat] /\ Ok([i \in 1 .. 0 |-> 0], 0) OBVIOUS
  <2> QED BY <1>3, <2>1
<1>5. m - 1 \in Nat /\ m - 1 <= N + 1 /\ m - 1 \notin T
  <2>1. m - 1 \in Nat /\ m - 1 <= N + 1 /\ ~(m <= m - 1) BY <1>3, <1>4, RequestFields
  <2> HIDE DEF T
  <2> QED BY <1>2, <2>1
<1>6. PICK f \in [1 .. m - 1 -> Nat] : Ok(f, m - 1) BY <1>5
<1> DEFINE v == IF m = 1 THEN 0 ELSE f[m - 1] + Size(m - 1)
           g == [i \in 1 .. m |-> IF i = m THEN v ELSE f[i]]
<1>7. v \in Nat
  <2>1. CASE m = 1 BY <2>1
  <2>2. CASE m # 1
    <3>1. m - 1 \in 1 .. N /\ m - 1 \in 1 .. m - 1 BY <1>3, <1>4, <2>2, RequestFields
    <3>2. f[m - 1] \in Nat /\ Size(m - 1) \in Nat BY <1>6, <3>1, RequestFields
    <3> QED BY <2>2, <3>2
  <2> QED BY <2>1, <2>2
<1> HIDE DEF v
<1>8. \A i \in 1 .. m : i # m => i \in 1 .. m - 1 BY <1>3
<1>9. g \in [1 .. m -> Nat] BY <1>6, <1>7, <1>8
<1>10. ASSUME NEW i \in 1 .. m PROVE g[i] = IF i = 1 THEN 0 ELSE g[i - 1] + Size(i - 1)
  <2>1. i # 1 => i - 1 \in 1 .. m /\ i - 1 # m BY <1>3
  <2>2. i # 1 => g[i - 1] = f[i - 1] BY <2>1
  <2>3. CASE i = m
    <3>1. g[i] = v BY <2>3
    <3> QED BY <2>2, <2>3, <3>1 DEF v
  <2>4. CASE i # m
    <3>1. i \in 1 .. m - 1 /\ g[i] = f[i] BY <1>8, <2>4
    <3> QED BY <1>6, <2>2, <3>1
  <2> QED BY <2>3, <2>4
<1> HIDE DEF g
<1> QED BY <1>3, <1>9, <1>10

LEMMA StartIs ==
  /\ \A i \in 1 .. N + 1 : Start[i] \in Nat
  /\ Start[1] = 0
  /\ \A i \in 1 .. N : Start[i + 1] = Start[i] + Size(i)
<1>1. PICK f \in [1 .. N + 1 -> Nat] :
        \A i \in 1 .. N + 1 : f[i] = IF i = 1 THEN 0 ELSE f[i - 1] + Size(i - 1)
  BY StartExists
<1>2. \A i \in 1 .. N + 1 : i # 1 => i - 1 \in 1 .. N BY RequestFields
<1>3. \A i \in 1 .. N + 1 :
        f[i] = IF i = 1 THEN 0 ELSE f[i - 1] + Requests[i - 1].head + Requests[i - 1].body
  <2> TAKE i \in 1 .. N + 1
  <2>1. CASE i = 1 BY <1>1, <2>1
  <2>2. CASE i # 1
    <3>1. i - 1 \in 1 .. N /\ i - 1 \in 1 .. N + 1 BY <1>2, <2>2, RequestFields
    <3>2. /\ f[i - 1] \in Nat /\ Requests[i - 1].head \in Nat /\ Requests[i - 1].body \in Nat
      BY <1>1, <3>1, RequestFields
    <3> QED BY <1>1, <2>2, <3>2 DEF Size
  <2> QED BY <2>1, <2>2
<1> DEFINE e(g) == [i \in 1 .. N + 1 |->
             IF i = 1 THEN 0 ELSE g[i - 1] + Requests[i - 1].head + Requests[i - 1].body]
<1>4. f = e(f) BY <1>1, <1>3
<1>5. Start = CHOOSE g : g = e(g) BY DEF Start
<1>6. Start = e(Start)
  <2> HIDE DEF e
  <2> QED BY <1>4, <1>5
<1>7. DOMAIN Start = 1 .. N + 1
      /\ \A i \in 1 .. N + 1 : Start[i] =
           IF i = 1 THEN 0 ELSE Start[i - 1] + Requests[i - 1].head + Requests[i - 1].body
  BY <1>6
<1> HIDE DEF e
<1> DEFINE T == {i \in 1 .. N + 1 : Start[i] # f[i]}
<1>8. T = {}
  <2> SUFFICES ASSUME T # {} PROVE FALSE OBVIOUS
  <2>1. T \subseteq Nat BY RequestFields
  <2>2. PICK m \in T : \A y \in T : m <= y
    <3> HIDE DEF T
    <3> QED BY <2>1, LeastNat
  <2>3. m \in 1 .. N + 1 /\ Start[m] # f[m] /\ m # 1 BY <1>3, <1>7, <2>2, RequestFields
  <2>4. m - 1 \in 1 .. N + 1 /\ ~(m <= m - 1) BY <2>3, RequestFields
  <2>5. Start[m - 1] = f[m - 1] BY <2>2, <2>4
  <2> QED BY <1>3, <1>7, <2>3, <2>5
<1>9. \A i \in 1 .. N + 1 : Start[i] = f[i] /\ f[i] \in Nat BY <1>1, <1>8
<1>10. \A i \in 1 .. N : i + 1 \in 1 .. N + 1 /\ i + 1 # 1 /\ (i + 1) - 1 = i
        /\ i \in 1 .. N + 1
  BY RequestFields
<1>11. 1 \in 1 .. N + 1 BY RequestFields
<1>12. \A i \in 1 .. N : f[i + 1] = f[i] + Size(i) BY <1>1, <1>10
<1>13. \A i \in 1 .. N : Start[i + 1] = Start[i] + Size(i) BY <1>9, <1>10, <1>12
<1> QED BY <1>1, <1>9, <1>11, <1>13

\* Later requests start later, and each after the header block before it.
LEMMA StartMono ==
  ASSUME NEW i \in 1 .. N, NEW j \in 1 .. N + 1, i < j
  PROVE  Start[i + 1] <= Start[j]
<1> DEFINE T == {k \in 1 .. N + 1 : i < k /\ ~(Start[i + 1] <= Start[k])}
<1>1. SUFFICES ASSUME T # {} PROVE FALSE OBVIOUS
<1>2. T \subseteq Nat BY RequestFields
<1>3. PICK m \in T : \A y \in T : m <= y
  <2> HIDE DEF T
  <2> QED BY <1>1, <1>2, LeastNat
<1>4. m \in 1 .. N + 1 /\ i < m /\ ~(Start[i + 1] <= Start[m]) BY <1>3
<1>0. i + 1 \in 1 .. N + 1 BY RequestFields
<1>5. i + 1 \in 1 .. N + 1 /\ Start[i + 1] \in Nat /\ Start[m] \in Nat
  BY <1>0, <1>4, StartIs
<1>6. m # i + 1 BY <1>4, <1>5
<1>7. /\ m - 1 \in 1 .. N + 1 /\ m - 1 \in 1 .. N /\ i < m - 1 /\ ~(m <= m - 1)
      /\ (m - 1) + 1 = m
  BY <1>4, <1>6, RequestFields
<1>8. Start[i + 1] <= Start[m - 1] BY <1>3, <1>7
<1>9. Start[m] = Start[m - 1] + Size(m - 1)
  <2> DEFINE n == m - 1
  <2>1. n \in 1 .. N /\ n + 1 = m BY <1>7
  <2> HIDE DEF n
  <2>2. Start[n + 1] = Start[n] + Size(n) BY <2>1, StartIs
  <2> QED BY <2>1, <2>2 DEF n
<1>10. Start[m - 1] \in Nat /\ Size(m - 1) \in Nat BY <1>7, StartIs, RequestFields
<1> QED BY <1>4, <1>5, <1>8, <1>9, <1>10

LEMMA HeadEnds ==
  ASSUME NEW i \in 1 .. N
  PROVE  /\ Start[i] \in Nat /\ HeadEnd(i) \in Nat /\ Start[i + 1] \in Nat
         /\ Start[i] <= HeadEnd(i) - 4 /\ HeadEnd(i) <= Start[i + 1]
         /\ Requests[i].kind = "none" => HeadEnd(i) = Start[i + 1]
<1>1. i \in 1 .. N + 1 /\ i + 1 \in 1 .. N + 1 BY RequestFields
<1>2. Start[i] \in Nat /\ Start[i + 1] \in Nat BY <1>1, StartIs
<1>3. Start[i + 1] = Start[i] + Requests[i].head + Requests[i].body
  <2>1. Start[i + 1] = Start[i] + Size(i) BY StartIs
  <2>2. Requests[i].head \in Nat /\ Requests[i].body \in Nat BY RequestFields
  <2> QED BY <1>2, <2>1, <2>2 DEF Size
<1> QED BY <1>2, <1>3, RequestFields DEF HeadEnd

\* With the buffer at the start of the next request, the first terminator in it
\* is that request's, and there is none while its header block is incomplete.
LEMMA FirstTerminator ==
  ASSUME ConnTypes, lo = Start[Current]
  PROVE  /\ Terminators # {} => /\ Current \in 1 .. N /\ find_header_end = HeadEnd(Current)
                                /\ HeadEnd(Current) <= hi
         /\ Terminators = {} => Current > N \/ hi < HeadEnd(Current)
<1> DEFINE c == Current
<1>1. c \in Nat /\ 1 <= c /\ c <= N + 1 /\ lo \in Nat /\ hi \in Nat
  BY RequestFields DEF ConnTypes, Current
<1>2. lo = Start[c] OBVIOUS
<1> HIDE DEF c
<1>3. ASSUME NEW j \in 1 .. N, HeadEnd(j) - 4 >= lo PROVE j >= c
  <2> SUFFICES ASSUME j < c PROVE FALSE BY <1>1
  <2>1. Start[j + 1] <= Start[c] BY <1>1, StartMono, RequestFields
  <2> QED BY <1>1, <1>2, <1>3, <2>1, HeadEnds
<1>4. ASSUME NEW j \in 1 .. N, c < j PROVE c \in 1 .. N /\ HeadEnd(c) <= HeadEnd(j)
  <2>1. c \in 1 .. N /\ j \in 1 .. N + 1 BY <1>1, <1>4, RequestFields
  <2>2. Start[c + 1] <= Start[j] BY <1>4, <2>1, StartMono
  <2> QED BY <2>1, <2>2, HeadEnds
<1>5. ASSUME Terminators # {}
      PROVE  c \in 1 .. N /\ find_header_end = HeadEnd(c) /\ HeadEnd(c) <= hi
  <2>1. PICK j \in 1 .. N : HeadEnd(j) - 4 >= lo /\ HeadEnd(j) <= hi
    BY <1>5 DEF Terminators
  <2>2. j >= c BY <1>3, <2>1
  <2>3. c \in 1 .. N BY <1>1, <2>2, RequestFields
  <2>4. HeadEnd(c) <= HeadEnd(j)
    <3>1. CASE j = c BY <2>3, <3>1, HeadEnds
    <3>2. CASE j # c BY <1>1, <1>4, <2>2, <3>2, RequestFields
    <3> QED BY <3>1, <3>2
  <2>5. HeadEnd(c) <= hi /\ HeadEnd(c) - 4 >= lo /\ HeadEnd(c) \in Nat
    BY <1>1, <1>2, <2>1, <2>3, <2>4, HeadEnds
  <2>6. HeadEnd(c) \in Terminators BY <2>3, <2>5 DEF Terminators
  <2>7. ASSUME NEW f \in Terminators PROVE f \in Nat /\ HeadEnd(c) <= f
    <3>1. PICK i \in 1 .. N : f = HeadEnd(i) /\ HeadEnd(i) - 4 >= lo BY <2>7 DEF Terminators
    <3>2. i >= c BY <1>3, <3>1
    <3>3. CASE i = c BY <2>5, <3>1, <3>3
    <3>4. CASE i # c
      <4>1. c < i BY <1>1, <3>2, <3>4, RequestFields
      <4> QED BY <1>4, <3>1, <4>1, HeadEnds
    <3> QED BY <3>3, <3>4
  <2>8. \A e \in Terminators : (\A f \in Terminators : e <= f) => e = HeadEnd(c)
    BY <2>5, <2>6, <2>7
  <2>9. find_header_end = HeadEnd(c)
    <3> DEFINE h == HeadEnd(c)
    <3>1. /\ h \in Terminators /\ \A f \in Terminators : h <= f
          /\ \A e \in Terminators : (\A f \in Terminators : e <= f) => e = h
      BY <2>6, <2>7, <2>8
    <3> HIDE DEF h
    <3>2. find_header_end = h BY <3>1 DEF find_header_end
    <3> QED BY <3>2 DEF h
  <2> QED BY <2>3, <2>5, <2>9
<1>6. ASSUME Terminators = {}, c <= N PROVE hi < HeadEnd(c)
  <2>1. c \in 1 .. N BY <1>1, <1>6, RequestFields
  <2>2. ~(HeadEnd(c) - 4 >= lo /\ HeadEnd(c) <= hi) BY <1>6, <2>1 DEF Terminators
  <2> QED BY <1>1, <1>2, <2>1, <2>2, HeadEnds
<1>7. c > N \/ c <= N BY <1>1, RequestFields
<1> QED BY <1>5, <1>6, <1>7 DEF c

\* Wherever the buffer starts, the terminator found lies in it.
LEMMA TerminatorInBuffer ==
  ASSUME Terminators # {}
  PROVE  find_header_end <= hi
<1>1. Terminators \subseteq Nat BY HeadEnds DEF Terminators
<1>2. PICK e \in Terminators : \A f \in Terminators : e <= f BY <1>1, LeastNat
<1>3. find_header_end \in Terminators BY <1>2 DEF find_header_end
<1> QED BY <1>3 DEF Terminators

\* Trailer lines start inside the body, the blank line two bytes before its end.
LEMMA LineStarts ==
  ASSUME Current \in 1 .. N, Requests[Current].kind = "chunked", NEW k
  PROVE  /\ LineStart(k) \in Nat
         /\ k \notin DOMAIN Trailers => LineStart(k) + 2 = Start[Current + 1]
<1>1. HeadEnd(Current) \in Nat /\ Requests[Current].body \in Nat /\ Requests[Current].body >= 2
  BY HeadEnds, RequestFields
<1>2. Start[Current + 1] = HeadEnd(Current) + Requests[Current].body
  <2>1. Start[Current + 1] = Start[Current] + Size(Current) /\ Start[Current] \in Nat
    BY StartIs, HeadEnds
  <2>2. Requests[Current].head \in Nat BY RequestFields
  <2> QED BY <1>1, <2>1, <2>2 DEF Size, HeadEnd
<1>3. CASE k \in DOMAIN Trailers
  <2>1. Trailers[k].at \in Nat BY <1>3, RequestFields DEF Trailers
  <2> QED BY <1>1, <1>3, <2>1 DEF LineStart
<1>4. CASE k \notin DOMAIN Trailers
  <2>1. LineStart(k) = HeadEnd(Current) + (Requests[Current].body - 2) BY <1>4 DEF LineStart
  <2> QED BY <1>1, <1>2, <1>4, <2>1
<1> QED BY <1>3, <1>4

-----------------------------------------------------------------------------

LEMMA InitConn == Init => ConnInv
<1> SUFFICES ASSUME Init PROVE ConnInv OBVIOUS
<1>1. /\ sent = 0 /\ lo = 0 /\ hi = 0 /\ served = 0 /\ age = 0 /\ held = 0
      /\ state = "top" /\ why = "open" /\ Current = 1 /\ misread = FALSE
  BY DEF Init, Current
<1>2. ConnTypes BY <1>1, RequestFields DEF ConnTypes
<1>3. Unpipelined
  <2>1. \A j \in 1 .. N : Start[j + 1] \in Nat BY HeadEnds
  <2> QED BY <1>1, <2>1 DEF Unpipelined
<1>4. Framed BY <1>1, StartIs DEF Framed
<1>5. Timed BY <1>1, ConnAssumption DEF Timed
<1> QED BY <1>2, <1>3, <1>4, <1>5 DEF ConnInv

\* The client sends no further than the first unanswered request that it may
\* not pipeline behind.
LEMMA ClientStep ==
  ASSUME "none" \notin PipelineBehind, ConnInv, ClientSends
  PROVE  ConnInv'
<1>1. /\ sent' = sent + 1
      /\ UNCHANGED <<lo, hi, hend, armed, age, held, served, state, why, line, misread>>
  BY DEF ClientSends, decoder
<1>2. ConnTypes' BY <1>1 DEF ConnInv, ConnTypes
<1>3. Unpipelined'
  <2> SUFFICES ASSUME NEW j \in 1 .. N, j > served, Requests[j].kind = "none"
               PROVE  sent + 1 <= Start[j + 1]
    BY <1>1 DEF Unpipelined
  <2>1. PICK i \in 1 .. N :
          /\ sent \in Start[i] .. Start[i + 1] - 1
          /\ \A k \in 1 .. i - 1 : k <= served \/ Requests[k].kind \in PipelineBehind
    BY DEF ClientSends
  <2>2. served \in Nat /\ N \in Nat BY RequestFields DEF ConnInv, ConnTypes
  <2>3. i <= j
    <3> SUFFICES ASSUME j < i PROVE FALSE BY <2>2
    <3>1. j \in 1 .. i - 1 BY <2>2
    <3> QED BY <2>1, <2>2, <3>1
  <2>4. Start[i + 1] <= Start[j + 1]
    <3>1. j + 1 \in 1 .. N + 1 /\ i < j + 1 BY <2>2, <2>3
    <3> QED BY <3>1, StartMono
  <2>5. Start[i] \in Nat /\ Start[i + 1] \in Nat /\ Start[j + 1] \in Nat BY HeadEnds
  <2> QED BY <2>1, <2>4, <2>5
<1>4. Framed' BY <1>1 DEF ConnInv, Framed, Aligned, Current, LineStart, Trailers
<1>5. Timed' BY <1>1 DEF ConnInv, Timed, Current
<1> QED BY <1>2, <1>3, <1>4, <1>5 DEF ConnInv

\* Steps that leave the stream, the buffer and the count of requests alone.
LEMMA SameStream ==
  ASSUME ConnTypes, Unpipelined, UNCHANGED <<sent, lo, hi, served>>, age' \in Nat, held' \in Nat
  PROVE  ConnTypes' /\ Unpipelined'
BY DEF ConnTypes, Unpipelined

LEMMA HeaderStep ==
  ASSUME ConnInv, Top \/ HeaderFound \/ HeaderRefused \/ RecvFails
  PROVE  ConnInv'
<1>1. ConnTypes /\ Unpipelined /\ Framed /\ Timed BY DEF ConnInv
<1>2. age \in Nat /\ held \in Nat /\ Timeout \in Nat \ {0} /\ held = age /\ age < 2 * Timeout
  BY <1>1, ConnAssumption DEF ConnTypes, Timed
<1>3. CASE Top
  <2>1. /\ state = "top" /\ UNCHANGED <<sent, lo, hi, hend, served, misread>>
        /\ \/ state' = "closed" /\ why' = "done" /\ UNCHANGED <<armed, age, held>>
           \/ state' = "header" /\ age' = 0 /\ held' = 0 /\ UNCHANGED why
    BY <1>3 DEF Top, Close, decoder
  <2>2. Current' = Current BY <2>1 DEF Current
  <2>3. ~misread => lo = Start[Current] BY <1>1, <2>1 DEF Framed
  <2>4. Framed' BY <2>1, <2>2, <2>3 DEF Framed
  <2>5. Timed' BY <1>1, <1>2, <2>1, <2>2 DEF Timed
  <2>6. age' \in Nat /\ held' \in Nat BY <1>2, <2>1
  <2> QED BY <1>1, <2>1, <2>4, <2>5, <2>6, SameStream DEF ConnInv
<1>4. CASE HeaderFound
  <2>1. /\ state = "header" /\ state' = "parse" /\ Terminators # {} /\ hend' = find_header_end
        /\ UNCHANGED <<sent, lo, hi, armed, age, held, served, why, misread>>
    BY <1>4 DEF HeaderFound, decoder
  <2>2. Current' = Current BY <2>1 DEF Current
  <2>3. ASSUME ~misread PROVE Aligned'
    <3>1. lo = Start[Current] BY <1>1, <2>1, <2>3 DEF Framed
    <3>2. Current \in 1 .. N /\ find_header_end = HeadEnd(Current)
      BY <1>1, <2>1, <3>1, FirstTerminator
    <3> QED BY <2>1, <2>2, <3>1, <3>2 DEF Aligned
  <2>4. hend' <= hi' BY <2>1, TerminatorInBuffer
  <2>6. Framed' BY <2>1, <2>3, <2>4 DEF Framed
  <2>7. Timed' BY <1>1, <2>1, <2>2 DEF Timed
  <2> QED BY <1>1, <1>2, <2>1, <2>6, <2>7, SameStream DEF ConnInv
<1>5. CASE HeaderRefused
  <2>1. /\ state = "header" /\ state' = "closed" /\ Terminators = {}
        /\ UNCHANGED <<sent, lo, hi, hend, armed, age, held, served, misread>>
    BY <1>5 DEF HeaderRefused, Close, decoder
  <2>2. Current' = Current BY <2>1 DEF Current
  <2>3. ~misread => lo = Start[Current] BY <1>1, <2>1 DEF Framed
  <2>4. ~misread => Current > N \/ hi < HeadEnd(Current) BY <1>1, <2>1, <2>3, FirstTerminator
  <2>5. Framed' BY <2>1 DEF Framed
  <2>6. Timed' BY <1>1, <2>1, <2>2, <2>4 DEF Timed
  <2> QED BY <1>1, <1>2, <2>1, <2>5, <2>6, SameStream DEF ConnInv
<1>6. CASE RecvFails
  <2>1. /\ state = "header" /\ state' = "closed" /\ Terminators = {} /\ ~(armed /\ age >= Timeout)
        /\ UNCHANGED <<sent, lo, hi, hend, armed, served, misread>>
        /\ \/ UNCHANGED <<age, held>>
           \/ age' = age + Timeout /\ held' = held + Timeout
    BY <1>6 DEF RecvFails, Waiting, Close, decoder
  <2>2. Current' = Current BY <2>1 DEF Current
  <2>3. ~misread => lo = Start[Current] BY <1>1, <2>1 DEF Framed
  <2>4. ~misread => Current > N \/ hi < HeadEnd(Current) BY <1>1, <2>1, <2>3, FirstTerminator
  <2>5. Framed' BY <2>1 DEF Framed
  <2>6. age < Timeout BY <1>1, <1>2, <2>1 DEF Timed
  <2>7. age' \in Nat /\ held' = age' /\ age' < 2 * Timeout BY <1>2, <2>1, <2>6
  <2>8. Timed' BY <2>1, <2>2, <2>4, <2>7 DEF Timed
  <2> QED BY <1>1, <2>1, <2>5, <2>7, <2>8, SameStream DEF ConnInv
<1> QED BY <1>3, <1>4, <1>5, <1>6

LEMMA RecvStep ==
  ASSUME ConnInv, NEW n \in 1 .. sent - hi, NEW d \in 0 .. Timeout - 1, Recv(n, d)
  PROVE  ConnInv'
<1>1. ConnTypes /\ Unpipelined /\ Framed /\ Timed BY DEF ConnInv
<1>2. /\ age \in Nat /\ Timeout \in Nat \ {0} /\ held = age /\ hi \in Nat /\ sent \in Nat
      /\ d \in Nat /\ d < Timeout
  BY <1>1, ConnAssumption DEF ConnTypes, Timed
<1>3. /\ state = "header" /\ ~(armed /\ age >= Timeout) /\ hi' = hi + n /\ armed' = TRUE
      /\ age' = (IF armed THEN age + d ELSE 0) /\ held' = (IF armed THEN held + d ELSE 0)
      /\ UNCHANGED <<sent, lo, hend, served, state, why, misread>>
  BY DEF Recv, Waiting, decoder
<1>4. Current' = Current BY <1>3 DEF Current
<1>5. held' = age' /\ age' \in Nat /\ age' < 2 * Timeout BY <1>2, <1>3
<1>6. ConnTypes' BY <1>1, <1>2, <1>3, <1>5 DEF ConnTypes
<1>7. Unpipelined' BY <1>1, <1>3 DEF Unpipelined
<1>8. Framed' BY <1>1, <1>3, <1>4 DEF Framed
<1>9. Timed' BY <1>1, <1>3, <1>4, <1>5 DEF Timed
<1> QED BY <1>6, <1>7, <1>8, <1>9 DEF ConnInv

LEMMA BodyStep ==
  ASSUME ConnInv, Parse \/ ReadBody \/ BodyFails
  PROVE  ConnInv'
<1>1. ConnTypes /\ Unpipelined /\ Framed /\ Timed BY DEF ConnInv
<1>2. age \in Nat /\ held \in Nat BY <1>1 DEF ConnTypes
<1>3. CASE Parse \/ BodyFails
  <2>1. /\ UNCHANGED <<sent, lo, hi, hend, armed, age, held, served, misread>>
        /\ state \in {"parse", "body", "trailer", "size"}
        /\ \/ state' = "closed" /\ why' = "refused"
           \/ /\ Aligned /\ state = "parse" /\ UNCHANGED why
              /\ state' = IF Requests[Current].kind = "none" THEN "reply" ELSE "body"
    BY <1>3 DEF Parse, BodyFails, Close, decoder
  <2>2. Current' = Current BY <2>1 DEF Current
  <2>3. Aligned' <=> Aligned BY <2>1, <2>2 DEF Aligned
  <2>4. Framed'
    <3>1. CASE state' = "closed" BY <3>1 DEF Framed
    <3>2. CASE state' # "closed"
      <4>1. Aligned /\ hend <= hi /\ Current <= N BY <1>1, <2>1, <3>2 DEF Framed, Aligned
      <4> QED BY <2>1, <2>2, <2>3, <3>2, <4>1 DEF Framed
    <3> QED BY <3>1, <3>2
  <2>5. Timed' BY <1>1, <2>1, <2>2 DEF Timed
  <2> QED BY <1>1, <1>2, <2>1, <2>4, <2>5, SameStream DEF ConnInv
<1>4. CASE ReadBody
  <2> DEFINE end == Start[Current + 1]
  <2>1. /\ state = "body" /\ state' = "reply" /\ sent >= end /\ lo' = end
        /\ hi' = IF hi > end THEN hi ELSE end
        /\ UNCHANGED <<sent, hend, armed, age, held, served, why, misread>>
    BY <1>4 DEF ReadBody, decoder
  <2>2. Current' = Current BY <2>1 DEF Current
  <2>3. Aligned /\ Requests[Current].kind # "none" /\ Current <= N
    BY <1>1, <2>1 DEF Framed, Aligned
  <2>4. Current \in 1 .. N BY <1>1, <2>3, RequestFields DEF ConnTypes, Current
  <2>5. end \in Nat BY <2>4, HeadEnds
  <2> HIDE DEF end
  <2>6. hi' \in Nat /\ end <= hi' /\ hi' <= sent BY <1>1, <2>1, <2>5 DEF ConnTypes
  <2>7. ConnTypes' BY <1>1, <2>1, <2>5, <2>6 DEF ConnTypes
  <2>8. Unpipelined' BY <1>1, <2>1 DEF Unpipelined
  <2>9. Framed' BY <2>1, <2>2, <2>3 DEF Framed, end
  <2>10. Timed' BY <1>1, <2>1, <2>2 DEF Timed
  <2> QED BY <2>7, <2>8, <2>9, <2>10 DEF ConnInv
<1> QED BY <1>3, <1>4

\* The decoder's offset is at the start of a trailer line or of the blank line
\* whenever it looks for one, whatever came in pieces.
LEMMA TrailerStep ==
  ASSUME ConnInv, DecodeChunks \/ TrailerLine \/ TrailerAsSize
  PROVE  ConnInv'
<1>1. ConnTypes /\ Unpipelined /\ Framed /\ Timed BY DEF ConnInv
<1>2. /\ state \in {"body", "trailer", "size"}
      /\ UNCHANGED <<sent, hend, armed, age, held, served, misread>>
      /\ state' # "closed" => UNCHANGED why
      /\ state' = "closed" => why' = "refused"
  BY DEF DecodeChunks, TrailerLine, TrailerAsSize, Close
<1>3. Current <= N /\ Requests[Current].kind = "chunked"
  BY <1>1, <1>2 DEF Framed, Aligned, DecodeChunks, TrailerLine, TrailerAsSize
<1>4. Current \in 1 .. N BY <1>1, <1>3, RequestFields DEF ConnTypes, Current
<1>5. Current' = Current /\ Trailers' = Trailers BY <1>2 DEF Current, Trailers
<1>6. LineStart(line)' = LineStart(line') BY <1>5 DEF LineStart
<1>7. \A k : /\ LineStart(k) \in Nat
             /\ k \notin DOMAIN Trailers => LineStart(k) + 2 = Start[Current + 1]
  BY <1>3, <1>4, LineStarts
<1>8. Start[Current + 1] \in Nat BY <1>4, HeadEnds
<1>9. lo \in Nat /\ hi \in Nat /\ sent \in Nat /\ lo <= hi /\ hi <= sent BY <1>1 DEF ConnTypes
<1>10. /\ lo' \in Nat /\ hi' \in Nat /\ lo' <= hi' /\ hi' <= sent
       /\ state' \in {"trailer", "size", "reply", "closed"}
       /\ state' = "trailer" => lo' = LineStart(line')
       /\ state' = "reply" => lo' = Start[Current + 1]
  <2>1. CASE DecodeChunks BY <1>7, <1>9, <2>1 DEF DecodeChunks
  <2>2. CASE TrailerLine
    <3>1. lo = LineStart(line) /\ state = "trailer" BY <1>1, <2>2 DEF TrailerLine, Framed
    <3>2. UNCHANGED hi /\ hi - lo >= 2 BY <2>2 DEF TrailerLine
    <3>3. CASE line \notin DOMAIN Trailers
      <4>1. lo' = Start[Current + 1] /\ state' = "reply" BY <2>2, <3>3 DEF TrailerLine
      <4> QED BY <1>7, <1>8, <1>9, <3>1, <3>2, <3>3, <4>1
    <3>4. CASE line \in DOMAIN Trailers
      <4>1. \/ lo' = LineStart(line + 1) /\ line' = line + 1 /\ lo' <= hi /\ state' = "trailer"
            \/ lo' = lo /\ state' = "size"
        BY <2>2, <3>1, <3>4 DEF TrailerLine
      <4> QED BY <1>7, <1>9, <3>2, <4>1
    <3> QED BY <3>3, <3>4
  <2>3. CASE TrailerAsSize
    <3>1. /\ UNCHANGED hi
          /\ \/ lo' = LineStart(line + 1) /\ line' = line + 1 /\ lo' <= hi /\ state' = "trailer"
             \/ lo' = lo /\ state' = "closed"
      BY <2>3 DEF TrailerAsSize, Close
    <3> QED BY <1>7, <1>9, <3>1
  <2> QED BY <2>1, <2>2, <2>3
<1>11. ConnTypes' BY <1>1, <1>2, <1>10 DEF ConnTypes
<1>12. Unpipelined' BY <1>1, <1>2 DEF Unpipelined
<1>13. Framed' BY <1>3, <1>5, <1>6, <1>10 DEF Framed
<1>14. Timed' BY <1>1, <1>2, <1>5, <1>10 DEF Timed
<1> QED BY <1>11, <1>12, <1>13, <1>14 DEF ConnInv

LEMMA TrailerRecvStep ==
  ASSUME ConnInv, NEW n \in 1 .. sent - hi, TrailerRecv(n)
  PROVE  ConnInv'
<1>1. ConnTypes /\ Unpipelined /\ Framed /\ Timed BY DEF ConnInv
<1>2. /\ state \in {"trailer", "size"} /\ hi' = hi + n
      /\ UNCHANGED <<sent, lo, hend, armed, age, held, served, state, why, line, misread>>
  BY DEF TrailerRecv, decoder
<1>3. Current' = Current BY <1>2 DEF Current
<1>4. LineStart(line)' = LineStart(line) BY <1>2, <1>3 DEF LineStart, Trailers
<1>5. ConnTypes' BY <1>1, <1>2 DEF ConnTypes
<1>6. Unpipelined' BY <1>1, <1>2 DEF Unpipelined
<1>7. Framed' BY <1>1, <1>2, <1>3, <1>4 DEF Framed
<1>8. why = "open" BY <1>1, <1>2 DEF Timed
<1>9. Timed' BY <1>1, <1>2, <1>8 DEF Timed
<1> QED BY <1>5, <1>6, <1>7, <1>9 DEF ConnInv

LEMMA MisreadStep ==
  ASSUME ConnInv, NEW to \in lo .. sent, NEW top \in hi .. sent, to <= top,
         TrailerAsChunk(to, top)
  PROVE  ConnInv'
<1>1. ConnTypes /\ Unpipelined /\ Framed /\ Timed BY DEF ConnInv
<1>2. /\ state = "size" /\ misread' = TRUE
      /\ UNCHANGED <<sent, hend, armed, age, held, served>>
      /\ \/ lo' = to /\ hi' = top /\ state' = "reply" /\ UNCHANGED why
         \/ state' = "closed" /\ why' = "refused" /\ UNCHANGED <<lo, hi>>
  BY DEF TrailerAsChunk, Close
<1>3. Current' = Current /\ Current <= N /\ Requests[Current].kind = "chunked"
  BY <1>1, <1>2 DEF Current, Framed
<1>4. lo' \in Nat /\ hi' \in Nat /\ lo' <= hi' /\ hi' <= sent BY <1>1, <1>2 DEF ConnTypes
<1>5. ConnTypes' BY <1>1, <1>2, <1>4 DEF ConnTypes
<1>6. Unpipelined' BY <1>1, <1>2 DEF Unpipelined
<1>7. Framed' BY <1>2, <1>3 DEF Framed
<1>8. Timed' BY <1>1, <1>2 DEF Timed
<1> QED BY <1>5, <1>6, <1>7, <1>8 DEF ConnInv

\* Compact finds nothing behind the header block, which is why its four bytes
\* too many do no harm here.
LEMMA ReplyStep ==
  ASSUME ConnInv, Reply
  PROVE  ConnInv'
<1>1. ConnTypes /\ Unpipelined /\ Framed /\ Timed BY DEF ConnInv
<1>2. /\ state = "reply" /\ UNCHANGED <<sent, hi, hend, armed, age, held, misread>>
      /\ \/ state' = "closed" /\ why' = "error" /\ UNCHANGED <<served, lo>>
         \/ state' = "closed" /\ why' = "done" /\ served' = served + 1 /\ UNCHANGED lo
         \/ Compact /\ served' = served + 1 /\ state' = "top" /\ UNCHANGED why
  BY DEF Reply, Close, decoder
<1>3. /\ Current = served + 1 /\ Current \in 1 .. N /\ served \in Nat /\ N \in Nat
      /\ lo \in Nat /\ hi \in Nat /\ sent \in Nat /\ lo <= hi /\ hi <= sent
  <2>1. Current <= N BY <1>1, <1>2 DEF Framed
  <2> QED BY <1>1, <2>1, RequestFields DEF ConnTypes, Current
<1>4. Unpipelined'
  <2>1. served' >= served /\ served' \in Nat BY <1>2, <1>3
  <2> QED BY <1>1, <1>2, <1>3, <2>1 DEF Unpipelined
<1>5. CASE state' = "closed"
  <2>1. ConnTypes' BY <1>1, <1>2, <1>3, <1>5 DEF ConnTypes
  <2>2. Framed' BY <1>5 DEF Framed
  <2>3. Timed' BY <1>1, <1>2, <1>5 DEF Timed
  <2> QED BY <1>4, <2>1, <2>2, <2>3 DEF ConnInv
<1>6. CASE state' # "closed"
  <2>1. Compact /\ served' = served + 1 /\ state' = "top" /\ UNCHANGED why BY <1>2, <1>6
  <2> DEFINE end == Start[Current + 1]
  <2>2. end \in Nat BY <1>3, HeadEnds
  <2>3. (~misread => lo' = end) /\ lo' \in Nat /\ lo' <= hi
    <3>1. CASE Requests[Current].kind # "none"
      <4>1. lo' = lo /\ (~misread => lo = end) BY <1>1, <1>2, <2>1, <3>1 DEF Compact, Framed
      <4> QED BY <1>3, <4>1
    <3>2. CASE Requests[Current].kind = "none"
      <4>1. Aligned /\ hend <= hi BY <1>1, <1>2, <3>2 DEF Framed
      <4>2. hend = HeadEnd(Current) /\ HeadEnd(Current) = end BY <1>3, <3>2, <4>1, HeadEnds DEF Aligned
      <4>3. sent <= end BY <1>1, <1>3, <3>2 DEF Unpipelined
      <4>4. hi = end BY <1>3, <2>2, <4>1, <4>2, <4>3
      <4>5. lo' = IF hi - lo > (hend - lo) + 4 THEN lo + ((hend - lo) + 4) ELSE hi
        BY <2>1, <3>2 DEF Compact
      <4>6. hend = end BY <4>2
      <4> HIDE DEF end
      <4> QED BY <1>3, <2>2, <4>4, <4>5, <4>6
    <3> QED BY <3>1, <3>2
  <2>4. Current' = Current + 1 BY <1>3, <2>1 DEF Current
  <2>5. ConnTypes' BY <1>1, <1>2, <1>3, <2>1, <2>2, <2>3 DEF ConnTypes
  <2>6. Framed' BY <1>2, <2>1, <2>3, <2>4 DEF Framed
  <2>7. why' = "open" BY <1>1, <1>2, <2>1 DEF Timed
  <2>8. Timed' BY <1>1, <1>2, <2>1, <2>7 DEF Timed
  <2> QED BY <1>4, <2>5, <2>6, <2>8 DEF ConnInv
<1> QED BY <1>5, <1>6

LEMMA NextConn ==
  ASSUME "none" \notin PipelineBehind, ConnInv, [Next]_vars
  PROVE  ConnInv'
<1>1. CASE ClientSends BY <1>1, ClientStep
<1>2. CASE ClientCloses \/ StopServer \/ Closed \/ UNCHANGED vars
  <2>1. UNCHANGED <<sent, lo, hi, hend, armed, age, held, served, state, why, line,
                  misread>>
    BY <1>2 DEF ClientCloses, StopServer, Closed, vars, decoder
  <2>2. Current' = Current BY <2>1 DEF Current
  <2>3. ConnTypes' /\ Unpipelined' BY <2>1, SameStream DEF ConnInv, ConnTypes
  <2>4. Framed' BY <2>1, <2>2 DEF ConnInv, Framed, Aligned, LineStart, Trailers
  <2>5. Timed' BY <2>1, <2>2 DEF ConnInv, Timed
  <2> QED BY <2>3, <2>4, <2>5 DEF ConnInv
<1>3. CASE Server
  <2>1. CASE Top \/ HeaderFound \/ HeaderRefused \/ RecvFails BY <2>1, HeaderStep
  <2>2. ASSUME NEW n \in 1 .. sent - hi, NEW d \in 0 .. Timeout - 1, Recv(n, d) PROVE ConnInv'
    BY <2>2, RecvStep
  <2>3. CASE Parse \/ ReadBody \/ BodyFails BY <2>3, BodyStep
  <2>4. CASE Reply BY <2>4, ReplyStep
  <2>5. CASE DecodeChunks \/ TrailerLine \/ TrailerAsSize BY <2>5, TrailerStep
  <2>6. ASSUME NEW n \in 1 .. sent - hi, TrailerRecv(n) PROVE ConnInv'
    BY <2>6, TrailerRecvStep
  <2>7. ASSUME NEW to \in lo .. sent, NEW top \in hi .. sent, to <= top, TrailerAsChunk(to, top)
        PROVE  ConnInv'
    BY <2>7, MisreadStep
  <2> QED BY <1>3, <2>1, <2>2, <2>3, <2>4, <2>5, <2>6, <2>7 DEF Server
<1> QED BY <1>1, <1>2, <1>3 DEF Next

-----------------------------------------------------------------------------

\* Where the buffer starts, until a trailer line is misread, and what the timers
\* hold, at each point of the loop.
THEOREM ConnInvariant ==
  ASSUME "none" \notin PipelineBehind
  PROVE  Spec => []ConnInv
BY InitConn, NextConn, PTL DEF Spec

\* Every header block that handle_connection parses is the client's next
\* request, whole, when nothing is pipelined behind a request without a body and
\* until read_chunked_body takes a trailer line for the size of a chunk, which
\* it does only with one that arrived in pieces (TrailerLine).
THEOREM FramingInSync ==
  ASSUME "none" \notin PipelineBehind
  PROVE  Spec => []InSync
<1>1. ConnInv => InSync BY DEF ConnInv, Framed, InSync
<1> QED BY <1>1, ConnInvariant, PTL

\* The header phase lasts less than twice the timeout, and a request is timed
\* out only while its header block is incomplete, as long as the framing holds.
THEOREM TimeoutsJustified ==
  ASSUME "none" \notin PipelineBehind
  PROVE  Spec => []TimeoutsRight
<1>1. ConnInv => TimeoutsRight
  <2> SUFFICES ASSUME ConnInv PROVE TimeoutsRight OBVIOUS
  <2>1. held = age /\ age < 2 * Timeout BY DEF ConnInv, Timed
  <2> QED BY <2>1 DEF ConnInv, Timed, TimeoutsRight
<1> QED BY <1>1, ConnInvariant, PTL
=============================================================================

------------------------------ MODULE HttpConn ------------------------------
(***************************************************************************)
(* net/http, handle_connection: the keep-alive loop that cuts one byte     *)
(* stream into requests.  A byte is its offset in the stream the client    *)
(* sends; the read buffer always holds a run of consecutive bytes, so it   *)
(* is the pair lo, hi (rbuf[0] is byte lo, rbuf_len is hi - lo).  Requests *)
(* are cut by their header block, which ends in the four bytes CRLFCRLF,   *)
(* and by their body.  Time passes only inside recv.  Routing, formatting  *)
(* and sending a response is one step that succeeds or fails.              *)
(*                                                                         *)
(* The chunks of a chunked body are decoded in one step; the trailer lines *)
(* behind them, where the decoder depends on how the stream was cut, are   *)
(* read one by one.                                                        *)
(***************************************************************************)
EXTENDS Integers, Sequences

CONSTANTS
  Requests,      \* what the client sends: a sequence of records, see below
  PipelineBehind, \* kinds of request that it sends the next request behind
                 \* without waiting for the answer
  BufCap,        \* rbuf_cap
  Timeout,       \* recv_timeout_ms, for each recv and for the header phase
  KeepAliveMax   \* keep_alive_max

(* A request has `head' bytes of header block, terminator included, and     *)
(* `body' bytes of encoded body, framed by `kind'.  A chunked body ends in  *)
(* trailer lines, each at its offset in the body, and a blank line; `size'  *)
(* is the number a trailer line starts with when read as a hexadecimal, -1  *)
(* if it starts with none.                                                  *)
Lines == [at : Nat, size : Nat \cup {-1}]
ASSUME ConnAssumption ==
  /\ Requests \in Seq([head : Nat, kind : {"none", "length", "chunked"}, body : Nat,
                       trailers : Seq(Lines)])
  /\ \A i \in 1 .. Len(Requests) :
       /\ Requests[i].head >= 4
       /\ (Requests[i].kind = "none") <=> (Requests[i].body = 0)
       /\ Requests[i].kind = "chunked" => Requests[i].body >= 2
       /\ \A k \in 1 .. Len(Requests[i].trailers) :
            Requests[i].trailers[k].at <= Requests[i].body - 2
  /\ Timeout \in Nat \ {0}

VARIABLES
  sent,       \* bytes the client has sent
  eof,        \* it has closed its side
  lo, hi,     \* the read buffer
  hend,       \* end of the header block found
  armed, age, \* is the header deadline armed, and time since then
  held,       \* history: time since the first byte of the request was there
  served,     \* requests answered on this connection
  state,      \* "top", "header", "parse", "body", "trailer", "size", "reply",
              \* "closed"
  line,       \* the trailer line that the decoder is at
  misread,    \* history: a trailer line was taken for the size of a chunk
  why,        \* why the connection was closed
  running     \* srv->running

decoder == <<line, misread>>
vars == <<sent, eof, lo, hi, hend, armed, age, held, served, state, why, running, decoder>>

N == Len(Requests)

\* First byte of each request; Start[N + 1] is the length of the stream.
Start[i \in 1 .. N + 1] ==
  IF i = 1 THEN 0 ELSE Start[i - 1] + Requests[i - 1].head + Requests[i - 1].body
HeadEnd(i) == Start[i] + Requests[i].head

Init ==
  /\ sent = 0 /\ eof = FALSE
  /\ lo = 0 /\ hi = 0 /\ hend = 0
  /\ armed = FALSE /\ age = 0 /\ held = 0
  /\ served = 0 /\ state = "top" /\ why = "open"
  /\ running = TRUE
  /\ line = 1 /\ misread = FALSE

Close(reason) == state' = "closed" /\ why' = reason

-----------------------------------------------------------------------------
(* The client and the operator (external) *)

\* The client may send what belongs to a request when every request before it
\* has been answered or may be pipelined behind.
ClientSends ==
  /\ ~eof
  /\ \E i \in 1 .. N :
       /\ sent \in Start[i] .. Start[i + 1] - 1
       /\ \A j \in 1 .. i - 1 : j <= served \/ Requests[j].kind \in PipelineBehind
  /\ sent' = sent + 1
  /\ UNCHANGED <<eof, lo, hi, hend, armed, age, held, served, state, why, running, decoder>>

ClientCloses ==
  /\ ~eof /\ eof' = TRUE
  /\ UNCHANGED <<sent, lo, hi, hend, armed, age, held, served, state, why, running, decoder>>

StopServer ==
  /\ running /\ running' = FALSE
  /\ UNCHANGED <<sent, eof, lo, hi, hend, armed, age, held, served, state, why, decoder>>

-----------------------------------------------------------------------------
(* Reading the header block *)

\* Ends of the header blocks whose terminator lies whole in the buffer.
Terminators == {HeadEnd(i) : i \in {j \in 1 .. N : HeadEnd(j) - 4 >= lo /\ HeadEnd(j) <= hi}}
find_header_end == CHOOSE e \in Terminators : \A f \in Terminators : e <= f

\* The deadline is armed when bytes of the request are already there.
Top ==
  /\ state = "top"
  /\ \/ /\ ~running \/ served >= KeepAliveMax
        /\ Close("done")
        /\ UNCHANGED <<armed, age, held>>
     \/ /\ running /\ served < KeepAliveMax
        /\ state' = "header"
        /\ armed' = (hi > lo) /\ age' = 0 /\ held' = 0
        /\ UNCHANGED why
  /\ UNCHANGED <<sent, eof, lo, hi, hend, served, running, decoder>>

HeaderFound ==
  /\ state = "header" /\ Terminators # {}
  /\ hend' = find_header_end
  /\ state' = "parse"
  /\ UNCHANGED <<sent, eof, lo, hi, armed, age, held, served, why, running, decoder>>

\* 431 on a full buffer, 408 past the deadline.
HeaderRefused ==
  /\ state = "header" /\ Terminators = {}
  /\ \/ hi - lo >= BufCap /\ Close("431")
     \/ hi - lo < BufCap /\ armed /\ age >= Timeout /\ Close("408")
  /\ UNCHANGED <<sent, eof, lo, hi, hend, armed, age, held, served, running, decoder>>

Waiting == state = "header" /\ Terminators = {} /\ hi - lo < BufCap /\ ~(armed /\ age >= Timeout)

\* Mutant: every byte moves the deadline.
Recv_Rearms(n, d) ==
  /\ Waiting
  /\ hi' = hi + n
  /\ armed' = TRUE
  /\ age' = 0
  /\ held' = IF armed THEN held + d ELSE 0
  /\ UNCHANGED <<sent, eof, lo, hend, served, state, why, running, decoder>>

\* recv returns n bytes after a wait of d.
Recv(n, d) ==
  /\ Waiting
  /\ hi' = hi + n
  /\ armed' = TRUE
  /\ age' = IF armed THEN age + d ELSE 0
  /\ held' = IF armed THEN held + d ELSE 0
  /\ UNCHANGED <<sent, eof, lo, hend, served, state, why, running, decoder>>

\* Mutant: a timeout is retried like an interrupted call.
RecvFails_Retries ==
  /\ Waiting
  /\ eof /\ hi = sent /\ Close("eof")
  /\ UNCHANGED <<sent, eof, lo, hi, hend, armed, age, held, served, running, decoder>>

\* It returns 0, times out (408 for a first request, else a silent close), or
\* fails.
RecvFails ==
  /\ Waiting
  /\ \/ eof /\ hi = sent /\ Close("eof") /\ UNCHANGED <<age, held>>
     \/ hi = sent /\ ~eof /\ Close("timeout") /\ age' = age + Timeout /\ held' = held + Timeout
     \/ Close("error") /\ UNCHANGED <<age, held>>
  /\ UNCHANGED <<sent, eof, lo, hi, hend, armed, served, running, decoder>>

-----------------------------------------------------------------------------
(* Parsing, body, response *)

Current == served + 1
Aligned == Current <= N /\ lo = Start[Current] /\ hend = HeadEnd(Current)

\* parse_request and the checks on Host, framing, Expect and the path accept the
\* block or answer an error and close.  What a block that does not start where
\* a request starts parses to is not modelled: it is refused.
Parse ==
  /\ state = "parse"
  /\ \/ /\ Aligned
        /\ state' = IF Requests[Current].kind = "none" THEN "reply" ELSE "body"
        /\ UNCHANGED why
     \/ Close("refused")
  /\ UNCHANGED <<sent, eof, lo, hi, hend, armed, age, held, served, running, decoder>>

\* Mutant: what follows the body in the buffer is dropped.
ReadBody_DropsRest ==
  /\ state = "body" /\ Requests[Current].kind = "length" /\ sent >= Start[Current + 1]
  /\ hi' = (IF hi > Start[Current + 1] THEN hi ELSE Start[Current + 1])
  /\ lo' = hi'
  /\ state' = "reply"
  /\ UNCHANGED <<sent, eof, hend, armed, age, held, served, why, running, decoder>>

\* The body is complete.  Bytes after it that are in the buffer move to its
\* start, over the header block.
ReadBody ==
  LET end == Start[Current + 1]
  IN /\ state = "body" /\ Requests[Current].kind = "length" /\ sent >= end
     /\ hi' = (IF hi > end THEN hi ELSE end)
     /\ hi' - end <= BufCap
     /\ lo' = end
     /\ state' = "reply"
     /\ UNCHANGED <<sent, eof, hend, armed, age, held, served, why, running, decoder>>

\* Where a trailer line of the current request starts in the stream; behind the
\* last one is the blank line.
Trailers == Requests[Current].trailers
LineStart(k) ==
  HeadEnd(Current) +
    IF k \in DOMAIN Trailers THEN Trailers[k].at ELSE Requests[Current].body - 2

\* The chunks, the last one of size 0 included, are in; they go through the
\* buffer, and the last recv may bring in bytes that follow them.  From here lo
\* is the decoder's offset: the bytes before it are not looked at again.
DecodeChunks ==
  LET low == IF hi > LineStart(1) THEN hi ELSE LineStart(1)
  IN /\ state = "body" /\ Requests[Current].kind = "chunked"
     /\ line' = 1 /\ lo' = LineStart(1)
     /\ hi' \in low .. sent
     /\ hi' - lo' <= BufCap
     /\ state' = "trailer"
     /\ UNCHANGED <<sent, eof, hend, armed, age, held, served, why, running, misread>>

\* More is needed: two bytes to tell the blank line, the end of the line to read
\* a size.
TrailerRecv(n) ==
  /\ \/ state = "trailer" /\ hi - lo < 2
     \/ state = "size" /\ LineStart(line + 1) > hi
  /\ hi' = hi + n
  /\ UNCHANGED <<sent, eof, lo, hend, armed, age, held, served, state, why, running, decoder>>

\* The blank line ends the body, a whole line is skipped; for a line of which
\* only a part is there the loop starts over, at the size of a chunk.
TrailerLine ==
  /\ state = "trailer" /\ hi - lo >= 2
  /\ \/ /\ line \notin DOMAIN Trailers
        /\ lo' = Start[Current + 1] /\ state' = "reply"
        /\ line' = 1
     \/ /\ line \in DOMAIN Trailers /\ LineStart(line + 1) <= hi
        /\ lo' = LineStart(line + 1) /\ line' = line + 1
        /\ UNCHANGED state
     \/ /\ line \in DOMAIN Trailers /\ LineStart(line + 1) > hi
        /\ state' = "size"
        /\ UNCHANGED <<lo, line>>
  /\ UNCHANGED <<sent, eof, hi, hend, armed, age, held, served, why, running, misread>>

\* The rest of the line is there and what it starts with is taken for a size: 0
\* goes on with the trailers, no number is refused.
TrailerAsSize ==
  /\ state = "size" /\ LineStart(line + 1) <= hi
  /\ \/ /\ Trailers[line].size = 0
        /\ lo' = LineStart(line + 1) /\ line' = line + 1
        /\ state' = "trailer" /\ UNCHANGED why
     \/ Trailers[line].size = -1 /\ Close("refused") /\ UNCHANGED <<lo, line>>
  /\ UNCHANGED <<sent, eof, hi, hend, armed, age, held, served, running, misread>>

\* Any other number is a chunk that swallows as many bytes and a CRLF.  Where the
\* decoder gets to from there depends on the bytes: anywhere, or to an error.
TrailerAsChunk(to, top) ==
  /\ state = "size" /\ LineStart(line + 1) <= hi /\ Trailers[line].size > 0
  /\ misread' = TRUE
  /\ \/ /\ to >= LineStart(line + 1) + Trailers[line].size + 2
        /\ lo' = to /\ hi' = top
        /\ state' = "reply" /\ UNCHANGED why
     \/ Close("refused") /\ UNCHANGED <<lo, hi>>
  /\ UNCHANGED <<sent, eof, hend, armed, age, held, served, running, line>>

\* Too long, out of memory, no room, cut short or timed out: an error answer.
BodyFails ==
  /\ state \in {"body", "trailer", "size"}
  /\ Close("refused")
  /\ UNCHANGED <<sent, eof, lo, hi, hend, armed, age, held, served, running, decoder>>

\* A request without a body still has its header block in the buffer.
Compact ==
  IF Requests[Current].kind # "none" THEN UNCHANGED lo
  ELSE LET hdr_sz == (hend - lo) + 4
       IN lo' = IF hi - lo > hdr_sz THEN lo + hdr_sz ELSE hi

Reply ==
  /\ state = "reply"
  /\ \/ Close("error") /\ UNCHANGED <<served, lo>>            \* send failed
     \/ Close("done") /\ served' = served + 1 /\ UNCHANGED lo  \* answered, will_close
     \/ /\ Current < KeepAliveMax
        /\ Compact
        /\ served' = served + 1
        /\ state' = "top" /\ UNCHANGED why
  /\ UNCHANGED <<sent, eof, hi, hend, armed, age, held, running, decoder>>

Closed == state = "closed" /\ UNCHANGED vars

Server ==
  \/ Top \/ HeaderFound \/ HeaderRefused \/ RecvFails
  \/ \E n \in 1 .. sent - hi, d \in 0 .. Timeout - 1 : hi + n - lo <= BufCap /\ Recv(n, d)
  \/ Parse \/ ReadBody \/ DecodeChunks \/ TrailerLine \/ TrailerAsSize
  \/ \E n \in 1 .. sent - hi : hi + n - lo <= BufCap /\ TrailerRecv(n)
  \/ \E to \in lo .. sent, top \in hi .. sent :
       to <= top /\ top - to <= BufCap /\ TrailerAsChunk(to, top)
  \/ BodyFails \/ Reply

Next == ClientSends \/ ClientCloses \/ StopServer \/ Server \/ Closed

Spec == Init /\ [][Next]_vars

\* The worker runs; the client and the operator do as they please.
FairSpec == Spec /\ WF_vars(Server)

-----------------------------------------------------------------------------
(* Properties *)

\* The buffer is within its capacity and only holds what was sent.
TypeOK ==
  /\ lo \in 0 .. hi /\ hi \in 0 .. sent /\ sent \in 0 .. Start[N + 1]
  /\ hi - lo <= BufCap
  /\ age \in Nat /\ held \in Nat /\ served \in 0 .. KeepAliveMax
  /\ state \in {"top", "header", "parse", "body", "trailer", "size", "reply", "closed"}

\* Framing: every header block the loop parses is the next request the client
\* sent, whole and from its first byte, however the stream was cut, until a
\* trailer line that came in two pieces is taken for the size of a chunk.
\* (handle_connection: "compact the rbuf to preserve pipelined bytes"; "so the
\* next iteration sees a fresh request at index 0".)
InSync == state = "parse" /\ ~misread => Aligned

\* The header phase ends: with bytes trickling in, no connection is held for
\* longer than the deadline and the one recv that was under way when it passed;
\* and, as long as the framing is right, one is timed out only while the request
\* it waits for is incomplete, its last byte racing the deadline as it may
\* (handle_connection).
TimeoutsRight ==
  /\ held < 2 * Timeout
  /\ why \in {"timeout", "408"} /\ ~misread => Current > N \/ hi < HeadEnd(Current)

\* A trailer line is skipped, never read as the size of a chunk of data, however
\* it arrives (read_chunked_body, of a line that is not whole yet: "we'll loop
\* back and read more. This is fine").
TrailersSkipped == ~misread

\* The worker always gets back to its pool: whatever the client does or fails
\* to do, timeouts and keep_alive_max end the connection.
ConnectionEnds == <>(state = "closed")
=============================================================================

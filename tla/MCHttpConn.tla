---------------------------- MODULE MCHttpConn ----------------------------
(* Small instances of HttpConn for TLC. *)
EXTENDS HttpConn

Plainly(h) == [head |-> h, kind |-> "none", body |-> 0, trailers |-> <<>>]
WithLength(h, b) == [head |-> h, kind |-> "length", body |-> b, trailers |-> <<>>]

\* Chunks of c bytes, trailer lines of three that start with the given sizes,
\* and the blank line.
InChunks(h, c, sizes) ==
  [head |-> h, kind |-> "chunked", body |-> c + 3 * Len(sizes) + 2,
   trailers |-> [k \in DOMAIN sizes |-> [at |-> c + 3 * (k - 1), size |-> sizes[k]]]]

\* The last header block is longer than the buffer.
Mixed ==
  <<Plainly(5), WithLength(5, 2), InChunks(5, 1, <<0, -1, 1>>), Plainly(5), Plainly(9)>>
Plain == <<Plainly(5), Plainly(6)>>
WithTrailer == <<InChunks(5, 3, <<1>>), Plainly(6)>>
=============================================================================

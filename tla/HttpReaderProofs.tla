--------------------------- MODULE HttpReaderProofs ---------------------------
(***************************************************************************)
(* Proofs about HttpReader and the parser below it, for every input, every *)
(* way to cut it into reads and every limit: no assertion of               *)
(* http_parser_execute fails, marks and positions stay inside the buffer,  *)
(* and the size of a header section is bounded.                            *)
(*                                                                         *)
(* The inductive invariant says what the parser knows in each state        *)
(* (Good), which mark may be set in it (MarksOK), where the pointers are   *)
(* (BufferOK), and that nread counts at least the bytes that were or will  *)
(* be handed over (Tallied).  A turn of the parser's switch is a step of   *)
(* one of a few forms, each with a lemma of its own; the lemma of an       *)
(* action shows that it is of such a form.                                 *)
(*                                                                         *)
(* The last part is about the callbacks of http-reader.c: whatever the     *)
(* order in which the parser makes them, each finds the request, the       *)
(* request line and the header that it dereferences.                       *)
(***************************************************************************)
EXTENDS HttpReader, FiniteSetTheorems, TLAPS

ErrorKinds == {"message_begin", "url", "header_field", "header_value", "headers_complete",
               "body", "message_complete"}
Errors == {"OK", "HEADER_OVERFLOW", "CLOSED_CONNECTION", "INVALID_METHOD", "INVALID_URL",
           "INVALID_CONSTANT", "STRICT", "INVALID_VERSION", "LF_EXPECTED",
           "INVALID_HEADER_TOKEN", "INVALID_CONTENT_LENGTH", "INVALID_CHUNK_SIZE"}
          \cup {"CB_" \o k : k \in ErrorKinds}

Flags == {"F_CHUNKED", "F_CONNECTION_KEEP_ALIVE", "F_CONNECTION_CLOSE", "F_TRAILING", "F_UPGRADE"}

HeaderStates ==
    {"h_general", "h_C", "h_CO", "h_CON", "h_matching_connection", "h_matching_proxy_connection",
     "h_matching_content_length", "h_matching_transfer_encoding", "h_matching_upgrade",
     "h_connection", "h_content_length", "h_transfer_encoding", "h_upgrade",
     "h_matching_transfer_encoding_chunked", "h_matching_connection_keep_alive",
     "h_matching_connection_close", "h_transfer_encoding_chunked", "h_connection_keep_alive",
     "h_connection_close"}

\* Between two messages; in the head of one; past it, where no string is buffered.
FreshStates == {"s_start_req", "s_dead"}
HeadStates ==
    {"s_req_method", "s_req_spaces_before_url", "s_req_schema", "s_req_schema_slash",
     "s_req_schema_slash_slash", "s_req_server_start", "s_req_server", "s_req_server_with_at",
     "s_req_path", "s_req_query_string_start", "s_req_query_string", "s_req_fragment_start",
     "s_req_fragment", "s_req_http_start", "s_req_http_H", "s_req_http_HT", "s_req_http_HTT",
     "s_req_http_HTTP", "s_req_first_http_major", "s_req_http_major", "s_req_first_http_minor",
     "s_req_http_minor", "s_req_line_almost_done", "s_header_field_start", "s_header_field",
     "s_header_value_discard_ws", "s_header_value_discard_ws_almost_done",
     "s_header_value_discard_lws", "s_header_value_start", "s_header_value", "s_header_value_lws",
     "s_header_almost_done", "s_headers_almost_done"}
ChunkStates == {"s_chunk_size_start", "s_chunk_size", "s_chunk_parameters",
                "s_chunk_size_almost_done", "s_chunk_data", "s_chunk_data_almost_done",
                "s_chunk_data_done"}
PastHead == ChunkStates \cup {"s_headers_done", "s_body_identity", "s_message_done"}

Parser ==
    [state : FreshStates \cup HeadStates \cup PastHead, flags : SUBSET Flags,
     header_state : HeaderStates, index : Nat, nread : Nat, content_length : 0..ULLONG_MAX,
     http_major : Nat, http_minor : Nat, method : Methods, http_errno : Errors, upgrade : BOOLEAN]

HeaderKinds == {"header_field", "header_value", "url"}

\* The states in which a mark of each kind may be set.
MarkStates == [header_field |-> {"s_header_field"}, header_value |-> {"s_header_value"},
               url |-> UrlStates,
               body |-> {"s_body_identity", "s_chunk_data", "s_chunk_data_almost_done"}]

Buffer == [from : Nat, to : Nat, p : Nat, again : BOOLEAN]

TypeOK == /\ input \in Inputs
          /\ buf \in Buffer
          /\ parser \in Parser
          /\ mark \in [DataKinds -> Nat]
          /\ section \in Nat
          /\ ctl.phase \in {"idle", "exec", "callback", "returned", "abort"}
          /\ ctl.phase = "callback" => ctl.kind \in ErrorKinds

\* What the assertions of the states rest on.
Good(q) ==
    /\ q.state \in {"s_body_identity", "s_chunk_data"} => q.content_length \notin {0, ULLONG_MAX}
    /\ q.state \in {"s_chunk_size", "s_chunk_parameters", "s_chunk_size_almost_done"}
           => q.content_length # ULLONG_MAX
    /\ q.state \in ChunkStates => "F_CHUNKED" \in q.flags
    /\ q.state = "s_chunk_size_start" => q.nread = 0
    /\ q.state \in {"s_chunk_data_almost_done", "s_message_done"} => q.content_length = 0
    /\ q.state = "s_header_field" => q.header_state \in FieldStates
    /\ q.state = "s_header_value" => q.header_state \notin {"h_connection", "h_transfer_encoding"}
    /\ q.nread <= HTTP_MAX_HEADER_SIZE

GoodOK ==
    /\ ctl.phase \in {"exec", "callback"} => parser.http_errno = "OK"
    /\ parser.http_errno = "OK" => Good(parser)
    /\ parser.state = "s_chunk_size_start" /\ ctl.phase \in {"exec", "callback"} => ~buf.again

Size == buf.to - buf.from + 1

BufferOK ==
    /\ 1 <= buf.from /\ buf.from <= buf.to + 1 /\ buf.to <= Len(input.text)
    /\ ctl.phase \in {"exec", "callback"} => buf.from <= buf.p /\ buf.p <= buf.to + 1
    /\ ctl.phase = "exec" =>
           \A k \in DataKinds : mark[k] # 0 => buf.from <= mark[k] /\ mark[k] <= buf.p
    /\ ctl.phase = "callback" => ctl.er \in 0..Size
    /\ ctl.phase = "returned" => ctl.parsed \in 0..Size

MarksOK ==
    /\ ctl.phase = "exec" => \A k \in DataKinds : mark[k] # 0 => parser.state \in MarkStates[k]
    /\ ctl.phase = "callback" => \A k \in DataKinds : mark[k] = 0

\* The byte at p, when it is executed again, has been counted already.
Ahead(b) == IF b.again THEN 1 ELSE 0

Tallied ==
    /\ section <= HTTP_MAX_HEADER_SIZE
    /\ ctl.phase \in {"idle", "returned"} /\ parser.http_errno = "OK" =>
           /\ parser.state \in PastHead => section = 0
           /\ parser.state \in HeadStates => section <= parser.nread
    /\ ctl.phase = "exec" =>
           /\ parser.state \in PastHead => section = 0
           /\ parser.state \in HeadStates =>
                 /\ section + Ahead(buf) <= parser.nread
                 /\ \A k \in HeaderKinds :
                       mark[k] # 0 => section + (buf.p - mark[k]) + Ahead(buf) <= parser.nread
    /\ ctl.phase = "callback" =>
           IF ctl.kind \in HeaderKinds
           THEN /\ parser.state \in HeadStates
                /\ Len(ctl.data) \in Nat
                /\ section + Len(ctl.data) + Ahead(buf) <= parser.nread
           ELSE parser.state \in HeadStates => Ahead(buf) = 0

\* A body is handed over only for a request that announced one; a callback may end the process,
\* the parser never does.
Announced(q) == "F_CHUNKED" \in q.flags \/ q.content_length # ULLONG_MAX
BodyOK == /\ ctl.phase = "callback" /\ ctl.kind = "body" => Announced(parser)
          /\ ctl.phase = "abort" => \/ ctl.where = "http_request_append_body" /\ Announced(parser)
                                   \/ ctl.where = "parser_cb_on_header_field"

IInv == TypeOK /\ GoodOK /\ BufferOK /\ MarksOK /\ Tallied /\ BodyOK

-----------------------------------------------------------------------------
(***************************************************************************)
(* The head of a turn: the byte at p has been counted in P.                *)
(***************************************************************************)
AtByte == ctl.phase = "exec" /\ buf.p <= buf.to

\* What the parser carries on with in the loop.
Sound(q) == q \in Parser /\ q.http_errno = "OK" /\ Good(q)

\* The position moves on to n.
LEMMA Forward ==
    ASSUME buf \in Buffer, NEW n \in Nat, buf' = [buf EXCEPT !.p = n, !.again = FALSE]
    PROVE  /\ buf' \in Buffer
           /\ buf'.from = buf.from /\ buf'.to = buf.to /\ buf'.p = n /\ ~buf'.again
PROOF
<1>1. buf' \in Buffer
      BY Zenon DEF Buffer
<1>2. buf'.from = buf.from /\ buf'.to = buf.to /\ buf'.p = n
      BY DEF Buffer
<1>3. ~buf'.again
      BY DEF Buffer
<1>4. QED BY <1>1, <1>2, <1>3

\* The byte at p is to be executed again.
LEMMA Again ==
    ASSUME buf \in Buffer, buf' = [buf EXCEPT !.again = TRUE]
    PROVE  /\ buf' \in Buffer
           /\ buf'.from = buf.from /\ buf'.to = buf.to /\ buf'.p = buf.p /\ buf'.again
PROOF
<1>1. buf' \in Buffer
      BY Zenon DEF Buffer
<1>2. buf'.from = buf.from /\ buf'.to = buf.to /\ buf'.p = buf.p
      BY DEF Buffer
<1>3. buf'.again
      BY DEF Buffer
<1>4. QED BY <1>1, <1>2, <1>3

\* The facts about P that the turns use.
LEMMA Counted ==
    ASSUME IInv, AtByte
    PROVE  /\ P \in Parser
           /\ P.http_errno = "OK"
           /\ P.state = parser.state /\ P.flags = parser.flags
           /\ P.content_length = parser.content_length /\ P.header_state = parser.header_state
           /\ P.state = "s_chunk_size_start" => P.nread = 1
           /\ P.state \in PastHead => section = 0
           /\ P.state \in HeadStates =>
                 /\ section + 1 <= P.nread
                 /\ \A k \in HeaderKinds :
                       mark[k] # 0 => section + (buf.p - mark[k]) + 1 <= P.nread
PROOF
<1>1. /\ parser \in Parser /\ parser.http_errno = "OK" /\ Good(parser)
      /\ buf \in Buffer
      /\ mark \in [DataKinds -> Nat] /\ section \in Nat
      BY DEF IInv, TypeOK, GoodOK, AtByte
<1>2. parser.nread \in Nat
      BY <1>1 DEF Parser
<1>3. P = parser \/ P = [parser EXCEPT !.nread = @ + 1]
      BY DEF P
<1>4. /\ P \in Parser
      /\ P.http_errno = "OK"
      /\ P.state = parser.state /\ P.flags = parser.flags
      /\ P.content_length = parser.content_length /\ P.header_state = parser.header_state
      BY <1>1, <1>2, <1>3 DEF Parser
<1>5. P.nread = IF buf.again \/ parser.state \in BodyStates THEN parser.nread ELSE parser.nread + 1
      BY <1>1, <1>2 DEF P, Parser
<1>6. P.state = "s_chunk_size_start" => P.nread = 1
      BY <1>1, <1>4, <1>5 DEF IInv, GoodOK, AtByte, Good, BodyStates
<1>7. P.state \in PastHead => section = 0
      BY <1>4 DEF IInv, Tallied, AtByte
<1>8. P.state \in HeadStates => parser.state \notin BodyStates
      BY <1>4 DEF HeadStates, BodyStates
<1>9. P.state \in HeadStates =>
                 /\ section + 1 <= P.nread
                 /\ \A k \in HeaderKinds :
                       mark[k] # 0 => section + (buf.p - mark[k]) + 1 <= P.nread
      BY <1>1, <1>2, <1>4, <1>5, <1>8 DEF IInv, Tallied, AtByte, Ahead, HeaderKinds, DataKinds, Buffer
<1>10. QED BY <1>4, <1>6, <1>7, <1>9

(***************************************************************************)
(* The forms of a turn.                                                    *)
(***************************************************************************)
\* goto error: the call returns, and no later one does anything.
LEMMA ErrorForm ==
    ASSUME IInv, AtByte, NEW q \in Parser, NEW e \in Errors \ {"OK"}, Error(q, e)
    PROVE  IInv'
PROOF
<1>1. /\ parser' \in Parser /\ parser'.http_errno # "OK"
      BY DEF Error, Parser
<1>2. /\ ctl'.phase = "returned" /\ ctl'.parsed = buf.p - buf.from
      /\ input' = input /\ buf' = buf /\ mark' = mark /\ section' = section
      BY DEF Error, Returned
<1>3. TypeOK'
      BY <1>1, <1>2 DEF IInv, TypeOK
<1>4. GoodOK'
      BY <1>1, <1>2 DEF GoodOK
<1>5. BufferOK'
      BY <1>2 DEF IInv, TypeOK, BufferOK, AtByte, Size, Buffer
<1>6. MarksOK' /\ Tallied' /\ BodyOK'
      BY <1>1, <1>2 DEF IInv, MarksOK, Tallied, BodyOK
<1>7. QED BY <1>3, <1>4, <1>5, <1>6 DEF IInv

\* break, with the marks as they were or one set at this byte.
LEMMA BreakForm ==
    ASSUME IInv, AtByte, NEW q, Sound(q), Break(q),
           \/ /\ mark' = mark
              /\ \A k \in DataKinds : parser.state \in MarkStates[k] => q.state \in MarkStates[k]
           \/ /\ \A k \in DataKinds : parser.state \notin MarkStates[k]
              /\ \E k \in DataKinds : MARK(k) /\ q.state \in MarkStates[k],
           q.state \in PastHead => section = 0,
           q.state \in HeadStates => \/ parser.state \in HeadStates /\ q.nread = P.nread
                                     \/ parser.state \in PastHead /\ section = 0 /\ mark' = mark
    PROVE  IInv'
PROOF
<1>1. /\ buf \in Buffer /\ buf.p \in Nat /\ buf.from \in Nat /\ buf.to \in Nat
      /\ mark \in [DataKinds -> Nat] /\ section \in Nat
      /\ ctl.phase = "exec" /\ buf.p <= buf.to
      /\ q \in Parser /\ q.http_errno = "OK" /\ Good(q) /\ q.nread \in Nat
      BY DEF IInv, TypeOK, AtByte, Sound, Parser, Buffer
<1>2. /\ parser' = q /\ input' = input /\ ctl' = ctl /\ section' = section
      /\ buf' = [buf EXCEPT !.p = @ + 1, !.again = FALSE]
      BY DEF Break
<1>3. /\ buf'.from = buf.from /\ buf'.to = buf.to /\ buf'.p = buf.p + 1 /\ ~buf'.again
      /\ buf' \in Buffer
  <2>1. buf.p + 1 \in Nat
        BY <1>1
  <2>2. PICK n \in Nat : n = buf.p + 1
        BY <2>1
  <2>3. buf \in Buffer /\ buf' = [buf EXCEPT !.p = n, !.again = FALSE]
        BY <1>1, <1>2, <2>2
  <2>4. QED BY <2>2, <2>3, Forward, Zenon
<1>4. \A k \in DataKinds : mark[k] # 0 => parser.state \in MarkStates[k]
                                          /\ buf.from <= mark[k] /\ mark[k] <= buf.p
      BY <1>1 DEF IInv, MarksOK, BufferOK
<1>5. /\ mark' \in [DataKinds -> Nat]
      /\ \A k \in DataKinds : mark'[k] # 0 =>
            q.state \in MarkStates[k] /\ mark'[k] \in {mark[k], buf.p}
            /\ (mark'[k] # mark[k] => mark' # mark)
  <2>1. CASE mark' = mark
        BY <1>1, <1>4, <2>1
  <2>2. CASE /\ \A k \in DataKinds : parser.state \notin MarkStates[k]
             /\ \E k \in DataKinds : MARK(k) /\ q.state \in MarkStates[k]
    <3>1. PICK k \in DataKinds : MARK(k) /\ q.state \in MarkStates[k]
          BY <2>2
    <3>2. \A j \in DataKinds : mark[j] = 0
          BY <1>4, <2>2
    <3>3. mark' = [mark EXCEPT ![k] = buf.p]
          BY <1>1, <3>1, <3>2 DEF MARK
    <3>4. QED BY <1>1, <3>1, <3>2, <3>3
  <2>3. QED BY <2>1, <2>2
<1>6. TypeOK'
      BY <1>1, <1>2, <1>3, <1>5 DEF IInv, TypeOK
<1>7. GoodOK'
      BY <1>1, <1>2, <1>3 DEF GoodOK
<1>8. BufferOK'
      BY <1>1, <1>2, <1>3, <1>4, <1>5 DEF IInv, BufferOK
<1>9. MarksOK'
      BY <1>1, <1>2, <1>5 DEF MarksOK
<1>10. Tallied'
  <2>1. q.state \in PastHead => section = 0
        OBVIOUS
  <2>2. ASSUME q.state \in HeadStates
        PROVE  /\ section <= q.nread
               /\ \A k \in HeaderKinds :
                     mark'[k] # 0 => section + (buf.p + 1 - mark'[k]) <= q.nread
    <3>1. CASE parser.state \in HeadStates /\ q.nread = P.nread
      <4>1. /\ section + 1 <= P.nread
            /\ \A k \in HeaderKinds :
                  mark[k] # 0 => section + (buf.p - mark[k]) + 1 <= P.nread
            BY <3>1, Counted
      <4>2. QED BY <1>1, <1>5, <3>1, <4>1 DEF HeaderKinds, DataKinds
    <3>2. CASE parser.state \in PastHead /\ section = 0 /\ mark' = mark
      <4>1. \A k \in HeaderKinds : mark[k] = 0
            BY <1>4, <3>2 DEF PastHead, ChunkStates, MarkStates, HeaderKinds, DataKinds, UrlStates
      <4>2. QED BY <1>1, <3>2, <4>1
    <3>3. QED BY <2>2, <3>1, <3>2
  <2>3. section <= HTTP_MAX_HEADER_SIZE
        BY DEF IInv, Tallied
  <2>4. Ahead(buf') = 0
        BY <1>3 DEF Ahead
  <2>5. /\ q.state \in HeadStates => section + Ahead(buf') <= q.nread
        /\ q.state \in HeadStates => \A k \in HeaderKinds :
              mark'[k] # 0 => section + (buf'.p - mark'[k]) + Ahead(buf') <= q.nread
        BY <1>1, <1>3, <1>5, <2>2, <2>4 DEF HeaderKinds, DataKinds
  <2>6. QED BY <1>1, <1>2, <2>1, <2>3, <2>5 DEF Tallied
<1>11. BodyOK'
       BY <1>1, <1>2 DEF BodyOK
<1>12. QED BY <1>6, <1>7, <1>8, <1>9, <1>10, <1>11 DEF IInv

\* goto reexecute_byte; no string is open then.
LEMMA ReexecuteForm ==
    ASSUME IInv, AtByte, NEW q, Sound(q), Reexecute(q), mark' = mark,
           \A k \in DataKinds : parser.state \notin MarkStates[k],
           q.state \in HeadStates, parser.state \in HeadStates, q.nread = P.nread
    PROVE  IInv'
PROOF
<1>1. /\ buf \in Buffer /\ buf.p \in Nat /\ buf.from \in Nat /\ buf.to \in Nat
      /\ mark \in [DataKinds -> Nat] /\ section \in Nat
      /\ ctl.phase = "exec" /\ buf.p <= buf.to
      /\ q \in Parser /\ q.http_errno = "OK" /\ Good(q) /\ q.nread \in Nat
      BY DEF IInv, TypeOK, AtByte, Sound, Parser, Buffer
<1>2. /\ parser' = q /\ input' = input /\ ctl' = ctl /\ section' = section
      /\ buf' = [buf EXCEPT !.again = TRUE]
      BY DEF Reexecute
<1>3. /\ buf'.from = buf.from /\ buf'.to = buf.to /\ buf'.p = buf.p /\ buf'.again
      /\ buf' \in Buffer
  <2>1. buf \in Buffer /\ buf' = [buf EXCEPT !.again = TRUE]
        BY <1>1, <1>2
  <2>2. QED BY <2>1, Again, Zenon
<1>4. \A k \in DataKinds : mark[k] = 0
      BY <1>1 DEF IInv, MarksOK
<1>5. q.state \notin PastHead
      BY DEF HeadStates, PastHead, ChunkStates
<1>6. TypeOK'
      BY <1>1, <1>2, <1>3 DEF IInv, TypeOK
<1>7. GoodOK'
      BY <1>1, <1>2, <1>3, <1>5 DEF GoodOK, PastHead, ChunkStates
<1>8. BufferOK' /\ MarksOK'
      BY <1>1, <1>2, <1>3, <1>4 DEF IInv, BufferOK, MarksOK
<1>9. section + 1 <= P.nread
      BY Counted
<1>10. Tallied'
       BY <1>1, <1>2, <1>3, <1>4, <1>5, <1>9 DEF IInv, Tallied, Ahead, HeaderKinds, DataKinds
<1>11. BodyOK'
       BY <1>1, <1>2 DEF BodyOK
<1>12. QED BY <1>6, <1>7, <1>8, <1>10, <1>11 DEF IInv

\* CALLBACK_NOTIFY, in a state in which no string is open.
LEMMA NotifyForm ==
    ASSUME IInv, AtByte, NEW q, Sound(q), NEW k \in ErrorKinds \ (HeaderKinds \cup {"body"}),
           NEW end, CALLBACK_NOTIFY(k, q, end),
           \A j \in DataKinds : parser.state \notin MarkStates[j]
    PROVE  IInv'
PROOF
<1>1. /\ buf \in Buffer /\ buf.p \in Nat /\ buf.from \in Nat /\ buf.to \in Nat
      /\ mark \in [DataKinds -> Nat] /\ section \in Nat
      /\ ctl.phase = "exec" /\ buf.p <= buf.to
      /\ q \in Parser /\ q.http_errno = "OK" /\ Good(q) /\ q.nread \in Nat
      BY DEF IInv, TypeOK, AtByte, Sound, Parser, Buffer
<1>2. /\ parser' = q /\ input' = input /\ mark' = mark /\ section' = section
      /\ buf' = [buf EXCEPT !.p = @ + 1, !.again = FALSE]
      /\ ctl'.phase = "callback" /\ ctl'.kind = k /\ ctl'.er = buf.p - buf.from + 1
      BY DEF CALLBACK_NOTIFY, Callback
<1>3. /\ buf'.from = buf.from /\ buf'.to = buf.to /\ buf'.p = buf.p + 1 /\ ~buf'.again
      /\ buf' \in Buffer
  <2>1. buf.p + 1 \in Nat
        BY <1>1
  <2>2. PICK n \in Nat : n = buf.p + 1
        BY <2>1
  <2>3. buf \in Buffer /\ buf' = [buf EXCEPT !.p = n, !.again = FALSE]
        BY <1>1, <1>2, <2>2
  <2>4. QED BY <2>2, <2>3, Forward, Zenon
<1>4. \A j \in DataKinds : mark[j] = 0
      BY <1>1 DEF IInv, MarksOK
<1>5. TypeOK'
      BY <1>1, <1>2, <1>3 DEF IInv, TypeOK
<1>6. GoodOK'
      BY <1>1, <1>2, <1>3 DEF GoodOK
<1>7. BufferOK' /\ MarksOK'
      BY <1>1, <1>2, <1>3, <1>4 DEF IInv, BufferOK, MarksOK, Size
<1>8. Tallied'
      BY <1>1, <1>2, <1>3 DEF IInv, Tallied, Ahead
<1>9. BodyOK'
      BY <1>2 DEF BodyOK
<1>10. QED BY <1>5, <1>6, <1>7, <1>8, <1>9 DEF IInv

\* A piece of a text is as long as its ends say.
LEMMA SliceLength ==
    ASSUME TypeOK, NEW m \in Nat, NEW n \in Nat, 1 <= m, m <= n, n <= Len(input.text) + 1
    PROVE  Len(SubSeq(input.text, m, n - 1)) = n - m
PROOF
<1>1. input \in Inputs
      BY DEF TypeOK
<1>2. PICK l : l = Len(input.text)
      OBVIOUS
<1>3. l \in Nat
      BY <1>1, <1>2, TextAssumption
<1>4. m \in 1..(l + 1) /\ n - 1 \in (m - 1)..l
      BY <1>2, <1>3
<1>5. Len(SubSeq(input.text, m, n - 1)) = (n - 1) - m + 1
      BY <1>1, <1>2, <1>4, TextAssumption
<1>6. QED BY <1>5

\* CALLBACK_DATA for a name, a value or a URL that ends before the byte at p.
LEMMA StringForm ==
    ASSUME IInv, AtByte, NEW q, Sound(q), NEW k \in HeaderKinds,
           NEW marks \in [DataKinds -> Nat], \A j \in DataKinds \ {k} : marks[j] = 0,
           marks[k] # 0 => /\ buf.from <= marks[k] /\ marks[k] <= buf.p
                           /\ section + (buf.p - marks[k]) + 1 <= P.nread,
           CALLBACK_DATA(k, q, marks, buf.p, Advanced) \/ CALLBACK_DATA(k, q, marks, buf.p, SameByte),
           q.state \in HeadStates, parser.state \in HeadStates, q.nread = P.nread
    PROVE  IInv'
PROOF
<1>1. /\ buf \in Buffer /\ buf.p \in Nat /\ buf.from \in Nat /\ buf.to \in Nat
      /\ mark \in [DataKinds -> Nat] /\ section \in Nat
      /\ ctl.phase = "exec" /\ buf.p <= buf.to
      /\ q \in Parser /\ q.http_errno = "OK" /\ Good(q) /\ q.nread \in Nat
      BY DEF IInv, TypeOK, AtByte, Sound, Parser, Buffer
<1>2. /\ parser' = q /\ input' = input /\ section' = section
      /\ mark' = [marks EXCEPT ![k] = 0]
      /\ buf' = Advanced \/ buf' = SameByte
      /\ \/ marks[k] = 0 /\ ctl' = ctl
         \/ /\ marks[k] # 0
            /\ ctl'.phase = "callback" /\ ctl'.kind = k /\ ctl'.er = buf'.p - buf.from
            /\ ctl'.data = SubSeq(input.text, marks[k], buf.p - 1)
      BY DEF CALLBACK_DATA, Callback
<1>3. /\ buf' \in Buffer /\ buf'.from = buf.from /\ buf'.to = buf.to
      /\ buf'.p \in {buf.p, buf.p + 1}
  <2>1. CASE buf' = Advanced
    <3>1. PICK n \in Nat : n = buf.p + 1
          BY <1>1
    <3>2. buf \in Buffer /\ buf' = [buf EXCEPT !.p = n, !.again = FALSE]
          BY <1>1, <2>1, <3>1 DEF Advanced
    <3>3. buf' \in Buffer /\ buf'.from = buf.from /\ buf'.to = buf.to /\ buf'.p = n
          BY <3>2, Forward, Zenon
    <3>4. QED BY <3>1, <3>3
  <2>2. CASE buf' = SameByte
    <3>1. buf \in Buffer /\ buf' = [buf EXCEPT !.again = TRUE]
          BY <1>1, <2>2 DEF SameByte
    <3>2. buf' \in Buffer /\ buf'.from = buf.from /\ buf'.to = buf.to /\ buf'.p = buf.p
          BY <3>1, Again, Zenon
    <3>3. QED BY <3>2
  <2>3. QED BY <1>2, <2>1, <2>2
<1>4. Ahead(buf') \in {0, 1}
      BY DEF Ahead
<1>5. mark' \in [DataKinds -> Nat] /\ \A j \in DataKinds : mark'[j] = 0
      BY <1>2 DEF HeaderKinds, DataKinds
<1>6. /\ 1 <= buf.from /\ buf.from <= buf.p /\ buf.to <= Len(input.text)
      /\ section <= HTTP_MAX_HEADER_SIZE /\ section + 1 <= P.nread /\ Len(input.text) \in Nat
      BY <1>1, Counted, TextAssumption DEF IInv, TypeOK, BufferOK, Tallied
<1>7. marks[k] # 0 => Len(ctl'.data) = buf.p - marks[k]
  <2>1. HAVE marks[k] # 0
  <2>2. PICK m : m = marks[k]
        OBVIOUS
  <2>3. m \in Nat /\ buf.from <= m /\ m <= buf.p
        BY <2>1, <2>2 DEF HeaderKinds, DataKinds
  <2>4. 1 <= m /\ m <= buf.p /\ buf.p <= Len(input.text) + 1
        BY <1>1, <1>6, <2>3
  <2>5. Len(SubSeq(input.text, m, buf.p - 1)) = buf.p - m
        BY <1>1, <2>3, <2>4, SliceLength DEF IInv
  <2>6. QED BY <1>2, <2>1, <2>2, <2>5
<1>8. q.state \notin PastHead
      BY DEF HeadStates, PastHead, ChunkStates
<1>9. TypeOK'
      BY <1>1, <1>2, <1>3, <1>5 DEF IInv, TypeOK, HeaderKinds, ErrorKinds
<1>10. GoodOK'
       BY <1>1, <1>2, <1>8 DEF GoodOK, PastHead, ChunkStates
<1>11. BufferOK' /\ MarksOK'
  <2>1. buf.from <= buf'.p /\ buf'.p <= buf.to + 1 /\ buf.from <= buf.to + 1
        BY <1>1, <1>3, <1>6
  <2>2. buf'.p \in Nat
        BY <1>3 DEF Buffer
  <2>3. buf'.p - buf.from \in 0..(buf.to - buf.from + 1)
        BY <1>1, <2>1, <2>2
  <2>4. QED BY <1>1, <1>2, <1>3, <1>5, <1>6, <2>1, <2>3 DEF BufferOK, MarksOK, Size
<1>12. Tallied'
  <2>1. CASE marks[k] = 0
        BY <1>1, <1>2, <1>4, <1>5, <1>6, <1>8, <2>1 DEF Tallied, HeaderKinds, DataKinds
  <2>2. CASE marks[k] # 0
    <3>1. marks[k] \in Nat /\ marks[k] <= buf.p
          BY <2>2 DEF HeaderKinds, DataKinds
    <3>2. Len(ctl'.data) \in Nat /\ section + Len(ctl'.data) + Ahead(buf') <= q.nread
          BY <1>1, <1>4, <1>7, <2>2, <3>1
    <3>3. QED BY <1>1, <1>2, <1>6, <2>2, <3>2 DEF Tallied
  <2>3. QED BY <2>1, <2>2
<1>13. BodyOK'
       BY <1>1, <1>2 DEF BodyOK, HeaderKinds
<1>14. QED BY <1>9, <1>10, <1>11, <1>12, <1>13 DEF IInv

\* A turn that takes bytes of the body: from the marked byte on, to n.
LEMMA BodyForm ==
    ASSUME IInv, AtByte, NEW q, Sound(q), parser.state \in PastHead, q.state \in PastHead,
           q.state # "s_chunk_size_start", parser.state \notin {"s_chunk_size_start"},
           input' = input, parser' = q, section' = section,
           buf' \in Buffer, buf'.from = buf.from, buf'.to = buf.to,
           buf.p <= buf'.p, buf'.p <= buf.to + 1,
           mark' \in [DataKinds -> Nat], \A j \in HeaderKinds : mark'[j] = 0,
           mark'["body"] # 0 => /\ ctl' = ctl /\ q.state \in MarkStates["body"]
                                /\ buf.from <= mark'["body"] /\ mark'["body"] <= buf'.p,
           \/ ctl' = ctl
           \/ /\ ctl'.phase = "callback" /\ ctl'.kind = "body" /\ ctl'.er = buf'.p - buf.from
              /\ Announced(q)
    PROVE  IInv'
PROOF
<1>1. /\ buf.p \in Nat /\ buf.from \in Nat /\ buf.to \in Nat /\ buf'.p \in Nat
      /\ section \in Nat /\ ctl.phase = "exec" /\ buf.p <= buf.to
      /\ q \in Parser /\ q.http_errno = "OK" /\ Good(q)
      BY DEF IInv, TypeOK, AtByte, Sound, Buffer
<1>2. /\ 1 <= buf.from /\ buf.from <= buf.p /\ buf.to <= Len(input.text)
      /\ section <= HTTP_MAX_HEADER_SIZE /\ section = 0
      BY <1>1 DEF IInv, BufferOK, Tallied
<1>3. q.state \notin HeadStates
      BY DEF HeadStates, PastHead, ChunkStates
<1>4. \A j \in DataKinds : j \in HeaderKinds \/ j = "body"
      BY DEF DataKinds, HeaderKinds
<1>5. TypeOK'
      BY <1>1 DEF IInv, TypeOK, ErrorKinds
<1>6. GoodOK'
      BY <1>1 DEF GoodOK
<1>7. BufferOK'
  <2>1. buf'.p - buf.from \in 0..(buf.to - buf.from + 1) /\ buf.from <= buf.to + 1
        BY <1>1, <1>2
  <2>2. \A j \in DataKinds : mark'[j] # 0 => buf.from <= mark'[j] /\ mark'[j] <= buf'.p
        BY <1>4
  <2>3. buf.from <= buf'.p
        BY <1>1, <1>2
  <2>4. QED BY <1>1, <1>2, <2>1, <2>2, <2>3 DEF BufferOK, Size
<1>8. MarksOK'
  <2>1. ctl'.phase = "exec" => \A j \in DataKinds : mark'[j] # 0 => q.state \in MarkStates[j]
        BY <1>4
  <2>2. ctl'.phase = "callback" => mark'["body"] = 0
        BY <1>1
  <2>3. QED BY <1>4, <2>1, <2>2 DEF MarksOK
<1>9. Tallied'
      BY <1>1, <1>2, <1>3 DEF Tallied, HeaderKinds
<1>10. BodyOK'
       BY <1>1 DEF BodyOK
<1>11. QED BY <1>5, <1>6, <1>7, <1>8, <1>9, <1>10 DEF IInv

-----------------------------------------------------------------------------
(***************************************************************************)
(* The call itself.                                                        *)
(***************************************************************************)
\* The next bytes: the string that was not finished goes on at their start.
LEMMA ExecuteStep ==
    ASSUME IInv, NEW n \in Nat, Execute(n)
    PROVE  IInv'
PROOF
<1>1. /\ buf \in Buffer /\ buf.from \in Nat /\ buf.to \in Nat /\ section \in Nat
      /\ parser \in Parser /\ Len(input.text) \in Nat
      /\ ctl.phase = "idle" /\ n > 0 /\ buf.to + n <= Len(input.text)
      BY TextAssumption DEF IInv, TypeOK, Buffer, Execute
<1>2. PICK first \in Nat, last \in Nat : first = buf.to + 1 /\ last = buf.to + n
      BY <1>1
<1>3. /\ parser' = parser /\ input' = input /\ section' = section
      /\ buf' = [from |-> first, to |-> last, p |-> first, again |-> FALSE]
      /\ ctl' = IF parser.http_errno # "OK" THEN Returned(0) ELSE [phase |-> "exec"]
      /\ mark' = [k \in DataKinds |->
                    IF parser.http_errno = "OK"
                       /\ \/ k = "header_field" /\ parser.state = "s_header_field"
                          \/ k = "header_value" /\ parser.state = "s_header_value"
                          \/ k = "url" /\ parser.state \in UrlStates
                    THEN first ELSE 0]
      BY <1>2 DEF Execute
<1>4. /\ buf' \in Buffer /\ buf'.from = first /\ buf'.to = last /\ buf'.p = first
      BY <1>3, Zenon DEF Buffer
<1>5. ~buf'.again
      BY <1>3
<1>6. \/ parser.http_errno # "OK" /\ ctl'.phase = "returned" /\ ctl'.parsed = 0
      \/ parser.http_errno = "OK" /\ ctl'.phase = "exec"
      BY <1>3 DEF Returned
<1>7. /\ mark' \in [DataKinds -> Nat]
      /\ \A k \in DataKinds : mark'[k] \in {0, first}
                              /\ (mark'[k] # 0 => parser.state \in MarkStates[k])
      BY <1>1, <1>3 DEF DataKinds, MarkStates
<1>8. TypeOK'
      BY <1>3, <1>4, <1>6, <1>7 DEF IInv, TypeOK
<1>9. GoodOK'
      BY <1>3, <1>5, <1>6 DEF IInv, GoodOK
<1>10. BufferOK'
  <2>1. 1 <= first /\ first <= last /\ last <= Len(input.text)
        BY <1>1, <1>2
  <2>2. \A k \in DataKinds : mark'[k] # 0 => first <= mark'[k] /\ mark'[k] <= first
        BY <1>7
  <2>3. 0 \in 0..(last - first + 1)
        BY <2>1
  <2>4. QED BY <1>3, <1>4, <1>6, <2>1, <2>2, <2>3 DEF BufferOK, Size
<1>11. MarksOK'
       BY <1>3, <1>6, <1>7 DEF MarksOK
<1>12. Tallied'
  <2>1. Ahead(buf') = 0
        BY <1>5 DEF Ahead
  <2>2. \A k \in HeaderKinds : mark'[k] # 0 => first - mark'[k] = 0
        BY <1>7 DEF HeaderKinds, DataKinds
  <2>3. section <= HTTP_MAX_HEADER_SIZE /\ parser.nread \in Nat
        BY <1>1 DEF IInv, Tallied, Parser
  <2>4. parser.http_errno = "OK" =>
           /\ parser.state \in PastHead => section = 0
           /\ parser.state \in HeadStates => section <= parser.nread
        BY <1>1 DEF IInv, Tallied
  <2>5. parser.state \in HeadStates /\ ctl'.phase = "exec" =>
           /\ section + Ahead(buf') <= parser.nread
           /\ \A k \in HeaderKinds :
                 mark'[k] # 0 => section + (buf'.p - mark'[k]) + Ahead(buf') <= parser.nread
    <3>1. HAVE parser.state \in HeadStates /\ ctl'.phase = "exec"
    <3>2. section <= parser.nread
          BY <1>6, <2>4, <3>1
    <3>3. QED BY <1>1, <1>4, <2>1, <2>2, <2>3, <3>2
  <2>6. QED BY <1>3, <1>6, <2>3, <2>4, <2>5 DEF Tallied
<1>13. BodyOK'
       BY <1>6 DEF BodyOK
<1>14. QED BY <1>8, <1>9, <1>10, <1>11, <1>12, <1>13 DEF IInv

\* Only one string can be open.
LEMMA OneMark ==
    ASSUME IInv, ctl.phase = "exec", NEW k \in DataKinds, mark[k] # 0,
           NEW j \in DataKinds, mark[j] # 0
    PROVE  j = k
PROOF
<1>1. parser.state \in MarkStates[k] /\ parser.state \in MarkStates[j]
      BY DEF IInv, MarksOK
<1>2. QED BY <1>1 DEF MarkStates, DataKinds, UrlStates

\* The end of the buffer; the assertion that at most one mark is left holds.
LEMMA EndOfBufferStep ==
    ASSUME IInv, EndOfBuffer
    PROVE  IInv'
PROOF
<1> DEFINE left == {k \in DataKinds : mark[k] # 0}
<1>1. /\ buf \in Buffer /\ buf.p \in Nat /\ buf.from \in Nat /\ buf.to \in Nat
      /\ mark \in [DataKinds -> Nat] /\ section \in Nat
      /\ ctl.phase = "exec" /\ buf.p > buf.to
      /\ parser \in Parser /\ parser.http_errno = "OK" /\ Good(parser) /\ parser.nread \in Nat
      /\ buf.from <= buf.p /\ buf.p <= buf.to + 1 /\ 1 <= buf.from /\ buf.to <= Len(input.text)
      /\ section <= HTTP_MAX_HEADER_SIZE /\ Len(input.text) \in Nat
      BY TextAssumption DEF IInv, TypeOK, GoodOK, BufferOK, Tallied, Parser, Buffer, EndOfBuffer
<1>2. CASE left = {}
  <2>1. /\ input' = input /\ buf' = buf /\ parser' = parser /\ mark' = mark /\ section' = section
        /\ ctl'.phase = "returned" /\ ctl'.parsed = buf.to - buf.from + 1
        BY <1>2 DEF EndOfBuffer, Returned
  <2>2. TypeOK' /\ GoodOK' /\ MarksOK' /\ BodyOK'
        BY <1>1, <2>1 DEF IInv, TypeOK, GoodOK, MarksOK, BodyOK
  <2>3. BufferOK'
        BY <1>1, <2>1 DEF IInv, BufferOK, Size
  <2>4. parser.state \in HeadStates => section <= parser.nread
        BY <1>1 DEF IInv, Tallied, Ahead
  <2>5. Tallied'
        BY <1>1, <2>1, <2>4 DEF IInv, Tallied
  <2>6. QED BY <2>2, <2>3, <2>5 DEF IInv
<1>3. CASE left # {}
  <2>1. PICK k \in DataKinds : mark[k] # 0
        BY <1>3
  <2>2. left = {k}
        BY <1>1, <2>1, OneMark
  <2>3. Cardinality(left) = 1
        BY <2>2, FS_Singleton
  <2>4. CALLBACK_DATA(k, parser, mark, buf.p, buf)
        BY <1>3, <2>2, <2>3 DEF EndOfBuffer
  <2>5. PICK m \in Nat : m = mark[k]
        BY <1>1
  <2>6. /\ m # 0 /\ buf.from <= m /\ m <= buf.p
        /\ parser.state \in MarkStates[k]
        /\ k \in HeaderKinds /\ parser.state \in HeadStates =>
              section + (buf.p - m) + Ahead(buf) <= parser.nread
        BY <1>1, <2>1, <2>5 DEF IInv, BufferOK, MarksOK, Tallied
  <2>7. /\ parser' = parser /\ input' = input /\ section' = section /\ buf' = buf
        /\ mark' = [mark EXCEPT ![k] = 0]
        /\ ctl'.phase = "callback" /\ ctl'.kind = k /\ ctl'.er = buf.p - buf.from
        /\ ctl'.data = SubSeq(input.text, m, buf.p - 1)
        BY <2>4, <2>5, <2>6 DEF CALLBACK_DATA, Callback
  <2>8. mark' \in [DataKinds -> Nat] /\ \A j \in DataKinds : mark'[j] = 0
        BY <1>1, <2>2, <2>7
  <2>9. Len(ctl'.data) = buf.p - m
        BY <1>1, <2>6, <2>7, SliceLength DEF IInv
  <2>10. TypeOK'
         BY <1>1, <2>7, <2>8 DEF IInv, TypeOK, DataKinds, ErrorKinds
  <2>11. GoodOK'
         BY <1>1, <2>7 DEF IInv, GoodOK
  <2>12. BufferOK'
    <3>1. buf.p - buf.from \in 0..(buf.to - buf.from + 1) /\ buf.from <= buf.to + 1
          BY <1>1
    <3>2. QED BY <1>1, <2>7, <3>1 DEF BufferOK, Size
  <2>13. MarksOK'
         BY <2>7, <2>8 DEF MarksOK
  <2>14. Tallied'
    <3>1. CASE k \in HeaderKinds
      <4>1. parser.state \in HeadStates
            BY <2>6, <3>1 DEF MarkStates, HeaderKinds, UrlStates, HeadStates
      <4>2. Len(ctl'.data) \in Nat /\ section + Len(ctl'.data) + Ahead(buf) <= parser.nread
            BY <1>1, <2>6, <2>9, <3>1, <4>1
      <4>3. QED BY <1>1, <2>7, <3>1, <4>1, <4>2 DEF Tallied
    <3>2. CASE k \notin HeaderKinds
      <4>1. parser.state \notin HeadStates
            BY <2>6, <3>2 DEF MarkStates, HeaderKinds, DataKinds, HeadStates
      <4>2. QED BY <1>1, <2>7, <3>2, <4>1 DEF Tallied
    <3>3. QED BY <3>1, <3>2
  <2>15. BodyOK'
    <3>1. k = "body" => Announced(parser)
          BY <1>1, <2>6 DEF MarkStates, Good, Announced, ChunkStates
    <3>2. QED BY <2>7, <3>1 DEF BodyOK, Announced
  <2>16. QED BY <2>10, <2>11, <2>12, <2>13, <2>14, <2>15 DEF IInv
<1>4. QED BY <1>2, <1>3

\* A callback returns; what it was given has been handed over.
LEMMA CallbackStep ==
    ASSUME IInv, NEW result, CallbackReturns(result)
    PROVE  IInv'
PROOF
<1>1. /\ section \in Nat /\ parser \in Parser /\ parser.nread \in Nat
      /\ ctl.phase = "callback" /\ ctl.kind \in ErrorKinds /\ ctl.er \in 0..Size
      /\ parser.http_errno = "OK" /\ Good(parser) /\ HTTP_MAX_HEADER_SIZE \in Nat
      /\ section <= HTTP_MAX_HEADER_SIZE
      BY SizesAssumption DEF IInv, TypeOK, GoodOK, BufferOK, Tallied, Parser, CallbackReturns
<1>2. /\ input' = input /\ buf' = buf /\ mark' = mark
      /\ section' = IF ctl.kind \in HeaderKinds THEN section + Len(ctl.data) ELSE 0
      /\ parser' = parser \/ parser' = [parser EXCEPT !.http_errno = "CB_" \o ctl.kind]
      /\ \/ ctl'.phase = "returned" /\ ctl'.parsed = ctl.er
         \/ ctl'.phase = "exec" /\ result = 0 /\ parser' = parser
      BY DEF CallbackReturns, Returned, DataKinds, HeaderKinds
<1>3. "CB_" \o ctl.kind \in Errors
      BY <1>1, Zenon DEF Errors
<1>4. /\ parser' \in Parser
      /\ parser'.state = parser.state /\ parser'.nread = parser.nread
      /\ Good(parser')
      BY <1>1, <1>2, <1>3 DEF Parser, Good
<1>5. Ahead(buf) \in {0, 1}
      BY DEF Ahead
<1>6. /\ section' \in Nat /\ section' <= HTTP_MAX_HEADER_SIZE
      /\ parser.state \in PastHead => section' = 0
      /\ parser.state \in HeadStates => section' + Ahead(buf) <= parser.nread
  <2>1. CASE ctl.kind \in HeaderKinds
    <3>1. /\ parser.state \in HeadStates /\ Len(ctl.data) \in Nat
          /\ section + Len(ctl.data) + Ahead(buf) <= parser.nread
          BY <1>1, <2>1 DEF IInv, Tallied
    <3>2. parser.state \notin PastHead
          BY <3>1 DEF HeadStates, PastHead, ChunkStates
    <3>3. QED BY <1>1, <1>2, <1>5, <2>1, <3>1, <3>2 DEF Good
  <2>2. CASE ctl.kind \notin HeaderKinds
    <3>1. parser.state \in HeadStates => Ahead(buf) = 0
          BY <1>1, <2>2 DEF IInv, Tallied
    <3>2. QED BY <1>1, <1>2, <2>2, <3>1
  <2>3. QED BY <2>1, <2>2
<1>7. \A k \in DataKinds : mark[k] = 0
      BY <1>1 DEF IInv, MarksOK
<1>8. TypeOK'
      BY <1>1, <1>2, <1>4, <1>6 DEF IInv, TypeOK
<1>9. GoodOK'
  <2>1. parser'.state = "s_chunk_size_start" /\ ctl'.phase = "exec" => ~buf.again
        BY <1>1, <1>2 DEF IInv, GoodOK
  <2>2. QED BY <1>1, <1>2, <1>4, <2>1 DEF GoodOK
<1>10. BufferOK'
       BY <1>1, <1>2, <1>7 DEF IInv, BufferOK, Size
<1>11. MarksOK'
       BY <1>2, <1>7 DEF MarksOK
<1>12. Tallied'
       BY <1>1, <1>2, <1>4, <1>5, <1>6, <1>7 DEF Tallied, HeaderKinds, DataKinds
<1>13. BodyOK'
       BY <1>2 DEF BodyOK
<1>14. QED BY <1>8, <1>9, <1>10, <1>11, <1>12, <1>13 DEF IInv

-----------------------------------------------------------------------------
(***************************************************************************)
(* The turns of the request line.                                          *)
(***************************************************************************)
\* The section has become too large.
LEMMA HeaderOverflowStep ==
    ASSUME IInv, HeaderOverflow
    PROVE  IInv'
PROOF
<1>1. AtByte /\ Error(P, "HEADER_OVERFLOW")
      BY DEF HeaderOverflow, AtByte
<1>2. P \in Parser
      BY <1>1, Counted
<1>3. "HEADER_OVERFLOW" \in Errors \ {"OK"}
      BY DEF Errors
<1>4. QED BY <1>1, <1>2, <1>3, ErrorForm

\* What every other turn starts from.
LEMMA AtState ==
    ASSUME IInv, NEW states, In(states)
    PROVE  /\ AtByte /\ P.state \in states /\ P.nread <= HTTP_MAX_HEADER_SIZE
           /\ P \in Parser /\ P.http_errno = "OK" /\ P.state = parser.state
PROOF
<1>1. AtByte /\ P.state \in states /\ P.nread <= HTTP_MAX_HEADER_SIZE
      BY DEF In, AtByte
<1>2. QED BY <1>1, Counted

\* Errors of the turns.
LEMMA ErrorNames ==
    /\ "CLOSED_CONNECTION" \in Errors \ {"OK"} /\ "INVALID_METHOD" \in Errors \ {"OK"}
    /\ "INVALID_URL" \in Errors \ {"OK"} /\ "INVALID_CONSTANT" \in Errors \ {"OK"}
    /\ "STRICT" \in Errors \ {"OK"} /\ "INVALID_VERSION" \in Errors \ {"OK"}
    /\ "LF_EXPECTED" \in Errors \ {"OK"} /\ "INVALID_HEADER_TOKEN" \in Errors \ {"OK"}
    /\ "INVALID_CONTENT_LENGTH" \in Errors \ {"OK"} /\ "INVALID_CHUNK_SIZE" \in Errors \ {"OK"}
PROOF BY DEF Errors

\* A line that may follow the last message.
LEMMA DeadStep ==
    ASSUME IInv, Dead
    PROVE  IInv'
PROOF
<1>1. /\ AtByte /\ P.state = "s_dead" /\ P.nread <= HTTP_MAX_HEADER_SIZE
      /\ P \in Parser /\ P.http_errno = "OK" /\ P.state = parser.state
      BY AtState DEF Dead
<1>2. CASE Break(P) /\ UNCHANGED mark
  <2>1. Sound(P)
        BY <1>1 DEF Sound, Good, ChunkStates
  <2>2. P.state \notin PastHead /\ P.state \notin HeadStates
        BY <1>1 DEF PastHead, HeadStates, ChunkStates
  <2>3. QED BY <1>1, <1>2, <2>1, <2>2, BreakForm
<1>3. CASE Error(P, "CLOSED_CONNECTION")
      BY <1>1, <1>3, ErrorForm, ErrorNames
<1>4. QED BY <1>2, <1>3 DEF Dead

\* The first byte of a message.
LEMMA StartReqStep ==
    ASSUME IInv, StartReq
    PROVE  IInv'
PROOF
<1> DEFINE q == [P EXCEPT !.flags = {}, !.content_length = ULLONG_MAX]
           r == [q EXCEPT !.method = FirstGuess[ch], !.index = 1, !.state = "s_req_method"]
<1>1. /\ AtByte /\ P.state = "s_start_req" /\ P.nread <= HTTP_MAX_HEADER_SIZE
      /\ P \in Parser /\ P.http_errno = "OK" /\ P.state = parser.state
      BY AtState DEF StartReq
<1>2. \A j \in DataKinds : parser.state \notin MarkStates[j]
      BY <1>1 DEF DataKinds, MarkStates, UrlStates
<1>3. q \in Parser
  <2>1. ULLONG_MAX \in 0..ULLONG_MAX
        BY SizesAssumption
  <2>2. {} \in SUBSET Flags
        OBVIOUS
  <2>3. QED BY <1>1, <2>1, <2>2, Zenon DEF Parser
<1>4. CASE Break(P) /\ UNCHANGED mark
  <2>1. Sound(P)
        BY <1>1 DEF Sound, Good, ChunkStates
  <2>2. P.state \notin PastHead /\ P.state \notin HeadStates
        BY <1>1 DEF PastHead, HeadStates, ChunkStates
  <2>3. QED BY <1>1, <1>4, <2>1, <2>2, BreakForm
<1>5. CASE Error(q, "INVALID_METHOD")
      BY <1>1, <1>3, <1>5, ErrorForm, ErrorNames
<1>6. CASE ch \in DOMAIN FirstGuess /\ CALLBACK_NOTIFY("message_begin", r, FALSE)
  <2>1. FirstGuess[ch] \in Methods
        BY <1>6 DEF FirstGuess, Methods
  <2>2. r \in Parser
        BY <1>3, <2>1 DEF Parser, HeadStates
  <2>3. r.state = "s_req_method" /\ r.http_errno = "OK" /\ r.nread = P.nread
        BY <1>1 DEF Parser
  <2>4. Sound(r)
        BY <1>1, <2>2, <2>3 DEF Sound, Good, ChunkStates
  <2>5. "message_begin" \in ErrorKinds \ (HeaderKinds \cup {"body"})
        BY DEF ErrorKinds, HeaderKinds
  <2>6. QED BY <1>1, <1>2, <1>6, <2>4, <2>5, NotifyForm
<1>7. QED BY <1>4, <1>5, <1>6 DEF StartReq

\* In the middle of the head nothing but the state, the counters and the method change.
LEMMA BreakInHead ==
    ASSUME IInv, AtByte, P.nread <= HTTP_MAX_HEADER_SIZE, NEW q \in Parser,
           q.http_errno = "OK", q.nread = P.nread,
           parser.state \in HeadStates, q.state \in HeadStates,
           \A k \in DataKinds : parser.state \notin MarkStates[k],
           q.state = "s_header_field" => q.header_state \in FieldStates,
           q.state = "s_header_value" => q.header_state \notin {"h_connection", "h_transfer_encoding"},
           Break(q),
           mark' = mark \/ \E k \in DataKinds : MARK(k) /\ q.state \in MarkStates[k]
    PROVE  IInv'
PROOF
<1>1. q.state \notin PastHead
      BY DEF HeadStates, PastHead, ChunkStates
<1>2. Sound(q)
      BY <1>1 DEF Sound, Good, PastHead, ChunkStates
<1>3. QED BY <1>1, <1>2, BreakForm

\* The letters of the method.
LEMMA ReqMethodStep ==
    ASSUME IInv, ReqMethod
    PROVE  IInv'
PROOF
<1> DEFINE q == [P EXCEPT !.index = @ + 1]
           others == {t \in OtherMethod : t[1] = P.method /\ t[2] = P.index /\ t[3] = ch}
<1>1. /\ AtByte /\ P.state = "s_req_method" /\ P.nread <= HTTP_MAX_HEADER_SIZE
      /\ P \in Parser /\ P.http_errno = "OK" /\ P.state = parser.state
  <2>1. In({"s_req_method"})
        BY DEF ReqMethod
  <2>2. QED BY <2>1, AtState
<1>2. \A j \in DataKinds : parser.state \notin MarkStates[j]
      BY <1>1 DEF DataKinds, MarkStates, UrlStates
<1>3. q \in Parser /\ q.state = P.state /\ q.http_errno = "OK" /\ q.nread = P.nread
      BY <1>1 DEF Parser
<1>4. "s_req_method" \in HeadStates /\ "s_req_spaces_before_url" \in HeadStates
      BY DEF HeadStates
<1>5. CASE Break([q EXCEPT !.state = "s_req_spaces_before_url"]) /\ UNCHANGED mark
  <2> DEFINE r == [q EXCEPT !.state = "s_req_spaces_before_url"]
  <2>1. r \in Parser /\ r.http_errno = "OK" /\ r.nread = P.nread /\ r.state = "s_req_spaces_before_url"
        BY <1>3, <1>4 DEF Parser
  <2> HIDE DEF r
  <2>2. Break(r) /\ UNCHANGED mark
        BY <1>5 DEF r
  <2>3. QED BY <1>1, <1>2, <1>4, <2>1, <2>2, BreakInHead
<1>6. CASE Break(q) /\ UNCHANGED mark
      BY <1>1, <1>2, <1>3, <1>4, <1>6, BreakInHead
<1>7. CASE \E t \in others : Break([q EXCEPT !.method = t[4]]) /\ UNCHANGED mark
  <2>1. PICK t \in OtherMethod : Break([q EXCEPT !.method = t[4]]) /\ UNCHANGED mark
        BY <1>7
  <2>2. t[4] \in Methods
        BY DEF OtherMethod, Methods
  <2> DEFINE r == [q EXCEPT !.method = t[4]]
  <2>3. r \in Parser /\ r.http_errno = "OK" /\ r.nread = P.nread /\ r.state = P.state
        BY <1>3, <2>2 DEF Parser
  <2> HIDE DEF r
  <2>4. Break(r) /\ UNCHANGED mark
        BY <2>1 DEF r
  <2>5. QED BY <1>1, <1>2, <1>4, <2>3, <2>4, BreakInHead
<1>8. CASE Error(P, "INVALID_METHOD")
      BY <1>1, <1>8, ErrorForm, ErrorNames
<1>9. QED BY <1>5, <1>6, <1>7, <1>8 DEF ReqMethod

\* The URL goes on or is refused.
LEMMA UrlChar ==
    ASSUME NEW s \in UrlStates \cup {"s_req_spaces_before_url"}, NEW c
    PROVE  parse_url_char(s, c) \in UrlStates \cup {"s_dead"}
PROOF BY DEF parse_url_char, UrlStates, ServerStates

\* What is known of the open string when it ends at this byte.
LEMMA OpenString ==
    ASSUME IInv, AtByte, NEW k \in HeaderKinds, parser.state \in MarkStates[k]
    PROVE  /\ mark \in [DataKinds -> Nat]
           /\ \A j \in DataKinds \ {k} : mark[j] = 0
           /\ mark[k] # 0 => /\ buf.from <= mark[k] /\ mark[k] <= buf.p
                             /\ section + (buf.p - mark[k]) + 1 <= P.nread
           /\ parser.state \in HeadStates
PROOF
<1>1. parser.state \in HeadStates
      BY DEF MarkStates, HeaderKinds, UrlStates, HeadStates
<1>2. \A j \in DataKinds \ {k} : parser.state \notin MarkStates[j]
      BY DEF MarkStates, HeaderKinds, DataKinds, UrlStates
<1>3. mark \in [DataKinds -> Nat] /\ \A j \in DataKinds \ {k} : mark[j] = 0
      BY <1>2 DEF IInv, TypeOK, MarksOK, AtByte
<1>4. mark[k] # 0 => section + (buf.p - mark[k]) + 1 <= P.nread
      BY <1>1, Counted
<1>5. mark[k] # 0 => buf.from <= mark[k] /\ mark[k] <= buf.p
      BY DEF IInv, BufferOK, AtByte, HeaderKinds, DataKinds
<1>6. QED BY <1>1, <1>3, <1>4, <1>5

\* The open string ends before this byte; the callback gets it.
LEMMA StringEnds ==
    ASSUME IInv, AtByte, P.nread <= HTTP_MAX_HEADER_SIZE, NEW k \in HeaderKinds,
           parser.state \in MarkStates[k], NEW q \in Parser, q.http_errno = "OK",
           q.nread = P.nread, q.state \in HeadStates \ {"s_header_field", "s_header_value"},
           CALLBACK_DATA(k, q, mark, buf.p, Advanced) \/ CALLBACK_DATA(k, q, mark, buf.p, SameByte)
    PROVE  IInv'
PROOF
<1>1. q.state \notin PastHead
      BY DEF HeadStates, PastHead, ChunkStates
<1>2. Sound(q)
      BY <1>1 DEF Sound, Good, PastHead, ChunkStates
<1>3. /\ mark \in [DataKinds -> Nat]
      /\ \A j \in DataKinds \ {k} : mark[j] = 0
      /\ mark[k] # 0 => /\ buf.from <= mark[k] /\ mark[k] <= buf.p
                        /\ section + (buf.p - mark[k]) + 1 <= P.nread
      /\ parser.state \in HeadStates
      BY OpenString
<1>4. PICK m \in [DataKinds -> Nat] : m = mark
      BY <1>3
<1>5. CALLBACK_DATA(k, q, m, buf.p, Advanced) \/ CALLBACK_DATA(k, q, m, buf.p, SameByte)
      BY <1>4
<1>6. QED BY <1>2, <1>3, <1>4, <1>5, StringForm

\* The open string goes on.
LEMMA StringGoesOn ==
    ASSUME IInv, AtByte, P.nread <= HTTP_MAX_HEADER_SIZE, NEW k \in HeaderKinds,
           parser.state \in MarkStates[k], NEW q \in Parser, q.http_errno = "OK",
           q.nread = P.nread, q.state \in MarkStates[k],
           q.state = "s_header_field" => q.header_state \in FieldStates,
           q.state = "s_header_value" => q.header_state \notin {"h_connection", "h_transfer_encoding"},
           Break(q), mark' = mark
    PROVE  IInv'
PROOF
<1>1. parser.state \in HeadStates /\ q.state \in HeadStates
      BY DEF MarkStates, HeaderKinds, UrlStates, HeadStates
<1>2. q.state \notin PastHead
      BY <1>1 DEF HeadStates, PastHead, ChunkStates
<1>3. Sound(q)
      BY <1>2 DEF Sound, Good, PastHead, ChunkStates
<1>4. \A j \in DataKinds : parser.state \in MarkStates[j] => q.state \in MarkStates[j]
      BY DEF MarkStates, HeaderKinds, DataKinds, UrlStates
<1>5. QED BY <1>1, <1>2, <1>3, <1>4, BreakForm

\* The URL.
LEMMA ReqUrlStep ==
    ASSUME IInv, ReqUrl
    PROVE  IInv'
PROOF
<1> DEFINE begin == P.state = "s_req_spaces_before_url"
           from == IF begin /\ P.method = "CONNECT" THEN "s_req_server_start" ELSE P.state
           q == [P EXCEPT !.state = parse_url_char(from, ch)]
           start == [P EXCEPT !.state = "s_req_http_start"]
           eol == [P EXCEPT !.http_major = 0, !.http_minor = 9,
                     !.state = IF ch = CR THEN "s_req_line_almost_done"
                               ELSE "s_header_field_start"]
<1>1. /\ AtByte /\ P.state \in UrlStates \cup {"s_req_spaces_before_url"}
      /\ P.nread <= HTTP_MAX_HEADER_SIZE
      /\ P \in Parser /\ P.http_errno = "OK" /\ P.state = parser.state
  <2>1. In(UrlStates \cup {"s_req_spaces_before_url"})
        BY DEF ReqUrl
  <2>2. QED BY <2>1, AtState
<1>2. /\ UrlStates \subseteq HeadStates /\ "s_req_spaces_before_url" \in HeadStates
      /\ MarkStates["url"] = UrlStates /\ "url" \in HeaderKinds /\ "url" \in DataKinds
      /\ \A s \in UrlStates : s \notin {"s_header_field", "s_header_value"}
      BY DEF UrlStates, HeadStates, MarkStates, HeaderKinds, DataKinds
<1>3. begin => \A k \in DataKinds : parser.state \notin MarkStates[k]
      BY <1>1 DEF DataKinds, MarkStates, UrlStates
<1>4. EndStates \subseteq UrlStates
      BY DEF EndStates, UrlStates
<1>5. CASE begin /\ Break(P) /\ UNCHANGED mark
      BY <1>1, <1>2, <1>3, <1>5, BreakInHead
<1>6. CASE P.state \in EndStates /\ CALLBACK_DATA("url", start, mark, buf.p, Advanced)
  <2>1. start \in Parser /\ start.http_errno = "OK" /\ start.nread = P.nread
        /\ start.state \in HeadStates \ {"s_header_field", "s_header_value"}
        BY <1>1 DEF Parser, HeadStates
  <2> HIDE DEF start
  <2>2. QED BY <1>1, <1>2, <1>4, <1>6, <2>1, StringEnds
<1>7. CASE P.state \in EndStates /\ CALLBACK_DATA("url", eol, mark, buf.p, Advanced)
  <2>1. eol \in Parser /\ eol.http_errno = "OK" /\ eol.nread = P.nread
        /\ eol.state \in HeadStates \ {"s_header_field", "s_header_value"}
        BY <1>1 DEF Parser, HeadStates
  <2> HIDE DEF eol
  <2>2. QED BY <1>1, <1>2, <1>4, <1>7, <2>1, StringEnds
<1>8. from \in UrlStates \cup {"s_req_spaces_before_url"}
      BY <1>1 DEF UrlStates
<1>9. q.state \in UrlStates \cup {"s_dead"}
  <2>1. parse_url_char(from, ch) \in UrlStates \cup {"s_dead"}
        BY <1>8, UrlChar
  <2>2. QED BY <1>1, <2>1 DEF Parser
<1>10. q \in Parser /\ q.http_errno = "OK" /\ q.nread = P.nread
  <2>1. parse_url_char(from, ch) \in FreshStates \cup HeadStates \cup PastHead
        BY <1>2, <1>8, UrlChar DEF FreshStates
  <2>2. PICK s : s = parse_url_char(from, ch)
        OBVIOUS
  <2>3. q = [P EXCEPT !.state = s] /\ s \in FreshStates \cup HeadStates \cup PastHead
        BY <2>1, <2>2
  <2>4. QED BY <1>1, <2>3 DEF Parser
<1>11. CASE Error(q, "INVALID_URL")
       BY <1>1, <1>10, <1>11, ErrorForm, ErrorNames
<1>12. CASE /\ q.state # "s_dead"
            /\ Break(q) /\ IF begin THEN MARK("url") ELSE UNCHANGED mark
  <2>1. q.state \in UrlStates
        BY <1>9, <1>12
  <2> HIDE DEF q
  <2>2. CASE begin
        BY <1>1, <1>2, <1>3, <1>10, <1>12, <2>1, <2>2, BreakInHead
  <2>3. CASE ~begin
    <3>1. parser.state \in UrlStates
          BY <1>1, <2>3
    <3>2. QED BY <1>1, <1>2, <1>10, <1>12, <2>1, <2>3, <3>1, StringGoesOn
  <2>4. QED BY <2>2, <2>3
<1>13. QED BY <1>5, <1>6, <1>7, <1>11, <1>12 DEF ReqUrl

\* Only the state changes.
LEMMA StateMoves ==
    ASSUME IInv, AtByte, P.nread <= HTTP_MAX_HEADER_SIZE, parser.state \in HeadStates,
           \A k \in DataKinds : parser.state \notin MarkStates[k],
           NEW s \in HeadStates \ {"s_header_field", "s_header_value"},
           Break([P EXCEPT !.state = s]), UNCHANGED mark
    PROVE  IInv'
PROOF
<1> DEFINE q == [P EXCEPT !.state = s]
<1>1. q \in Parser /\ q.http_errno = "OK" /\ q.nread = P.nread /\ q.state = s
      BY Counted DEF Parser
<1>2. Break(q)
      OBVIOUS
<1> HIDE DEF q
<1>3. QED BY <1>1, <1>2, BreakInHead

\* "HTTP/".
LEMMA HttpWordLemma ==
    ASSUME IInv, HttpWordStep
    PROVE  IInv'
PROOF
<1>1. /\ AtByte /\ P.state \in DOMAIN HttpWord \cup {"s_req_http_start"}
      /\ P.nread <= HTTP_MAX_HEADER_SIZE
      /\ P \in Parser /\ P.http_errno = "OK" /\ P.state = parser.state
  <2>1. In(DOMAIN HttpWord \cup {"s_req_http_start"})
        BY DEF HttpWordStep
  <2>2. QED BY <2>1, AtState
<1>2. /\ P.state \in HeadStates \ {"s_header_field", "s_header_value"}
      /\ \A k \in DataKinds : parser.state \notin MarkStates[k]
      BY <1>1 DEF HttpWord, HeadStates, DataKinds, MarkStates, UrlStates
<1>3. P.state \in DOMAIN HttpWord => HttpWord[P.state][2] \in HeadStates \ {"s_header_field", "s_header_value"}
      BY DEF HttpWord, HeadStates
<1>4. CASE \E s \in HeadStates \ {"s_header_field", "s_header_value"} :
              Break([P EXCEPT !.state = s]) /\ UNCHANGED mark
      BY <1>1, <1>2, <1>4, StateMoves
<1>5. CASE Break(P) /\ UNCHANGED mark
      BY <1>1, <1>2, <1>5, BreakInHead
<1>6. CASE Error(P, "INVALID_CONSTANT") \/ Error(P, "STRICT")
      BY <1>1, <1>6, ErrorForm, ErrorNames
<1>7. "s_req_http_H" \in HeadStates \ {"s_header_field", "s_header_value"}
      BY DEF HeadStates
<1>8. P.state = "s_req_http_start" \/ P.state \in DOMAIN HttpWord
      BY <1>1
<1>9. QED BY <1>3, <1>4, <1>5, <1>6, <1>7, <1>8 DEF HttpWordStep

\* The major version.
LEMMA ReqMajorStep ==
    ASSUME IInv, ReqMajor
    PROVE  IInv'
PROOF
<1> DEFINE first == P.state = "s_req_first_http_major"
           value == IF first THEN Unhex(ch) ELSE P.http_major * 10 + Unhex(ch)
<1>1. /\ AtByte /\ P.state \in {"s_req_first_http_major", "s_req_http_major"}
      /\ P.nread <= HTTP_MAX_HEADER_SIZE
      /\ P \in Parser /\ P.http_errno = "OK" /\ P.state = parser.state
  <2>1. In({"s_req_first_http_major", "s_req_http_major"})
        BY DEF ReqMajor
  <2>2. QED BY <2>1, AtState
<1>2. /\ P.state \in HeadStates \ {"s_header_field", "s_header_value"}
      /\ \A k \in DataKinds : parser.state \notin MarkStates[k]
      BY <1>1 DEF HeadStates, DataKinds, MarkStates, UrlStates
<1>3. /\ "s_req_first_http_minor" \in HeadStates \ {"s_header_field", "s_header_value"}
      /\ "s_req_http_major" \in HeadStates \ {"s_header_field", "s_header_value"}
      BY DEF HeadStates
<1>4. CASE Break([P EXCEPT !.state = "s_req_first_http_minor"]) /\ UNCHANGED mark
      BY <1>1, <1>2, <1>3, <1>4, StateMoves
<1>5. CASE Error(P, "INVALID_VERSION")
      BY <1>1, <1>5, ErrorForm, ErrorNames
<1>6. ASSUME ch \in NUM
      PROVE  value \in Nat
  <2>1. Unhex(ch) \in Nat
        BY <1>6, DigitsAssumption
  <2>2. P.http_major \in Nat
        BY <1>1 DEF Parser
  <2>3. QED BY <2>1, <2>2
<1>7. CASE ch \in NUM /\ Error(IF first THEN P ELSE [P EXCEPT !.http_major = value], "INVALID_VERSION")
  <2>1. PICK n \in Nat : n = value
        BY <1>6, <1>7
  <2>2. [P EXCEPT !.http_major = n] \in Parser
        BY <1>1 DEF Parser
  <2>3. PICK q \in Parser : Error(q, "INVALID_VERSION")
        BY <1>1, <1>7, <2>1, <2>2
  <2>4. QED BY <1>1, <2>3, ErrorForm, ErrorNames
<1>8. CASE /\ ch \in NUM /\ UNCHANGED mark
           /\ Break([P EXCEPT !.http_major = value, !.state = "s_req_http_major"])
  <2>1. PICK n \in Nat : n = value
        BY <1>6, <1>8
  <2> DEFINE q == [P EXCEPT !.http_major = n, !.state = "s_req_http_major"]
  <2>2. Break(q)
        BY <1>8, <2>1
  <2>3. q \in Parser /\ q.http_errno = "OK" /\ q.nread = P.nread /\ q.state = "s_req_http_major"
        BY <1>1, <1>3 DEF Parser
  <2> HIDE DEF q
  <2>4. QED BY <1>1, <1>2, <1>3, <1>8, <2>2, <2>3, BreakInHead
<1>9. QED BY <1>4, <1>5, <1>7, <1>8 DEF ReqMajor

\* The minor version and the end of the request line.
LEMMA ReqMinorStep ==
    ASSUME IInv, ReqMinor
    PROVE  IInv'
PROOF
<1> DEFINE first == P.state = "s_req_first_http_minor"
           value == IF first THEN Unhex(ch) ELSE P.http_minor * 10 + Unhex(ch)
<1>1. /\ AtByte /\ P.state \in {"s_req_first_http_minor", "s_req_http_minor"}
      /\ P.nread <= HTTP_MAX_HEADER_SIZE
      /\ P \in Parser /\ P.http_errno = "OK" /\ P.state = parser.state
  <2>1. In({"s_req_first_http_minor", "s_req_http_minor"})
        BY DEF ReqMinor
  <2>2. QED BY <2>1, AtState
<1>2. /\ P.state \in HeadStates \ {"s_header_field", "s_header_value"}
      /\ \A k \in DataKinds : parser.state \notin MarkStates[k]
      BY <1>1 DEF HeadStates, DataKinds, MarkStates, UrlStates
<1>3. /\ "s_req_http_minor" \in HeadStates \ {"s_header_field", "s_header_value"}
      /\ (IF ch = CR THEN "s_req_line_almost_done" ELSE "s_header_field_start")
            \in HeadStates \ {"s_header_field", "s_header_value"}
      BY DEF HeadStates
<1>4. CASE Break([P EXCEPT !.state = IF ch = CR THEN "s_req_line_almost_done"
                                     ELSE "s_header_field_start"]) /\ UNCHANGED mark
      BY <1>1, <1>2, <1>3, <1>4, StateMoves
<1>5. CASE Error(P, "INVALID_VERSION")
      BY <1>1, <1>5, ErrorForm, ErrorNames
<1>6. ASSUME ch \in NUM
      PROVE  value \in Nat
  <2>1. Unhex(ch) \in Nat
        BY <1>6, DigitsAssumption
  <2>2. P.http_minor \in Nat
        BY <1>1 DEF Parser
  <2>3. QED BY <2>1, <2>2
<1>7. CASE ch \in NUM /\ Error([P EXCEPT !.http_minor = value], "INVALID_VERSION")
  <2>1. PICK n \in Nat : n = value
        BY <1>6, <1>7
  <2>2. [P EXCEPT !.http_minor = n] \in Parser
        BY <1>1 DEF Parser
  <2>3. PICK q \in Parser : Error(q, "INVALID_VERSION")
        BY <1>1, <1>7, <2>1, <2>2
  <2>4. QED BY <1>1, <2>3, ErrorForm, ErrorNames
<1>8. CASE /\ ch \in NUM /\ UNCHANGED mark
           /\ Break([P EXCEPT !.http_minor = value, !.state = "s_req_http_minor"])
  <2>1. PICK n \in Nat : n = value
        BY <1>6, <1>8
  <2> DEFINE q == [P EXCEPT !.http_minor = n, !.state = "s_req_http_minor"]
  <2>2. Break(q)
        BY <1>8, <2>1
  <2>3. q \in Parser /\ q.http_errno = "OK" /\ q.nread = P.nread /\ q.state = "s_req_http_minor"
        BY <1>1, <1>3 DEF Parser
  <2> HIDE DEF q
  <2>4. QED BY <1>1, <1>2, <1>3, <1>8, <2>2, <2>3, BreakInHead
<1>9. CASE ~first /\ ch \in {CR, LF}
  <2>1. ASSUME ch \notin NUM PROVE IInv'
        BY <1>4, <1>9, <2>1 DEF ReqMinor
  <2>2. ASSUME ch \in NUM PROVE IInv'
        BY <1>4, <1>5, <1>7, <1>8, <1>9, <2>2 DEF ReqMinor
  <2>3. QED BY <2>1, <2>2
<1>10. CASE ch \notin NUM /\ (first \/ ch \notin {CR, LF})
       BY <1>4, <1>5, <1>7, <1>8, <1>10 DEF ReqMinor
<1>11. CASE ch \in NUM /\ ~(~first /\ ch \in {CR, LF})
       BY <1>4, <1>5, <1>7, <1>8, <1>11 DEF ReqMinor
<1>12. QED BY <1>9, <1>10, <1>11

\* The line feed after a carriage return.
LEMMA LineAlmostDoneStep ==
    ASSUME IInv, LineAlmostDone
    PROVE  IInv'
PROOF
<1>1. /\ AtByte /\ P.state \in DOMAIN AlmostDone
      /\ P.nread <= HTTP_MAX_HEADER_SIZE
      /\ P \in Parser /\ P.http_errno = "OK" /\ P.state = parser.state
  <2>1. In(DOMAIN AlmostDone)
        BY DEF LineAlmostDone
  <2>2. QED BY <2>1, AtState
<1>2. /\ P.state \in HeadStates
      /\ \A k \in DataKinds : parser.state \notin MarkStates[k]
      BY <1>1 DEF AlmostDone, HeadStates, DataKinds, MarkStates, UrlStates
<1>3. /\ AlmostDone[P.state][1] \in {"LF_EXPECTED", "STRICT"}
      /\ AlmostDone[P.state][2] \in HeadStates \ {"s_header_field", "s_header_value"}
      BY <1>1 DEF AlmostDone, HeadStates
<1>4. CASE Error(P, AlmostDone[P.state][1])
      BY <1>1, <1>3, <1>4, ErrorForm, ErrorNames
<1>5. CASE Break([P EXCEPT !.state = AlmostDone[P.state][2]]) /\ UNCHANGED mark
      BY <1>1, <1>2, <1>3, <1>5, StateMoves
<1>6. QED BY <1>4, <1>5 DEF LineAlmostDone

-----------------------------------------------------------------------------
(***************************************************************************)
(* The turns of the headers.                                               *)
(***************************************************************************)
\* A new header, the end of the headers or of the trailers.
LEMMA HeaderFieldStartStep ==
    ASSUME IInv, HeaderFieldStart
    PROVE  IInv'
PROOF
<1>1. /\ AtByte /\ P.state = "s_header_field_start"
      /\ P.nread <= HTTP_MAX_HEADER_SIZE
      /\ P \in Parser /\ P.http_errno = "OK" /\ P.state = parser.state
  <2>1. In({"s_header_field_start"})
        BY DEF HeaderFieldStart
  <2>2. QED BY <2>1, AtState
<1>2. /\ P.state \in HeadStates
      /\ \A k \in DataKinds : parser.state \notin MarkStates[k]
      BY <1>1 DEF HeadStates, DataKinds, MarkStates, UrlStates
<1>3. "s_headers_almost_done" \in HeadStates \ {"s_header_field", "s_header_value"}
      BY DEF HeadStates
<1>4. CASE Break([P EXCEPT !.state = "s_headers_almost_done"]) /\ UNCHANGED mark
      BY <1>1, <1>2, <1>3, <1>4, StateMoves
<1>5. CASE Reexecute([P EXCEPT !.state = "s_headers_almost_done"]) /\ UNCHANGED mark
  <2> DEFINE q == [P EXCEPT !.state = "s_headers_almost_done"]
  <2>1. /\ q \in Parser /\ q.http_errno = "OK" /\ q.nread = P.nread
        /\ q.state = "s_headers_almost_done"
        BY <1>1, <1>3 DEF Parser
  <2>2. Reexecute(q)
        BY <1>5
  <2> HIDE DEF q
  <2>3. Sound(q)
        BY <1>1, <2>1 DEF Sound, Good, ChunkStates
  <2>4. QED BY <1>1, <1>2, <1>3, <1>5, <2>1, <2>2, <2>3, ReexecuteForm
<1>6. CASE /\ MARK("header_field")
           /\ Break([P EXCEPT !.index = 0, !.state = "s_header_field",
                       !.header_state = IF LOWER(ch) \in DOMAIN FieldGuess
                                        THEN FieldGuess[LOWER(ch)] ELSE "h_general"])
  <2>1. PICK h : h = IF LOWER(ch) \in DOMAIN FieldGuess THEN FieldGuess[LOWER(ch)] ELSE "h_general"
        OBVIOUS
  <2>2. h \in FieldStates /\ h \in HeaderStates
        BY <2>1 DEF FieldGuess, FieldStates, FieldWord, HeaderStates
  <2> DEFINE q == [P EXCEPT !.index = 0, !.state = "s_header_field", !.header_state = h]
  <2>3. Break(q)
        BY <1>6, <2>1
  <2>4. /\ q \in Parser /\ q.http_errno = "OK" /\ q.nread = P.nread
        /\ q.state = "s_header_field" /\ q.header_state = h
        BY <1>1, <2>2 DEF Parser, HeadStates
  <2> HIDE DEF q
  <2>5. "header_field" \in DataKinds /\ q.state \in MarkStates["header_field"] /\ q.state \in HeadStates
        BY <2>4 DEF DataKinds, MarkStates, HeadStates
  <2>6. QED BY <1>1, <1>2, <1>6, <2>2, <2>3, <2>4, <2>5, BreakInHead
<1>7. CASE Error(P, "INVALID_HEADER_TOKEN")
      BY <1>1, <1>7, ErrorForm, ErrorNames
<1>8. QED BY <1>4, <1>5, <1>6, <1>7 DEF HeaderFieldStart

\* One more letter of a word: the header state stays, becomes that of the word, or is lost.
LEMMA MatchWordKeeps ==
    ASSUME NEW q \in Parser, NEW word, word[2] \in HeaderStates, NEW c
    PROVE  /\ MatchWord(q, word, c) \in Parser
           /\ MatchWord(q, word, c).header_state \in {"h_general", word[2], q.header_state}
           /\ MatchWord(q, word, c).state = q.state /\ MatchWord(q, word, c).nread = q.nread
           /\ MatchWord(q, word, c).http_errno = q.http_errno
PROOF
<1> DEFINE i == q.index + 1
           h == IF i > Len(word[1]) \/ c # CharAt(word[1], i + 1) THEN "h_general"
                ELSE IF i = Len(word[1]) - 1 THEN word[2]
                ELSE q.header_state
<1>1. i \in Nat
      BY DEF Parser
<1>2. h \in {"h_general", word[2], q.header_state}
      OBVIOUS
<1>3. h \in HeaderStates
      BY <1>2 DEF Parser, HeaderStates
<1>4. MatchWord(q, word, c) = [q EXCEPT !.index = i, !.header_state = h]
      BY DEF MatchWord
<1> HIDE DEF i, h
<1>5. QED BY <1>1, <1>2, <1>3, <1>4 DEF Parser

\* One more letter of a name.
LEMMA MatchFieldKeeps ==
    ASSUME P \in Parser, P.header_state \in FieldStates, NEW c
    PROVE  /\ MatchField(c) \in Parser /\ MatchField(c).header_state \in FieldStates
           /\ MatchField(c).state = P.state /\ MatchField(c).nread = P.nread
           /\ MatchField(c).http_errno = P.http_errno
PROOF
<1>1. CASE P.header_state \in DOMAIN Prefix \cup {"h_CON"}
  <2>1. PICK h : h = CASE P.header_state \in DOMAIN Prefix ->
                             IF c = Prefix[P.header_state][1] THEN Prefix[P.header_state][2] ELSE "h_general"
                       [] OTHER -> CASE c = "n" -> "h_matching_connection"
                                     [] c = "t" -> "h_matching_content_length"
                                     [] OTHER -> "h_general"
        OBVIOUS
  <2>2. h \in FieldStates /\ h \in HeaderStates
        BY <2>1 DEF Prefix, FieldStates, FieldWord, HeaderStates
  <2>3. PICK n \in Nat : n = P.index + 1
        BY DEF Parser
  <2>4. [P EXCEPT !.index = @ + 1] = [P EXCEPT !.index = n]
        BY <2>3
  <2>5. MatchField(c) = [[P EXCEPT !.index = n] EXCEPT !.header_state = h]
        BY <1>1, <2>1, <2>4 DEF MatchField, Prefix, FieldWord
  <2>6. QED BY <2>2, <2>5 DEF Parser
<1>2. CASE P.header_state \in DOMAIN FieldWord
  <2>1. /\ FieldWord[P.header_state][2] \in FieldStates
        /\ FieldWord[P.header_state][2] \in HeaderStates
        BY <1>2 DEF FieldWord, FieldStates, HeaderStates
  <2>2. MatchField(c) = MatchWord(P, FieldWord[P.header_state], c)
        BY <1>2 DEF MatchField, FieldWord, Prefix
  <2>3. "h_general" \in FieldStates
        BY DEF FieldStates
  <2>4. QED BY <2>1, <2>2, <2>3, MatchWordKeeps
<1>3. CASE P.header_state \notin DOMAIN Prefix \cup {"h_CON"} \cup DOMAIN FieldWord
  <2>1. MatchField(c) = [P EXCEPT !.header_state = "h_general"]
        BY <1>3 DEF MatchField
  <2>2. "h_general" \in FieldStates /\ "h_general" \in HeaderStates
        BY DEF FieldStates, HeaderStates
  <2>3. QED BY <2>1, <2>2 DEF Parser
<1>4. QED BY <1>1, <1>2, <1>3

\* The name; no state of it is unknown.
LEMMA HeaderFieldStep ==
    ASSUME IInv, HeaderField
    PROVE  IInv'
PROOF
<1>1. /\ AtByte /\ P.state = "s_header_field"
      /\ P.nread <= HTTP_MAX_HEADER_SIZE
      /\ P \in Parser /\ P.http_errno = "OK" /\ P.state = parser.state
  <2>1. In({"s_header_field"})
        BY DEF HeaderField
  <2>2. QED BY <2>1, AtState
<1>2. /\ parser.state \in MarkStates["header_field"] /\ "header_field" \in HeaderKinds
      /\ P.header_state \in FieldStates
      BY <1>1, Counted DEF MarkStates, HeaderKinds, IInv, GoodOK, Good, AtByte
<1>3. CASE Break(MatchField(LOWER(ch))) /\ UNCHANGED mark
  <2>1. PICK q : q = MatchField(LOWER(ch))
        OBVIOUS
  <2>2. /\ q \in Parser /\ q.header_state \in FieldStates
        /\ q.state = P.state /\ q.nread = P.nread /\ q.http_errno = P.http_errno
        BY <1>1, <1>2, <2>1, MatchFieldKeeps
  <2>3. QED BY <1>1, <1>2, <1>3, <2>1, <2>2, StringGoesOn
<1>4. CASE \E s \in {"s_header_value_discard_ws", "s_header_almost_done", "s_header_field_start"} :
              CALLBACK_DATA("header_field", [P EXCEPT !.state = s], mark, buf.p, Advanced)
  <2>1. PICK s \in {"s_header_value_discard_ws", "s_header_almost_done", "s_header_field_start"} :
              CALLBACK_DATA("header_field", [P EXCEPT !.state = s], mark, buf.p, Advanced)
        BY <1>4
  <2> DEFINE q == [P EXCEPT !.state = s]
  <2>2. s \in HeadStates \ {"s_header_field", "s_header_value"}
        BY DEF HeadStates
  <2>3. q \in Parser /\ q.http_errno = "OK" /\ q.nread = P.nread /\ q.state = s
        BY <1>1, <2>2 DEF Parser
  <2> HIDE DEF q
  <2>4. CALLBACK_DATA("header_field", q, mark, buf.p, Advanced)
        BY <2>1 DEF q
  <2>5. QED BY <1>1, <1>2, <2>2, <2>3, <2>4, StringEnds
<1>5. CASE Error(P, "INVALID_HEADER_TOKEN")
      BY <1>1, <1>5, ErrorForm, ErrorNames
<1>6. QED BY <1>2, <1>3, <1>4, <1>5 DEF HeaderField

\* The first byte of a value.
LEMMA ValueStartStep ==
    ASSUME IInv, AtByte, P.nread <= HTTP_MAX_HEADER_SIZE,
           parser.state \in {"s_header_value_start", "s_header_value_discard_ws"}, ValueStart
    PROVE  IInv'
PROOF
<1> DEFINE q == [P EXCEPT !.state = "s_header_value", !.index = 0]
<1>1. /\ P \in Parser /\ P.http_errno = "OK" /\ P.state = parser.state
      BY Counted
<1>2. /\ parser.state \in HeadStates
      /\ \A k \in DataKinds : parser.state \notin MarkStates[k]
      BY DEF HeadStates, DataKinds, MarkStates, UrlStates
<1>3. /\ q \in Parser /\ q.http_errno = "OK" /\ q.nread = P.nread
      /\ q.state = "s_header_value" /\ q.header_state = P.header_state
      /\ q.flags = P.flags
      BY <1>1 DEF Parser, HeadStates
<1>4. /\ "header_value" \in DataKinds /\ "s_header_value" \in MarkStates["header_value"]
      /\ "s_header_value" \in HeadStates
      BY DEF DataKinds, MarkStates, HeadStates
<1> HIDE DEF q
<1>5. ASSUME NEW r \in Parser, r.http_errno = "OK", r.nread = P.nread, r.state = "s_header_value",
             r.header_state \notin {"h_connection", "h_transfer_encoding"},
             Break(r), MARK("header_value")
      PROVE  IInv'
      BY <1>1, <1>2, <1>4, <1>5, BreakInHead
<1>6. CASE \E h \in HeaderStates \ {"h_connection", "h_transfer_encoding"} :
              Break([q EXCEPT !.header_state = h]) /\ MARK("header_value")
  <2>1. PICK h \in HeaderStates \ {"h_connection", "h_transfer_encoding"} :
              Break([q EXCEPT !.header_state = h]) /\ MARK("header_value")
        BY <1>6
  <2> DEFINE r == [q EXCEPT !.header_state = h]
  <2>2. /\ r \in Parser /\ r.http_errno = "OK" /\ r.nread = P.nread
        /\ r.state = "s_header_value" /\ r.header_state = h
        BY <1>3 DEF Parser
  <2>3. Break(r)
        BY <2>1
  <2> HIDE DEF r
  <2>4. QED BY <1>5, <2>1, <2>2, <2>3
<1>7. CASE /\ Break([q EXCEPT !.flags = @ \cup {"F_UPGRADE"}, !.header_state = "h_general"])
           /\ MARK("header_value")
  <2>1. PICK f : f = q.flags \cup {"F_UPGRADE"}
        OBVIOUS
  <2>2. f \in SUBSET Flags
        BY <1>1, <1>3, <2>1 DEF Parser, Flags
  <2> DEFINE r == [q EXCEPT !.flags = f, !.header_state = "h_general"]
  <2>3. /\ r \in Parser /\ r.http_errno = "OK" /\ r.nread = P.nread
        /\ r.state = "s_header_value" /\ r.header_state = "h_general"
        BY <1>3, <2>2 DEF Parser, HeaderStates
  <2>4. Break(r)
        BY <1>7, <2>1
  <2> HIDE DEF r
  <2>5. QED BY <1>5, <1>7, <2>3, <2>4
<1>8. CASE /\ P.header_state = "h_content_length" /\ ch \in NUM
           /\ Break([q EXCEPT !.content_length = Unhex(ch)]) /\ MARK("header_value")
  <2>1. PICK n : n = Unhex(ch)
        OBVIOUS
  <2>2. n \in 0..ULLONG_MAX
        BY <1>8, <2>1, DigitsAssumption, SizesAssumption
  <2> DEFINE r == [q EXCEPT !.content_length = n]
  <2>3. /\ r \in Parser /\ r.http_errno = "OK" /\ r.nread = P.nread
        /\ r.state = "s_header_value" /\ r.header_state = "h_content_length"
        BY <1>3, <1>8, <2>2 DEF Parser
  <2>4. Break(r)
        BY <1>8, <2>1
  <2> HIDE DEF r
  <2>5. QED BY <1>5, <1>8, <2>3, <2>4
<1>9. CASE Error(q, "INVALID_CONTENT_LENGTH")
      BY <1>3, <1>9, ErrorForm, ErrorNames
<1>10. /\ "h_matching_transfer_encoding_chunked" \in HeaderStates \ {"h_connection", "h_transfer_encoding"}
       /\ "h_matching_connection_keep_alive" \in HeaderStates \ {"h_connection", "h_transfer_encoding"}
       /\ "h_matching_connection_close" \in HeaderStates \ {"h_connection", "h_transfer_encoding"}
       /\ "h_general" \in HeaderStates \ {"h_connection", "h_transfer_encoding"}
       BY DEF HeaderStates
<1>11. QED BY <1>6, <1>7, <1>8, <1>9, <1>10 DEF ValueStart, q

\* The space before a value.
LEMMA HeaderValueStartStep ==
    ASSUME IInv, HeaderValueStart
    PROVE  IInv'
PROOF
<1>1. CASE In({"s_header_value_start"}) /\ ValueStart
  <2>1. /\ AtByte /\ P.state = "s_header_value_start"
        /\ P.nread <= HTTP_MAX_HEADER_SIZE /\ P.state = parser.state
        BY <1>1, AtState
  <2>2. QED BY <1>1, <2>1, ValueStartStep
<1>2. CASE In({"s_header_value_discard_ws"})
  <2>1. /\ AtByte /\ P.state = "s_header_value_discard_ws"
        /\ P.nread <= HTTP_MAX_HEADER_SIZE /\ P.state = parser.state
        /\ P \in Parser /\ P.http_errno = "OK"
        BY <1>2, AtState
  <2>2. /\ parser.state \in HeadStates
        /\ \A k \in DataKinds : parser.state \notin MarkStates[k]
        BY <2>1 DEF HeadStates, DataKinds, MarkStates, UrlStates
  <2>3. /\ "s_header_value_discard_ws_almost_done" \in HeadStates \ {"s_header_field", "s_header_value"}
        /\ "s_header_value_discard_lws" \in HeadStates \ {"s_header_field", "s_header_value"}
        BY DEF HeadStates
  <2>4. CASE Break(P) /\ UNCHANGED mark
        BY <2>1, <2>2, <2>4, BreakInHead
  <2>5. CASE Break([P EXCEPT !.state = "s_header_value_discard_ws_almost_done"]) /\ UNCHANGED mark
        BY <2>1, <2>2, <2>3, <2>5, StateMoves
  <2>6. CASE Break([P EXCEPT !.state = "s_header_value_discard_lws"]) /\ UNCHANGED mark
        BY <2>1, <2>2, <2>3, <2>6, StateMoves
  <2>7. CASE ValueStart
        BY <2>1, <2>7, ValueStartStep
  <2>8. ~In({"s_header_value_start"})
        BY <2>1 DEF In
  <2>9. QED BY <1>2, <2>4, <2>5, <2>6, <2>7, <2>8 DEF HeaderValueStart
<1>3. QED BY <1>1, <1>2 DEF HeaderValueStart

\* One more digit of a number that passes the test stays below the largest: (max - base) / base
\* is no less than the number, so that number * base + digit < max.
LEMMA DigitFits ==
    ASSUME NEW max \in Nat, NEW base \in {10, 16}, max > 16, NEW old \in Nat,
           ~((max - base) \div base < old), NEW d \in Nat, d < base
    PROVE  /\ (old * base + d) % (max + 1) \in 0..max
           /\ (old * base + d) % (max + 1) # max
PROOF
<1>1. old * base + d < max
  <2>1. CASE base = 10
    <3>1. old <= (max - 10) \div 10
          BY <2>1
    <3>2. ((max - 10) \div 10) * 10 <= max - 10
          OBVIOUS
    <3>3. QED BY <2>1, <3>1, <3>2
  <2>2. CASE base = 16
    <3>1. old <= (max - 16) \div 16
          BY <2>2
    <3>2. ((max - 16) \div 16) * 16 <= max - 16
          OBVIOUS
    <3>3. QED BY <2>2, <3>1, <3>2
  <2>3. QED BY <2>1, <2>2
<1>2. PICK n \in Nat : n = old * base + d
  <2>1. old * base + d \in Nat
    <3>1. CASE base = 10
          BY <3>1
    <3>2. CASE base = 16
          BY <3>2
    <3>3. QED BY <3>1, <3>2
  <2>2. QED BY <2>1
<1>3. n < max
      BY <1>1, <1>2
<1>4. n % (max + 1) = n
      BY <1>3
<1>5. QED BY <1>2, <1>3, <1>4

\* One more letter of a value.
LEMMA MatchValueKeeps ==
    ASSUME P \in Parser, P.header_state \notin {"h_connection", "h_transfer_encoding"}, NEW c
    PROVE  /\ MatchValue(c) \in Parser
           /\ MatchValue(c).header_state \notin {"h_connection", "h_transfer_encoding"}
           /\ MatchValue(c).state = P.state /\ MatchValue(c).nread = P.nread
           /\ MatchValue(c).http_errno = P.http_errno
PROOF
<1>1. CASE P.header_state \in DOMAIN ValueWord
  <2>1. /\ ValueWord[P.header_state][2] \in HeaderStates
        /\ ValueWord[P.header_state][2] \notin {"h_connection", "h_transfer_encoding"}
        BY <1>1 DEF ValueWord, HeaderStates
  <2>2. P.header_state \notin {ValueWord[h][2] : h \in DOMAIN ValueWord}
        BY <1>1 DEF ValueWord
  <2>3. MatchValue(c) = MatchWord(P, ValueWord[P.header_state], c)
        BY <1>1, <2>2 DEF MatchValue
  <2>4. QED BY <2>1, <2>3, MatchWordKeeps
<1>2. CASE P.header_state \notin DOMAIN ValueWord
  <2>1. CASE MatchValue(c) = P
        BY <2>1
  <2>2. CASE MatchValue(c) = [P EXCEPT !.header_state = "h_general"]
        BY <2>2 DEF Parser, HeaderStates
  <2>3. QED BY <1>2, <2>1, <2>2 DEF MatchValue
<1>3. QED BY <1>1, <1>2

\* The value.
LEMMA HeaderValueStep ==
    ASSUME IInv, HeaderValue
    PROVE  IInv'
PROOF
<1> DEFINE done == [P EXCEPT !.state = "s_header_almost_done"]
<1>1. /\ AtByte /\ P.state = "s_header_value"
      /\ P.nread <= HTTP_MAX_HEADER_SIZE
      /\ P \in Parser /\ P.http_errno = "OK" /\ P.state = parser.state
  <2>1. In({"s_header_value"})
        BY DEF HeaderValue
  <2>2. QED BY <2>1, AtState
<1>2. /\ parser.state \in MarkStates["header_value"] /\ "header_value" \in HeaderKinds
      /\ P.header_state \notin {"h_connection", "h_transfer_encoding"}
      BY <1>1, Counted DEF MarkStates, HeaderKinds, IInv, GoodOK, Good, AtByte
<1>3. CASE CALLBACK_DATA("header_value", done, mark, buf.p, Advanced)
           \/ CALLBACK_DATA("header_value", done, mark, buf.p, SameByte)
  <2>1. /\ done \in Parser /\ done.http_errno = "OK" /\ done.nread = P.nread
        /\ done.state \in HeadStates \ {"s_header_field", "s_header_value"}
        BY <1>1 DEF Parser, HeadStates
  <2> HIDE DEF done
  <2>2. QED BY <1>1, <1>2, <1>3, <2>1, StringEnds
<1>4. CASE Break(P) /\ UNCHANGED mark
      BY <1>1, <1>2, <1>4, StringGoesOn
<1>5. CASE Error(P, "INVALID_CONTENT_LENGTH")
      BY <1>1, <1>5, ErrorForm, ErrorNames
<1>6. CASE /\ ~(ch \notin NUM \/ TooLong(P.content_length, 10)) /\ UNCHANGED mark
           /\ Break([P EXCEPT !.content_length = Digit(@, 10, Unhex(ch))])
  <2>1. PICK n : n = Digit(P.content_length, 10, Unhex(ch))
        OBVIOUS
  <2>2. P.content_length \in Nat
        BY <1>1, SizesAssumption DEF Parser
  <2>3. Unhex(ch) \in Nat /\ Unhex(ch) < 10
        BY <1>6, DigitsAssumption
  <2>4. n \in 0..ULLONG_MAX
        BY <1>6, <2>1, <2>2, <2>3, DigitFits, SizesAssumption DEF Digit, TooLong
  <2> DEFINE q == [P EXCEPT !.content_length = n]
  <2>5. Break(q)
        BY <1>6, <2>1
  <2>6. /\ q \in Parser /\ q.http_errno = "OK" /\ q.nread = P.nread /\ q.state = P.state
        /\ q.header_state = P.header_state
        BY <1>1, <2>4 DEF Parser
  <2> HIDE DEF q
  <2>7. QED BY <1>1, <1>2, <1>6, <2>5, <2>6, StringGoesOn
<1>7. CASE Break(MatchValue(LOWER(ch))) /\ UNCHANGED mark
  <2>1. PICK q : q = MatchValue(LOWER(ch))
        OBVIOUS
  <2>2. /\ q \in Parser /\ q.header_state \notin {"h_connection", "h_transfer_encoding"}
        /\ q.state = P.state /\ q.nread = P.nread /\ q.http_errno = P.http_errno
        BY <1>1, <1>2, <2>1, MatchValueKeeps
  <2>3. QED BY <1>1, <1>2, <1>7, <2>1, <2>2, StringGoesOn
<1>8. CASE ch \in {CR, LF}
      BY <1>3, <1>8 DEF HeaderValue, CR, LF
<1>9. CASE ch \notin {CR, LF} /\ P.header_state = "h_content_length"
      BY <1>4, <1>5, <1>6, <1>9 DEF HeaderValue, CR, LF
<1>10. CASE ch \notin {CR, LF} /\ P.header_state # "h_content_length"
       BY <1>2, <1>7, <1>10 DEF HeaderValue, CR, LF
<1>11. QED BY <1>8, <1>9, <1>10

\* The first byte of the next line tells whether the value goes on.
LEMMA HeaderValueLwsStep ==
    ASSUME IInv, HeaderValueLws
    PROVE  IInv'
PROOF
<1>1. /\ AtByte /\ P.state = "s_header_value_lws"
      /\ P.nread <= HTTP_MAX_HEADER_SIZE
      /\ P \in Parser /\ P.http_errno = "OK" /\ P.state = parser.state
  <2>1. In({"s_header_value_lws"})
        BY DEF HeaderValueLws
  <2>2. QED BY <2>1, AtState
<1>2. /\ parser.state \in HeadStates
      /\ \A k \in DataKinds : parser.state \notin MarkStates[k]
      BY <1>1 DEF HeadStates, DataKinds, MarkStates, UrlStates
<1>3. ASSUME NEW q \in Parser, q.http_errno = "OK", q.nread = P.nread,
             q.state \in {"s_header_value_start", "s_header_field_start"},
             Reexecute(q), UNCHANGED mark
      PROVE  IInv'
  <2>1. Sound(q)
        BY <1>1, <1>3 DEF Sound, Good, ChunkStates
  <2>2. q.state \in HeadStates
        BY <1>3 DEF HeadStates
  <2>3. QED BY <1>1, <1>2, <1>3, <2>1, <2>2, ReexecuteForm
<1>4. CASE Reexecute([P EXCEPT !.state = "s_header_value_start"]) /\ UNCHANGED mark
  <2> DEFINE q == [P EXCEPT !.state = "s_header_value_start"]
  <2>1. /\ q \in Parser /\ q.http_errno = "OK" /\ q.nread = P.nread
        /\ q.state \in {"s_header_value_start", "s_header_field_start"}
        BY <1>1 DEF Parser, HeadStates
  <2>2. Reexecute(q)
        BY <1>4
  <2> HIDE DEF q
  <2>3. QED BY <1>3, <1>4, <2>1, <2>2
<1>5. CASE /\ Reexecute([P EXCEPT !.state = "s_header_field_start",
                            !.flags = @ \cup IF P.header_state \in DOMAIN FlagOf
                                             THEN FlagOf[P.header_state] ELSE {}])
           /\ UNCHANGED mark
  <2>1. PICK f : f = P.flags \cup IF P.header_state \in DOMAIN FlagOf
                                  THEN FlagOf[P.header_state] ELSE {}
        OBVIOUS
  <2>2. (IF P.header_state \in DOMAIN FlagOf THEN FlagOf[P.header_state] ELSE {}) \subseteq Flags
        BY DEF FlagOf, Flags
  <2>3. P.flags \subseteq Flags
        BY <1>1 DEF Parser
  <2>4. f \in SUBSET Flags
        BY <2>1, <2>2, <2>3
  <2> DEFINE q == [P EXCEPT !.state = "s_header_field_start", !.flags = f]
  <2>5. /\ q \in Parser /\ q.http_errno = "OK" /\ q.nread = P.nread
        /\ q.state \in {"s_header_value_start", "s_header_field_start"}
        BY <1>1, <2>4 DEF Parser, HeadStates
  <2>6. Reexecute(q)
        BY <1>5, <2>1
  <2> HIDE DEF q
  <2>7. QED BY <1>3, <1>5, <2>5, <2>6
<1>6. QED BY <1>4, <1>5 DEF HeaderValueLws

\* A value without a byte.
LEMMA HeaderValueEmptyStep ==
    ASSUME IInv, HeaderValueEmpty
    PROVE  IInv'
PROOF
<1>1. /\ AtByte /\ P.state = "s_header_value_discard_lws"
      /\ P.nread <= HTTP_MAX_HEADER_SIZE
      /\ P \in Parser /\ P.http_errno = "OK" /\ P.state = parser.state
  <2>1. In({"s_header_value_discard_lws"})
        BY DEF HeaderValueEmpty
  <2>2. QED BY <2>1, AtState
<1>2. /\ parser.state \in HeadStates
      /\ \A k \in DataKinds : parser.state \notin MarkStates[k]
      BY <1>1 DEF HeadStates, DataKinds, MarkStates, UrlStates
<1>3. CASE Break([P EXCEPT !.state = "s_header_value_discard_ws"]) /\ UNCHANGED mark
  <2>1. "s_header_value_discard_ws" \in HeadStates \ {"s_header_field", "s_header_value"}
        BY DEF HeadStates
  <2>2. QED BY <1>1, <1>2, <1>3, <2>1, StateMoves
<1>4. CASE CALLBACK_DATA("header_value", [P EXCEPT !.state = "s_header_field_start"],
                [mark EXCEPT !["header_value"] = IF @ = 0 THEN buf.p ELSE @], buf.p, SameByte)
  <2> DEFINE q == [P EXCEPT !.state = "s_header_field_start"]
  <2>1. /\ q \in Parser /\ q.http_errno = "OK" /\ q.nread = P.nread
        /\ q.state = "s_header_field_start" /\ q.state \in HeadStates
        BY <1>1 DEF Parser, HeadStates
  <2>2. Sound(q)
        BY <1>1, <2>1 DEF Sound, Good, ChunkStates
  <2>3. mark \in [DataKinds -> Nat] /\ \A k \in DataKinds : mark[k] = 0
        BY <1>1, <1>2 DEF IInv, TypeOK, MarksOK, AtByte
  <2>4. /\ buf.p \in Nat /\ buf.from \in Nat /\ buf.from <= buf.p /\ section \in Nat
        /\ section + 1 <= P.nread
        BY <1>1, <1>2, Counted DEF IInv, TypeOK, BufferOK, AtByte, Buffer
  <2>5. PICK m : m = [mark EXCEPT !["header_value"] = buf.p]
        OBVIOUS
  <2>6. m = [mark EXCEPT !["header_value"] = IF @ = 0 THEN buf.p ELSE @]
        BY <2>3, <2>5 DEF DataKinds
  <2>7. /\ m \in [DataKinds -> Nat] /\ m["header_value"] = buf.p
        /\ \A j \in DataKinds \ {"header_value"} : m[j] = 0
        BY <2>3, <2>4, <2>5 DEF DataKinds
  <2>8. CALLBACK_DATA("header_value", q, m, buf.p, SameByte)
        BY <1>4, <2>6
  <2> HIDE DEF q
  <2>9. section + (buf.p - m["header_value"]) + 1 <= P.nread
        BY <2>4, <2>7
  <2>10. "header_value" \in HeaderKinds
         BY DEF HeaderKinds
  <2>11. QED BY <1>1, <1>2, <2>1, <2>2, <2>4, <2>7, <2>8, <2>9, <2>10, StringForm
<1>5. QED BY <1>3, <1>4 DEF HeaderValueEmpty

\* A message is complete in a state in which no string is open.
LEMMA MessageCompleteStep ==
    ASSUME IInv, AtByte, NEW q \in Parser, q.http_errno = "OK", q.nread <= HTTP_MAX_HEADER_SIZE,
           \A k \in DataKinds : parser.state \notin MarkStates[k],
           NEW end, MessageComplete(q, end)
    PROVE  IInv'
PROOF
<1>1. NEW_MESSAGE(q) \in FreshStates
      BY DEF NEW_MESSAGE, FreshStates
<1> DEFINE r == [q EXCEPT !.state = NEW_MESSAGE(q)]
<1>2. /\ r \in Parser /\ r.http_errno = "OK" /\ r.nread = q.nread /\ r.state \in FreshStates
      BY <1>1 DEF Parser
<1>3. CALLBACK_NOTIFY("message_complete", r, end)
      BY DEF MessageComplete
<1> HIDE DEF r
<1>4. Sound(r)
      BY <1>2 DEF Sound, Good, ChunkStates, FreshStates
<1>5. "message_complete" \in ErrorKinds \ (HeaderKinds \cup {"body"})
      BY DEF ErrorKinds, HeaderKinds
<1>6. QED BY <1>3, <1>4, <1>5, NotifyForm

\* The empty line.
LEMMA HeadersAlmostDoneStep ==
    ASSUME IInv, HeadersAlmostDone
    PROVE  IInv'
PROOF
<1>1. /\ AtByte /\ P.state = "s_headers_almost_done"
      /\ P.nread <= HTTP_MAX_HEADER_SIZE
      /\ P \in Parser /\ P.http_errno = "OK" /\ P.state = parser.state
  <2>1. In({"s_headers_almost_done"})
        BY DEF HeadersAlmostDone
  <2>2. QED BY <2>1, AtState
<1>2. \A k \in DataKinds : parser.state \notin MarkStates[k]
      BY <1>1 DEF DataKinds, MarkStates, UrlStates
<1>3. CASE Error(P, "STRICT")
      BY <1>1, <1>3, ErrorForm, ErrorNames
<1>4. CASE MessageComplete(P, FALSE)
      BY <1>1, <1>2, <1>4, MessageCompleteStep
<1>5. CASE /\ parser' = [P EXCEPT !.state = "s_headers_done",
                            !.upgrade = "F_UPGRADE" \in P.flags \/ P.method = "CONNECT"]
           /\ buf' = SameByte
           /\ Callback("headers_complete", "", buf.p - buf.from, FALSE)
           /\ UNCHANGED <<input, mark, got, section>>
  <2>1. /\ parser'.state = "s_headers_done" /\ parser'.http_errno = "OK"
        /\ parser'.nread = P.nread
        BY <1>1, <1>5 DEF Parser
  <2>2. parser' \in Parser
    <3>1. PICK u \in BOOLEAN : u = ("F_UPGRADE" \in P.flags \/ P.method = "CONNECT")
          BY Zenon
    <3>2. parser' = [P EXCEPT !.state = "s_headers_done", !.upgrade = u]
          BY <1>5, <3>1, Zenon
    <3>3. "s_headers_done" \in FreshStates \cup HeadStates \cup PastHead
          BY DEF PastHead
    <3>4. QED BY <1>1, <3>2, <3>3, Zenon DEF Parser
  <2>3. buf \in Buffer /\ buf' = [buf EXCEPT !.again = TRUE]
        BY <1>5 DEF IInv, TypeOK, SameByte
  <2>4. buf' \in Buffer /\ buf'.from = buf.from /\ buf'.to = buf.to /\ buf'.p = buf.p
        BY <2>3, Again, Zenon
  <2>5. /\ ctl'.phase = "callback" /\ ctl'.kind = "headers_complete"
        /\ ctl'.er = buf.p - buf.from
        /\ input' = input /\ mark' = mark /\ section' = section
        BY <1>5 DEF Callback
  <2>6. /\ mark \in [DataKinds -> Nat] /\ \A k \in DataKinds : mark[k] = 0
        /\ buf.p \in Nat /\ buf.from \in Nat /\ buf.to \in Nat
        /\ buf.from <= buf.p /\ buf.p <= buf.to /\ 1 <= buf.from /\ buf.to <= Len(input.text)
        /\ section \in Nat /\ section <= HTTP_MAX_HEADER_SIZE
        BY <1>1, <1>2 DEF IInv, TypeOK, MarksOK, BufferOK, Tallied, AtByte, Buffer
  <2>7. TypeOK'
        BY <2>2, <2>4, <2>5, <2>6 DEF IInv, TypeOK, ErrorKinds
  <2>8. GoodOK'
        BY <1>1, <2>1 DEF GoodOK, Good, ChunkStates
  <2>9. BufferOK'
    <3>1. buf.p - buf.from \in 0..(buf.to - buf.from + 1) /\ buf.from <= buf.to + 1 /\ buf.p <= buf.to + 1
          BY <2>6
    <3>2. QED BY <2>4, <2>5, <2>6, <3>1 DEF BufferOK, Size
  <2>10. MarksOK'
         BY <2>5, <2>6 DEF MarksOK
  <2>11. Tallied'
         BY <2>1, <2>5, <2>6 DEF Tallied, HeaderKinds, HeadStates
  <2>12. BodyOK'
         BY <2>5 DEF BodyOK
  <2>13. QED BY <2>7, <2>8, <2>9, <2>10, <2>11, <2>12 DEF IInv
<1>6. QED BY <1>3, <1>4, <1>5 DEF HeadersAlmostDone

\* Past the head: only the body, and no string that is buffered.
LEMMA BreakPastHead ==
    ASSUME IInv, AtByte, parser.state \in PastHead, NEW q, Sound(q), q.state \notin HeadStates,
           \A k \in DataKinds : parser.state \notin MarkStates[k],
           Break(q), UNCHANGED mark
    PROVE  IInv'
PROOF
<1>1. section = 0
      BY DEF IInv, Tallied, AtByte
<1>2. QED BY <1>1, BreakForm

\* What the headers say of the body.
LEMMA HeadersDoneStep ==
    ASSUME IInv, HeadersDone
    PROVE  IInv'
PROOF
<1> DEFINE q == [P EXCEPT !.nread = 0]
<1>1. /\ AtByte /\ P.state = "s_headers_done"
      /\ P.nread <= HTTP_MAX_HEADER_SIZE
      /\ P \in Parser /\ P.http_errno = "OK" /\ P.state = parser.state
  <2>1. In({"s_headers_done"})
        BY DEF HeadersDone
  <2>2. QED BY <2>1, AtState
<1>2. /\ \A k \in DataKinds : parser.state \notin MarkStates[k]
      /\ parser.state \in PastHead
      BY <1>1 DEF DataKinds, MarkStates, UrlStates, PastHead
<1>3. /\ q \in Parser /\ q.http_errno = "OK" /\ q.nread = 0 /\ q.nread <= HTTP_MAX_HEADER_SIZE
      /\ q.flags = P.flags /\ q.content_length = P.content_length
      BY <1>1, SizesAssumption DEF Parser
<1>4. CASE Error(P, "STRICT")
      BY <1>1, <1>4, ErrorForm, ErrorNames
<1>5. CASE MessageComplete(q, TRUE) \/ MessageComplete(q, FALSE)
      BY <1>1, <1>2, <1>3, <1>5, MessageCompleteStep
<1>6. CASE /\ "F_CHUNKED" \in P.flags /\ UNCHANGED mark
           /\ Break([q EXCEPT !.state = "s_chunk_size_start"])
  <2> DEFINE r == [q EXCEPT !.state = "s_chunk_size_start"]
  <2>1. /\ r \in Parser /\ r.http_errno = "OK" /\ r.nread = 0 /\ r.flags = P.flags
        /\ r.state = "s_chunk_size_start"
        BY <1>3 DEF Parser, PastHead, ChunkStates
  <2>2. Break(r)
        BY <1>6
  <2> HIDE DEF q, r
  <2>3. Sound(r)
        BY <1>3, <1>6, <2>1 DEF Sound, Good
  <2>4. r.state \notin HeadStates
        BY <2>1 DEF HeadStates
  <2>5. QED BY <1>1, <1>2, <1>6, <2>2, <2>3, <2>4, BreakPastHead
<1>7. CASE /\ P.content_length \notin {0, ULLONG_MAX} /\ UNCHANGED mark
           /\ Break([q EXCEPT !.state = "s_body_identity"])
  <2> DEFINE r == [q EXCEPT !.state = "s_body_identity"]
  <2>1. /\ r \in Parser /\ r.http_errno = "OK" /\ r.nread = 0
        /\ r.content_length = P.content_length /\ r.state = "s_body_identity"
        BY <1>3 DEF Parser, PastHead
  <2>2. Break(r)
        BY <1>7
  <2> HIDE DEF q, r
  <2>3. Sound(r)
        BY <1>3, <1>7, <2>1 DEF Sound, Good, ChunkStates
  <2>4. r.state \notin HeadStates
        BY <2>1 DEF HeadStates
  <2>5. QED BY <1>1, <1>2, <1>7, <2>2, <2>3, <2>4, BreakPastHead
<1>8. QED BY <1>4, <1>5, <1>6, <1>7 DEF HeadersDone

-----------------------------------------------------------------------------
(***************************************************************************)
(* The turns of a body.                                                    *)
(***************************************************************************)
\* The assertions of the body states hold.
LEMMA AssertedHolds ==
    ASSUME IInv, AtByte, parser.state \in ChunkStates \cup {"s_body_identity"}
    PROVE  Asserted
PROOF
<1>1. Good(parser)
      BY DEF IInv, GoodOK, AtByte
<1>2. /\ P.state = parser.state /\ P.flags = parser.flags
      /\ P.content_length = parser.content_length
      /\ P.state = "s_chunk_size_start" => P.nread = 1
      BY Counted
<1>3. P.state \notin {"s_body_identity", "s_message_done"} => "F_CHUNKED" \in P.flags
      BY <1>1, <1>2 DEF Good, ChunkStates
<1>4. QED BY <1>1, <1>2, <1>3 DEF Asserted, Good

\* What every turn of a body starts from.
LEMMA AtBody ==
    ASSUME IInv, NEW s \in ChunkStates \cup {"s_body_identity"}, In({s})
    PROVE  /\ AtByte /\ Asserted /\ (s # "s_chunk_size_start" => Good(P))
           /\ P.state = s /\ parser.state = s /\ s \in PastHead /\ section = 0
           /\ P.nread <= HTTP_MAX_HEADER_SIZE
           /\ P \in Parser /\ P.http_errno = "OK"
PROOF
<1>1. /\ AtByte /\ P.state = s /\ P.nread <= HTTP_MAX_HEADER_SIZE
      /\ P \in Parser /\ P.http_errno = "OK" /\ P.state = parser.state
  <2>1. P.state \in {s} => P.state = s
        OBVIOUS
  <2>2. QED BY <2>1, AtState
<1>2. Asserted
      BY <1>1, AssertedHolds
<1>3. s \in PastHead
      BY DEF PastHead
<1>4. section = 0
      BY <1>1, <1>3, Counted
<1>5. s # "s_chunk_size_start" => Good(P)
  <2>1. Good(parser)
        BY <1>1 DEF IInv, GoodOK, AtByte
  <2>2. /\ P.flags = parser.flags /\ P.content_length = parser.content_length
        /\ P.header_state = parser.header_state
        BY <1>1, Counted
  <2>3. QED BY <1>1, <2>1, <2>2 DEF Good
<1>6. QED BY <1>1, <1>2, <1>3, <1>4, <1>5

\* The bytes of the body in this buffer, at most as many as are announced; and the marks.
LEMMA BytesTaken ==
    ASSUME IInv, AtByte, P.content_length \in Nat \ {0}, parser.state \in PastHead
    PROVE  /\ ToRead \in Nat /\ 1 <= ToRead /\ ToRead <= P.content_length
           /\ buf.p + ToRead <= buf.to + 1
           /\ BodyMarked \in [DataKinds -> Nat] /\ BodyMarked["body"] # 0
           /\ buf.from <= BodyMarked["body"] /\ BodyMarked["body"] <= buf.p
           /\ \A k \in HeaderKinds : BodyMarked[k] = 0
PROOF
<1>1. /\ buf \in Buffer /\ buf.p \in Nat /\ buf.from \in Nat /\ buf.to \in Nat
      /\ mark \in [DataKinds -> Nat]
      /\ 1 <= buf.from /\ buf.from <= buf.p /\ buf.p <= buf.to
      /\ \A k \in DataKinds : mark[k] # 0 =>
            /\ parser.state \in MarkStates[k]
            /\ buf.from <= mark[k] /\ mark[k] <= buf.p
      BY DEF IInv, TypeOK, BufferOK, MarksOK, AtByte, Buffer
<1>2. \A k \in HeaderKinds : k \in DataKinds /\ k # "body" /\ parser.state \notin MarkStates[k]
      BY DEF HeaderKinds, DataKinds, MarkStates, PastHead, ChunkStates, UrlStates
<1>3. \A k \in HeaderKinds : mark[k] = 0
      BY <1>1, <1>2
<1>4. "body" \in DataKinds
      BY DEF DataKinds
<1>5. PICK m \in Nat : m = IF mark["body"] = 0 THEN buf.p ELSE mark["body"]
      BY <1>1, <1>4
<1>6. BodyMarked = [mark EXCEPT !["body"] = m]
      BY <1>1, <1>4, <1>5 DEF BodyMarked
<1>7. m # 0 /\ buf.from <= m /\ m <= buf.p
      BY <1>1, <1>4, <1>5
<1>8. /\ ToRead \in Nat /\ 1 <= ToRead /\ ToRead <= P.content_length
      /\ buf.p + ToRead <= buf.to + 1
      BY <1>1 DEF ToRead, Smaller
<1>9. QED BY <1>1, <1>2, <1>3, <1>4, <1>6, <1>7, <1>8

\* The buffer after those bytes.
LEMMA BytesPassed ==
    ASSUME buf \in Buffer, NEW n \in Nat, 1 <= n, ToRead = n
    PROVE  /\ buf' = [Consumed EXCEPT !.p = @ + 1, !.again = FALSE] =>
                 buf' \in Buffer /\ buf'.from = buf.from /\ buf'.to = buf.to /\ buf'.p = buf.p + n
           /\ buf' = [Consumed EXCEPT !.again = TRUE] =>
                 buf' \in Buffer /\ buf'.from = buf.from /\ buf'.to = buf.to /\ buf'.p = buf.p + n - 1
PROOF
<1>1. buf.p \in Nat /\ buf.p + n - 1 \in Nat /\ buf.p + n \in Nat
      BY DEF Buffer
<1>2. PICK m \in Nat : m = buf.p + n - 1
      BY <1>1
<1>3. PICK l \in Nat : l = m + 1
      OBVIOUS
<1>4. Consumed = [buf EXCEPT !.p = m]
      BY <1>2 DEF Consumed
<1>5. Consumed.p = m
      BY <1>4 DEF Buffer
<1>6. ASSUME buf' = [Consumed EXCEPT !.p = @ + 1, !.again = FALSE]
      PROVE  buf' \in Buffer /\ buf'.from = buf.from /\ buf'.to = buf.to /\ buf'.p = buf.p + n
  <2>1. buf' = [buf EXCEPT !.p = l, !.again = FALSE]
        BY <1>3, <1>4, <1>5, <1>6 DEF Buffer
  <2>2. buf' \in Buffer /\ buf'.from = buf.from /\ buf'.to = buf.to /\ buf'.p = l
        BY <2>1, Forward, Zenon
  <2>3. QED BY <1>1, <1>2, <1>3, <2>2
<1>7. ASSUME buf' = [Consumed EXCEPT !.again = TRUE]
      PROVE  buf' \in Buffer /\ buf'.from = buf.from /\ buf'.to = buf.to /\ buf'.p = buf.p + n - 1
  <2>1. buf' = [buf EXCEPT !.p = m, !.again = TRUE]
        BY <1>4, <1>7 DEF Buffer
  <2>2. buf' \in Buffer
        BY <2>1, Zenon DEF Buffer
  <2>3. buf'.from = buf.from /\ buf'.to = buf.to /\ buf'.p = m
        BY <2>1 DEF Buffer
  <2>4. QED BY <1>2, <2>2, <2>3
<1>8. QED BY <1>6, <1>7

\* The rest of the announced length is a length; when none is left the state says so.
LEMMA LengthLeft ==
    ASSUME P \in Parser, P.http_errno = "OK", Good(P), P.nread <= HTTP_MAX_HEADER_SIZE,
           P.state \in {"s_body_identity", "s_chunk_data"},
           NEW n \in Nat, 1 <= n, n <= P.content_length,
           NEW s \in {"s_body_identity", "s_chunk_data", "s_chunk_data_almost_done",
                      "s_message_done"},
           s \in {"s_chunk_data", "s_chunk_data_almost_done"} => P.state = "s_chunk_data",
           IF n = P.content_length THEN s \in {"s_chunk_data_almost_done", "s_message_done"}
           ELSE s = P.state,
           NEW q, q = [P EXCEPT !.content_length = @ - n, !.state = s]
    PROVE  /\ Sound(q) /\ Announced(q)
           /\ q.state = s /\ q.state \in PastHead /\ q.state # "s_chunk_size_start"
PROOF
<1>1. /\ P.content_length \in Nat /\ P.content_length # ULLONG_MAX /\ P.content_length <= ULLONG_MAX
      /\ P.state = "s_chunk_data" => "F_CHUNKED" \in P.flags
      /\ ULLONG_MAX \in Nat
      BY SizesAssumption DEF Parser, Good, ChunkStates
<1>2. PICK l \in Nat : l = P.content_length - n
      BY <1>1
<1>3. /\ l \in 0..ULLONG_MAX /\ l # ULLONG_MAX
      /\ l = 0 <=> n = P.content_length
      BY <1>1, <1>2
<1>4. s \in PastHead /\ s # "s_chunk_size_start"
      BY DEF PastHead, ChunkStates
<1>5. q = [P EXCEPT !.content_length = l, !.state = s]
      BY <1>2
<1>6. q \in Parser
      BY <1>3, <1>4, <1>5 DEF Parser
<1>7. /\ q.state = s /\ q.content_length = l /\ q.flags = P.flags /\ q.http_errno = "OK"
      /\ q.nread = P.nread
      BY <1>5 DEF Parser
<1>8. Good(q)
      BY <1>1, <1>3, <1>7 DEF Good, ChunkStates
<1>9. QED BY <1>3, <1>4, <1>6, <1>7, <1>8 DEF Sound, Announced

\* A body of an announced length.
LEMMA BodyIdentityStep ==
    ASSUME IInv, BodyIdentity
    PROVE  IInv'
PROOF
<1>1. /\ AtByte /\ Asserted /\ Good(P) /\ P.state = "s_body_identity"
      /\ parser.state = "s_body_identity" /\ parser.state \in PastHead
      /\ P.nread <= HTTP_MAX_HEADER_SIZE
      /\ P \in Parser /\ P.http_errno = "OK"
  <2>1. In({"s_body_identity"})
        BY DEF BodyIdentity
  <2>2. "s_body_identity" \in ChunkStates \cup {"s_body_identity"}
        OBVIOUS
  <2>3. "s_body_identity" # "s_chunk_size_start"
        OBVIOUS
  <2>4. QED BY <2>1, <2>2, <2>3, AtBody
<1>2. P.content_length \in Nat \ {0}
      BY <1>1 DEF Good, Parser
<1>3. PICK n \in Nat : n = ToRead
      BY <1>1, <1>2, BytesTaken
<1>4. /\ 1 <= n /\ n <= P.content_length /\ buf.p + n <= buf.to + 1
      /\ BodyMarked \in [DataKinds -> Nat] /\ BodyMarked["body"] # 0
      /\ buf.from <= BodyMarked["body"] /\ BodyMarked["body"] <= buf.p
      /\ \A k \in HeaderKinds : BodyMarked[k] = 0
      BY <1>1, <1>2, <1>3, BytesTaken
<1>5. buf \in Buffer /\ buf.p \in Nat /\ buf.to \in Nat /\ buf.from \in Nat /\ ctl.phase = "exec"
      BY <1>1 DEF IInv, TypeOK, Buffer, AtByte
<1> DEFINE q == [P EXCEPT !.content_length = @ - n]
           r == [P EXCEPT !.content_length = @ - n, !.state = "s_message_done"]
<1>6. q.content_length = P.content_length - n /\ q = [P EXCEPT !.content_length = @ - n, !.state = P.state]
      BY <1>1 DEF Parser
<1>7. "body" \in DataKinds
      BY DEF DataKinds
<1>8. CASE /\ n = P.content_length
           /\ CALLBACK_DATA("body", [q EXCEPT !.state = "s_message_done"], BodyMarked,
                            Consumed.p + 1, [Consumed EXCEPT !.again = TRUE])
  <2>1. [q EXCEPT !.state = "s_message_done"] = r
        BY <1>1 DEF Parser
  <2>2. r = [P EXCEPT !.content_length = @ - n, !.state = "s_message_done"]
        OBVIOUS
  <2> HIDE DEF r
  <2>3. Sound(r) /\ Announced(r) /\ r.state \in PastHead /\ r.state # "s_chunk_size_start"
    <3>1. PICK s : s = "s_message_done"
          OBVIOUS
    <3>2. /\ s \in {"s_body_identity", "s_chunk_data", "s_chunk_data_almost_done", "s_message_done"}
          /\ s \in {"s_chunk_data", "s_chunk_data_almost_done"} => P.state = "s_chunk_data"
          /\ IF n = P.content_length THEN s \in {"s_chunk_data_almost_done", "s_message_done"}
             ELSE s = P.state
          /\ P.state \in {"s_body_identity", "s_chunk_data"}
          BY <1>1, <1>8, <3>1
    <3>3. r = [P EXCEPT !.content_length = @ - n, !.state = s]
          BY <2>2, <3>1
    <3>4. QED BY <1>1, <1>4, <3>2, <3>3, LengthLeft
  <2>4. /\ parser' = r /\ buf' = [Consumed EXCEPT !.again = TRUE]
        /\ mark' = [BodyMarked EXCEPT !["body"] = 0]
        /\ input' = input /\ section' = section
        /\ ctl'.phase = "callback" /\ ctl'.kind = "body" /\ ctl'.er = buf'.p - buf.from
        BY <1>4, <1>8, <2>1 DEF CALLBACK_DATA, Callback
  <2>5. /\ buf' \in Buffer /\ buf'.from = buf.from /\ buf'.to = buf.to /\ buf'.p = buf.p + n - 1
        BY <1>3, <1>4, <1>5, <2>4, BytesPassed
  <2>6. buf.p <= buf'.p /\ buf'.p <= buf.to + 1
        BY <1>4, <1>5, <2>5
  <2>7. /\ mark' \in [DataKinds -> Nat] /\ mark'["body"] = 0
        /\ \A k \in HeaderKinds : mark'[k] = 0
        BY <1>4, <1>7, <2>4 DEF HeaderKinds
  <2>8. parser.state \notin {"s_chunk_size_start"}
        BY <1>1
  <2>9. QED BY <1>1, <2>3, <2>4, <2>5, <2>6, <2>7, <2>8, BodyForm
<1>9. CASE /\ n # P.content_length
           /\ parser' = q
           /\ buf' = [Consumed EXCEPT !.p = @ + 1, !.again = FALSE]
           /\ mark' = BodyMarked
           /\ UNCHANGED <<input, ctl, got, section>>
  <2> HIDE DEF q
  <2>1. /\ Sound(q) /\ Announced(q) /\ q.state \in PastHead /\ q.state # "s_chunk_size_start"
        /\ q.state = "s_body_identity"
        BY <1>1, <1>4, <1>6, <1>9, LengthLeft
  <2>2. /\ buf' \in Buffer /\ buf'.from = buf.from /\ buf'.to = buf.to /\ buf'.p = buf.p + n
        BY <1>3, <1>4, <1>5, <1>9, BytesPassed
  <2>3. buf.p <= buf'.p /\ buf'.p <= buf.to + 1
        BY <1>4, <1>5, <2>2
  <2>4. /\ q.state \in MarkStates["body"]
        /\ buf.from <= mark'["body"] /\ mark'["body"] <= buf'.p
    <3>1. BodyMarked["body"] \in Nat
          BY <1>4, <1>7
    <3>2. QED BY <1>4, <1>5, <1>9, <2>1, <2>2, <3>1 DEF MarkStates
  <2>5. parser.state \notin {"s_chunk_size_start"}
        BY <1>1
  <2>6. QED BY <1>1, <1>4, <1>9, <2>1, <2>2, <2>3, <2>4, <2>5, BodyForm
<1>10. QED
  <2>1. q.content_length = 0 <=> n = P.content_length
        BY <1>2, <1>3, <1>6
  <2>2. IF q.content_length = 0
        THEN CALLBACK_DATA("body", [q EXCEPT !.state = "s_message_done"], BodyMarked,
                           Consumed.p + 1, [Consumed EXCEPT !.again = TRUE])
        ELSE /\ parser' = q
             /\ buf' = [Consumed EXCEPT !.p = @ + 1, !.again = FALSE]
             /\ mark' = BodyMarked
             /\ UNCHANGED <<input, ctl, got, section>>
        BY <1>1, <1>3 DEF BodyIdentity
  <2> HIDE DEF q
  <2>3. QED BY <1>8, <1>9, <2>1, <2>2

\* The body has been handed over.
LEMMA MessageDoneStep ==
    ASSUME IInv, MessageDone
    PROVE  IInv'
PROOF
<1>1. /\ AtByte /\ P.state = "s_message_done" /\ P.nread <= HTTP_MAX_HEADER_SIZE
      /\ P \in Parser /\ P.http_errno = "OK" /\ P.state = parser.state
  <2>1. In({"s_message_done"})
        BY DEF MessageDone
  <2>2. QED BY <2>1, AtState
<1>2. \A k \in DataKinds : parser.state \notin MarkStates[k]
      BY <1>1 DEF DataKinds, MarkStates, UrlStates
<1>3. MessageComplete(P, FALSE)
      BY DEF MessageDone
<1>4. QED BY <1>1, <1>2, <1>3, MessageCompleteStep

\* The first digit of a chunk's size.
LEMMA ChunkSizeStartStep ==
    ASSUME IInv, ChunkSizeStart
    PROVE  IInv'
PROOF
<1>1. /\ AtByte /\ Asserted /\ P.state = "s_chunk_size_start"
      /\ parser.state = "s_chunk_size_start" /\ parser.state \in PastHead
      /\ P.nread <= HTTP_MAX_HEADER_SIZE
      /\ P \in Parser /\ P.http_errno = "OK"
  <2>1. In({"s_chunk_size_start"})
        BY DEF ChunkSizeStart
  <2>2. "s_chunk_size_start" \in ChunkStates \cup {"s_body_identity"}
        BY DEF ChunkStates
  <2>3. QED BY <2>1, <2>2, AtBody
<1>2. \A k \in DataKinds : parser.state \notin MarkStates[k]
      BY <1>1 DEF DataKinds, MarkStates, UrlStates
<1>3. CASE Error(P, "INVALID_CHUNK_SIZE")
      BY <1>1, <1>3, ErrorForm, ErrorNames
<1>4. CASE /\ ch \in HEX
           /\ Break([P EXCEPT !.content_length = Unhex(ch), !.state = "s_chunk_size"])
           /\ UNCHANGED mark
  <2>1. PICK d : d = Unhex(ch)
        OBVIOUS
  <2>2. d \in 0..ULLONG_MAX /\ d # ULLONG_MAX
        BY <1>4, <2>1, DigitsAssumption, SizesAssumption
  <2> DEFINE r == [P EXCEPT !.content_length = d, !.state = "s_chunk_size"]
  <2>3. /\ r \in Parser /\ r.http_errno = "OK" /\ r.nread = P.nread /\ r.flags = P.flags
        /\ r.state = "s_chunk_size" /\ r.content_length = d
        BY <1>1, <2>2 DEF Parser, PastHead, ChunkStates
  <2>4. Break(r)
        BY <1>4, <2>1
  <2> HIDE DEF r
  <2>5. "F_CHUNKED" \in P.flags
        BY <1>1 DEF Asserted
  <2>6. Sound(r) /\ r.state \notin HeadStates
        BY <1>1, <2>2, <2>3, <2>5 DEF Sound, Good, HeadStates
  <2>7. QED BY <1>1, <1>2, <1>4, <2>4, <2>6, BreakPastHead
<1>5. QED BY <1>1, <1>3, <1>4 DEF ChunkSizeStart

\* The further digits; the size never wraps around nor becomes the length that means none.
LEMMA ChunkSizeStep ==
    ASSUME IInv, ChunkSize
    PROVE  IInv'
PROOF
<1>1. /\ AtByte /\ Asserted /\ Good(P) /\ P.state = "s_chunk_size"
      /\ parser.state = "s_chunk_size" /\ parser.state \in PastHead
      /\ P.nread <= HTTP_MAX_HEADER_SIZE
      /\ P \in Parser /\ P.http_errno = "OK"
  <2>1. In({"s_chunk_size"})
        BY DEF ChunkSize
  <2>2. "s_chunk_size" \in ChunkStates \cup {"s_body_identity"} /\ "s_chunk_size" # "s_chunk_size_start"
        BY DEF ChunkStates
  <2>3. QED BY <2>1, <2>2, AtBody
<1>2. \A k \in DataKinds : parser.state \notin MarkStates[k]
      BY <1>1 DEF DataKinds, MarkStates, UrlStates
<1>3. /\ "F_CHUNKED" \in P.flags /\ P.content_length \in Nat
      /\ P.content_length # ULLONG_MAX
      BY <1>1 DEF Good, ChunkStates, Parser
<1>4. CASE \E e \in {"INVALID_CONTENT_LENGTH", "INVALID_CHUNK_SIZE"} : Error(P, e)
      BY <1>1, <1>4, ErrorForm, ErrorNames
<1>5. CASE \E s \in {"s_chunk_size_almost_done", "s_chunk_parameters"} :
               Break([P EXCEPT !.state = s]) /\ UNCHANGED mark
  <2>1. PICK s \in {"s_chunk_size_almost_done", "s_chunk_parameters"} :
               Break([P EXCEPT !.state = s]) /\ UNCHANGED mark
        BY <1>5
  <2> DEFINE r == [P EXCEPT !.state = s]
  <2>2. /\ r \in Parser /\ r.http_errno = "OK" /\ r.nread = P.nread /\ r.flags = P.flags
        /\ r.state = s /\ r.content_length = P.content_length
        BY <1>1 DEF Parser, PastHead, ChunkStates
  <2>3. Break(r) /\ UNCHANGED mark
        BY <2>1
  <2> HIDE DEF r
  <2>4. Sound(r) /\ r.state \notin HeadStates
        BY <1>1, <1>3, <2>2 DEF Sound, Good, HeadStates
  <2>5. QED BY <1>1, <1>2, <2>3, <2>4, BreakPastHead
<1>6. CASE /\ ch \in HEX /\ ~TooLong(P.content_length, 16)
           /\ Break([P EXCEPT !.content_length = Digit(@, 16, Unhex(ch))]) /\ UNCHANGED mark
  <2>1. PICK d : d = Unhex(ch)
        OBVIOUS
  <2>2. d \in Nat /\ d < 16
        BY <1>6, <2>1, DigitsAssumption
  <2>3. PICK l : l = (P.content_length * 16 + d) % (ULLONG_MAX + 1)
        OBVIOUS
  <2>4. l \in 0..ULLONG_MAX /\ l # ULLONG_MAX
    <3>1. PICK old \in Nat : old = P.content_length
          BY <1>3
    <3>2. ~((ULLONG_MAX - 16) \div 16 < old)
          BY <1>6, <3>1 DEF TooLong
    <3>3. QED BY <2>2, <2>3, <3>1, <3>2, DigitFits, SizesAssumption
  <2> DEFINE r == [P EXCEPT !.content_length = l]
  <2>5. /\ r \in Parser /\ r.http_errno = "OK" /\ r.nread = P.nread /\ r.flags = P.flags
        /\ r.state = P.state /\ r.content_length = l
        BY <1>1, <2>4 DEF Parser
  <2>6. r = [P EXCEPT !.content_length = Digit(@, 16, Unhex(ch))]
        BY <1>1, <2>1, <2>3 DEF Digit, Parser
  <2>7. Break(r)
        BY <1>6, <2>6
  <2> HIDE DEF r
  <2>8. Sound(r) /\ r.state \notin HeadStates
        BY <1>1, <1>3, <2>4, <2>5 DEF Sound, Good, HeadStates
  <2>9. QED BY <1>1, <1>2, <1>6, <2>7, <2>8, BreakPastHead
<1>7. QED
  <2>1. \/ Break([P EXCEPT !.state = "s_chunk_size_almost_done"]) /\ UNCHANGED mark
        \/ Break([P EXCEPT !.state = "s_chunk_parameters"]) /\ UNCHANGED mark
        \/ /\ ch \in HEX
           /\ IF TooLong(P.content_length, 16) THEN Error(P, "INVALID_CONTENT_LENGTH")
              ELSE Break([P EXCEPT !.content_length = Digit(@, 16, Unhex(ch))]) /\ UNCHANGED mark
        \/ Error(P, "INVALID_CHUNK_SIZE")
        BY <1>1, Zenon DEF ChunkSize
  <2>2. QED BY <1>4, <1>5, <1>6, <2>1

\* The rest of the line of a chunk's size.
LEMMA ChunkParametersStep ==
    ASSUME IInv, ChunkParameters
    PROVE  IInv'
PROOF
<1>1. /\ AtByte /\ Asserted /\ Good(P) /\ P.state = "s_chunk_parameters"
      /\ parser.state = "s_chunk_parameters" /\ parser.state \in PastHead
      /\ P.nread <= HTTP_MAX_HEADER_SIZE
      /\ P \in Parser /\ P.http_errno = "OK"
  <2>1. In({"s_chunk_parameters"})
        BY DEF ChunkParameters
  <2>2. /\ "s_chunk_parameters" \in ChunkStates \cup {"s_body_identity"}
        /\ "s_chunk_parameters" # "s_chunk_size_start"
        BY DEF ChunkStates
  <2>3. QED BY <2>1, <2>2, AtBody
<1>2. \A k \in DataKinds : parser.state \notin MarkStates[k]
      BY <1>1 DEF DataKinds, MarkStates, UrlStates
<1>3. "F_CHUNKED" \in P.flags /\ P.content_length # ULLONG_MAX
      BY <1>1 DEF Good, ChunkStates
<1>4. PICK s \in {"s_chunk_size_almost_done", "s_chunk_parameters"} :
             Break([P EXCEPT !.state = s]) /\ UNCHANGED mark
  <2>1. [P EXCEPT !.state = "s_chunk_parameters"] = P
        BY <1>1 DEF Parser
  <2>2. QED BY <1>1, <2>1 DEF ChunkParameters
<1> DEFINE r == [P EXCEPT !.state = s]
<1>5. /\ r \in Parser /\ r.http_errno = "OK" /\ r.nread = P.nread /\ r.flags = P.flags
      /\ r.state = s /\ r.content_length = P.content_length
      BY <1>1 DEF Parser, PastHead, ChunkStates
<1>6. Break(r) /\ UNCHANGED mark
      BY <1>4
<1> HIDE DEF r
<1>7. Sound(r) /\ r.state \notin HeadStates
      BY <1>1, <1>3, <1>5 DEF Sound, Good, HeadStates
<1>8. QED BY <1>1, <1>2, <1>6, <1>7, BreakPastHead

\* The line ends; the last chunk is followed by a section of trailers, counted from nothing.
LEMMA ChunkSizeAlmostDoneStep ==
    ASSUME IInv, ChunkSizeAlmostDone
    PROVE  IInv'
PROOF
<1>1. /\ AtByte /\ Asserted /\ Good(P) /\ P.state = "s_chunk_size_almost_done"
      /\ parser.state = "s_chunk_size_almost_done" /\ parser.state \in PastHead
      /\ section = 0 /\ P \in Parser /\ P.http_errno = "OK"
  <2>1. In({"s_chunk_size_almost_done"})
        BY DEF ChunkSizeAlmostDone
  <2>2. /\ "s_chunk_size_almost_done" \in ChunkStates \cup {"s_body_identity"}
        /\ "s_chunk_size_almost_done" # "s_chunk_size_start"
        BY DEF ChunkStates
  <2>3. QED BY <2>1, <2>2, AtBody
<1>2. \A k \in DataKinds : parser.state \notin MarkStates[k]
      BY <1>1 DEF DataKinds, MarkStates, UrlStates
<1>3. "F_CHUNKED" \in P.flags /\ P.content_length # ULLONG_MAX /\ 0 <= HTTP_MAX_HEADER_SIZE
      BY <1>1, SizesAssumption DEF Good, ChunkStates
<1>4. CASE Error(P, "STRICT")
      BY <1>1, <1>4, ErrorForm, ErrorNames
<1>5. CASE /\ UNCHANGED mark
           /\ Break([P EXCEPT !.nread = 0, !.flags = @ \cup {"F_TRAILING"},
                              !.state = "s_header_field_start"])
  <2> DEFINE r == [P EXCEPT !.nread = 0, !.flags = @ \cup {"F_TRAILING"},
                            !.state = "s_header_field_start"]
  <2>1. "s_header_field_start" \in HeadStates /\ "s_header_field_start" \notin PastHead
        BY DEF HeadStates, PastHead, ChunkStates
  <2>2. P.flags \cup {"F_TRAILING"} \in SUBSET Flags
        BY <1>1 DEF Parser, Flags
  <2>3. /\ r \in Parser /\ r.http_errno = "OK" /\ r.nread = 0 /\ r.state = "s_header_field_start"
        BY <1>1, <2>1, <2>2 DEF Parser
  <2>4. Break(r)
        BY <1>5
  <2> HIDE DEF r
  <2>5. Sound(r)
        BY <1>3, <2>3 DEF Sound, Good, ChunkStates
  <2>6. r.state \notin PastHead
        BY <2>1, <2>3
  <2>7. QED BY <1>1, <1>2, <1>5, <2>4, <2>5, <2>6, BreakForm
<1>6. CASE /\ P.content_length # 0 /\ UNCHANGED mark
           /\ Break([P EXCEPT !.nread = 0, !.state = "s_chunk_data"])
  <2> DEFINE r == [P EXCEPT !.nread = 0, !.state = "s_chunk_data"]
  <2>1. /\ r \in Parser /\ r.http_errno = "OK" /\ r.nread = 0 /\ r.state = "s_chunk_data"
        /\ r.flags = P.flags /\ r.content_length = P.content_length
        BY <1>1 DEF Parser, PastHead, ChunkStates
  <2>2. Break(r)
        BY <1>6
  <2> HIDE DEF r
  <2>3. Sound(r) /\ r.state \notin HeadStates
        BY <1>3, <1>6, <2>1 DEF Sound, Good, HeadStates
  <2>4. QED BY <1>1, <1>2, <1>6, <2>2, <2>3, BreakPastHead
<1>7. QED BY <1>1, <1>4, <1>5, <1>6 DEF ChunkSizeAlmostDone

\* The bytes of a chunk.
LEMMA ChunkDataStep ==
    ASSUME IInv, ChunkData
    PROVE  IInv'
PROOF
<1>1. /\ AtByte /\ Asserted /\ Good(P) /\ P.state = "s_chunk_data"
      /\ parser.state = "s_chunk_data" /\ parser.state \in PastHead
      /\ P.nread <= HTTP_MAX_HEADER_SIZE
      /\ P \in Parser /\ P.http_errno = "OK"
  <2>1. In({"s_chunk_data"})
        BY DEF ChunkData
  <2>2. "s_chunk_data" \in ChunkStates \cup {"s_body_identity"} /\ "s_chunk_data" # "s_chunk_size_start"
        BY DEF ChunkStates
  <2>3. QED BY <2>1, <2>2, AtBody
<1>2. P.content_length \in Nat \ {0}
      BY <1>1 DEF Good, Parser
<1>3. PICK n \in Nat : n = ToRead
      BY <1>1, <1>2, BytesTaken
<1>4. /\ 1 <= n /\ n <= P.content_length /\ buf.p + n <= buf.to + 1
      /\ BodyMarked \in [DataKinds -> Nat] /\ BodyMarked["body"] # 0
      /\ buf.from <= BodyMarked["body"] /\ BodyMarked["body"] <= buf.p
      /\ \A k \in HeaderKinds : BodyMarked[k] = 0
      BY <1>1, <1>2, <1>3, BytesTaken
<1>5. /\ buf \in Buffer /\ buf.p \in Nat /\ buf.to \in Nat /\ BodyMarked["body"] \in Nat
      BY <1>1, <1>4 DEF IInv, TypeOK, Buffer, DataKinds
<1>6. PICK s : s = IF P.content_length = n THEN "s_chunk_data_almost_done" ELSE P.state
      OBVIOUS
<1> DEFINE q == [P EXCEPT !.content_length = @ - n, !.state = s]
<1>7. /\ s \in {"s_body_identity", "s_chunk_data", "s_chunk_data_almost_done", "s_message_done"}
      /\ IF n = P.content_length THEN s \in {"s_chunk_data_almost_done", "s_message_done"}
         ELSE s = P.state
      /\ s \in {"s_chunk_data", "s_chunk_data_almost_done"}
      BY <1>1, <1>6
<1>8. /\ parser' = q
      /\ buf' = [Consumed EXCEPT !.p = @ + 1, !.again = FALSE]
      /\ mark' = BodyMarked
      /\ UNCHANGED <<input, ctl, got, section>>
      BY <1>1, <1>3, <1>6 DEF ChunkData, Parser
<1>9. q = [P EXCEPT !.content_length = @ - n, !.state = s]
      OBVIOUS
<1> HIDE DEF q
<1>10. /\ Sound(q) /\ q.state \in PastHead /\ q.state # "s_chunk_size_start" /\ q.state = s
       BY <1>1, <1>4, <1>7, <1>9, LengthLeft
<1>11. /\ buf' \in Buffer /\ buf'.from = buf.from /\ buf'.to = buf.to /\ buf'.p = buf.p + n
       BY <1>3, <1>4, <1>5, <1>8, BytesPassed
<1>12. buf.p <= buf'.p /\ buf'.p <= buf.to + 1
       BY <1>4, <1>5, <1>11
<1>13. /\ q.state \in MarkStates["body"]
       /\ buf.from <= mark'["body"] /\ mark'["body"] <= buf'.p
       BY <1>4, <1>5, <1>7, <1>8, <1>10, <1>11 DEF MarkStates
<1>14. parser.state \notin {"s_chunk_size_start"}
       BY <1>1
<1>15. QED BY <1>1, <1>4, <1>8, <1>10, <1>11, <1>12, <1>13, <1>14, BodyForm

\* A chunk is complete and handed over.
LEMMA ChunkDataAlmostDoneStep ==
    ASSUME IInv, ChunkDataAlmostDone
    PROVE  IInv'
PROOF
<1>1. /\ AtByte /\ Asserted /\ Good(P) /\ P.state = "s_chunk_data_almost_done"
      /\ parser.state = "s_chunk_data_almost_done" /\ parser.state \in PastHead
      /\ P.nread <= HTTP_MAX_HEADER_SIZE
      /\ P \in Parser /\ P.http_errno = "OK"
  <2>1. In({"s_chunk_data_almost_done"})
        BY DEF ChunkDataAlmostDone
  <2>2. /\ "s_chunk_data_almost_done" \in ChunkStates \cup {"s_body_identity"}
        /\ "s_chunk_data_almost_done" # "s_chunk_size_start"
        BY DEF ChunkStates
  <2>3. QED BY <2>1, <2>2, AtBody
<1>2. CASE Error(P, "STRICT")
      BY <1>1, <1>2, ErrorForm, ErrorNames
<1>3. CASE CALLBACK_DATA("body", [P EXCEPT !.state = "s_chunk_data_done"], mark, buf.p, Advanced)
  <2> DEFINE r == [P EXCEPT !.state = "s_chunk_data_done"]
  <2>1. /\ r \in Parser /\ r.http_errno = "OK" /\ r.nread = P.nread /\ r.flags = P.flags
        /\ r.state = "s_chunk_data_done" /\ r.content_length = P.content_length
        BY <1>1 DEF Parser, PastHead, ChunkStates
  <2>2. CALLBACK_DATA("body", r, mark, buf.p, Advanced)
        BY <1>3
  <2> HIDE DEF r
  <2>3. "F_CHUNKED" \in P.flags
        BY <1>1 DEF Good, ChunkStates
  <2>4. Sound(r) /\ Announced(r) /\ r.state \in PastHead /\ r.state # "s_chunk_size_start"
        BY <1>1, <2>1, <2>3 DEF Sound, Good, Announced, PastHead, ChunkStates
  <2>5. buf \in Buffer /\ mark \in [DataKinds -> Nat] /\ buf.p \in Nat /\ buf.to \in Nat /\ buf.p <= buf.to
        BY <1>1 DEF IInv, TypeOK, Buffer, AtByte
  <2>6. /\ parser' = r /\ buf' = Advanced /\ mark' = [mark EXCEPT !["body"] = 0]
        /\ input' = input /\ section' = section
        /\ \/ ctl' = ctl
           \/ ctl'.phase = "callback" /\ ctl'.kind = "body" /\ ctl'.er = buf'.p - buf.from
        BY <2>2 DEF CALLBACK_DATA, Callback
  <2>7. buf' \in Buffer /\ buf'.from = buf.from /\ buf'.to = buf.to /\ buf'.p = buf.p + 1
    <3>1. PICK n \in Nat : n = buf.p + 1
          BY <2>5
    <3>2. buf' = [buf EXCEPT !.p = n, !.again = FALSE]
          BY <2>5, <2>6, <3>1 DEF Advanced
    <3>3. buf' \in Buffer /\ buf'.from = buf.from /\ buf'.to = buf.to /\ buf'.p = n
          BY <2>5, <3>2, Forward, Zenon
    <3>4. QED BY <3>1, <3>3
  <2>8. buf.p <= buf'.p /\ buf'.p <= buf.to + 1
        BY <2>5, <2>7
  <2>9. \A k \in HeaderKinds : mark[k] = 0
    <3>1. \A k \in DataKinds : mark[k] # 0 => parser.state \in MarkStates[k]
          BY <1>1 DEF IInv, MarksOK, AtByte
    <3>2. \A k \in HeaderKinds : k \in DataKinds /\ parser.state \notin MarkStates[k]
          BY <1>1 DEF HeaderKinds, DataKinds, MarkStates, UrlStates
    <3>3. QED BY <3>1, <3>2
  <2>10. /\ mark' \in [DataKinds -> Nat] /\ mark'["body"] = 0
         /\ \A k \in HeaderKinds : mark'[k] = 0
         BY <2>5, <2>6, <2>9 DEF HeaderKinds, DataKinds
  <2>11. parser.state \notin {"s_chunk_size_start"}
         BY <1>1
  <2>12. QED BY <1>1, <2>4, <2>6, <2>7, <2>8, <2>10, <2>11, BodyForm
<1>4. QED BY <1>1, <1>2, <1>3 DEF ChunkDataAlmostDone

\* The line after a chunk ends; the next one is counted from nothing.
LEMMA ChunkDataDoneStep ==
    ASSUME IInv, ChunkDataDone
    PROVE  IInv'
PROOF
<1>1. /\ AtByte /\ Asserted /\ Good(P) /\ P.state = "s_chunk_data_done"
      /\ parser.state = "s_chunk_data_done" /\ parser.state \in PastHead
      /\ P \in Parser /\ P.http_errno = "OK"
  <2>1. In({"s_chunk_data_done"})
        BY DEF ChunkDataDone
  <2>2. /\ "s_chunk_data_done" \in ChunkStates \cup {"s_body_identity"}
        /\ "s_chunk_data_done" # "s_chunk_size_start"
        BY DEF ChunkStates
  <2>3. QED BY <2>1, <2>2, AtBody
<1>2. \A k \in DataKinds : parser.state \notin MarkStates[k]
      BY <1>1 DEF DataKinds, MarkStates, UrlStates
<1>3. "F_CHUNKED" \in P.flags /\ 0 <= HTTP_MAX_HEADER_SIZE
      BY <1>1, SizesAssumption DEF Good, ChunkStates
<1>4. CASE Error(P, "STRICT")
      BY <1>1, <1>4, ErrorForm, ErrorNames
<1>5. CASE Break([P EXCEPT !.nread = 0, !.state = "s_chunk_size_start"]) /\ UNCHANGED mark
  <2> DEFINE r == [P EXCEPT !.nread = 0, !.state = "s_chunk_size_start"]
  <2>1. /\ r \in Parser /\ r.http_errno = "OK" /\ r.nread = 0 /\ r.state = "s_chunk_size_start"
        /\ r.flags = P.flags
        BY <1>1 DEF Parser, PastHead, ChunkStates
  <2>2. Break(r)
        BY <1>5
  <2> HIDE DEF r
  <2>3. Sound(r) /\ r.state \notin HeadStates
        BY <1>3, <2>1 DEF Sound, Good, HeadStates
  <2>4. QED BY <1>1, <1>2, <1>5, <2>2, <2>3, BreakPastHead
<1>6. QED BY <1>1, <1>4, <1>5 DEF ChunkDataDone

-----------------------------------------------------------------------------
(***************************************************************************)
(* All steps.                                                              *)
(***************************************************************************)
\* A turn of the parser, whatever its state and the byte.
LEMMA ParserStepKeeps ==
    ASSUME IInv, ParserStep
    PROVE  IInv'
PROOF
<1>1. CASE HeaderOverflow
      BY <1>1, HeaderOverflowStep
<1>2. CASE EndOfBuffer
      BY <1>2, EndOfBufferStep
<1>3. CASE Dead \/ StartReq \/ ReqMethod \/ ReqUrl \/ HttpWordStep \/ ReqMajor \/ ReqMinor
      BY <1>3, DeadStep, StartReqStep, ReqMethodStep, ReqUrlStep, HttpWordLemma, ReqMajorStep,
         ReqMinorStep
<1>4. CASE \/ LineAlmostDone \/ HeaderFieldStart \/ HeaderField \/ HeaderValueStart
           \/ HeaderValue \/ HeaderValueLws \/ HeaderValueEmpty
      BY <1>4, LineAlmostDoneStep, HeaderFieldStartStep, HeaderFieldStep, HeaderValueStartStep,
         HeaderValueStep, HeaderValueLwsStep, HeaderValueEmptyStep
<1>5. CASE HeadersAlmostDone \/ HeadersDone \/ BodyIdentity \/ MessageDone
      BY <1>5, HeadersAlmostDoneStep, HeadersDoneStep, BodyIdentityStep, MessageDoneStep
<1>6. CASE \/ ChunkSizeStart \/ ChunkSize \/ ChunkParameters \/ ChunkSizeAlmostDone
           \/ ChunkData \/ ChunkDataAlmostDone \/ ChunkDataDone
      BY <1>6, ChunkSizeStartStep, ChunkSizeStep, ChunkParametersStep, ChunkSizeAlmostDoneStep,
         ChunkDataStep, ChunkDataAlmostDoneStep, ChunkDataDoneStep
<1>7. QED BY <1>1, <1>2, <1>3, <1>4, <1>5, <1>6 DEF ParserStep

\* The call has returned; the next one goes on with the parser as it is, or with a fresh one.
LEMMA IdleAgain ==
    ASSUME IInv, ctl.phase = "returned", ctl' = [phase |-> "idle"],
           parser' = parser \/ parser' = http_parser_init,
           input' = input, buf' = buf, mark' = mark, section' = section
    PROVE  IInv'
PROOF
<1>1. ctl'.phase = "idle"
      OBVIOUS
<1>2. /\ http_parser_init \in Parser /\ Good(http_parser_init)
      /\ http_parser_init.state = "s_start_req"
  <2>1. /\ "s_start_req" \in FreshStates /\ "h_general" \in HeaderStates /\ "DELETE" \in Methods
        /\ "OK" \in Errors
        BY DEF FreshStates, HeaderStates, Methods, Errors
  <2>2. 0 \in 0..ULLONG_MAX /\ 0 <= HTTP_MAX_HEADER_SIZE
        BY SizesAssumption
  <2>3. http_parser_init \in Parser
        BY <2>1, <2>2 DEF http_parser_init, Parser
  <2>4. Good(http_parser_init)
        BY <2>2 DEF http_parser_init, Good, ChunkStates
  <2>5. QED BY <2>3, <2>4 DEF http_parser_init
<1>3. TypeOK'
      BY <1>1, <1>2 DEF IInv, TypeOK
<1>4. GoodOK'
      BY <1>1, <1>2 DEF IInv, GoodOK
<1>5. BufferOK' /\ MarksOK' /\ BodyOK'
      BY <1>1 DEF IInv, BufferOK, MarksOK, BodyOK
<1>6. Tallied'
      BY <1>1, <1>2 DEF IInv, Tallied, HeadStates, PastHead, ChunkStates
<1>7. QED BY <1>3, <1>4, <1>5, <1>6 DEF IInv

\* A callback ends the process.
LEMMA AbortStep ==
    ASSUME IInv, ctl.phase = "callback",
           \/ ctl.kind = "body" /\ AbortIn("http_request_append_body")
           \/ AbortIn("parser_cb_on_header_field")
    PROVE  IInv'
PROOF
<1>1. /\ ctl'.phase = "abort"
      /\ \/ ctl.kind = "body" /\ ctl'.where = "http_request_append_body"
         \/ ctl'.where = "parser_cb_on_header_field"
      /\ input' = input /\ buf' = buf /\ parser' = parser /\ mark' = mark /\ section' = section
      BY DEF AbortIn
<1>2. TypeOK' /\ GoodOK' /\ MarksOK' /\ BufferOK'
      BY <1>1 DEF IInv, TypeOK, GoodOK, MarksOK, BufferOK
<1>3. Tallied'
      BY <1>1 DEF IInv, Tallied
<1>4. BodyOK'
      BY <1>1 DEF IInv, BodyOK, Announced
<1>5. QED BY <1>2, <1>3, <1>4 DEF IInv

\* The first call starts before the first byte.
LEMMA InitHolds ==
    ASSUME Init
    PROVE  IInv
PROOF
<1>1. /\ input \in Inputs
      /\ buf = [from |-> 1, to |-> 0, p |-> 1, again |-> FALSE]
      /\ parser = http_parser_init /\ mark = NoMarks /\ ctl = [phase |-> "idle"] /\ section = 0
      BY DEF Init, ParserInit
<1>2. /\ "s_start_req" \in FreshStates /\ "h_general" \in HeaderStates /\ "DELETE" \in Methods
      /\ "OK" \in Errors /\ 0 \in 0..ULLONG_MAX /\ 0 <= HTTP_MAX_HEADER_SIZE
      BY SizesAssumption DEF FreshStates, HeaderStates, Methods, Errors
<1>3. TypeOK
  <2>1. parser \in Parser
        BY <1>1, <1>2 DEF http_parser_init, Parser
  <2>2. buf \in Buffer
        BY <1>1 DEF Buffer
  <2>3. mark \in [DataKinds -> Nat]
        BY <1>1 DEF NoMarks
  <2>4. QED BY <1>1, <2>1, <2>2, <2>3 DEF TypeOK
<1>4. GoodOK
      BY <1>1, <1>2 DEF GoodOK, Good, http_parser_init, ChunkStates
<1>5. BufferOK
  <2>1. Len(input.text) \in Nat
        BY <1>1, TextAssumption
  <2>2. QED BY <1>1, <2>1 DEF BufferOK
<1>6. MarksOK /\ BodyOK
      BY <1>1 DEF MarksOK, BodyOK
<1>7. Tallied
      BY <1>1, <1>2 DEF Tallied, http_parser_init, HeadStates
<1>8. QED BY <1>3, <1>4, <1>5, <1>6, <1>7 DEF IInv

\* Every step keeps the invariant.
LEMMA NextKeeps ==
    ASSUME IInv, [Next]_vars
    PROVE  IInv'
PROOF
<1>1. CASE UNCHANGED vars
  <2>1. /\ input' = input /\ buf' = buf /\ parser' = parser /\ mark' = mark /\ ctl' = ctl
        /\ section' = section
        BY <1>1 DEF vars
  <2>2. TypeOK' /\ GoodOK' /\ MarksOK' /\ BufferOK'
        BY <2>1 DEF IInv, TypeOK, GoodOK, MarksOK, BufferOK, Size
  <2>3. Tallied' /\ BodyOK'
        BY <2>1 DEF IInv, Tallied, BodyOK, Ahead
  <2>4. QED BY <2>2, <2>3 DEF IInv
<1>2. CASE \E n \in BufferSizes : Read(n)
  <2>1. PICK n \in BufferSizes : Execute(n)
        BY <1>2 DEF Read
  <2>2. n \in Nat
    <3>1. Len(input.text) \in Nat /\ buf.to \in Nat /\ n > 0
          BY <2>1, TextAssumption DEF IInv, TypeOK, Buffer, Execute
    <3>2. QED BY <3>1, ReadSizesAssumption DEF BufferSizes
  <2>3. QED BY <2>1, <2>2, ExecuteStep
<1>3. CASE ParserStep
      BY <1>3, ParserStepKeeps
<1>4. CASE NextBuffer \/ AfterExecute
  <2>1. /\ ctl.phase = "returned" /\ ctl' = [phase |-> "idle"]
        /\ input' = input /\ buf' = buf /\ mark' = mark /\ section' = section
        BY <1>4 DEF NextBuffer, AfterExecute
  <2>2. parser' = parser \/ parser' = http_parser_init
        BY <1>4, Zenon DEF NextBuffer, AfterExecute
  <2>3. QED BY <2>1, <2>2, IdleAgain
<1>5. CASE \/ NoCallback
           \/ parser_cb_on_message_begin \/ parser_cb_on_url \/ parser_cb_on_header_field
           \/ parser_cb_on_header_value \/ parser_cb_on_headers_complete
           \/ parser_cb_on_message_complete
  <2>1. CASE \E result : CallbackReturns(result)
        BY <2>1, CallbackStep
  <2>2. CASE ctl.phase = "callback" /\ AbortIn("parser_cb_on_header_field")
        BY <2>2, AbortStep
  <2>3. (\E result : CallbackReturns(result)) \/ (ctl.phase = "callback" /\ AbortIn("parser_cb_on_header_field"))
    <3>1. CASE parser_cb_on_header_field
          BY <3>1, Zenon DEF parser_cb_on_header_field, Calling
    <3>2. CASE ~parser_cb_on_header_field
          BY <1>5, <3>2 DEF NoCallback, parser_cb_on_message_begin, parser_cb_on_url,
             parser_cb_on_header_value, parser_cb_on_headers_complete,
             parser_cb_on_message_complete
    <3>3. QED BY <3>1, <3>2
  <2>4. QED BY <2>1, <2>2, <2>3
<1>6. CASE parser_cb_on_body
      BY <1>6, AbortStep DEF parser_cb_on_body, Calling
<1>7. QED BY <1>1, <1>2, <1>3, <1>4, <1>5, <1>6 DEF Next

-----------------------------------------------------------------------------
\* The invariant holds in every reachable state, for every input and every cut of it.
THEOREM InvCorrect == Spec => []IInv
PROOF
<1>1. Init => IInv
      BY InitHolds
<1>2. IInv /\ [Next]_vars => IInv'
      BY NextKeeps
<1>3. QED BY <1>1, <1>2, PTL DEF Spec

\* No assertion of http_parser_execute fails, whatever the bytes and the buffers; that of
\* http_request_append_body fails only for a request whose headers announced a body.
THEOREM AssertsCorrect == Spec => []AssertsHold
PROOF
<1>1. IInv => AssertsHold
      BY DEF IInv, BodyOK, Announced, AssertsHold
<1>2. QED BY <1>1, InvCorrect, PTL

\* What the callbacks hand over of one section of headers, or of trailers, is never more than
\* HTTP_MAX_HEADER_SIZE bytes.
THEOREM HeaderCorrect == Spec => []HeaderBounded
PROOF
<1>1. IInv => HeaderBounded
      BY DEF IInv, Tallied, HeaderBounded
<1>2. QED BY <1>1, InvCorrect, PTL

\* Positions, marks and the results of a call never leave its buffer, whatever the client sends and
\* however it is cut (p, the four marks and the return value of http_parser_execute).
THEOREM BufferCorrect == Spec => []BufferOK
PROOF
<1>1. IInv => BufferOK
      BY DEF IInv
<1>2. QED BY <1>1, InvCorrect, PTL

-----------------------------------------------------------------------------
(***************************************************************************)
(* The order of the callbacks: each finds the request, the request line    *)
(* and the header it works on.  (A pointer that may be followed is a       *)
(* record with the fields of its struct.)                                  *)
(***************************************************************************)
HasFields(r, fields) == r = [f \in fields |-> r[f]]

IsRequest(r) == HasFields(r, {"req", "headers", "body", "id", "fresh"})
IsHeader(h) == HasFields(h, {"name", "content"})
IsLine(l) == HasFields(l, {"method", "uri", "version"})
Lined(r) == IsRequest(r) /\ IsLine(r.req)
StatusFields == {"current_request", "request_complete", "hstate", "header", "begun", "requests",
                 "response"}
IsStatus(c) == HasFields(c, StatusFields)

Pending(k) == ctl.phase = "callback" /\ ctl.kind = k

\* Every callback of http-reader.c finds what it dereferences: on_url the request, on_header_field
\* the request and its line, on_header_value the header; and the request that server_loop_read
\* hands to the workers has a line.
CallbacksFind ==
    settings = "reader" =>
        /\ Pending("url") \/ Pending("headers_complete") \/ Pending("body") =>
               IsRequest(conn.current_request)
        /\ Pending("header_field") => Lined(conn.current_request)
        /\ Pending("header_value") => IsHeader(conn.header)
        /\ conn.request_complete => Lined(conn.current_request)

\* The states in which a message has begun; in which its URL has been handed over; in which the
\* name of a header has been, and its value not yet.
Open == HeadStates \cup PastHead
AfterUrl == Open \ (UrlStates \cup {"s_req_method", "s_req_spaces_before_url"})
InHeader == {"s_header_value_discard_ws", "s_header_value_discard_ws_almost_done",
             "s_header_value_discard_lws", "s_header_value_start", "s_header_value",
             "s_header_value_lws", "s_header_almost_done"}

\* The states of a string that is not empty: its mark is set.
Marked == UrlStates \cup {"s_header_field"}
MarkSet ==
    buf.p <= buf.to =>
        /\ ctl.phase = "exec" => /\ parser.state \in UrlStates => mark["url"] # 0
                                 /\ parser.state = "s_header_field" => mark["header_field"] # 0
        /\ ctl.phase = "callback" => parser.state \notin Marked

ConnOK ==
    settings = "reader" =>
        /\ IsStatus(conn)
        /\ (conn.header = NULL \/ IsHeader(conn.header))
        /\ conn.request_complete => Lined(conn.current_request)
        /\ parser.http_errno = "OK" /\ ctl.phase # "abort" =>
              /\ parser.state \in Open /\ ~Pending("message_begin") => IsRequest(conn.current_request)
              /\ parser.state \in AfterUrl /\ ~Pending("url") => Lined(conn.current_request)
              /\ parser.state \in InHeader /\ ~Pending("header_field") => IsHeader(conn.header)
        /\ Pending("header_field") \/ Pending("message_complete") => Lined(conn.current_request)
        /\ Pending("header_value") => IsHeader(conn.header)
        /\ Pending("headers_complete") \/ Pending("body") => parser.state \in Open
        /\ Pending("message_begin") => parser.state \notin AfterUrl
        /\ Pending("headers_complete") => parser.state \notin InHeader

CInv == IInv /\ MarkSet /\ ConnOK

\* What a turn of the parser may do to the order of the callbacks.
InOrder ==
    parser'.http_errno = "OK" =>
        /\ parser'.state \in Open => parser.state \in Open \/ Pending("message_begin")'
        /\ parser'.state \in AfterUrl => parser.state \in AfterUrl \/ Pending("url")'
        /\ parser'.state \in InHeader => parser.state \in InHeader \/ Pending("header_field")'
        /\ Pending("header_field")' => parser.state \in AfterUrl
        /\ Pending("header_value")' => parser.state \in InHeader
        /\ Pending("message_complete")' => parser.state \in AfterUrl
        /\ Pending("headers_complete")' \/ Pending("body")' => parser'.state \in Open
        /\ Pending("message_begin")' => parser'.state \notin AfterUrl
        /\ Pending("headers_complete")' => parser'.state \notin InHeader
        /\ MarkSet'

\* A state is not left for one that needs a callback in between.
Steady(s, t) == /\ t \in Open => s \in Open
                /\ t \in AfterUrl => s \in AfterUrl
                /\ t \in InHeader => s \in InHeader

\* goto error.
LEMMA ErrorOrder ==
    ASSUME NEW q \in Parser, NEW e \in Errors \ {"OK"}, Error(q, e)
    PROVE  InOrder
PROOF
<1>1. parser'.http_errno # "OK"
      BY DEF Error, Parser
<1>2. QED BY <1>1 DEF InOrder

\* break and goto reexecute_byte.
LEMMA BreakOrder ==
    ASSUME AtByte, NEW q, Break(q) \/ Reexecute(q), Steady(parser.state, q.state),
           q.state \in UrlStates => mark'["url"] # 0,
           q.state = "s_header_field" => mark'["header_field"] # 0
    PROVE  InOrder
PROOF
<1>1. parser' = q /\ ctl' = ctl /\ ctl.phase = "exec"
      BY DEF Break, Reexecute, AtByte
<1>2. ctl'.phase = "exec"
      BY <1>1
<1>3. ~Pending("message_begin")' /\ ~Pending("url")' /\ ~Pending("header_field")'
      /\ ~Pending("header_value")' /\ ~Pending("message_complete")' /\ ~Pending("headers_complete")'
      /\ ~Pending("body")'
      BY <1>2 DEF Pending
<1>4. MarkSet'
      BY <1>1, <1>2 DEF MarkSet
<1>5. QED BY <1>1, <1>3, <1>4 DEF InOrder, Steady

\* The common case: no string is open afterwards.
LEMMA PlainOrder ==
    ASSUME AtByte, NEW q, Break(q) \/ Reexecute(q), Steady(parser.state, q.state),
           q.state \notin Marked
    PROVE  InOrder
PROOF BY BreakOrder DEF Marked

\* A callback of the parser's own states.
LEMMA NotifyOrder ==
    ASSUME NEW k, NEW q, parser' = q, ctl'.phase = "callback", ctl'.kind = k, q.state \notin Marked,
           \/ k = "message_begin" /\ q.state \notin AfterUrl \cup InHeader
           \/ k = "message_complete" /\ parser.state \in AfterUrl /\ q.state \notin Open
           \/ /\ k = "headers_complete" /\ Steady(parser.state, q.state) /\ q.state \in Open
              /\ q.state \notin InHeader
    PROVE  InOrder
PROOF
<1>1. \A j : Pending(j)' <=> j = k
      BY DEF Pending
<1>2. MarkSet'
      BY DEF MarkSet
<1>3. CASE k = "message_begin" /\ q.state \notin AfterUrl \cup InHeader
      BY <1>1, <1>2, <1>3 DEF InOrder
<1>4. CASE k = "message_complete" /\ parser.state \in AfterUrl /\ q.state \notin Open
  <2>1. q.state \notin AfterUrl /\ q.state \notin InHeader
        BY <1>4 DEF AfterUrl, InHeader, Open, HeadStates
  <2>2. QED BY <1>1, <1>2, <1>4, <2>1 DEF InOrder
<1>5. CASE /\ k = "headers_complete" /\ Steady(parser.state, q.state) /\ q.state \in Open
           /\ q.state \notin InHeader
      BY <1>1, <1>2, <1>5 DEF InOrder, Steady
<1>6. QED BY <1>3, <1>4, <1>5

\* A string has ended: if its mark was set, it is handed over.
LEMMA DataOrder ==
    ASSUME AtByte, NEW k \in DataKinds, NEW q, NEW marks, NEW upto, NEW next,
           CALLBACK_DATA(k, q, marks, upto, next), q.state \notin Marked,
           \/ /\ k = "url" /\ marks[k] # 0 /\ parser.state \in Open
              /\ q.state \in AfterUrl \ InHeader
           \/ /\ k = "header_field" /\ marks[k] # 0 /\ parser.state \in AfterUrl
              /\ q.state \in Open
           \/ /\ k = "header_value" /\ parser.state \in InHeader /\ parser.state \in AfterUrl
              /\ q.state \in Open
           \/ /\ k = "body" /\ Steady(parser.state, q.state) /\ q.state \in Open
    PROVE  InOrder
PROOF
<1>1. /\ parser' = q
      /\ \/ marks[k] = 0 /\ ctl' = ctl
         \/ marks[k] # 0 /\ ctl'.phase = "callback" /\ ctl'.kind = k
      BY DEF CALLBACK_DATA, Callback
<1>2. ctl.phase = "exec"
      BY DEF AtByte
<1>3. marks[k] # 0 => \A j : Pending(j)' <=> j = k
      BY <1>1 DEF Pending
<1>4. marks[k] = 0 => \A j : ~Pending(j)'
      BY <1>1, <1>2 DEF Pending
<1>5. MarkSet'
      BY <1>1, <1>2 DEF MarkSet, Marked
<1>6. CASE marks[k] # 0
      BY <1>1, <1>3, <1>5, <1>6 DEF InOrder, Steady, AfterUrl
<1>7. CASE marks[k] = 0
      BY <1>1, <1>4, <1>5, <1>7 DEF InOrder, Steady, AfterUrl
<1>8. QED BY <1>6, <1>7

\* The end of the buffer: what is handed over is what the state says.
LEMMA EndOfBufferOrder ==
    ASSUME IInv, EndOfBuffer
    PROVE  InOrder
PROOF
<1>1. /\ ctl.phase = "exec" /\ buf.p > buf.to /\ buf.p \in Nat /\ buf.to \in Nat
      /\ \A k \in DataKinds : mark[k] # 0 => parser.state \in MarkStates[k]
      BY DEF EndOfBuffer, IInv, TypeOK, MarksOK, Buffer
<1>2. /\ buf' = buf /\ parser' = parser
      /\ \/ ctl'.phase \in {"returned", "abort"}
         \/ ctl'.phase = "callback" /\ ctl'.kind \in DataKinds /\ mark[ctl'.kind] # 0
  <2> DEFINE left == {k \in DataKinds : mark[k] # 0}
  <2>1. CASE left = {}
        BY <2>1 DEF EndOfBuffer, Returned
  <2>2. CASE left # {}
    <3>1. PICK k \in DataKinds : mark[k] # 0
          BY <2>2
    <3>2. left = {k}
          BY <1>1, <3>1, OneMark
    <3>3. Cardinality(left) = 1
          BY <3>2, FS_Singleton
    <3>4. CALLBACK_DATA(k, parser, mark, buf.p, buf)
          BY <2>2, <3>2, <3>3 DEF EndOfBuffer
    <3>5. QED BY <3>1, <3>4 DEF CALLBACK_DATA, Callback
  <2>3. QED BY <2>1, <2>2
<1>3. ~(buf'.p <= buf'.to)
      BY <1>1, <1>2
<1>4. MarkSet'
      BY <1>3 DEF MarkSet
<1>5. \A k : Pending(k)' => k \in DataKinds /\ parser.state \in MarkStates[k]
      BY <1>1, <1>2 DEF Pending
<1>6. /\ Pending("header_field")' => parser.state = "s_header_field"
      /\ Pending("header_value")' => parser.state = "s_header_value"
      /\ ~Pending("message_complete")' /\ ~Pending("headers_complete")' /\ ~Pending("message_begin")'
      /\ Pending("body")' => parser.state \in PastHead
      BY <1>5 DEF DataKinds, MarkStates, PastHead, ChunkStates
<1>7. "s_header_field" \in AfterUrl /\ "s_header_value" \in InHeader
      BY DEF AfterUrl, Open, HeadStates, UrlStates, InHeader
<1>8. QED BY <1>2, <1>4, <1>6, <1>7 DEF InOrder, Open

\* The URL: on_url is called when it ends.
LEMMA ReqUrlOrder ==
    ASSUME IInv, MarkSet, ReqUrl
    PROVE  InOrder
PROOF
<1> DEFINE begin == P.state = "s_req_spaces_before_url"
           from == IF begin /\ P.method = "CONNECT" THEN "s_req_server_start" ELSE P.state
           q == [P EXCEPT !.state = parse_url_char(from, ch)]
           start == [P EXCEPT !.state = "s_req_http_start"]
           eol == [P EXCEPT !.http_major = 0, !.http_minor = 9,
                     !.state = IF ch = CR THEN "s_req_line_almost_done"
                               ELSE "s_header_field_start"]
<1>1. /\ AtByte /\ P.state \in UrlStates \cup {"s_req_spaces_before_url"}
      /\ P \in Parser /\ P.state = parser.state
      /\ buf.p \in Nat /\ buf.p # 0 /\ mark \in [DataKinds -> Nat] /\ "url" \in DataKinds
  <2>1. In(UrlStates \cup {"s_req_spaces_before_url"})
        BY DEF ReqUrl
  <2>2. /\ AtByte /\ P.state \in UrlStates \cup {"s_req_spaces_before_url"}
        /\ P \in Parser /\ P.state = parser.state
        BY <2>1, AtState
  <2>3. QED BY <2>2 DEF IInv, TypeOK, BufferOK, AtByte, Buffer, DataKinds
<1>2. /\ P.state \in UrlStates => mark["url"] # 0
      /\ EndStates \subseteq UrlStates
      BY <1>1 DEF MarkSet, AtByte, EndStates, UrlStates
<1>3. /\ UrlStates \cup {"s_req_spaces_before_url"} \subseteq Open
      /\ \A s \in UrlStates \cup {"s_req_spaces_before_url"} : s \notin AfterUrl /\ s \notin InHeader
      BY DEF Open, HeadStates, UrlStates, AfterUrl, InHeader
<1>4. CASE Break(P) /\ begin
  <2>1. P.state \notin Marked
        BY <1>4 DEF Marked, UrlStates
  <2>2. QED BY <1>1, <1>4, <2>1, PlainOrder DEF Steady
<1>5. CASE /\ P.state \in EndStates
           /\ \E r : /\ CALLBACK_DATA("url", r, mark, buf.p, Advanced)
                     /\ r.state \in {"s_req_http_start", "s_req_line_almost_done",
                                     "s_header_field_start"}
  <2>1. PICK r : /\ CALLBACK_DATA("url", r, mark, buf.p, Advanced)
                 /\ r.state \in {"s_req_http_start", "s_req_line_almost_done", "s_header_field_start"}
        BY <1>5
  <2>2. r.state \in AfterUrl \ InHeader /\ r.state \notin Marked
        BY <2>1 DEF AfterUrl, InHeader, Marked, UrlStates, Open, HeadStates
  <2>3. parser.state \in Open /\ mark["url"] # 0
        BY <1>1, <1>2, <1>3, <1>5
  <2>4. QED BY <1>1, <2>1, <2>2, <2>3, DataOrder
<1>6. CASE P.state \in EndStates /\ CALLBACK_DATA("url", start, mark, buf.p, Advanced)
  <2>1. start.state = "s_req_http_start"
        BY <1>1 DEF Parser
  <2>2. QED BY <1>5, <1>6, <2>1
<1>7. CASE P.state \in EndStates /\ CALLBACK_DATA("url", eol, mark, buf.p, Advanced)
  <2>1. eol.state \in {"s_req_line_almost_done", "s_header_field_start"}
        BY <1>1 DEF Parser
  <2>2. QED BY <1>5, <1>7, <2>1
<1>8. /\ q.state \in UrlStates \cup {"s_dead"}
      /\ Error(q, "INVALID_URL") => parser'.http_errno = "INVALID_URL"
  <2>1. from \in UrlStates \cup {"s_req_spaces_before_url"}
        BY <1>1 DEF UrlStates
  <2>2. PICK s : s = parse_url_char(from, ch)
        OBVIOUS
  <2>3. s \in UrlStates \cup {"s_dead"}
        BY <2>1, <2>2, UrlChar
  <2>4. q = [P EXCEPT !.state = s]
        BY <2>2
  <2>5. QED BY <1>1, <2>3, <2>4 DEF Parser, Error
<1>9. CASE Error(q, "INVALID_URL")
      BY <1>8, <1>9 DEF InOrder
<1>10. CASE /\ q.state # "s_dead"
            /\ Break(q) /\ IF begin THEN MARK("url") ELSE UNCHANGED mark
  <2>1. q.state \in UrlStates /\ q.state # "s_header_field"
        BY <1>8, <1>10 DEF UrlStates
  <2>2. Steady(parser.state, q.state)
        BY <1>1, <1>3, <2>1 DEF Steady
  <2>3. mark'["url"] # 0
    <3>1. CASE begin
          BY <1>1, <1>10, <3>1 DEF MARK
    <3>2. CASE ~begin
          BY <1>1, <1>2, <1>10, <3>2
    <3>3. QED BY <3>1, <3>2
  <2> HIDE DEF q
  <2>4. QED BY <1>1, <1>10, <2>1, <2>2, <2>3, BreakOrder
<1>11. QED BY <1>4, <1>6, <1>7, <1>9, <1>10 DEF ReqUrl

\* From the URL to the first header.
LEMMA AfterUrlOrder ==
    ASSUME IInv, HttpWordStep \/ ReqMajor \/ ReqMinor \/ LineAlmostDone
    PROVE  InOrder
PROOF
<1> DEFINE Line == {"s_req_http_start", "s_req_http_H", "s_req_http_HT", "s_req_http_HTT",
                    "s_req_http_HTTP", "s_req_first_http_major", "s_req_http_major",
                    "s_req_first_http_minor", "s_req_http_minor", "s_req_line_almost_done",
                    "s_header_field_start"}
           Header == {"s_header_almost_done", "s_header_value_discard_ws_almost_done",
                      "s_header_value_lws", "s_header_value_discard_lws"}
<1>1. /\ AtByte /\ P \in Parser /\ P.state = parser.state
      /\ P.state \in Line \cup Header
  <2>1. In(DOMAIN HttpWord \cup {"s_req_http_start"})
        \/ In({"s_req_first_http_major", "s_req_http_major"})
        \/ In({"s_req_first_http_minor", "s_req_http_minor"})
        \/ In(DOMAIN AlmostDone)
        BY DEF HttpWordStep, ReqMajor, ReqMinor, LineAlmostDone
  <2>2. In(Line \cup Header)
        BY <2>1 DEF In, HttpWord, AlmostDone
  <2>3. QED BY <2>2, AtState
<1>2. CASE parser'.http_errno # "OK"
      BY <1>2 DEF InOrder
<1>3. CASE \E r : Break(r) /\ r.state \in (IF P.state \in Header THEN Header ELSE Line)
  <2>1. PICK r : Break(r) /\ r.state \in (IF P.state \in Header THEN Header ELSE Line)
        BY <1>3
  <2>2. r.state \notin Marked
        BY <2>1 DEF Marked, UrlStates
  <2>3. Steady(parser.state, r.state)
        BY <1>1, <2>1 DEF Steady, Open, HeadStates, AfterUrl, UrlStates, InHeader
  <2>4. QED BY <1>1, <2>1, <2>2, <2>3, PlainOrder
<1>4. \A s : [P EXCEPT !.state = s].state = s
      BY <1>1 DEF Parser
<1>5. ASSUME NEW r, NEW e, Error(r, e), e # "OK", r = P \/ DOMAIN r = DOMAIN P
      PROVE  parser'.http_errno # "OK"
      BY <1>1, <1>5 DEF Error, Parser
<1>6. ASSUME NEW s, Break([P EXCEPT !.state = s]), s \in (IF P.state \in Header THEN Header ELSE Line)
      PROVE  InOrder
      BY <1>3, <1>4, <1>6
<1>7. CASE HttpWordStep
  <2>1. P.state \in DOMAIN HttpWord \cup {"s_req_http_start"} /\ P.state \notin Header
        BY <1>7 DEF HttpWordStep, In, HttpWord
  <2>2. P.state \in DOMAIN HttpWord => HttpWord[P.state][2] \in Line
        BY DEF HttpWord
  <2>3. \/ Break([P EXCEPT !.state = "s_req_http_H"])
        \/ Break(P) /\ P.state = "s_req_http_start"
        \/ P.state \in DOMAIN HttpWord /\ Break([P EXCEPT !.state = HttpWord[P.state][2]])
        \/ Error(P, "INVALID_CONSTANT") \/ Error(P, "STRICT")
        BY <1>7, <2>1 DEF HttpWordStep
  <2>4. CASE Error(P, "INVALID_CONSTANT") \/ Error(P, "STRICT")
        BY <1>2, <1>5, <2>4
  <2>5. CASE Break(P) /\ P.state = "s_req_http_start"
        BY <1>3, <2>5
  <2>6. CASE \/ Break([P EXCEPT !.state = "s_req_http_H"])
             \/ P.state \in DOMAIN HttpWord /\ Break([P EXCEPT !.state = HttpWord[P.state][2]])
        BY <1>6, <2>1, <2>2, <2>6
  <2>7. QED BY <2>3, <2>4, <2>5, <2>6
<1>8. CASE ReqMajor \/ ReqMinor
  <2>1. P.state \notin Header
        BY <1>8 DEF ReqMajor, ReqMinor, In
  <2>2. \/ \E s \in Line : Break([P EXCEPT !.state = s])
        \/ \E n : Break([P EXCEPT !.http_major = n, !.state = "s_req_http_major"])
        \/ \E n : Break([P EXCEPT !.http_minor = n, !.state = "s_req_http_minor"])
        \/ \E n : \/ Error(P, "INVALID_VERSION")
                 \/ Error([P EXCEPT !.http_major = n], "INVALID_VERSION")
                 \/ Error([P EXCEPT !.http_minor = n], "INVALID_VERSION")
    <3>1. CASE ReqMajor
      <4> DEFINE first == P.state = "s_req_first_http_major"
                 value == IF first THEN Unhex(ch) ELSE P.http_major * 10 + Unhex(ch)
      <4>1. PICK n : n = value
            OBVIOUS
      <4>2. \/ Break([P EXCEPT !.state = "s_req_first_http_minor"])
            \/ Error(P, "INVALID_VERSION")
            \/ Error(IF first THEN P ELSE [P EXCEPT !.http_major = value], "INVALID_VERSION")
            \/ Break([P EXCEPT !.http_major = value, !.state = "s_req_http_major"])
            BY <3>1, Zenon DEF ReqMajor
      <4>3. CASE Error(IF first THEN P ELSE [P EXCEPT !.http_major = value], "INVALID_VERSION")
        <5>1. CASE first
              BY <4>3, <5>1
        <5>2. CASE ~first
              BY <4>1, <4>3, <5>2
        <5>3. QED BY <5>1, <5>2
      <4>4. CASE Break([P EXCEPT !.http_major = value, !.state = "s_req_http_major"])
            BY <4>1, <4>4
      <4>5. "s_req_first_http_minor" \in Line
            OBVIOUS
      <4> HIDE DEF Line, first, value
      <4>6. QED BY <4>2, <4>3, <4>4, <4>5
    <3>2. CASE ReqMinor
      <4> DEFINE first == P.state = "s_req_first_http_minor"
                 value == IF first THEN Unhex(ch) ELSE P.http_minor * 10 + Unhex(ch)
                 next == IF ch = CR THEN "s_req_line_almost_done" ELSE "s_header_field_start"
      <4>1. PICK n : n = value
            OBVIOUS
      <4>2. \/ Break([P EXCEPT !.state = next])
            \/ Error(P, "INVALID_VERSION")
            \/ Error([P EXCEPT !.http_minor = value], "INVALID_VERSION")
            \/ Break([P EXCEPT !.http_minor = value, !.state = "s_req_http_minor"])
            BY <3>2, Zenon DEF ReqMinor
      <4>3. next \in Line
            OBVIOUS
      <4> HIDE DEF Line, first, value, next
      <4>4. QED BY <4>1, <4>2, <4>3
    <3>3. QED BY <1>8, <3>1, <3>2
  <2>3. CASE \E s \in Line : Break([P EXCEPT !.state = s])
        BY <1>6, <2>1, <2>3
  <2>4. CASE \E n : \/ Break([P EXCEPT !.http_major = n, !.state = "s_req_http_major"])
                  \/ Break([P EXCEPT !.http_minor = n, !.state = "s_req_http_minor"])
    <3>1. PICK n : \/ Break([P EXCEPT !.http_major = n, !.state = "s_req_http_major"])
                   \/ Break([P EXCEPT !.http_minor = n, !.state = "s_req_http_minor"])
          BY <2>4
    <3> DEFINE q == [P EXCEPT !.http_major = n, !.state = "s_req_http_major"]
               r == [P EXCEPT !.http_minor = n, !.state = "s_req_http_minor"]
    <3>2. q.state = "s_req_http_major" /\ r.state = "s_req_http_minor"
          BY <1>1 DEF Parser
    <3>3. Break(q) \/ Break(r)
          BY <3>1
    <3>4. q.state \in Line /\ r.state \in Line
          BY <3>2
    <3> HIDE DEF q, r
    <3>5. QED BY <1>3, <2>1, <3>3, <3>4
  <2>5. CASE \E n : \/ Error(P, "INVALID_VERSION")
                  \/ Error([P EXCEPT !.http_major = n], "INVALID_VERSION")
                  \/ Error([P EXCEPT !.http_minor = n], "INVALID_VERSION")
    <3>1. PICK n : \/ Error(P, "INVALID_VERSION")
                   \/ Error([P EXCEPT !.http_major = n], "INVALID_VERSION")
                   \/ Error([P EXCEPT !.http_minor = n], "INVALID_VERSION")
          BY <2>5
    <3>2. DOMAIN [P EXCEPT !.http_major = n] = DOMAIN P /\ DOMAIN [P EXCEPT !.http_minor = n] = DOMAIN P
          OBVIOUS
    <3>3. QED BY <1>2, <1>5, <3>1, <3>2
  <2>6. QED BY <2>2, <2>3, <2>4, <2>5
<1>9. CASE LineAlmostDone
  <2>1. P.state \in DOMAIN AlmostDone
        BY <1>9 DEF LineAlmostDone, In
  <2>2. /\ AlmostDone[P.state][2] \in (IF P.state \in Header THEN Header ELSE Line)
        /\ AlmostDone[P.state][1] # "OK"
        BY <2>1 DEF AlmostDone
  <2>3. CASE Error(P, AlmostDone[P.state][1])
        BY <1>2, <1>5, <2>2, <2>3
  <2>4. CASE Break([P EXCEPT !.state = AlmostDone[P.state][2]])
        BY <1>6, <2>2, <2>4
  <2>5. QED BY <1>9, <2>3, <2>4 DEF LineAlmostDone
<1>10. QED BY <1>7, <1>8, <1>9

\* The turns before the headers.
LEMMA RequestLineOrder ==
    ASSUME IInv, MarkSet,
           \/ Dead \/ StartReq \/ ReqMethod \/ ReqUrl \/ HttpWordStep \/ ReqMajor \/ ReqMinor
           \/ LineAlmostDone
    PROVE  InOrder
PROOF
<1>1. CASE Dead
  <2>1. /\ AtByte /\ P.state = "s_dead" /\ P \in Parser /\ P.state = parser.state
        BY <1>1, AtState DEF Dead
  <2>2. CASE Error(P, "CLOSED_CONNECTION")
        BY <2>1, <2>2, ErrorOrder, ErrorNames
  <2>3. CASE Break(P)
    <3>1. P.state \notin Marked
          BY <2>1 DEF Marked, UrlStates
    <3>2. QED BY <2>1, <2>3, <3>1, PlainOrder DEF Steady
  <2>4. QED BY <1>1, <2>2, <2>3 DEF Dead
<1>2. CASE StartReq
  <2>1. /\ AtByte /\ P.state = "s_start_req" /\ P \in Parser /\ P.state = parser.state
        BY <1>2, AtState DEF StartReq
  <2> DEFINE q == [P EXCEPT !.flags = {}, !.content_length = ULLONG_MAX]
             r == [q EXCEPT !.method = FirstGuess[ch], !.index = 1, !.state = "s_req_method"]
  <2>2. CASE Break(P)
    <3>1. P.state \notin Marked
          BY <2>1 DEF Marked, UrlStates
    <3>2. QED BY <2>1, <2>2, <3>1, PlainOrder DEF Steady
  <2>3. CASE Error(q, "INVALID_METHOD")
    <3>1. q \in Parser
      <4>1. ULLONG_MAX \in 0..ULLONG_MAX /\ {} \in SUBSET Flags
            BY SizesAssumption
      <4>2. QED BY <2>1, <4>1, Zenon DEF Parser
    <3>2. QED BY <2>3, <3>1, ErrorOrder, ErrorNames
  <2>4. CASE CALLBACK_NOTIFY("message_begin", r, FALSE)
    <3>1. r.state = "s_req_method"
          BY <2>1 DEF Parser
    <3>2. parser' = r /\ ctl'.phase = "callback" /\ ctl'.kind = "message_begin"
          BY <2>4 DEF CALLBACK_NOTIFY, Callback
    <3>3. r.state \notin Marked /\ r.state \notin AfterUrl \cup InHeader
          BY <3>1 DEF Marked, UrlStates, AfterUrl, InHeader
    <3> HIDE DEF r
    <3>4. QED BY <3>2, <3>3, NotifyOrder
  <2>5. QED BY <1>2, <2>2, <2>3, <2>4 DEF StartReq
<1>3. CASE ReqMethod
  <2>1. /\ AtByte /\ P.state = "s_req_method" /\ P \in Parser /\ P.state = parser.state
    <3>1. In({"s_req_method"})
          BY <1>3 DEF ReqMethod
    <3>2. QED BY <3>1, AtState
  <2> DEFINE q == [P EXCEPT !.index = @ + 1]
             others == {t \in OtherMethod : t[1] = P.method /\ t[2] = P.index /\ t[3] = ch}
  <2>2. CASE Error(P, "INVALID_METHOD")
        BY <2>1, <2>2, ErrorOrder, ErrorNames
  <2>3. q.state = "s_req_method" /\ q \in Parser
        BY <2>1 DEF Parser
  <2>4. CASE \E r : Break(r) /\ r.state \in {"s_req_method", "s_req_spaces_before_url"}
    <3>1. PICK r : Break(r) /\ r.state \in {"s_req_method", "s_req_spaces_before_url"}
          BY <2>4
    <3>2. r.state \notin Marked /\ Steady(parser.state, r.state)
          BY <2>1, <3>1 DEF Marked, UrlStates, Steady, Open, HeadStates, AfterUrl, InHeader
    <3>3. QED BY <2>1, <3>1, <3>2, PlainOrder
  <2>5. CASE Break([q EXCEPT !.state = "s_req_spaces_before_url"])
    <3>1. [q EXCEPT !.state = "s_req_spaces_before_url"].state = "s_req_spaces_before_url"
          BY <2>3 DEF Parser
    <3>2. QED BY <2>4, <2>5, <3>1
  <2>6. CASE Break(q)
        BY <2>3, <2>4, <2>6
  <2>7. CASE \E t \in others : Break([q EXCEPT !.method = t[4]])
    <3>1. PICK m : Break([q EXCEPT !.method = m])
          BY <2>7
    <3>2. [q EXCEPT !.method = m].state = "s_req_method"
          BY <2>3 DEF Parser
    <3>3. QED BY <2>4, <3>1, <3>2
  <2>8. QED BY <1>3, <2>2, <2>5, <2>6, <2>7 DEF ReqMethod
<1>4. CASE ReqUrl
      BY <1>4, ReqUrlOrder
<1>5. CASE HttpWordStep \/ ReqMajor \/ ReqMinor \/ LineAlmostDone
      BY <1>5, AfterUrlOrder
<1>6. QED BY <1>1, <1>2, <1>3, <1>4, <1>5

\* Past the URL only the state of a value needs a callback first.
LEMMA LaterOrder ==
    ASSUME AtByte, parser.state \in AfterUrl, NEW q, Break(q) \/ Reexecute(q), q.state \notin Marked,
           q.state \in InHeader => parser.state \in InHeader
    PROVE  InOrder
PROOF
<1>1. Steady(parser.state, q.state)
      BY DEF Steady, AfterUrl
<1>2. QED BY <1>1, PlainOrder

\* The names: on_header_field is called when one ends.
LEMMA HeaderNameOrder ==
    ASSUME IInv, MarkSet, HeaderFieldStart \/ HeaderField
    PROVE  InOrder
PROOF
<1>1. /\ buf.p \in Nat /\ buf.p # 0 /\ mark \in [DataKinds -> Nat] /\ "header_field" \in DataKinds
  <2>1. AtByte
        BY DEF HeaderFieldStart, HeaderField, In, AtByte
  <2>2. QED BY <2>1 DEF IInv, TypeOK, BufferOK, AtByte, Buffer, DataKinds
<1>2. CASE HeaderFieldStart
  <2>1. /\ AtByte /\ P.state = "s_header_field_start" /\ P \in Parser /\ P.state = parser.state
    <3>1. In({"s_header_field_start"})
          BY <1>2 DEF HeaderFieldStart
    <3>2. QED BY <3>1, AtState
  <2>2. parser.state \in AfterUrl /\ parser.state \notin InHeader
        BY <2>1 DEF AfterUrl, Open, HeadStates, UrlStates, InHeader
  <2>3. CASE \/ Break([P EXCEPT !.state = "s_headers_almost_done"])
             \/ Reexecute([P EXCEPT !.state = "s_headers_almost_done"])
    <3> DEFINE q == [P EXCEPT !.state = "s_headers_almost_done"]
    <3>1. q.state = "s_headers_almost_done"
          BY <2>1 DEF Parser
    <3>2. q.state \notin Marked /\ q.state \notin InHeader
          BY <3>1 DEF Marked, UrlStates, InHeader
    <3>3. Break(q) \/ Reexecute(q)
          BY <2>3
    <3> HIDE DEF q
    <3>4. QED BY <2>1, <2>2, <3>2, <3>3, LaterOrder
  <2>4. CASE \E h : /\ MARK("header_field")
                    /\ Break([P EXCEPT !.index = 0, !.state = "s_header_field", !.header_state = h])
    <3>1. PICK h : /\ MARK("header_field")
                   /\ Break([P EXCEPT !.index = 0, !.state = "s_header_field", !.header_state = h])
          BY <2>4
    <3> DEFINE q == [P EXCEPT !.index = 0, !.state = "s_header_field", !.header_state = h]
    <3>2. q.state = "s_header_field"
          BY <2>1 DEF Parser
    <3>3. Break(q)
          BY <3>1
    <3>4. mark'["header_field"] # 0
          BY <1>1, <3>1 DEF MARK
    <3> HIDE DEF q
    <3>5. q.state \notin UrlStates /\ Steady(parser.state, q.state)
          BY <2>2, <3>2 DEF UrlStates, Steady, AfterUrl, InHeader
    <3>6. QED BY <2>1, <3>3, <3>4, <3>5, BreakOrder
  <2>5. CASE Error(P, "INVALID_HEADER_TOKEN")
        BY <2>1, <2>5, ErrorOrder, ErrorNames
  <2>6. \/ \/ Break([P EXCEPT !.state = "s_headers_almost_done"])
           \/ Reexecute([P EXCEPT !.state = "s_headers_almost_done"])
        \/ /\ MARK("header_field")
           /\ Break([P EXCEPT !.index = 0, !.state = "s_header_field",
                       !.header_state = IF LOWER(ch) \in DOMAIN FieldGuess
                                        THEN FieldGuess[LOWER(ch)] ELSE "h_general"])
        \/ Error(P, "INVALID_HEADER_TOKEN")
        BY <1>2, Zenon DEF HeaderFieldStart
  <2>7. QED BY <2>3, <2>4, <2>5, <2>6
<1>3. CASE HeaderField
  <2>1. /\ AtByte /\ P.state = "s_header_field" /\ P \in Parser /\ P.state = parser.state
    <3>1. In({"s_header_field"})
          BY <1>3 DEF HeaderField
    <3>2. QED BY <3>1, AtState
  <2>2. /\ P.header_state \in FieldStates
        /\ mark["header_field"] # 0
        /\ parser.state \in AfterUrl
        BY <2>1, Counted DEF IInv, GoodOK, Good, AtByte, MarkSet, AfterUrl, Open, HeadStates, UrlStates
  <2>3. CASE Break(MatchField(LOWER(ch))) /\ UNCHANGED mark
    <3>1. PICK q : q = MatchField(LOWER(ch))
          OBVIOUS
    <3>2. q.state = P.state
          BY <2>1, <2>2, <3>1, MatchFieldKeeps
    <3>3. Break(q) /\ mark'["header_field"] # 0
          BY <2>2, <2>3, <3>1
    <3>4. q.state \notin UrlStates /\ Steady(parser.state, q.state)
          BY <2>1, <3>2 DEF UrlStates, Steady
    <3>5. QED BY <2>1, <3>3, <3>4, BreakOrder
  <2>4. CASE \E s \in {"s_header_value_discard_ws", "s_header_almost_done", "s_header_field_start"} :
                CALLBACK_DATA("header_field", [P EXCEPT !.state = s], mark, buf.p, Advanced)
    <3>1. PICK s \in {"s_header_value_discard_ws", "s_header_almost_done", "s_header_field_start"} :
                CALLBACK_DATA("header_field", [P EXCEPT !.state = s], mark, buf.p, Advanced)
          BY <2>4
    <3> DEFINE q == [P EXCEPT !.state = s]
    <3>2. q.state = s
          BY <2>1 DEF Parser
    <3>3. q.state \in Open /\ q.state \notin Marked
          BY <3>2 DEF Open, HeadStates, Marked, UrlStates
    <3>4. CALLBACK_DATA("header_field", q, mark, buf.p, Advanced)
          BY <3>1
    <3> HIDE DEF q
    <3>5. QED BY <1>1, <2>1, <2>2, <3>3, <3>4, DataOrder
  <2>5. CASE Error(P, "INVALID_HEADER_TOKEN")
        BY <2>1, <2>5, ErrorOrder, ErrorNames
  <2>6. QED BY <1>3, <2>2, <2>3, <2>4, <2>5 DEF HeaderField
<1>4. QED BY <1>2, <1>3

\* The first byte of a value.
LEMMA ValueStartOrder ==
    ASSUME IInv, AtByte, parser.state \in {"s_header_value_start", "s_header_value_discard_ws"},
           ValueStart
    PROVE  InOrder
PROOF
<1> DEFINE q == [P EXCEPT !.state = "s_header_value", !.index = 0]
<1>1. P \in Parser
      BY Counted
<1>2. q \in Parser /\ q.state = "s_header_value"
      BY <1>1 DEF Parser, HeadStates
<1> HIDE DEF q
<1>3. CASE \E r : Break(r) /\ r.state = "s_header_value"
  <2>1. PICK r : Break(r) /\ r.state = "s_header_value"
        BY <1>3
  <2>2. r.state \notin Marked /\ parser.state \in InHeader /\ parser.state \in AfterUrl
        BY <2>1 DEF Marked, UrlStates, InHeader, AfterUrl, Open, HeadStates
  <2>3. QED BY <2>1, <2>2, LaterOrder
<1>4. /\ \A h : [q EXCEPT !.header_state = h].state = "s_header_value"
      /\ \A h : [q EXCEPT !.content_length = h].state = "s_header_value"
      /\ \A f : [q EXCEPT !.flags = f, !.header_state = "h_general"].state = "s_header_value"
      BY <1>2 DEF Parser
<1>5. CASE Error(q, "INVALID_CONTENT_LENGTH")
      BY <1>2, <1>5, ErrorOrder, ErrorNames
<1>6. \/ \E h : Break([q EXCEPT !.header_state = h])
      \/ \E h : Break([q EXCEPT !.content_length = h])
      \/ \E f : Break([q EXCEPT !.flags = f, !.header_state = "h_general"])
      \/ Error(q, "INVALID_CONTENT_LENGTH")
      BY Zenon DEF ValueStart, q
<1>7. QED BY <1>3, <1>4, <1>5, <1>6

\* The values: on_header_value is called when one ends, after on_header_field.
LEMMA HeaderValueOrder ==
    ASSUME IInv, HeaderValueStart \/ HeaderValue \/ HeaderValueLws \/ HeaderValueEmpty
    PROVE  InOrder
PROOF
<1> DEFINE Value == {"s_header_value_start", "s_header_value_discard_ws", "s_header_value",
                     "s_header_value_lws", "s_header_value_discard_lws"}
<1>1. /\ AtByte /\ P \in Parser /\ P.http_errno = "OK" /\ P.state = parser.state
      /\ P.state \in Value
      /\ HeaderValue => P.state = "s_header_value"
  <2>1. \/ In({"s_header_value_start"}) /\ ~HeaderValue
        \/ In({"s_header_value_discard_ws"}) /\ ~HeaderValue
        \/ In({"s_header_value"})
        \/ In({"s_header_value_lws"}) /\ ~HeaderValue
        \/ In({"s_header_value_discard_lws"}) /\ ~HeaderValue
        BY DEF HeaderValueStart, HeaderValue, HeaderValueLws, HeaderValueEmpty, In
  <2>2. In(Value)
        BY <2>1 DEF In
  <2>3. HeaderValue => P.state = "s_header_value"
        BY DEF HeaderValue, In
  <2>4. QED BY <2>2, <2>3, AtState
<1>2. parser.state \in InHeader /\ parser.state \in AfterUrl
      BY <1>1 DEF InHeader, AfterUrl, Open, HeadStates, UrlStates
<1>3. ASSUME NEW r, Break(r) \/ Reexecute(r), r.state \in HeadStates \ Marked
      PROVE  InOrder
      BY <1>1, <1>2, <1>3, LaterOrder
<1>4. "header_value" \in DataKinds
      BY DEF DataKinds
<1>5. ASSUME NEW s \in {"s_header_almost_done", "s_header_field_start"}, NEW marks, NEW next,
             CALLBACK_DATA("header_value", [P EXCEPT !.state = s], marks, buf.p, next)
      PROVE  InOrder
  <2> DEFINE q == [P EXCEPT !.state = s]
  <2>1. q.state = s
        BY <1>1 DEF Parser
  <2>2. q.state \notin Marked /\ q.state \in Open
        BY <2>1 DEF Marked, UrlStates, Open, HeadStates
  <2>3. CALLBACK_DATA("header_value", q, marks, buf.p, next)
        BY <1>5
  <2> HIDE DEF q
  <2>4. QED BY <1>1, <1>2, <1>4, <2>2, <2>3, DataOrder
<1>6. \A s : [P EXCEPT !.state = s].state = s
      BY <1>1 DEF Parser
<1>7. \A s \in Value \cup {"s_header_value_discard_ws_almost_done", "s_header_field_start"} :
          s \in HeadStates \ Marked
      BY DEF HeadStates, Marked, UrlStates
<1>8. CASE HeaderValueStart
  <2>1. \/ ValueStart /\ P.state \in {"s_header_value_start", "s_header_value_discard_ws"}
        \/ Break(P)
        \/ Break([P EXCEPT !.state = "s_header_value_discard_ws_almost_done"])
        \/ Break([P EXCEPT !.state = "s_header_value_discard_lws"])
        BY <1>8 DEF HeaderValueStart, In
  <2>2. CASE ValueStart /\ P.state \in {"s_header_value_start", "s_header_value_discard_ws"}
        BY <1>1, <2>2, ValueStartOrder
  <2>3. QED BY <1>1, <1>3, <1>6, <1>7, <2>1, <2>2
<1>9. CASE HeaderValue
  <2>1. P.state = "s_header_value" /\ P.header_state \notin {"h_connection", "h_transfer_encoding"}
        BY <1>1, <1>9, Counted DEF IInv, GoodOK, Good, AtByte
  <2>2. CASE Break(MatchValue(LOWER(ch)))
    <3>1. PICK q : q = MatchValue(LOWER(ch))
          OBVIOUS
    <3>2. q.state = P.state
          BY <1>1, <2>1, <3>1, MatchValueKeeps
    <3>3. QED BY <1>1, <1>3, <1>7, <2>2, <3>1, <3>2
  <2>3. CASE \E n : Break([P EXCEPT !.content_length = n])
    <3>1. PICK n : Break([P EXCEPT !.content_length = n])
          BY <2>3
    <3>2. [P EXCEPT !.content_length = n].state = P.state
          BY <1>1 DEF Parser
    <3>3. QED BY <1>1, <1>3, <1>7, <3>1, <3>2
  <2>4. CASE Error(P, "INVALID_CONTENT_LENGTH")
        BY <1>1, <2>4, ErrorOrder, ErrorNames
  <2>5. CASE Break(P)
        BY <1>1, <1>3, <1>7, <2>5
  <2>6. CASE ch \in {CR, LF}
        BY <1>5, <1>9, <2>6 DEF HeaderValue, CR, LF
  <2>7. CASE ch \notin {CR, LF} /\ P.header_state = "h_content_length"
        BY <1>9, <2>3, <2>4, <2>5, <2>7 DEF HeaderValue, CR, LF
  <2>8. CASE ch \notin {CR, LF} /\ P.header_state # "h_content_length"
        BY <1>9, <2>1, <2>2, <2>8 DEF HeaderValue, CR, LF
  <2>9. QED BY <2>6, <2>7, <2>8
<1>10. CASE HeaderValueLws
  <2>1. \/ Reexecute([P EXCEPT !.state = "s_header_value_start"])
        \/ \E f : Reexecute([P EXCEPT !.state = "s_header_field_start", !.flags = f])
        BY <1>10, Zenon DEF HeaderValueLws
  <2>2. \A f : [P EXCEPT !.state = "s_header_field_start", !.flags = f].state = "s_header_field_start"
        BY <1>1 DEF Parser
  <2>3. QED BY <1>3, <1>6, <1>7, <2>1, <2>2
<1>11. CASE HeaderValueEmpty
  <2>1. \/ Break([P EXCEPT !.state = "s_header_value_discard_ws"])
        \/ \E marks, next :
               CALLBACK_DATA("header_value", [P EXCEPT !.state = "s_header_field_start"], marks, buf.p, next)
        BY <1>11, Zenon DEF HeaderValueEmpty
  <2>2. QED BY <1>3, <1>5, <1>6, <1>7, <2>1
<1>12. QED BY <1>8, <1>9, <1>10, <1>11

\* A message is complete: its URL has been handed over.
LEMMA CompleteOrder ==
    ASSUME NEW q \in Parser, NEW end, MessageComplete(q, end), parser.state \in AfterUrl
    PROVE  InOrder
PROOF
<1> DEFINE r == [q EXCEPT !.state = NEW_MESSAGE(q)]
<1>1. NEW_MESSAGE(q) \in FreshStates
      BY DEF NEW_MESSAGE, FreshStates
<1>2. r.state \in FreshStates
      BY <1>1 DEF Parser
<1>3. r.state \notin Marked /\ r.state \notin Open
      BY <1>2 DEF FreshStates, Marked, UrlStates, Open, HeadStates, PastHead, ChunkStates
<1>4. parser' = r /\ ctl'.phase = "callback" /\ ctl'.kind = "message_complete"
      BY DEF MessageComplete, CALLBACK_NOTIFY, Callback
<1> HIDE DEF r
<1>5. QED BY <1>3, <1>4, NotifyOrder

\* The end of the headers, of the trailers and of the body.
LEMMA EndOrder ==
    ASSUME IInv, HeadersAlmostDone \/ HeadersDone \/ MessageDone
    PROVE  InOrder
PROOF
<1>1. /\ AtByte /\ P \in Parser /\ P.state = parser.state
      /\ P.state \in {"s_headers_almost_done", "s_headers_done", "s_message_done"}
  <2>1. \/ In({"s_headers_almost_done"}) \/ In({"s_headers_done"}) \/ In({"s_message_done"})
        BY DEF HeadersAlmostDone, HeadersDone, MessageDone
  <2>2. In({"s_headers_almost_done", "s_headers_done", "s_message_done"})
        BY <2>1 DEF In
  <2>3. QED BY <2>2, AtState
<1>2. parser.state \in AfterUrl
      BY <1>1 DEF AfterUrl, Open, HeadStates, PastHead, UrlStates
<1> DEFINE q == [P EXCEPT !.nread = 0]
<1>3. q \in Parser
      BY <1>1 DEF Parser
<1>4. CASE Error(P, "STRICT")
      BY <1>1, <1>4, ErrorOrder, ErrorNames
<1>5. CASE \E end : MessageComplete(P, end) \/ MessageComplete(q, end)
      BY <1>1, <1>2, <1>3, <1>5, CompleteOrder
<1>6. CASE \E s \in {"s_chunk_size_start", "s_body_identity"} : Break([q EXCEPT !.state = s])
  <2>1. PICK s \in {"s_chunk_size_start", "s_body_identity"} : Break([q EXCEPT !.state = s])
        BY <1>6
  <2> DEFINE r == [q EXCEPT !.state = s]
  <2>2. r.state = s
        BY <1>3 DEF Parser
  <2>3. r.state \notin Marked /\ r.state \notin InHeader
        BY <2>2 DEF Marked, UrlStates, InHeader
  <2>4. Break(r)
        BY <2>1
  <2> HIDE DEF r
  <2>5. QED BY <1>1, <1>2, <2>3, <2>4, LaterOrder
<1>7. CASE \E u : /\ parser' = [P EXCEPT !.state = "s_headers_done", !.upgrade = u]
                  /\ Callback("headers_complete", "", buf.p - buf.from, FALSE)
  <2>1. PICK u : /\ parser' = [P EXCEPT !.state = "s_headers_done", !.upgrade = u]
                 /\ Callback("headers_complete", "", buf.p - buf.from, FALSE)
        BY <1>7
  <2> DEFINE r == [P EXCEPT !.state = "s_headers_done", !.upgrade = u]
  <2>2. r.state = "s_headers_done"
        BY <1>1 DEF Parser
  <2>3. /\ r.state \notin Marked /\ r.state \in Open /\ Steady(parser.state, r.state)
        /\ r.state \notin InHeader
        BY <1>2, <2>2 DEF Marked, UrlStates, Open, HeadStates, PastHead, Steady, AfterUrl, InHeader
  <2>4. parser' = r /\ ctl'.phase = "callback" /\ ctl'.kind = "headers_complete"
        BY <2>1 DEF Callback
  <2> HIDE DEF r
  <2>5. QED BY <2>3, <2>4, NotifyOrder
<1>8. CASE HeadersAlmostDone
      BY <1>4, <1>5, <1>7, <1>8 DEF HeadersAlmostDone
<1>9. CASE HeadersDone
  <2>1. \/ Error(P, "STRICT") \/ MessageComplete(q, TRUE) \/ MessageComplete(q, FALSE)
        \/ Break([q EXCEPT !.state = "s_chunk_size_start"])
        \/ Break([q EXCEPT !.state = "s_body_identity"])
        BY <1>9, Zenon DEF HeadersDone
  <2>2. QED BY <1>4, <1>5, <1>6, <2>1
<1>10. CASE MessageDone
       BY <1>5, <1>10 DEF MessageDone
<1>11. QED BY <1>8, <1>9, <1>10

\* The states of a body.
LEMMA BodyOrder ==
    ASSUME IInv, \/ BodyIdentity \/ ChunkSizeStart \/ ChunkSize \/ ChunkParameters
                 \/ ChunkSizeAlmostDone \/ ChunkData \/ ChunkDataAlmostDone \/ ChunkDataDone
    PROVE  InOrder
PROOF
<1> DEFINE Body == ChunkStates \cup {"s_body_identity"}
<1>1. /\ AtByte /\ Asserted /\ P \in Parser /\ parser.state \in Body /\ P.state = parser.state
  <2>1. \E s \in Body : In({s})
        BY DEF BodyIdentity, ChunkSizeStart, ChunkSize, ChunkParameters, ChunkSizeAlmostDone,
               ChunkData, ChunkDataAlmostDone, ChunkDataDone, ChunkStates
  <2>2. QED BY <2>1, AtBody
<1>2. parser.state \in AfterUrl /\ "body" \in DataKinds
      BY <1>1 DEF AfterUrl, Open, PastHead, ChunkStates, UrlStates, DataKinds
<1>3. ASSUME NEW e \in {"INVALID_CHUNK_SIZE", "INVALID_CONTENT_LENGTH", "STRICT"}, Error(P, e)
      PROVE  InOrder
      BY <1>1, <1>3, ErrorOrder, ErrorNames
<1>4. \A s \in Body \cup {"s_header_field_start", "s_message_done"} :
          s \notin Marked /\ s \notin InHeader /\ s \in Open
      BY DEF ChunkStates, Marked, UrlStates, InHeader, Open, HeadStates, PastHead
<1>5. ASSUME NEW r, Break(r), r.state \in Body \cup {"s_header_field_start"}
      PROVE  InOrder
      BY <1>1, <1>2, <1>4, <1>5, LaterOrder
<1>6. ASSUME NEW r, parser' = r, ctl' = ctl, r.state \in Body \cup {"s_message_done"}
      PROVE  InOrder
  <2>1. ctl'.phase = "exec"
        BY <1>1, <1>6 DEF AtByte
  <2>2. r.state \notin Marked /\ r.state \notin InHeader
        BY <1>4, <1>6
  <2>3. QED BY <1>2, <1>6, <2>1, <2>2 DEF InOrder, Pending, MarkSet, Marked, AfterUrl
<1>7. ASSUME NEW r, NEW marks, NEW upto, NEW next, CALLBACK_DATA("body", r, marks, upto, next),
             r.state \in Body \cup {"s_message_done"}
      PROVE  InOrder
  <2>1. Steady(parser.state, r.state) /\ r.state \in Open /\ r.state \notin Marked
        BY <1>2, <1>4, <1>7 DEF Steady, AfterUrl
  <2>2. QED BY <1>1, <1>2, <1>7, <2>1, DataOrder
<1>8. /\ \A s : [P EXCEPT !.state = s].state = s
      /\ \A l : [P EXCEPT !.content_length = l].state = P.state
      /\ \A l, s : [P EXCEPT !.content_length = l, !.state = s].state = s
      /\ \A l, s : [[P EXCEPT !.content_length = l] EXCEPT !.state = s].state = s
      /\ \A n, s : [P EXCEPT !.nread = n, !.state = s].state = s
      /\ \A n, f, s : [P EXCEPT !.nread = n, !.flags = f, !.state = s].state = s
      BY <1>1 DEF Parser
<1>9. \A s \in {"s_chunk_size", "s_chunk_parameters", "s_chunk_size_almost_done", "s_chunk_data",
                "s_chunk_data_almost_done", "s_chunk_data_done", "s_chunk_size_start"} : s \in Body
      BY DEF ChunkStates
<1>10. CASE BodyIdentity
  <2>1. \/ \E l, marks, upto, next :
               CALLBACK_DATA("body", [[P EXCEPT !.content_length = l] EXCEPT !.state = "s_message_done"],
                             marks, upto, next)
        \/ \E l : parser' = [P EXCEPT !.content_length = l] /\ ctl' = ctl
        BY <1>1, <1>10, Zenon DEF BodyIdentity
  <2>2. ASSUME NEW l, NEW marks, NEW upto, NEW next,
               CALLBACK_DATA("body", [[P EXCEPT !.content_length = l] EXCEPT !.state = "s_message_done"],
                             marks, upto, next)
        PROVE  InOrder
    <3> DEFINE r == [[P EXCEPT !.content_length = l] EXCEPT !.state = "s_message_done"]
    <3>1. r.state = "s_message_done"
          BY <1>8
    <3>2. CALLBACK_DATA("body", r, marks, upto, next)
          BY <2>2
    <3> HIDE DEF r
    <3>3. QED BY <1>7, <3>1, <3>2
  <2>3. ASSUME NEW l, parser' = [P EXCEPT !.content_length = l], ctl' = ctl
        PROVE  InOrder
    <3> DEFINE r == [P EXCEPT !.content_length = l]
    <3>1. r.state \in Body
          BY <1>1, <1>8
    <3>2. parser' = r /\ ctl' = ctl
          BY <2>3
    <3> HIDE DEF r
    <3>3. QED BY <1>6, <3>1, <3>2
  <2>4. QED BY <2>1, <2>2, <2>3
<1>11. CASE ChunkSizeStart
  <2>1. \/ Error(P, "INVALID_CHUNK_SIZE")
        \/ \E l : Break([P EXCEPT !.content_length = l, !.state = "s_chunk_size"])
        BY <1>1, <1>11, Zenon DEF ChunkSizeStart
  <2>2. ASSUME NEW l, Break([P EXCEPT !.content_length = l, !.state = "s_chunk_size"])
        PROVE  InOrder
    <3> DEFINE r == [P EXCEPT !.content_length = l, !.state = "s_chunk_size"]
    <3>1. r.state \in Body
          BY <1>8, <1>9
    <3>2. Break(r)
          BY <2>2
    <3> HIDE DEF r
    <3>3. QED BY <1>5, <3>1, <3>2
  <2>3. QED BY <1>3, <2>1, <2>2
<1>12. CASE ChunkSize
  <2>1. \/ Error(P, "INVALID_CHUNK_SIZE") \/ Error(P, "INVALID_CONTENT_LENGTH")
        \/ Break([P EXCEPT !.state = "s_chunk_size_almost_done"])
        \/ Break([P EXCEPT !.state = "s_chunk_parameters"])
        \/ \E l : Break([P EXCEPT !.content_length = l])
        BY <1>1, <1>12, Zenon DEF ChunkSize
  <2>2. QED BY <1>1, <1>3, <1>5, <1>8, <1>9, <2>1
<1>13. CASE ChunkParameters
  <2>1. Break(P) \/ Break([P EXCEPT !.state = "s_chunk_size_almost_done"])
        BY <1>1, <1>13, Zenon DEF ChunkParameters
  <2>2. QED BY <1>1, <1>5, <1>8, <1>9, <2>1
<1>14. CASE ChunkSizeAlmostDone
  <2>1. \/ Error(P, "STRICT")
        \/ \E n, f : Break([P EXCEPT !.nread = n, !.flags = f, !.state = "s_header_field_start"])
        \/ \E n : Break([P EXCEPT !.nread = n, !.state = "s_chunk_data"])
        BY <1>1, <1>14, Zenon DEF ChunkSizeAlmostDone
  <2>2. ASSUME NEW n, NEW f,
               Break([P EXCEPT !.nread = n, !.flags = f, !.state = "s_header_field_start"])
        PROVE  InOrder
    <3> DEFINE r == [P EXCEPT !.nread = n, !.flags = f, !.state = "s_header_field_start"]
    <3>1. r.state = "s_header_field_start"
          BY <1>8
    <3>2. Break(r)
          BY <2>2
    <3> HIDE DEF r
    <3>3. QED BY <1>5, <3>1, <3>2
  <2>3. ASSUME NEW n, Break([P EXCEPT !.nread = n, !.state = "s_chunk_data"])
        PROVE  InOrder
    <3> DEFINE r == [P EXCEPT !.nread = n, !.state = "s_chunk_data"]
    <3>1. r.state \in Body
          BY <1>8, <1>9
    <3>2. Break(r)
          BY <2>3
    <3> HIDE DEF r
    <3>3. QED BY <1>5, <3>1, <3>2
  <2>4. QED BY <1>3, <2>1, <2>2, <2>3
<1>15. CASE ChunkData
  <2>1. \E l, s : /\ parser' = [P EXCEPT !.content_length = l, !.state = s] /\ ctl' = ctl
                  /\ s \in {"s_chunk_data_almost_done", "s_chunk_data"}
    <3>1. P.state = "s_chunk_data"
          BY <1>15 DEF ChunkData, In
    <3>2. PICK s : s = IF P.content_length = ToRead THEN "s_chunk_data_almost_done" ELSE P.state
          OBVIOUS
    <3>3. PICK l : l = P.content_length - ToRead
          OBVIOUS
    <3>4. parser' = [P EXCEPT !.content_length = l, !.state = s] /\ ctl' = ctl
          BY <1>1, <1>15, <3>2, <3>3 DEF ChunkData
    <3>5. s \in {"s_chunk_data_almost_done", "s_chunk_data"}
          BY <3>1, <3>2
    <3>6. QED BY <3>4, <3>5
  <2>2. PICK l, s : /\ parser' = [P EXCEPT !.content_length = l, !.state = s] /\ ctl' = ctl
                    /\ s \in {"s_chunk_data_almost_done", "s_chunk_data"}
        BY <2>1
  <2> DEFINE r == [P EXCEPT !.content_length = l, !.state = s]
  <2>3. r.state \in Body
        BY <1>8, <1>9, <2>2
  <2>4. parser' = r /\ ctl' = ctl
        BY <2>2
  <2> HIDE DEF r
  <2>5. QED BY <1>6, <2>3, <2>4
<1>16. CASE ChunkDataAlmostDone
  <2>1. CASE Error(P, "STRICT")
        BY <1>3, <2>1
  <2>2. CASE CALLBACK_DATA("body", [P EXCEPT !.state = "s_chunk_data_done"], mark, buf.p, Advanced)
    <3> DEFINE r == [P EXCEPT !.state = "s_chunk_data_done"]
    <3>1. r.state \in Body
          BY <1>8, <1>9
    <3>2. CALLBACK_DATA("body", r, mark, buf.p, Advanced)
          BY <2>2
    <3> HIDE DEF r
    <3>3. QED BY <1>7, <3>1, <3>2
  <2>3. QED BY <1>1, <1>16, <2>1, <2>2 DEF ChunkDataAlmostDone
<1>17. CASE ChunkDataDone
  <2>1. CASE Error(P, "STRICT")
        BY <1>3, <2>1
  <2>2. CASE Break([P EXCEPT !.nread = 0, !.state = "s_chunk_size_start"])
    <3> DEFINE r == [P EXCEPT !.nread = 0, !.state = "s_chunk_size_start"]
    <3>1. r.state \in Body
          BY <1>8, <1>9
    <3>2. Break(r)
          BY <2>2
    <3> HIDE DEF r
    <3>3. QED BY <1>5, <3>1, <3>2
  <2>3. QED BY <1>1, <1>17, <2>1, <2>2 DEF ChunkDataDone
<1>18. QED BY <1>10, <1>11, <1>12, <1>13, <1>14, <1>15, <1>16, <1>17

\* A turn of the parser, whatever its state and the byte.
LEMMA ParserStepOrder ==
    ASSUME IInv, MarkSet, ParserStep
    PROVE  InOrder
PROOF
<1>1. CASE HeaderOverflow
  <2>1. AtByte /\ Error(P, "HEADER_OVERFLOW")
        BY <1>1 DEF HeaderOverflow, AtByte
  <2>2. P \in Parser /\ "HEADER_OVERFLOW" \in Errors \ {"OK"}
        BY <2>1, Counted DEF Errors
  <2>3. QED BY <2>1, <2>2, ErrorOrder
<1>2. CASE EndOfBuffer
      BY <1>2, EndOfBufferOrder
<1>3. CASE \/ Dead \/ StartReq \/ ReqMethod \/ ReqUrl \/ HttpWordStep \/ ReqMajor \/ ReqMinor
           \/ LineAlmostDone
      BY <1>3, RequestLineOrder
<1>4. CASE HeaderFieldStart \/ HeaderField
      BY <1>4, HeaderNameOrder
<1>5. CASE HeaderValueStart \/ HeaderValue \/ HeaderValueLws \/ HeaderValueEmpty
      BY <1>5, HeaderValueOrder
<1>6. CASE HeadersAlmostDone \/ HeadersDone \/ MessageDone
      BY <1>6, EndOrder
<1>7. CASE \/ BodyIdentity \/ ChunkSizeStart \/ ChunkSize \/ ChunkParameters
           \/ ChunkSizeAlmostDone \/ ChunkData \/ ChunkDataAlmostDone \/ ChunkDataDone
      BY <1>7, BodyOrder
<1>8. QED BY <1>1, <1>2, <1>3, <1>4, <1>5, <1>6, <1>7 DEF ParserStep

\* Between two callbacks the parser keeps the connection ready for the next one.
LEMMA ParserStepReady ==
    ASSUME CInv, ParserStep, settings' = settings, conn' = conn
    PROVE  MarkSet' /\ ConnOK'
PROOF
<1>1. IInv /\ MarkSet /\ ConnOK /\ InOrder /\ IInv'
      BY ParserStepOrder, ParserStepKeeps DEF CInv
<1>2. ctl.phase = "exec"
  <2>1. CASE HeaderOverflow \/ EndOfBuffer
        BY <2>1 DEF HeaderOverflow, EndOfBuffer
  <2>2. CASE ~(HeaderOverflow \/ EndOfBuffer)
    <3>1. \E states : In(states)
          BY <2>2, Zenon DEF ParserStep, Dead, StartReq, ReqMethod, ReqUrl, HttpWordStep, ReqMajor,
             ReqMinor, LineAlmostDone, HeaderFieldStart, HeaderField, HeaderValueStart, HeaderValue,
             HeaderValueLws, HeaderValueEmpty, HeadersAlmostDone, HeadersDone, BodyIdentity,
             MessageDone, ChunkSizeStart, ChunkSize, ChunkParameters, ChunkSizeAlmostDone,
             ChunkData, ChunkDataAlmostDone, ChunkDataDone
    <3>2. QED BY <3>1 DEF In
  <2>3. QED BY <2>1, <2>2
<1>3. parser.http_errno = "OK" /\ \A k : ~Pending(k)
      BY <1>1, <1>2 DEF IInv, GoodOK, Pending
<1>4. CASE parser'.http_errno # "OK"
  <2>1. ctl'.phase \notin {"exec", "callback"}
        BY <1>1, <1>4 DEF IInv, GoodOK
  <2>2. MarkSet'
        BY <2>1 DEF MarkSet
  <2>3. \A k : ~Pending(k)'
        BY <2>1 DEF Pending
  <2>4. QED BY <1>1, <1>4, <2>2, <2>3 DEF ConnOK, IsStatus, IsHeader, Lined, IsRequest, IsLine
<1>5. CASE parser'.http_errno = "OK"
  <2>1. MarkSet'
        BY <1>1, <1>5 DEF InOrder
  <2>2. ASSUME settings = "reader"
        PROVE  /\ IsStatus(conn)
               /\ (conn.header = NULL \/ IsHeader(conn.header))
               /\ conn.request_complete => Lined(conn.current_request)
               /\ parser.state \in Open => IsRequest(conn.current_request)
               /\ parser.state \in AfterUrl => Lined(conn.current_request)
               /\ parser.state \in InHeader => IsHeader(conn.header)
        BY <1>1, <1>2, <1>3, <2>2 DEF ConnOK
  <2>3. ConnOK'
        BY <1>1, <1>5, <2>2 DEF ConnOK, InOrder, IsStatus, IsHeader, Lined, IsRequest, IsLine
  <2>4. QED BY <2>1, <2>3
<1>6. QED BY <1>4, <1>5

\* A call begins with the mark of the string that the last one has left unfinished.
LEMMA ExecuteReady ==
    ASSUME CInv, NEW n \in Nat, Execute(n), settings' = settings, conn' = conn
    PROVE  MarkSet' /\ ConnOK'
PROOF
<1>1. /\ IInv /\ MarkSet /\ ConnOK /\ ctl.phase = "idle" /\ parser' = parser
      /\ buf.to \in Nat
      BY DEF CInv, Execute, IInv, TypeOK, Buffer
<1>2. /\ ctl'.phase \in {"exec", "returned"}
      /\ ctl'.phase = "exec" => parser.http_errno = "OK"
      BY DEF Execute, Returned
<1>3. MarkSet'
  <2>1. ASSUME ctl'.phase = "exec"
        PROVE  /\ parser.state \in UrlStates => mark'["url"] # 0
               /\ parser.state = "s_header_field" => mark'["header_field"] # 0
    <3>1. PICK m \in Nat : m = buf.to + 1 /\ m # 0
          BY <1>1
    <3>2. parser.http_errno = "OK"
          BY <1>2, <2>1
    <3>3. QED BY <3>1, <3>2 DEF Execute, DataKinds
  <2>2. QED BY <1>1, <1>2, <2>1 DEF MarkSet
<1>4. \A k : ~Pending(k) /\ ~Pending(k)'
      BY <1>1, <1>2 DEF Pending
<1>5. ConnOK'
      BY <1>1, <1>4 DEF ConnOK, IsStatus, IsHeader, Lined, IsRequest, IsLine
<1>6. QED BY <1>3, <1>5

Sets(d, r, f, v) == d = [r EXCEPT ![f] = v]

\* An assignment to a field leaves the record with the fields it has.
LEMMA FieldSet ==
    ASSUME NEW S, NEW r, HasFields(r, S), NEW f \in S, NEW v
    PROVE  /\ HasFields([r EXCEPT ![f] = v], S)
           /\ [r EXCEPT ![f] = v][f] = v
           /\ \A g \in S \ {f} : [r EXCEPT ![f] = v][g] = r[g]
PROOF BY DEF HasFields

\* A callback returns: nothing is pending, and the parser's state is what it was.
LEMMA CallbackReady ==
    ASSUME CInv, ctl.phase = "callback", NEW result, CallbackReturns(result),
           settings' = settings,
           settings = "reader" =>
               /\ IsStatus(conn')
               /\ (conn'.header = NULL \/ IsHeader(conn'.header))
               /\ conn'.request_complete => Lined(conn'.current_request)
               /\ parser.state \in Open => IsRequest(conn'.current_request)
               /\ parser.state \in AfterUrl => Lined(conn'.current_request)
               /\ parser.state \in InHeader => IsHeader(conn'.header)
    PROVE  MarkSet' /\ ConnOK'
PROOF
<1>1. /\ MarkSet /\ buf' = buf /\ parser \in Parser
      /\ ctl'.phase \in {"exec", "returned"}
      BY DEF CInv, IInv, TypeOK, CallbackReturns, Returned
<1>2. parser'.state = parser.state
      BY <1>1 DEF CallbackReturns, Parser
<1>3. MarkSet'
      BY <1>1, <1>2 DEF MarkSet, Marked
<1>4. \A k : ~Pending(k)'
      BY <1>1 DEF Pending
<1>5. ConnOK'
      BY <1>2, <1>4 DEF ConnOK, IsStatus, IsHeader, Lined, IsRequest, IsLine
<1>6. QED BY <1>3, <1>5

\* Where a callback starts from.
LEMMA Called ==
    ASSUME CInv, NEW k, Calling(k)
    PROVE  /\ settings = "reader" /\ ctl.phase = "callback" /\ \A j : Pending(j) <=> j = k
           /\ IsStatus(conn)
           /\ (conn.header = NULL \/ IsHeader(conn.header))
           /\ conn.request_complete => Lined(conn.current_request)
           /\ parser.state \in Open /\ k # "message_begin" => IsRequest(conn.current_request)
           /\ parser.state \in AfterUrl /\ k # "url" => Lined(conn.current_request)
           /\ parser.state \in InHeader /\ k # "header_field" => IsHeader(conn.header)
           /\ k \in HeaderKinds => parser.state \in Open
PROOF
<1>1. /\ settings = "reader" /\ ctl.phase = "callback" /\ ctl.kind = k
      /\ IInv /\ ConnOK
      BY DEF Calling, CInv
<1>2. \A j : Pending(j) <=> j = k
      BY <1>1 DEF Pending
<1>3. parser.http_errno = "OK"
      BY <1>1 DEF IInv, GoodOK
<1>4. k \in HeaderKinds => parser.state \in Open
      BY <1>1 DEF IInv, Tallied, Open
<1>5. QED BY <1>1, <1>2, <1>3, <1>4 DEF ConnOK

\* The same for the parse status.
LEMMA StatusSet ==
    ASSUME NEW c, IsStatus(c), NEW f \in StatusFields, NEW v, NEW d, Sets(d, c, f, v)
    PROVE  /\ IsStatus(d) /\ d[f] = v
           /\ f # "current_request" => d.current_request = c.current_request
           /\ f # "header" => d.header = c.header
           /\ f # "request_complete" => d.request_complete = c.request_complete
PROOF
<1>1. /\ HasFields([c EXCEPT ![f] = v], StatusFields)
      /\ [c EXCEPT ![f] = v][f] = v
      /\ \A g \in StatusFields \ {f} : [c EXCEPT ![f] = v][g] = c[g]
      BY FieldSet DEF IsStatus
<1>2. \A g \in StatusFields \ {f} : d[g] = c[g]
      BY <1>1 DEF Sets
<1>3. IsStatus(d) /\ d[f] = v
      BY <1>1 DEF Sets, IsStatus
<1>4. /\ "current_request" \in StatusFields /\ "header" \in StatusFields
      /\ "request_complete" \in StatusFields
      BY DEF StatusFields
<1>5. QED BY <1>2, <1>3, <1>4

\* The fields the callbacks assign.
LEMMA StatusNames ==
    /\ "current_request" \in StatusFields /\ "header" \in StatusFields
    /\ "request_complete" \in StatusFields /\ "hstate" \in StatusFields
    /\ "begun" \in StatusFields /\ "requests" \in StatusFields /\ "response" \in StatusFields
PROOF BY DEF StatusFields

\* A request begins before it has a line.
LEMMA MessageBeginReady ==
    ASSUME CInv, parser_cb_on_message_begin
    PROVE  MarkSet' /\ ConnOK'
PROOF
<1>1. Calling("message_begin") /\ CallbackReturns(0) /\ settings' = settings
      BY DEF parser_cb_on_message_begin
<1>2. /\ IsStatus(conn) /\ (conn.header = NULL \/ IsHeader(conn.header))
      /\ parser.state \in InHeader => IsHeader(conn.header)
      BY <1>1, Called
<1>3. parser.state \notin AfterUrl
      BY <1>1, Called DEF CInv, ConnOK
<1>4. PICK b, r : /\ conn' = [conn EXCEPT !.begun = b, !.current_request = r, !.request_complete = FALSE]
                  /\ IsRequest(r)
  <2> DEFINE r == http_request_new(conn.begun + 1, conn.current_request = NULL)
  <2>1. IsRequest(r)
        BY DEF http_request_new, IsRequest, HasFields
  <2>2. conn' = [conn EXCEPT !.begun = conn.begun + 1, !.current_request = r, !.request_complete = FALSE]
        BY DEF parser_cb_on_message_begin
  <2> HIDE DEF r
  <2>3. QED BY <2>1, <2>2
<1>5. /\ IsStatus(conn') /\ conn'.header = conn.header /\ conn'.request_complete = FALSE
      /\ conn'.current_request = r
  <2>1. PICK c : Sets(c, conn, "begun", b)
        BY DEF Sets
  <2>2. PICK d : Sets(d, c, "current_request", r)
        BY DEF Sets
  <2>3. Sets(conn', d, "request_complete", FALSE)
        BY <1>4, <2>1, <2>2 DEF Sets
  <2>4. IsStatus(c) /\ c.header = conn.header
        BY <1>2, <2>1, StatusSet, StatusNames
  <2>5. IsStatus(d) /\ d.header = conn.header /\ d.current_request = r
        BY <2>2, <2>4, StatusSet, StatusNames
  <2>6. /\ IsStatus(conn') /\ conn'.header = d.header /\ conn'.current_request = d.current_request
        /\ conn'["request_complete"] = FALSE
    <3>1. PICK v : v = FALSE
          OBVIOUS
    <3>2. Sets(conn', d, "request_complete", v)
          BY <2>3, <3>1
    <3>3. /\ IsStatus(conn') /\ conn'.header = d.header /\ conn'.current_request = d.current_request
          /\ conn'["request_complete"] = v
          BY <2>5, <3>2, StatusSet, StatusNames
    <3>4. QED BY <3>1, <3>3
  <2>7. QED BY <2>5, <2>6
<1>6. ctl.phase = "callback"
      BY <1>1 DEF Calling
<1>7. /\ (conn'.header = NULL \/ IsHeader(conn'.header))
      /\ parser.state \in InHeader => IsHeader(conn'.header)
      /\ IsRequest(conn'.current_request)
      BY <1>2, <1>4, <1>5
<1>8. QED BY <1>1, <1>3, <1>5, <1>6, <1>7, CallbackReady

\* The URL brings the request line.
LEMMA UrlReady ==
    ASSUME CInv, parser_cb_on_url
    PROVE  MarkSet' /\ ConnOK'
PROOF
<1>1. Calling("url") /\ CallbackReturns(0) /\ settings' = settings /\ ctl.phase = "callback"
      BY DEF parser_cb_on_url, Calling
<1>2. /\ IsStatus(conn) /\ (conn.header = NULL \/ IsHeader(conn.header))
      /\ parser.state \in InHeader => IsHeader(conn.header)
      /\ IsRequest(conn.current_request)
      BY <1>1, Called DEF HeaderKinds
<1>3. PICK l : conn' = [conn EXCEPT !.current_request.req = l] /\ IsLine(l)
  <2> DEFINE l == [method |-> http_method_fromstring(parser.method), uri |-> ctl.data,
                   version |-> "HTTPXX"]
  <2>1. IsLine(l)
        BY DEF IsLine, HasFields
  <2>2. conn' = [conn EXCEPT !.current_request.req = l]
        BY DEF parser_cb_on_url
  <2> HIDE DEF l
  <2>3. QED BY <2>1, <2>2
<1>4. PICK r : r = [conn.current_request EXCEPT !.req = l]
      OBVIOUS
<1>5. Lined(r)
      BY <1>2, <1>3, <1>4 DEF Lined, IsRequest, HasFields
<1>6. IsStatus(conn') /\ conn'.header = conn.header /\ conn'.current_request = r
  <2>1. Sets(conn', conn, "current_request", r)
        BY <1>3, <1>4 DEF Sets
  <2>2. QED BY <1>2, <2>1, StatusSet, StatusNames
<1>7. /\ (conn'.header = NULL \/ IsHeader(conn'.header))
      /\ parser.state \in InHeader => IsHeader(conn'.header)
      /\ Lined(conn'.current_request) /\ IsRequest(conn'.current_request)
      BY <1>2, <1>5, <1>6 DEF Lined
<1>8. QED BY <1>1, <1>6, <1>7, CallbackReady

\* A header is added to the request only if there is one.
LEMMA HeaderAdded ==
    ASSUME NEW c, IsStatus(c), IsRequest(c.current_request)
    PROVE  /\ IsStatus(AddHeader(c)) /\ IsRequest(AddHeader(c).current_request)
           /\ Lined(c.current_request) => Lined(AddHeader(c).current_request)
           /\ AddHeader(c).header = NULL
           /\ AddHeader(c).request_complete = c.request_complete
PROOF
<1>1. PICK hs : hs = Append(c.current_request.headers, c.header)
      OBVIOUS
<1>2. AddHeader(c) = [c EXCEPT !.current_request.headers = hs, !.header = NULL]
      BY <1>1 DEF AddHeader
<1>3. PICK r : r = [c.current_request EXCEPT !.headers = hs]
      OBVIOUS
<1>4. IsRequest(r) /\ r.req = c.current_request.req
      BY <1>3 DEF IsRequest, HasFields
<1>5. /\ IsStatus(AddHeader(c)) /\ AddHeader(c).current_request = r /\ AddHeader(c).header = NULL
      /\ AddHeader(c).request_complete = c.request_complete
  <2>1. PICK d : Sets(d, c, "current_request", r)
        BY DEF Sets
  <2>2. Sets(AddHeader(c), d, "header", NULL)
        BY <1>2, <1>3, <2>1 DEF Sets
  <2>3. /\ IsStatus(d) /\ d["current_request"] = r
        /\ d.request_complete = c.request_complete
        BY <2>1, StatusSet, StatusNames
  <2>4. /\ IsStatus(AddHeader(c)) /\ AddHeader(c)["header"] = NULL
        /\ AddHeader(c).current_request = d.current_request
        /\ AddHeader(c).request_complete = d.request_complete
        BY <2>2, <2>3, StatusSet, StatusNames
  <2>5. QED BY <2>3, <2>4
<1>6. QED BY <1>4, <1>5 DEF Lined

\* A name makes a header, or goes on with the one there is.
LEMMA HeaderFieldReady ==
    ASSUME CInv, parser_cb_on_header_field
    PROVE  MarkSet' /\ ConnOK'
PROOF
<1>1. /\ Calling("header_field") /\ settings' = settings /\ ctl.phase = "callback"
      BY DEF parser_cb_on_header_field, Calling
<1>2. /\ settings = "reader" /\ IsStatus(conn) /\ (conn.header = NULL \/ IsHeader(conn.header))
      /\ Lined(conn.current_request) /\ IsRequest(conn.current_request)
      BY <1>1, Called DEF CInv, ConnOK, Lined
<1>3. ASSUME NEW result, CallbackReturns(result), IsStatus(conn'), IsHeader(conn'.header),
             Lined(conn'.current_request)
      PROVE  MarkSet' /\ ConnOK'
  <2>1. IsRequest(conn'.current_request)
        BY <1>3 DEF Lined
  <2>2. QED BY <1>1, <1>3, <2>1, CallbackReady
<1>4. PICK h : h = http_header_new(ctl.data) /\ IsHeader(h)
      BY DEF http_header_new, IsHeader, HasFields
<1>5. ASSUME NEW c, IsStatus(c)
      PROVE  \E d : /\ d = [c EXCEPT !.header = h, !.hstate = "HSTATE_FIELD"]
                    /\ IsStatus(d) /\ d.header = h /\ d.current_request = c.current_request
  <2>1. PICK b : Sets(b, c, "header", h)
        BY DEF Sets
  <2>2. PICK d : Sets(d, b, "hstate", "HSTATE_FIELD")
        BY DEF Sets
  <2>3. IsStatus(b) /\ b.header = h /\ b.current_request = c.current_request
        BY <1>5, <2>1, StatusSet, StatusNames
  <2>4. IsStatus(d) /\ d.header = h /\ d.current_request = c.current_request
        BY <2>2, <2>3, StatusSet, StatusNames
  <2>5. d = [c EXCEPT !.header = h, !.hstate = "HSTATE_FIELD"]
        BY <2>1, <2>2 DEF Sets
  <2>6. QED BY <2>4, <2>5
<1>6. CASE conn' = [conn EXCEPT !.header = h] /\ CallbackReturns(-1)
  <2>1. Sets(conn', conn, "header", h)
        BY <1>6 DEF Sets
  <2>2. IsStatus(conn') /\ conn'.header = h /\ conn'.current_request = conn.current_request
        BY <1>2, <2>1, StatusSet, StatusNames
  <2>3. QED BY <1>2, <1>3, <1>4, <1>6, <2>2
<1>7. CASE /\ conn' = [[conn EXCEPT !.header = h, !.hstate = "HSTATE_FIELD"]
                          EXCEPT !.current_request.req.version = VersionOf(parser)]
           /\ CallbackReturns(0)
  <2>1. PICK c : /\ c = [conn EXCEPT !.header = h, !.hstate = "HSTATE_FIELD"]
                 /\ IsStatus(c) /\ c.header = h /\ c.current_request = conn.current_request
        BY <1>2, <1>5
  <2>2. PICK v : conn' = [c EXCEPT !.current_request.req.version = v]
        BY <1>7, <2>1
  <2>3. PICK l : l = [c.current_request.req EXCEPT !.version = v]
        OBVIOUS
  <2>4. PICK r : r = [c.current_request EXCEPT !.req = l]
        OBVIOUS
  <2>5. Sets(conn', c, "current_request", r)
        BY <2>2, <2>3, <2>4 DEF Sets
  <2>6. IsLine(l)
        BY <1>2, <2>1, <2>3 DEF Lined, IsLine, HasFields
  <2>7. IsRequest(r) /\ r.req = l
        BY <1>2, <2>1, <2>4 DEF IsRequest, HasFields
  <2>8. IsStatus(conn') /\ conn'.header = c.header /\ conn'.current_request = r
    <3>1. IsStatus(c)
          BY <2>1
    <3>2. /\ IsStatus(conn') /\ conn'.header = c.header /\ conn'["current_request"] = r
          BY <2>5, <3>1, StatusSet, StatusNames
    <3>3. QED BY <3>2
  <2>9. Lined(conn'.current_request)
        BY <2>6, <2>7, <2>8 DEF Lined
  <2>10. QED BY <1>3, <1>4, <1>7, <2>1, <2>8, <2>9
<1>8. CASE \E c : /\ conn' = [c EXCEPT !.header = h, !.hstate = "HSTATE_FIELD"]
                  /\ c = IF conn.header = NULL THEN conn ELSE AddHeader(conn)
                  /\ CallbackReturns(0)
  <2>1. PICK c : /\ conn' = [c EXCEPT !.header = h, !.hstate = "HSTATE_FIELD"]
                 /\ c = IF conn.header = NULL THEN conn ELSE AddHeader(conn)
        BY <1>8
  <2>2. IsStatus(c) /\ Lined(c.current_request)
    <3>1. CASE conn.header = NULL
          BY <1>2, <2>1, <3>1
    <3>2. CASE conn.header # NULL
      <4>1. c = AddHeader(conn)
            BY <2>1, <3>2
      <4>2. /\ IsStatus(AddHeader(conn))
            /\ Lined(conn.current_request) => Lined(AddHeader(conn).current_request)
            BY <1>2, HeaderAdded
      <4>3. QED BY <1>2, <4>1, <4>2
    <3>3. QED BY <3>1, <3>2
  <2>3. IsStatus(conn') /\ conn'.header = h /\ conn'.current_request = c.current_request
        BY <1>5, <2>1, <2>2
  <2>4. QED BY <1>3, <1>4, <1>8, <2>2, <2>3
<1>9. CASE conn.header # NULL /\ conn' = HeaderContinued(conn) /\ CallbackReturns(0)
  <2>1. PICK n : n = conn.header.name \o ctl.data
        OBVIOUS
  <2>2. conn' = [conn EXCEPT !.header.name = n]
        BY <1>9, <2>1 DEF HeaderContinued
  <2>3. PICK g : g = [conn.header EXCEPT !.name = n]
        OBVIOUS
  <2>4. IsHeader(g)
        BY <1>2, <1>9, <2>3 DEF IsHeader, HasFields
  <2>5. IsStatus(conn') /\ conn'.header = g /\ conn'.current_request = conn.current_request
    <3>1. Sets(conn', conn, "header", g)
          BY <2>2, <2>3 DEF Sets
    <3>2. QED BY <1>2, <3>1, StatusSet, StatusNames
  <2>6. QED BY <1>2, <1>3, <1>9, <2>4, <2>5
<1>10. CASE AbortIn("parser_cb_on_header_field") /\ conn' = conn
  <2>1. ctl'.phase = "abort" /\ parser' = parser
        BY <1>10 DEF AbortIn
  <2>2. MarkSet'
        BY <2>1 DEF MarkSet
  <2>3. \A k : ~Pending(k)'
        BY <2>1 DEF Pending
  <2>4. /\ IsStatus(conn) /\ (conn.header = NULL \/ IsHeader(conn.header))
        /\ conn.request_complete => Lined(conn.current_request)
        BY <1>1, Called
  <2>5. QED BY <1>10, <2>1, <2>2, <2>3, <2>4 DEF ConnOK, IsStatus, IsHeader, Lined, IsRequest, IsLine
<1>11. QED BY <1>4, <1>6, <1>7, <1>8, <1>9, <1>10, Zenon DEF parser_cb_on_header_field

\* The value finds the header its name has made.
LEMMA HeaderValueReady ==
    ASSUME CInv, parser_cb_on_header_value
    PROVE  MarkSet' /\ ConnOK'
PROOF
<1>1. Calling("header_value") /\ CallbackReturns(0) /\ settings' = settings /\ ctl.phase = "callback"
      BY DEF parser_cb_on_header_value, Calling
<1>2. /\ IsStatus(conn) /\ IsHeader(conn.header)
      /\ conn.request_complete => Lined(conn.current_request)
      /\ parser.state \in Open => IsRequest(conn.current_request)
      /\ parser.state \in AfterUrl => Lined(conn.current_request)
      BY <1>1, Called DEF CInv, ConnOK
<1>3. PICK g : g = http_header_append_content(conn.header, ctl.data)
      OBVIOUS
<1>4. IsHeader(g)
  <2>1. PICK v : g = [conn.header EXCEPT !.content = v]
        BY <1>3 DEF http_header_append_content
  <2>2. QED BY <1>2, <2>1 DEF IsHeader, HasFields
<1>5. conn' = [conn EXCEPT !.header = g, !.hstate = "HSTATE_VALUE"]
      BY <1>3 DEF parser_cb_on_header_value
<1>6. /\ IsStatus(conn') /\ conn'.header = g /\ conn'.current_request = conn.current_request
      /\ conn'.request_complete = conn.request_complete
  <2>1. PICK b : Sets(b, conn, "header", g)
        BY DEF Sets
  <2>2. Sets(conn', b, "hstate", "HSTATE_VALUE")
        BY <1>5, <2>1 DEF Sets
  <2>3. /\ IsStatus(b) /\ b["header"] = g /\ b.current_request = conn.current_request
        /\ b.request_complete = conn.request_complete
        BY <1>2, <2>1, StatusSet, StatusNames
  <2>4. /\ IsStatus(conn') /\ conn'.header = b.header /\ conn'.current_request = b.current_request
        /\ conn'.request_complete = b.request_complete
        BY <2>2, <2>3, StatusSet, StatusNames
  <2>5. QED BY <2>3, <2>4
<1>7. QED BY <1>1, <1>2, <1>4, <1>6, CallbackReady

\* The last header is added; the message may be complete.
LEMMA CompleteReady ==
    ASSUME CInv, parser_cb_on_headers_complete \/ parser_cb_on_message_complete
    PROVE  MarkSet' /\ ConnOK'
PROOF
<1>1. CASE parser_cb_on_headers_complete
  <2>1. /\ Calling("headers_complete") /\ CallbackReturns(0) /\ settings' = settings
        /\ ctl.phase = "callback"
        /\ conn' = IF conn.header = NULL THEN conn ELSE AddHeader(conn)
        BY <1>1 DEF parser_cb_on_headers_complete, Calling
  <2>2. /\ IsStatus(conn) /\ IsRequest(conn.current_request)
        /\ conn.request_complete => Lined(conn.current_request)
        /\ parser.state \in AfterUrl => Lined(conn.current_request)
        /\ parser.state \notin InHeader
        BY <2>1, Called DEF CInv, ConnOK
  <2>3. CASE conn.header = NULL
        BY <2>1, <2>2, <2>3, CallbackReady
  <2>4. CASE conn.header # NULL
    <3>1. conn' = AddHeader(conn)
          BY <2>1, <2>4
    <3>2. /\ IsStatus(conn') /\ IsRequest(conn'.current_request)
          /\ Lined(conn.current_request) => Lined(conn'.current_request)
          /\ conn'.header = NULL /\ conn'.request_complete = conn.request_complete
          BY <2>2, <3>1, HeaderAdded
    <3>3. QED BY <2>1, <2>2, <3>2, CallbackReady
  <2>5. QED BY <2>3, <2>4
<1>2. CASE parser_cb_on_message_complete
  <2>1. /\ Calling("message_complete") /\ CallbackReturns(0) /\ settings' = settings
        /\ ctl.phase = "callback"
        /\ conn' = [conn EXCEPT !.request_complete = TRUE]
        BY <1>2 DEF parser_cb_on_message_complete, Calling
  <2>2. /\ IsStatus(conn) /\ Lined(conn.current_request) /\ IsRequest(conn.current_request)
        /\ (conn.header = NULL \/ IsHeader(conn.header))
        /\ parser.state \in InHeader => IsHeader(conn.header)
        BY <2>1, Called DEF CInv, ConnOK, Lined
  <2>3. /\ IsStatus(conn') /\ conn'.current_request = conn.current_request
        /\ conn'.header = conn.header
        BY <2>1, <2>2 DEF IsStatus, HasFields
  <2>4. QED BY <2>1, <2>2, <2>3, CallbackReady
<1>3. QED BY <1>1, <1>2

\* server_loop_read after the call: the next one starts with a fresh request, or goes on.
LEMMA AfterReady ==
    ASSUME CInv, NextBuffer \/ AfterExecute
    PROVE  MarkSet' /\ ConnOK'
PROOF
<1>1. /\ ctl.phase = "returned" /\ ctl'.phase = "idle" /\ settings' = settings /\ ConnOK
      BY DEF NextBuffer, AfterExecute, CInv
<1>2. MarkSet'
      BY <1>1 DEF MarkSet
<1>3. \A k : ~Pending(k) /\ ~Pending(k)'
      BY <1>1 DEF Pending
<1>4. CASE settings # "reader"
      BY <1>1, <1>2, <1>4 DEF ConnOK
<1>5. ASSUME settings = "reader", parser' = parser, IsStatus(conn'),
             conn'.current_request = conn.current_request, conn'.header = conn.header,
             conn'.request_complete = conn.request_complete
      PROVE  ConnOK'
      BY <1>1, <1>3, <1>5 DEF ConnOK, IsStatus, IsHeader, Lined, IsRequest, IsLine
<1>6. ASSUME settings = "reader"
      PROVE  IsStatus(conn)
      BY <1>1, <1>6 DEF ConnOK
<1>7. CASE settings = "reader" /\ parser' = parser /\ conn' = conn
      BY <1>2, <1>5, <1>6, <1>7
<1>8. CASE settings = "reader" /\ parser' = parser /\ \E code : Respond(code)
  <2>1. PICK code : Sets(conn', conn, "response", code)
        BY <1>8 DEF Respond, Sets
  <2>2. /\ IsStatus(conn') /\ conn'.current_request = conn.current_request
        /\ conn'.header = conn.header /\ conn'.request_complete = conn.request_complete
        BY <1>6, <1>8, <2>1, StatusSet, StatusNames
  <2>3. QED BY <1>2, <1>5, <1>8, <2>2
<1>9. CASE /\ settings = "reader" /\ parser' = http_parser_init
           /\ \E rs : conn' = StatusReset([conn EXCEPT !.requests = rs])
  <2>1. PICK rs : conn' = StatusReset([conn EXCEPT !.requests = rs])
        BY <1>9
  <2>2. PICK a : Sets(a, conn, "requests", rs)
        BY DEF Sets
  <2>3. PICK b : Sets(b, a, "current_request", NULL)
        BY DEF Sets
  <2>4. PICK f : f = FALSE
        OBVIOUS
  <2>5. PICK c : Sets(c, b, "request_complete", f)
        BY DEF Sets
  <2>6. PICK d : Sets(d, c, "hstate", "HSTATE_NONE")
        BY DEF Sets
  <2>7. Sets(conn', d, "header", NULL)
        BY <2>1, <2>2, <2>3, <2>4, <2>5, <2>6 DEF Sets, StatusReset
  <2>8. IsStatus(a)
        BY <1>6, <1>9, <2>2, StatusSet, StatusNames
  <2>9. IsStatus(b)
        BY <2>3, <2>8, StatusSet, StatusNames
  <2>10. IsStatus(c) /\ c["request_complete"] = f
        BY <2>5, <2>9, StatusSet, StatusNames
  <2>11. IsStatus(d) /\ d.request_complete = c.request_complete
        BY <2>6, <2>10, StatusSet, StatusNames
  <2>12. /\ IsStatus(conn') /\ conn'["header"] = NULL
         /\ conn'.request_complete = d.request_complete
        BY <2>7, <2>11, StatusSet, StatusNames
  <2>13. parser'.state \notin Open /\ parser'.state \notin InHeader /\ parser'.state \notin AfterUrl
        BY <1>9 DEF http_parser_init, Open, InHeader, AfterUrl, HeadStates, PastHead, ChunkStates
  <2>14. conn'.request_complete = FALSE
        BY <2>4, <2>10, <2>11, <2>12
  <2>15. QED BY <1>2, <1>3, <2>12, <2>13, <2>14 DEF ConnOK, IsStatus, IsHeader, Lined, IsRequest, IsLine
<1>10. QED BY <1>1, <1>2, <1>4, <1>7, <1>8, <1>9, Zenon DEF NextBuffer, AfterExecute

\* Every step keeps the order.
LEMMA NextOrder ==
    ASSUME CInv, [Next]_vars
    PROVE  CInv'
PROOF
<1>1. IInv'
      BY NextKeeps DEF CInv
<1>2. CASE UNCHANGED vars
      BY <1>1, <1>2 DEF vars, CInv, MarkSet, ConnOK, Pending, IsStatus, IsHeader, Lined, IsRequest, IsLine
<1>3. CASE \E n \in BufferSizes : Read(n)
  <2>1. PICK n \in BufferSizes : Execute(n) /\ settings' = settings /\ conn' = conn
        BY <1>3 DEF Read
  <2>2. n \in Nat
    <3>1. Len(input.text) \in Nat /\ buf.to \in Nat /\ n > 0
          BY <2>1, TextAssumption DEF CInv, IInv, TypeOK, Buffer, Execute
    <3>2. QED BY <3>1, ReadSizesAssumption DEF BufferSizes
  <2>3. QED BY <1>1, <2>1, <2>2, ExecuteReady DEF CInv
<1>4. CASE ParserStep /\ UNCHANGED <<settings, conn>>
      BY <1>1, <1>4, ParserStepReady DEF CInv
<1>5. CASE NoCallback
  <2>1. /\ ctl.phase = "callback" /\ CallbackReturns(0) /\ settings' = settings
        /\ settings # "reader"
        BY <1>5 DEF NoCallback, CallbackReturns
  <2>2. MarkSet' /\ ConnOK'
        BY <2>1, CallbackReady
  <2>3. QED BY <1>1, <2>2 DEF CInv
<1>6. CASE NextBuffer \/ AfterExecute
      BY <1>1, <1>6, AfterReady DEF CInv
<1>7. CASE parser_cb_on_body
  <2>1. /\ ctl.phase = "callback" /\ ctl'.phase = "abort" /\ settings' = settings /\ conn' = conn
        /\ parser' = parser
        BY <1>7 DEF parser_cb_on_body, Calling, AbortIn
  <2>2. MarkSet'
        BY <2>1 DEF MarkSet
  <2>3. \A k : ~Pending(k)'
        BY <2>1 DEF Pending
  <2>4. ConnOK'
        BY <2>1, <2>3 DEF CInv, ConnOK, IsStatus, IsHeader, Lined, IsRequest, IsLine
  <2>5. QED BY <1>1, <2>2, <2>4 DEF CInv
<1>8. CASE \/ parser_cb_on_message_begin \/ parser_cb_on_url \/ parser_cb_on_header_field
           \/ parser_cb_on_header_value \/ parser_cb_on_headers_complete
           \/ parser_cb_on_message_complete
      BY <1>1, <1>8, MessageBeginReady, UrlReady, HeaderFieldReady, HeaderValueReady,
         CompleteReady DEF CInv
<1>9. QED BY <1>2, <1>3, <1>4, <1>5, <1>6, <1>7, <1>8 DEF Next

\* Each callback finds the request, the request line and the header it works on, and a request
\* handed to the workers has its line, wherever the bytes were cut and whatever they are.
THEOREM CallbacksCorrect == Spec => []CallbacksFind
PROOF
<1>1. Init => CInv
  <2> SUFFICES ASSUME Init
               PROVE  CInv
      OBVIOUS
  <2>1. IInv
        BY InitHolds
  <2>2. /\ ctl.phase = "idle" /\ parser = http_parser_init /\ conn = server_parse_status_new
        BY DEF Init, ParserInit
  <2>3. MarkSet /\ \A k : ~Pending(k)
        BY <2>2 DEF MarkSet, Pending
  <2>4. IsStatus(conn) /\ conn.header = NULL /\ conn.request_complete = FALSE
        BY <2>2 DEF server_parse_status_new, IsStatus, StatusFields, HasFields
  <2>5. parser.state \notin Open /\ parser.state \notin InHeader /\ parser.state \notin AfterUrl
        BY <2>2 DEF http_parser_init, Open, InHeader, AfterUrl, HeadStates, PastHead, ChunkStates
  <2>6. ConnOK
        BY <2>3, <2>4, <2>5 DEF ConnOK
  <2>7. QED BY <2>1, <2>3, <2>6 DEF CInv
<1>2. CInv /\ [Next]_vars => CInv'
      BY NextOrder
<1>3. CInv => CallbacksFind
  <2> SUFFICES ASSUME CInv, settings = "reader"
               PROVE  /\ Pending("url") \/ Pending("headers_complete") \/ Pending("body") =>
                             IsRequest(conn.current_request)
                      /\ Pending("header_field") => Lined(conn.current_request)
                      /\ Pending("header_value") => IsHeader(conn.header)
                      /\ conn.request_complete => Lined(conn.current_request)
      BY DEF CallbacksFind
  <2>1. ConnOK /\ IInv
        BY DEF CInv
  <2>2. \A k : Pending(k) => ctl.phase = "callback" /\ ctl.kind = k /\ parser.http_errno = "OK"
        BY <2>1 DEF Pending, IInv, GoodOK
  <2>3. Pending("url") => parser.state \in Open
        BY <2>1, <2>2 DEF IInv, Tallied, HeaderKinds, Open
  <2>4. Pending("url") \/ Pending("headers_complete") \/ Pending("body") =>
            parser.state \in Open /\ ~Pending("message_begin")
        BY <2>1, <2>2, <2>3 DEF ConnOK
  <2>5. QED BY <2>1, <2>2, <2>4 DEF ConnOK
<1>4. QED BY <1>1, <1>2, <1>3, PTL DEF Spec
=============================================================================

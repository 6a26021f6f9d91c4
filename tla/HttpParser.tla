------------------------------ MODULE HttpParser ------------------------------
(***************************************************************************)
(* http_parser_execute of src/lib/http_parser.c for requests, in the strict *)
(* build the project uses.  One step is one turn of the switch over        *)
(* parser->state for the byte at p; a callback is a step of its own, so    *)
(* that the module that supplies the callbacks says what they do.  The     *)
(* client's bytes are a string that reaches the parser in buffers cut      *)
(* anywhere.                                                               *)
(*                                                                         *)
(* Left out: the states of responses, pausing, a call with length zero     *)
(* (the server makes none) and F_SKIPBODY (no callback asks for it).       *)
(***************************************************************************)
EXTENDS HttpUrl, FiniteSets, SequencesExt

CONSTANTS
    Inputs,                 \* what a client may send: records [text, messages]
    HTTP_MAX_HEADER_SIZE,   \* bytes of one header section
    ULLONG_MAX              \* largest content length; also "none given"

ASSUME SizesAssumption == HTTP_MAX_HEADER_SIZE \in Nat /\ ULLONG_MAX \in Nat /\ ULLONG_MAX > 16

\* What is so of every string: a piece of it is as long as its ends say.
ASSUME TextAssumption ==
    \A i \in Inputs :
        /\ Len(i.text) \in Nat
        /\ \A m \in 1..(Len(i.text) + 1) : \A n \in (m - 1)..Len(i.text) :
               Len(SubSeq(i.text, m, n)) = n - m + 1

\* The digits have the values of the tables.
ASSUME DigitsAssumption ==
    /\ NUM \subseteq HEX
    /\ \A c \in HEX : Unhex(c) \in 0..15
    /\ \A c \in NUM : Unhex(c) \in 0..9

VARIABLES
    input,   \* the client's bytes and the messages they were made from
    buf,     \* the buffer of this call, the byte p, and whether p is executed again
    parser,  \* struct http_parser
    mark,    \* the four marks; 0 is NULL
    ctl,     \* where the call is: idle, exec, callback, returned or abort
    got,     \* ghost: the callbacks made, pieces of one string joined
    section  \* ghost: bytes of the names, values and URLs handed over in this header section

DataKinds == {"header_field", "header_value", "url", "body"}
NoMarks == [k \in DataKinds |-> 0]

\* HTTP_METHOD_MAP; a method is its own string
Methods == {"DELETE", "GET", "HEAD", "POST", "PUT", "CONNECT", "OPTIONS", "TRACE", "COPY",
            "LOCK", "MKCOL", "MOVE", "PROPFIND", "PROPPATCH", "SEARCH", "UNLOCK", "REPORT",
            "MKACTIVITY", "CHECKOUT", "MERGE", "M-SEARCH", "NOTIFY", "SUBSCRIBE",
            "UNSUBSCRIBE", "PATCH", "PURGE", "MKCALENDAR"}

http_parser_init ==
    [state |-> "s_start_req", flags |-> {}, header_state |-> "h_general", index |-> 0,
     nread |-> 0, content_length |-> 0, http_major |-> 0, http_minor |-> 0,
     method |-> "DELETE", http_errno |-> "OK", upgrade |-> FALSE]

ParserInit ==
    /\ input \in Inputs
    /\ buf = [from |-> 1, to |-> 0, p |-> 1, again |-> FALSE]
    /\ parser = http_parser_init
    /\ mark = NoMarks
    /\ ctl = [phase |-> "idle"]
    /\ got = <<>>
    /\ section = 0

-----------------------------------------------------------------------------
(***************************************************************************)
(* The call, its loop and its macros.                                      *)
(***************************************************************************)
UrlStates == {"s_req_schema", "s_req_schema_slash", "s_req_schema_slash_slash",
              "s_req_server_start", "s_req_server", "s_req_server_with_at", "s_req_path",
              "s_req_query_string_start", "s_req_query_string", "s_req_fragment_start",
              "s_req_fragment"}
BodyStates == {"s_chunk_data", "s_chunk_data_almost_done", "s_chunk_data_done",
               "s_body_identity", "s_message_done"}

Returned(n) == [phase |-> "returned", parsed |-> n]

\* A call of http_parser_execute with the next n bytes; the mark of an unfinished string is
\* set again at the start of the buffer.
Execute(n) ==
    /\ ctl.phase = "idle"
    /\ n > 0
    /\ buf.to + n <= Len(input.text)
    /\ LET first == buf.to + 1
       IN  /\ buf' = [from |-> first, to |-> buf.to + n, p |-> first, again |-> FALSE]
           /\ ctl' = IF parser.http_errno # "OK" THEN Returned(0) ELSE [phase |-> "exec"]
           /\ mark' = [k \in DataKinds |->
                         IF parser.http_errno = "OK"
                            /\ \/ k = "header_field" /\ parser.state = "s_header_field"
                               \/ k = "header_value" /\ parser.state = "s_header_value"
                               \/ k = "url" /\ parser.state \in UrlStates
                         THEN first ELSE 0]
    /\ UNCHANGED <<input, parser, got, section>>

ch == CharAt(input.text, buf.p)

\* The parser after the head of the loop has counted the byte (PARSING_HEADER).
P == IF buf.again \/ parser.state \in BodyStates THEN parser
     ELSE [parser EXCEPT !.nread = @ + 1]

\* Mutant: the header section may be of any size.
InUnbounded(states) == /\ ctl.phase = "exec"
                       /\ buf.p <= buf.to
                       /\ P.state \in states

\* The switch is at one of the states.
In(states) == /\ ctl.phase = "exec"
              /\ buf.p <= buf.to
              /\ P.state \in states
              /\ P.nread <= HTTP_MAX_HEADER_SIZE

\* Ends of a turn: break, goto reexecute_byte, goto error.
Break(q) == /\ parser' = q
            /\ buf' = [buf EXCEPT !.p = @ + 1, !.again = FALSE]
            /\ UNCHANGED <<input, ctl, got, section>>

Reexecute(q) == /\ parser' = q
                /\ buf' = [buf EXCEPT !.again = TRUE]
                /\ UNCHANGED <<input, ctl, got, section>>

Error(q, e) == /\ parser' = [q EXCEPT !.http_errno = e]
               /\ ctl' = Returned(buf.p - buf.from)
               /\ UNCHANGED <<input, buf, mark, got, section>>

MARK(k) == mark' = [mark EXCEPT ![k] = IF @ = 0 THEN buf.p ELSE @]

\* A callback about to run: `er' is what execute returns if it fails, `end' whether execute
\* returns in any case.
Callback(k, data, er, end) ==
    ctl' = [phase |-> "callback", kind |-> k, data |-> data, er |-> er, end |-> end]

CALLBACK_NOTIFY(k, q, end) ==
    /\ parser' = q
    /\ buf' = [buf EXCEPT !.p = @ + 1, !.again = FALSE]
    /\ Callback(k, "", buf.p - buf.from + 1, end)
    /\ UNCHANGED <<input, mark, got, section>>

\* CALLBACK_DATA for the bytes from the mark up to before `upto'; no mark, no callback.
CALLBACK_DATA(k, q, marks, upto, next) ==
    /\ parser' = q
    /\ buf' = next
    /\ mark' = [marks EXCEPT ![k] = 0]
    /\ IF marks[k] = 0 THEN UNCHANGED ctl
       ELSE Callback(k, SubSeq(input.text, marks[k], upto - 1), next.p - buf.from, FALSE)
    /\ UNCHANGED <<input, got, section>>

Advanced == [buf EXCEPT !.p = @ + 1, !.again = FALSE]
SameByte == [buf EXCEPT !.again = TRUE]

\* The callback has run and returned `result'.
CallbackReturns(result) ==
    /\ ctl.phase = "callback"
    /\ parser' = IF result = 0 THEN parser
                 ELSE [parser EXCEPT !.http_errno = "CB_" \o ctl.kind]
    /\ ctl' = IF result # 0 \/ ctl.end THEN Returned(ctl.er) ELSE [phase |-> "exec"]
    /\ got' = IF got # <<>> /\ Last(got)[1] = ctl.kind /\ ctl.kind \in DataKinds
              THEN [got EXCEPT ![Len(got)] = <<ctl.kind, @[2] \o ctl.data>>]
              ELSE Append(got, <<ctl.kind, ctl.data>>)
    /\ section' = IF ctl.kind \in DataKinds \ {"body"} THEN section + Len(ctl.data) ELSE 0
    /\ UNCHANGED <<input, buf, mark>>

\* assert() has failed in function `where': the process ends.
AbortIn(where) == /\ ctl' = [phase |-> "abort", where |-> where]
                  /\ UNCHANGED <<input, buf, parser, mark, got, section>>
Abort == AbortIn("http_parser_execute")

HeaderOverflow ==
    /\ ctl.phase = "exec"
    /\ buf.p <= buf.to
    /\ P.nread > HTTP_MAX_HEADER_SIZE
    /\ Error(P, "HEADER_OVERFLOW")

\* The end of the buffer: strings that are not finished are handed over as far as they go.
EndOfBuffer ==
    /\ ctl.phase = "exec"
    /\ buf.p > buf.to
    /\ LET left == {k \in DataKinds : mark[k] # 0}
       IN  CASE left = {} -> /\ ctl' = Returned(buf.to - buf.from + 1)
                             /\ UNCHANGED <<input, buf, parser, mark, got, section>>
             [] Cardinality(left) = 1 ->
                  \E k \in left : CALLBACK_DATA(k, parser, mark, buf.p, buf)
             [] OTHER -> Abort

http_should_keep_alive(q) ==
    IF q.http_major > 0 /\ q.http_minor > 0
    THEN "F_CONNECTION_CLOSE" \notin q.flags
    ELSE "F_CONNECTION_KEEP_ALIVE" \in q.flags

\* Mutant: NEW_MESSAGE of the build that is not strict.
NewMessageAlways(q) == "s_start_req"

NEW_MESSAGE(q) == IF http_should_keep_alive(q) THEN "s_start_req" ELSE "s_dead"

MessageComplete(q, end) ==
    CALLBACK_NOTIFY("message_complete", [q EXCEPT !.state = NEW_MESSAGE(q)], end)

-----------------------------------------------------------------------------
(***************************************************************************)
(* The request line.                                                       *)
(***************************************************************************)
Dead ==
    /\ In({"s_dead"})
    /\ \/ ch \in {CR, LF} /\ Break(P) /\ UNCHANGED mark
       \/ ch \notin {CR, LF} /\ Error(P, "CLOSED_CONNECTION")

FirstGuess == [C |-> "CONNECT", D |-> "DELETE", G |-> "GET", H |-> "HEAD", L |-> "LOCK",
               M |-> "MKCOL", N |-> "NOTIFY", O |-> "OPTIONS", P |-> "POST", R |-> "REPORT",
               S |-> "SUBSCRIBE", T |-> "TRACE", U |-> "UNLOCK"]

StartReq ==
    /\ In({"s_start_req"})
    /\ LET q == [P EXCEPT !.flags = {}, !.content_length = ULLONG_MAX]
       IN  \/ ch \in {CR, LF} /\ Break(P) /\ UNCHANGED mark
           \/ ch \notin DOMAIN FirstGuess \cup {CR, LF} /\ Error(q, "INVALID_METHOD")
           \/ /\ ch \in DOMAIN FirstGuess
              /\ CALLBACK_NOTIFY("message_begin",
                    [q EXCEPT !.method = FirstGuess[ch], !.index = 1, !.state = "s_req_method"],
                    FALSE)

\* Mutant: COPY is told from CONNECT one letter too early.
OtherMethodEarly == {<<"CONNECT", 1, "H", "CHECKOUT">>, <<"CONNECT", 1, "P", "COPY">>}

\* The guess turns out to be wrong: <<guess, index, byte, the other method>>.
OtherMethod == {<<"CONNECT", 1, "H", "CHECKOUT">>, <<"CONNECT", 2, "P", "COPY">>,
                <<"MKCOL", 1, "O", "MOVE">>, <<"MKCOL", 1, "E", "MERGE">>,
                <<"MKCOL", 1, "-", "M-SEARCH">>, <<"MKCOL", 2, "A", "MKACTIVITY">>,
                <<"MKCOL", 3, "A", "MKCALENDAR">>, <<"SUBSCRIBE", 1, "E", "SEARCH">>,
                <<"POST", 1, "R", "PROPFIND">>, <<"POST", 1, "U", "PUT">>,
                <<"POST", 1, "A", "PATCH">>, <<"PUT", 2, "R", "PURGE">>,
                <<"UNLOCK", 2, "S", "UNSUBSCRIBE">>, <<"PROPFIND", 4, "P", "PROPPATCH">>}

ReqMethod ==
    /\ In({"s_req_method"})
    /\ LET q == [P EXCEPT !.index = @ + 1]
           others == {t \in OtherMethod : t[1] = P.method /\ t[2] = P.index /\ t[3] = ch}
           expected == CharAt(P.method, P.index + 1)
       IN  CASE ch = " " /\ expected = "" ->
                    Break([q EXCEPT !.state = "s_req_spaces_before_url"]) /\ UNCHANGED mark
             [] ch = expected -> Break(q) /\ UNCHANGED mark
             [] ch # expected /\ others # {} ->
                    \E t \in others : Break([q EXCEPT !.method = t[4]]) /\ UNCHANGED mark
             [] OTHER -> Error(P, "INVALID_METHOD")

\* s_req_spaces_before_url and the states of the URL.
EndStates == {"s_req_server", "s_req_server_with_at", "s_req_path", "s_req_query_string_start",
              "s_req_query_string", "s_req_fragment_start", "s_req_fragment"}

ReqUrl ==
    /\ In(UrlStates \cup {"s_req_spaces_before_url"})
    /\ LET begin == P.state = "s_req_spaces_before_url"
           from == IF begin /\ P.method = "CONNECT" THEN "s_req_server_start" ELSE P.state
           q == [P EXCEPT !.state = parse_url_char(from, ch)]
           eol == [P EXCEPT !.http_major = 0, !.http_minor = 9,
                     !.state = IF ch = CR THEN "s_req_line_almost_done"
                               ELSE "s_header_field_start"]
       IN  CASE begin /\ ch = " " -> Break(P) /\ UNCHANGED mark
             [] P.state \in EndStates /\ ch = " " ->
                    CALLBACK_DATA("url", [P EXCEPT !.state = "s_req_http_start"], mark, buf.p, Advanced)
             [] P.state \in EndStates /\ ch \in {CR, LF} ->
                    CALLBACK_DATA("url", eol, mark, buf.p, Advanced)
             [] ~(begin /\ ch = " ") /\ ~(P.state \in EndStates /\ ch \in {" ", CR, LF}) ->
                    IF q.state = "s_dead" THEN Error(q, "INVALID_URL")
                    ELSE Break(q) /\ IF begin THEN MARK("url") ELSE UNCHANGED mark

\* The letters of "HTTP/" after the H: <<byte, next state>>.
HttpWord == [s_req_http_H    |-> <<"T", "s_req_http_HT">>,
             s_req_http_HT   |-> <<"T", "s_req_http_HTT">>,
             s_req_http_HTT  |-> <<"P", "s_req_http_HTTP">>,
             s_req_http_HTTP |-> <<"/", "s_req_first_http_major">>]

HttpWordStep ==
    /\ In(DOMAIN HttpWord \cup {"s_req_http_start"})
    /\ CASE P.state = "s_req_http_start" /\ ch = "H" ->
                Break([P EXCEPT !.state = "s_req_http_H"]) /\ UNCHANGED mark
         [] P.state = "s_req_http_start" /\ ch = " " -> Break(P) /\ UNCHANGED mark
         [] P.state = "s_req_http_start" /\ ch \notin {"H", " "} -> Error(P, "INVALID_CONSTANT")
         [] OTHER -> IF ch # HttpWord[P.state][1] THEN Error(P, "STRICT")
                     ELSE Break([P EXCEPT !.state = HttpWord[P.state][2]]) /\ UNCHANGED mark

ReqMajor ==
    /\ In({"s_req_first_http_major", "s_req_http_major"})
    /\ LET first == P.state = "s_req_first_http_major"
           value == IF first THEN Unhex(ch) ELSE P.http_major * 10 + Unhex(ch)
       IN  CASE ~first /\ ch = "." ->
                    Break([P EXCEPT !.state = "s_req_first_http_minor"]) /\ UNCHANGED mark
             [] ch \notin NUM /\ (first \/ ch # ".") -> Error(P, "INVALID_VERSION")
             [] ch \in NUM ->
                    IF (first /\ value = 0) \/ value > 999
                    THEN Error(IF first THEN P ELSE [P EXCEPT !.http_major = value], "INVALID_VERSION")
                    ELSE Break([P EXCEPT !.http_major = value, !.state = "s_req_http_major"])
                         /\ UNCHANGED mark

ReqMinor ==
    /\ In({"s_req_first_http_minor", "s_req_http_minor"})
    /\ LET first == P.state = "s_req_first_http_minor"
           value == IF first THEN Unhex(ch) ELSE P.http_minor * 10 + Unhex(ch)
       IN  CASE ~first /\ ch \in {CR, LF} ->
                    Break([P EXCEPT !.state = IF ch = CR THEN "s_req_line_almost_done"
                                              ELSE "s_header_field_start"]) /\ UNCHANGED mark
             [] ch \notin NUM /\ (first \/ ch \notin {CR, LF}) -> Error(P, "INVALID_VERSION")
             [] ch \in NUM ->
                    IF value > 999 THEN Error([P EXCEPT !.http_minor = value], "INVALID_VERSION")
                    ELSE Break([P EXCEPT !.http_minor = value, !.state = "s_req_http_minor"])
                         /\ UNCHANGED mark

\* s_req_line_almost_done, s_header_almost_done and s_header_value_discard_ws_almost_done
AlmostDone == [s_req_line_almost_done |-> <<"LF_EXPECTED", "s_header_field_start">>,
               s_header_almost_done |-> <<"STRICT", "s_header_value_lws">>,
               s_header_value_discard_ws_almost_done |-> <<"STRICT", "s_header_value_discard_lws">>]

LineAlmostDone ==
    /\ In(DOMAIN AlmostDone)
    /\ IF ch # LF THEN Error(P, AlmostDone[P.state][1])
       ELSE Break([P EXCEPT !.state = AlmostDone[P.state][2]]) /\ UNCHANGED mark

-----------------------------------------------------------------------------
(***************************************************************************)
(* Headers.  header_state follows the names and values the parser itself   *)
(* needs, one letter at a time.                                            *)
(***************************************************************************)
FieldGuess == [c |-> "h_C", p |-> "h_matching_proxy_connection",
               t |-> "h_matching_transfer_encoding", u |-> "h_matching_upgrade"]

\* <<the word, the state once it is complete>>
FieldWord == [h_matching_connection        |-> <<"connection", "h_connection">>,
              h_matching_proxy_connection  |-> <<"proxy-connection", "h_connection">>,
              h_matching_content_length    |-> <<"content-length", "h_content_length">>,
              h_matching_transfer_encoding |-> <<"transfer-encoding", "h_transfer_encoding">>,
              h_matching_upgrade           |-> <<"upgrade", "h_upgrade">>]

ValueWord ==
    [h_matching_transfer_encoding_chunked |-> <<"chunked", "h_transfer_encoding_chunked">>,
     h_matching_connection_keep_alive     |-> <<"keep-alive", "h_connection_keep_alive">>,
     h_matching_connection_close          |-> <<"close", "h_connection_close">>]

\* One more letter c of a word; `index' counts from 0.
MatchWord(q, word, c) ==
    LET i == q.index + 1
    IN  [q EXCEPT !.index = i,
                  !.header_state = IF i > Len(word[1]) \/ c # CharAt(word[1], i + 1) THEN "h_general"
                                   ELSE IF i = Len(word[1]) - 1 THEN word[2]
                                   ELSE @]

HeaderFieldStart ==
    /\ In({"s_header_field_start"})
    /\ CASE ch = CR -> Break([P EXCEPT !.state = "s_headers_almost_done"]) /\ UNCHANGED mark
         [] ch = LF -> Reexecute([P EXCEPT !.state = "s_headers_almost_done"]) /\ UNCHANGED mark
         [] ch \in TOKEN ->
              /\ Break([P EXCEPT !.index = 0, !.state = "s_header_field",
                          !.header_state = IF LOWER(ch) \in DOMAIN FieldGuess
                                           THEN FieldGuess[LOWER(ch)] ELSE "h_general"])
              /\ MARK("header_field")
         [] OTHER -> Error(P, "INVALID_HEADER_TOKEN")

\* The states of a name; for any other the parser has an assertion that fails.
FieldStates == DOMAIN FieldWord \cup {"h_general", "h_C", "h_CO", "h_CON", "h_connection",
                   "h_content_length", "h_transfer_encoding", "h_upgrade"}

\* "con", after which the names part
Prefix == [h_C   |-> <<"o", "h_CO">>, h_CO |-> <<"n", "h_CON">>]

MatchField(c) ==
    LET h == P.header_state
        q == [P EXCEPT !.index = @ + 1]
    IN  CASE h \in DOMAIN Prefix ->
                 [q EXCEPT !.header_state = IF c = Prefix[h][1] THEN Prefix[h][2] ELSE "h_general"]
          [] h = "h_CON" ->
                 [q EXCEPT !.header_state = CASE c = "n" -> "h_matching_connection"
                                              [] c = "t" -> "h_matching_content_length"
                                              [] OTHER -> "h_general"]
          [] h \in DOMAIN FieldWord -> MatchWord(P, FieldWord[h], c)
          [] OTHER -> [P EXCEPT !.header_state = "h_general"]

HeaderField ==
    /\ In({"s_header_field"})
    /\ CASE ch \in TOKEN /\ P.header_state \in FieldStates ->
                Break(MatchField(LOWER(ch))) /\ UNCHANGED mark
         [] ch \in TOKEN /\ P.header_state \notin FieldStates -> Abort
         [] ch = ":" -> CALLBACK_DATA("header_field",
                            [P EXCEPT !.state = "s_header_value_discard_ws"], mark, buf.p, Advanced)
         [] ch = CR -> CALLBACK_DATA("header_field",
                            [P EXCEPT !.state = "s_header_almost_done"], mark, buf.p, Advanced)
         [] ch = LF -> CALLBACK_DATA("header_field",
                            [P EXCEPT !.state = "s_header_field_start"], mark, buf.p, Advanced)
         [] OTHER -> Error(P, "INVALID_HEADER_TOKEN")

\* s_header_value_start: the first byte of a value (of each line of a folded one).
ValueStart ==
    LET q == [P EXCEPT !.state = "s_header_value", !.index = 0]
        To(h) == Break([q EXCEPT !.header_state = h]) /\ MARK("header_value")
        c == LOWER(ch)
    IN  CASE P.header_state = "h_upgrade" ->
                 /\ Break([q EXCEPT !.flags = @ \cup {"F_UPGRADE"}, !.header_state = "h_general"])
                 /\ MARK("header_value")
          [] P.header_state = "h_transfer_encoding" /\ c = "c" ->
                 To("h_matching_transfer_encoding_chunked")
          [] P.header_state = "h_content_length" ->
                 IF ch \notin NUM THEN Error(q, "INVALID_CONTENT_LENGTH")
                 ELSE Break([q EXCEPT !.content_length = Unhex(ch)]) /\ MARK("header_value")
          [] P.header_state = "h_connection" /\ c = "k" -> To("h_matching_connection_keep_alive")
          [] P.header_state = "h_connection" /\ c = "c" -> To("h_matching_connection_close")
          [] OTHER -> To("h_general")

HeaderValueStart ==
    \/ In({"s_header_value_start"}) /\ ValueStart
    \/ /\ In({"s_header_value_discard_ws"})
       /\ CASE ch \in {" ", "\t"} -> Break(P) /\ UNCHANGED mark
            [] ch = CR -> /\ Break([P EXCEPT !.state = "s_header_value_discard_ws_almost_done"])
                          /\ UNCHANGED mark
            [] ch = LF -> /\ Break([P EXCEPT !.state = "s_header_value_discard_lws"])
                          /\ UNCHANGED mark
            [] OTHER -> ValueStart

\* One more digit of a number; t wraps around as uint64_t does, the test is on the old value.
Digit(old, base, d) == (old * base + d) % (ULLONG_MAX + 1)
\* Mutant: no test for overflow.
TooLongNever(old, base) == FALSE

TooLong(old, base) == (ULLONG_MAX - base) \div base < old

MatchValue(c) ==
    CASE P.header_state \in DOMAIN ValueWord -> MatchWord(P, ValueWord[P.header_state], c)
      [] P.header_state \in {ValueWord[h][2] : h \in DOMAIN ValueWord} /\ ch = " " -> P
      [] OTHER -> [P EXCEPT !.header_state = "h_general"]

HeaderValue ==
    /\ In({"s_header_value"})
    /\ LET done == [P EXCEPT !.state = "s_header_almost_done"]
       IN  CASE ch = CR -> CALLBACK_DATA("header_value", done, mark, buf.p, Advanced)
             [] ch = LF -> CALLBACK_DATA("header_value", done, mark, buf.p, SameByte)
             [] ch \notin {CR, LF} /\ P.header_state = "h_content_length" ->
                    IF ch = " " THEN Break(P) /\ UNCHANGED mark
                    ELSE IF ch \notin NUM \/ TooLong(P.content_length, 10)
                    THEN Error(P, "INVALID_CONTENT_LENGTH")
                    ELSE /\ Break([P EXCEPT !.content_length = Digit(@, 10, Unhex(ch))])
                         /\ UNCHANGED mark
             [] ch \notin {CR, LF} /\ P.header_state \in {"h_connection", "h_transfer_encoding"} ->
                    Abort
             [] OTHER -> Break(MatchValue(LOWER(ch))) /\ UNCHANGED mark

FlagOf == [h_connection_keep_alive     |-> {"F_CONNECTION_KEEP_ALIVE"},
           h_connection_close          |-> {"F_CONNECTION_CLOSE"},
           h_transfer_encoding_chunked |-> {"F_CHUNKED"}]

\* Mutant: the state is left as it is when the line goes on.
HeaderValueLwsAgain ==
    /\ In({"s_header_value_lws"})
    /\ UNCHANGED mark
    /\ Reexecute(IF ch \in {" ", "\t"} THEN P
                 ELSE [P EXCEPT !.state = "s_header_field_start",
                         !.flags = @ \cup IF P.header_state \in DOMAIN FlagOf
                                          THEN FlagOf[P.header_state] ELSE {}])

HeaderValueLws ==
    /\ In({"s_header_value_lws"})
    /\ UNCHANGED mark
    /\ Reexecute(IF ch \in {" ", "\t"} THEN [P EXCEPT !.state = "s_header_value_start"]
                 ELSE [P EXCEPT !.state = "s_header_field_start",
                         !.flags = @ \cup IF P.header_state \in DOMAIN FlagOf
                                          THEN FlagOf[P.header_state] ELSE {}])

\* A value without a byte: an empty piece is handed over.
HeaderValueEmpty ==
    /\ In({"s_header_value_discard_lws"})
    /\ IF ch \in {" ", "\t"}
       THEN Break([P EXCEPT !.state = "s_header_value_discard_ws"]) /\ UNCHANGED mark
       ELSE CALLBACK_DATA("header_value", [P EXCEPT !.state = "s_header_field_start"],
                [mark EXCEPT !["header_value"] = IF @ = 0 THEN buf.p ELSE @], buf.p, SameByte)

HeadersAlmostDone ==
    /\ In({"s_headers_almost_done"})
    /\ CASE ch # LF -> Error(P, "STRICT")
         [] ch = LF /\ "F_TRAILING" \in P.flags -> MessageComplete(P, FALSE)
         [] ch = LF /\ "F_TRAILING" \notin P.flags ->
              /\ parser' = [P EXCEPT !.state = "s_headers_done",
                               !.upgrade = "F_UPGRADE" \in P.flags \/ P.method = "CONNECT"]
              /\ buf' = SameByte
              /\ Callback("headers_complete", "", buf.p - buf.from, FALSE)
              /\ UNCHANGED <<input, mark, got, section>>

\* What the headers say of the body.
HeadersDone ==
    /\ In({"s_headers_done"})
    /\ LET q == [P EXCEPT !.nread = 0]
       IN  CASE ch # LF -> Error(P, "STRICT")
             [] ch = LF /\ P.upgrade -> MessageComplete(q, TRUE)
             [] ch = LF /\ ~P.upgrade /\ "F_CHUNKED" \in P.flags ->
                    Break([q EXCEPT !.state = "s_chunk_size_start"]) /\ UNCHANGED mark
             [] OTHER ->
                    IF P.content_length \in {0, ULLONG_MAX} THEN MessageComplete(q, FALSE)
                    ELSE Break([q EXCEPT !.state = "s_body_identity"]) /\ UNCHANGED mark

-----------------------------------------------------------------------------
(***************************************************************************)
(* Bodies.                                                                 *)
(***************************************************************************)
Smaller(a, b) == IF a < b THEN a ELSE b
ToRead == Smaller(P.content_length, buf.to - buf.p + 1)
BodyMarked == [mark EXCEPT !["body"] = IF @ = 0 THEN buf.p ELSE @]
Consumed == [buf EXCEPT !.p = @ + ToRead - 1]

\* The assertions of the body states; a byte for which they fail ends the process.
Asserted ==
    /\ P.state \in {"s_body_identity", "s_chunk_data"} => P.content_length \notin {0, ULLONG_MAX}
    /\ P.state \notin {"s_body_identity", "s_message_done"} => "F_CHUNKED" \in P.flags
    /\ P.state = "s_chunk_size_start" => P.nread = 1
    /\ P.state = "s_chunk_data_almost_done" => P.content_length = 0

BodyIdentity ==
    /\ In({"s_body_identity"})
    /\ LET q == [P EXCEPT !.content_length = @ - ToRead]
       IN  IF ~Asserted THEN Abort
           ELSE IF q.content_length = 0
           THEN CALLBACK_DATA("body", [q EXCEPT !.state = "s_message_done"], BodyMarked,
                    Consumed.p + 1, [Consumed EXCEPT !.again = TRUE])
           ELSE /\ parser' = q
                /\ buf' = [Consumed EXCEPT !.p = @ + 1, !.again = FALSE]
                /\ mark' = BodyMarked
                /\ UNCHANGED <<input, ctl, got, section>>

MessageDone == In({"s_message_done"}) /\ MessageComplete(P, FALSE)

ChunkSizeStart ==
    /\ In({"s_chunk_size_start"})
    /\ IF ~Asserted THEN Abort
       ELSE IF ch \notin HEX THEN Error(P, "INVALID_CHUNK_SIZE")
       ELSE /\ Break([P EXCEPT !.content_length = Unhex(ch), !.state = "s_chunk_size"])
            /\ UNCHANGED mark

ChunkSize ==
    /\ In({"s_chunk_size"})
    /\ CASE ~Asserted -> Abort
         [] Asserted /\ ch = CR ->
              Break([P EXCEPT !.state = "s_chunk_size_almost_done"]) /\ UNCHANGED mark
         [] Asserted /\ ch \in {";", " "} ->
              Break([P EXCEPT !.state = "s_chunk_parameters"]) /\ UNCHANGED mark
         [] Asserted /\ ch \in HEX ->
              IF TooLong(P.content_length, 16) THEN Error(P, "INVALID_CONTENT_LENGTH")
              ELSE Break([P EXCEPT !.content_length = Digit(@, 16, Unhex(ch))]) /\ UNCHANGED mark
         [] OTHER -> Error(P, "INVALID_CHUNK_SIZE")

ChunkParameters ==
    /\ In({"s_chunk_parameters"})
    /\ IF ~Asserted THEN Abort
       ELSE /\ Break(IF ch = CR THEN [P EXCEPT !.state = "s_chunk_size_almost_done"] ELSE P)
            /\ UNCHANGED mark

ChunkSizeAlmostDone ==
    /\ In({"s_chunk_size_almost_done"})
    /\ IF ~Asserted THEN Abort
       ELSE IF ch # LF THEN Error(P, "STRICT")
       ELSE /\ Break(IF P.content_length = 0
                     THEN [P EXCEPT !.nread = 0, !.flags = @ \cup {"F_TRAILING"},
                                    !.state = "s_header_field_start"]
                     ELSE [P EXCEPT !.nread = 0, !.state = "s_chunk_data"])
            /\ UNCHANGED mark

ChunkData ==
    /\ In({"s_chunk_data"})
    /\ IF ~Asserted THEN Abort
       ELSE /\ parser' = [P EXCEPT !.content_length = @ - ToRead,
                            !.state = IF P.content_length = ToRead THEN "s_chunk_data_almost_done"
                                      ELSE @]
            /\ buf' = [Consumed EXCEPT !.p = @ + 1, !.again = FALSE]
            /\ mark' = BodyMarked
            /\ UNCHANGED <<input, ctl, got, section>>

ChunkDataAlmostDone ==
    /\ In({"s_chunk_data_almost_done"})
    /\ IF ~Asserted THEN Abort
       ELSE IF ch # CR THEN Error(P, "STRICT")
       ELSE CALLBACK_DATA("body", [P EXCEPT !.state = "s_chunk_data_done"], mark, buf.p, Advanced)

\* Mutant: nread is not reset between two chunks.
ChunkDataDoneCounting ==
    /\ In({"s_chunk_data_done"})
    /\ Break([P EXCEPT !.nread = 1, !.state = "s_chunk_size_start"])
    /\ UNCHANGED mark

ChunkDataDone ==
    /\ In({"s_chunk_data_done"})
    /\ IF ~Asserted THEN Abort
       ELSE IF ch # LF THEN Error(P, "STRICT")
       ELSE /\ Break([P EXCEPT !.nread = 0, !.state = "s_chunk_size_start"])
            /\ UNCHANGED mark

ParserStep ==
    \/ HeaderOverflow \/ EndOfBuffer
    \/ Dead \/ StartReq \/ ReqMethod \/ ReqUrl \/ HttpWordStep \/ ReqMajor \/ ReqMinor
    \/ LineAlmostDone \/ HeaderFieldStart \/ HeaderField \/ HeaderValueStart \/ HeaderValue
    \/ HeaderValueLws \/ HeaderValueEmpty \/ HeadersAlmostDone \/ HeadersDone
    \/ BodyIdentity \/ MessageDone \/ ChunkSizeStart \/ ChunkSize \/ ChunkParameters
    \/ ChunkSizeAlmostDone \/ ChunkData \/ ChunkDataAlmostDone \/ ChunkDataDone
=============================================================================

------------------------------ MODULE HttpReader ------------------------------
(***************************************************************************)
(* The request parser of a connection: the callbacks of http-reader.c, run *)
(* by the parser of HttpParser, and what server_loop_read does with their  *)
(* outcome after each buffer (the connection is locked throughout).        *)
(*                                                                         *)
(* settings says which callbacks are registered: those of http-reader.c,   *)
(* or none at all, which shows what the parser itself promises for bodies  *)
(* and for several messages in one buffer.                                 *)
(***************************************************************************)
EXTENDS HttpParser

CONSTANTS
    NULL,
    ReadSizes   \* bound: the lengths of a read that leaves bytes behind

ASSUME ReadSizesAssumption == ReadSizes \subseteq Nat

VARIABLES
    settings,  \* "reader" or "none"
    conn       \* server_parse_status, the requests queued and the last response

vars == <<input, buf, parser, mark, ctl, got, section, settings, conn>>

\* http_method_fromstring: the methods http.h knows.
http_method_fromstring(m) ==
    IF m \in {"GET", "POST", "HEAD", "PUT", "DELETE", "OPTIONS", "TRACE", "CONNECT"}
    THEN m ELSE "METHOD_INVALID"

\* http_request_new; id and fresh are ghosts: which message it is, and whether it is the first
\* since the parse status was reset
http_request_new(id, fresh) ==
    [req |-> NULL, headers |-> <<>>, body |-> "BODY_NONE", id |-> id, fresh |-> fresh]

http_header_new(name) == [name |-> name, content |-> NULL]

http_header_append_content(h, str) ==
    [h EXCEPT !.content = IF @ = NULL THEN str ELSE @ \o str]

server_parse_status_new ==
    [current_request |-> NULL, request_complete |-> FALSE, hstate |-> "HSTATE_NONE",
     header |-> NULL, begun |-> 0, requests |-> <<>>, response |-> NULL]

\* server_parser_status_reset
StatusReset(c) == [c EXCEPT !.current_request = NULL, !.request_complete = FALSE,
                            !.hstate = "HSTATE_NONE", !.header = NULL]

Init == /\ ParserInit
        /\ settings \in {"reader", "none"}
        /\ conn = server_parse_status_new

-----------------------------------------------------------------------------
Calling(kind) == ctl.phase = "callback" /\ settings = "reader" /\ ctl.kind = kind

\* No callback of this kind is registered.
NoCallback == /\ settings = "none"
              /\ CallbackReturns(0)
              /\ UNCHANGED <<settings, conn>>

parser_cb_on_message_begin ==
    /\ Calling("message_begin")
    /\ conn' = [conn EXCEPT !.begun = @ + 1,
                    !.current_request = http_request_new(conn.begun + 1, conn.current_request = NULL),
                    !.request_complete = FALSE]
    /\ CallbackReturns(0)
    /\ UNCHANGED settings

\* Each piece of the URL makes a new request line.
parser_cb_on_url ==
    /\ Calling("url")
    /\ conn' = [conn EXCEPT !.current_request.req =
                    [method |-> http_method_fromstring(parser.method), uri |-> ctl.data,
                     version |-> "HTTPXX"]]
    /\ CallbackReturns(0)
    /\ UNCHANGED settings

\* http_header_list_add without replacing
AddHeader(c) == [c EXCEPT !.current_request.headers = Append(@, c.header), !.header = NULL]

VersionOf(q) == CASE q.http_major = 1 /\ q.http_minor = 0 -> "HTTP10"
                  [] q.http_major = 1 /\ q.http_minor = 1 -> "HTTP11"
                  [] OTHER -> "unknown"

\* Mutant: a further piece of a name replaces the first.
HeaderReplaced(c) == [c EXCEPT !.header.name = ctl.data]

HeaderContinued(c) == [c EXCEPT !.header.name = @ \o ctl.data]

\* A further piece of a name needs the header it belongs to.  After a name without a value the
\* state is still HSTATE_FIELD, but parser_cb_on_headers_complete has taken the header away: then
\* the next name is appended to a header that is not there, which ends the process.
parser_cb_on_header_field ==
    /\ Calling("header_field")
    /\ LET fresh(c) == [c EXCEPT !.header = http_header_new(ctl.data), !.hstate = "HSTATE_FIELD"]
       IN  \/ /\ conn.hstate = "HSTATE_NONE"
              /\ VersionOf(parser) = "unknown"
              /\ conn' = [conn EXCEPT !.header = http_header_new(ctl.data)]
              /\ CallbackReturns(-1)
           \/ /\ conn.hstate = "HSTATE_NONE"
              /\ VersionOf(parser) # "unknown"
              /\ conn' = [fresh(conn) EXCEPT !.current_request.req.version = VersionOf(parser)]
              /\ CallbackReturns(0)
           \/ /\ conn.hstate = "HSTATE_VALUE"
              /\ conn' = fresh(IF conn.header = NULL THEN conn ELSE AddHeader(conn))
              /\ CallbackReturns(0)
           \/ /\ conn.hstate = "HSTATE_FIELD" /\ conn.header # NULL
              /\ conn' = HeaderContinued(conn)
              /\ CallbackReturns(0)
           \/ /\ conn.hstate = "HSTATE_FIELD" /\ conn.header = NULL
              /\ AbortIn("parser_cb_on_header_field")
              /\ UNCHANGED conn
    /\ UNCHANGED settings

parser_cb_on_header_value ==
    /\ Calling("header_value")
    /\ conn' = [conn EXCEPT !.header = http_header_append_content(@, ctl.data),
                            !.hstate = "HSTATE_VALUE"]
    /\ CallbackReturns(0)
    /\ UNCHANGED settings

parser_cb_on_headers_complete ==
    /\ Calling("headers_complete")
    /\ conn' = IF conn.header = NULL THEN conn ELSE AddHeader(conn)
    /\ CallbackReturns(0)
    /\ UNCHANGED settings

\* http_request_append_body asserts a BODY_STRING, which no request has.
parser_cb_on_body ==
    /\ Calling("body")
    /\ conn.current_request.body # "BODY_STRING"
    /\ AbortIn("http_request_append_body")
    /\ UNCHANGED <<settings, conn>>

parser_cb_on_message_complete ==
    /\ Calling("message_complete")
    /\ conn' = [conn EXCEPT !.request_complete = TRUE]
    /\ CallbackReturns(0)
    /\ UNCHANGED settings

(***************************************************************************)
(* server_loop_read after http_parser_execute has returned.                *)
(***************************************************************************)
Respond(code) == conn' = [conn EXCEPT !.response = code]

AfterExecute ==
    /\ ctl.phase = "returned"
    /\ settings = "reader"
    /\ LET current == conn.current_request
           bad == ctl.parsed # buf.to - buf.from + 1 \/ parser.http_errno # "OK"
       IN  CASE parser.upgrade -> Respond(501) /\ UNCHANGED parser
             [] ~parser.upgrade /\ bad -> Respond(400) /\ UNCHANGED parser
             [] ~parser.upgrade /\ ~bad /\ conn.request_complete ->
                    /\ conn' = StatusReset([conn EXCEPT !.requests = Append(@, current)])
                    /\ parser' = http_parser_init
             [] OTHER ->
                    /\ IF current # NULL /\ current.req # NULL /\ current.req.version = "HTTP11"
                       THEN Respond(100) ELSE UNCHANGED conn
                    /\ UNCHANGED parser
    /\ ctl' = [phase |-> "idle"]
    /\ UNCHANGED <<input, buf, mark, got, section, settings>>

\* Without callbacks the bytes go on to the parser as long as it takes them.
NextBuffer ==
    /\ ctl.phase = "returned"
    /\ settings = "none"
    /\ parser.http_errno = "OK"
    /\ ~parser.upgrade
    /\ ctl' = [phase |-> "idle"]
    /\ UNCHANGED <<input, buf, parser, mark, got, section, settings, conn>>

Read(n) == Execute(n) /\ UNCHANGED <<settings, conn>>

\* The buffers a read may fill: ReadSizes bytes, or all that has come.
BufferSizes == ReadSizes \cup {Len(input.text) - buf.to}

Next == \/ \E n \in BufferSizes : Read(n)
        \/ ParserStep /\ UNCHANGED <<settings, conn>>
        \/ NoCallback \/ NextBuffer \/ AfterExecute
        \/ parser_cb_on_message_begin \/ parser_cb_on_url \/ parser_cb_on_header_field
        \/ parser_cb_on_header_value \/ parser_cb_on_headers_complete \/ parser_cb_on_body
        \/ parser_cb_on_message_complete

\* A call of http_parser_execute runs to its end.
Spec == Init /\ [][Next]_vars /\ WF_vars(Next)

-----------------------------------------------------------------------------
(***************************************************************************)
(* What the client meant.  A message is a record of its method, url,       *)
(* version, headers (pairs of name and value), data (the body once it is   *)
(* decoded), trailers, whether the connection is kept, and whether it asks *)
(* for another protocol.  An input without messages is not HTTP.           *)
(***************************************************************************)
HeaderEvents(hs) == FlattenSeq([i \in 1..Len(hs) |-> << <<"header_field", hs[i][1]>>,
                                                        <<"header_value", hs[i][2]>> >>])

Events(m) == << <<"message_begin", "">>, <<"url", m.url>> >> \o HeaderEvents(m.headers)
             \o << <<"headers_complete", "">> >>
             \o (IF m.data = "" THEN <<>> ELSE << <<"body", m.data>> >>)
             \o HeaderEvents(m.trailers) \o << <<"message_complete", "">> >>

AllEvents == FlattenSeq([i \in 1..Len(input.messages) |-> Events(input.messages[i])])

Begun == {i \in 1..Len(got) : got[i][1] = "message_begin"}

\* However the bytes are cut into buffers, the callbacks hand over the strings of the messages
\* sent, in their order, each whole once its pieces are joined, with the body decoded and as
\* long as announced; nothing is made up and, unless an error is reported or the protocol
\* changes, nothing is left out (marks, leftover callbacks, content length and chunks of
\* http_parser_execute).  The assertion over bodies ends the process only for one that was sent.
ParsedAsSent ==
    /\ input.messages # <<>> =>
        LET n == Len(got)
        IN  /\ n <= Len(AllEvents)
            /\ \A i \in 1..(n - 1) : got[i] = AllEvents[i]
            /\ n > 0 => /\ got[n][1] = AllEvents[n][1]
                        /\ Len(got[n][2]) <= Len(AllEvents[n][2])
                        /\ SubSeq(AllEvents[n][2], 1, Len(got[n][2])) = got[n][2]
            /\ (/\ ctl.phase = "idle" /\ buf.to = Len(input.text) /\ parser.http_errno = "OK"
                /\ \A i \in 1..Len(input.messages) : ~input.messages[i].upgrade)
               => got = AllEvents
    /\ ctl.phase = "abort" /\ ctl.where = "http_request_append_body" =>
            \E i \in 1..Len(input.messages) : input.messages[i].data # ""

\* The method is the word the client sent, although the parser starts from a guess by the
\* first letter and corrects it on the way.
MethodExact ==
    parser.state \in UrlStates /\ Cardinality(Begun) = 1
        => Len(parser.method) < Len(input.text) /\ SubSeq(input.text, 1, Len(parser.method) + 1) = parser.method \o " "

\* A message after which the connection is not kept is the last one the parser begins
\* (http_should_keep_alive with NEW_MESSAGE of the strict build).
ClosedIsLast ==
    settings = "none" =>
        \A i \in 1..(Cardinality(Begun) - 1) :
            i <= Len(input.messages) => input.messages[i].keep

\* The names, values and URLs of one header section that the callbacks buffer are bounded,
\* whatever comes in and however it is cut: nread counts every byte of them, from one buffer to
\* the next, and is reset only between two sections (of headers, of trailers).
HeaderBounded == section <= HTTP_MAX_HEADER_SIZE

\* No assertion of http_parser_execute fails, on any input; that of http_request_append_body
\* fails only for a request whose headers announced a body.
AssertsHold ==
    ctl.phase = "abort" =>
        /\ ctl.where # "http_parser_execute"
        /\ ctl.where = "http_request_append_body" =>
               "F_CHUNKED" \in parser.flags \/ parser.content_length # ULLONG_MAX

\* A request that is handed to the workers has the method, the version and the headers of one
\* message, each header whole and with its own value, however the names and values were cut
\* (parser_header_state, server_parser_status_reset); only trailers may follow them.  The version
\* may be missing only when the request has no header or came behind another in the same buffer.
RequestWhole ==
    \A i \in 1..Len(conn.requests) :
        LET r == conn.requests[i]
            m == input.messages[r.id]
            sent == [k \in 1..Len(m.headers) |-> [name |-> m.headers[k][1], content |-> m.headers[k][2]]]
        IN  input.messages # <<>> =>
              /\ r.req.method = http_method_fromstring(m.method)
              /\ IF m.trailers = <<>> THEN r.headers = sent ELSE IsPrefix(sent, r.headers)
              /\ r.req.version \in {m.version, "HTTPXX"}
              /\ r.fresh /\ m.headers # <<>> => r.req.version = m.version

\* Its URL is the one sent, however it was cut (the pieces of on_url belong together).
UrlWhole ==
    \A i \in 1..Len(conn.requests) :
        input.messages # <<>> => conn.requests[i].req.uri = input.messages[conn.requests[i].id].url

\* Every call of http_parser_execute returns: a byte is executed again only finitely often.
ExecuteReturns == (ctl.phase = "exec") ~> (ctl.phase \in {"returned", "abort"})
=============================================================================

---------------------------- MODULE MC_HttpReader ----------------------------
(***************************************************************************)
(* Clients for HttpReader: messages with their text, and text that is not  *)
(* HTTP.                                                                   *)
(***************************************************************************)
EXTENDS HttpReader

\* Header lines, each with the given end of line, and the empty line.
HeaderText(hs, eol) == FoldLeft(LAMBDA t, h : t \o h[1] \o ":" \o h[2] \o eol, "", hs) \o eol

\* A message: words of the request line, headers, the text of the body.
Text(m, eol, body) ==
    m.method \o " " \o m.url \o (CASE m.version = "HTTP11" -> " HTTP/1.1"
                                   [] m.version = "HTTP10" -> " HTTP/1.0"
                                   [] OTHER -> "")
    \o eol \o HeaderText(m.headers, eol) \o body

Message(method, url, version, headers, keep) ==
    [method |-> method, url |-> url, version |-> version, headers |-> headers, data |-> "",
     trailers |-> <<>>, keep |-> keep, upgrade |-> FALSE]

Plain(m, eol) == [text |-> Text(m, eol, ""), messages |-> <<m>>]
WithBody(m, data, body) ==
    LET n == [m EXCEPT !.data = data] IN [text |-> Text(n, "\r\n", body), messages |-> <<n>>]
Then(a, b) == [text |-> a.text \o b.text, messages |-> a.messages \o b.messages]
Garbage(t) == [text |-> t, messages |-> <<>>]

Get(url, headers, keep) == Message("GET", url, "HTTP11", headers, keep)
Short == Plain(Get("/", << <<"a", "b">> >>, TRUE), "\r\n")
Bare == Plain(Message("GET", "/", "HTTP10", <<>>, FALSE), "\n")

Messages ==
    { Plain(Get("/a?b#c", << <<"Host", "h">>, <<"Via", "">> >>, TRUE), "\r\n"),
      Plain(Get("http://u@h/", << <<"x", "y z">> >>, TRUE), "\n"),
      Plain(Message("HEAD", "*", "HTTP10", << <<"Connection", "keep-alive">> >>, TRUE), "\n"),
      Plain([Get("/", << <<"Upgrade", "x">> >>, TRUE) EXCEPT !.upgrade = TRUE], "\r\n"),
      Plain([Message("CONNECT", "h:1", "HTTP11", <<>>, TRUE) EXCEPT !.upgrade = TRUE], "\r\n"),
      Then(Plain(Get("/", << <<"Connection", "close">> >>, FALSE), "\n"), Short),
      Then(Plain(Message("PUT", "/", "HTTP10", << <<"Proxy-Connection", "keep-alive">> >>, TRUE), "\n"), Bare),
      Then(Bare, Bare), Then(Short, Short),
      Plain(Message("GET", "/", "HTTP09", << <<"a", "b">> >>, FALSE), "\r\n") }

Bodies ==
    { WithBody(Message("POST", "/", "HTTP11", << <<"Content-Length", "12">> >>, TRUE),
               "0123456789ab", "0123456789ab"),
      WithBody(Message("POST", "/", "HTTP11", << <<"Content-Length", "34">> >>, TRUE), "xyz", "xyz"),
      WithBody(Message("POST", "/", "HTTP11", << <<"Content-Length", "0">> >>, TRUE), "", ""),
      WithBody(Message("PUT", "/", "HTTP11", << <<"Transfer-Encoding", "chunked">> >>, TRUE),
               "abcd", "3\r\nabc\r\n01;q\r\nd\r\n0\r\n\r\n"),
      WithBody([Message("PUT", "/", "HTTP11", << <<"Transfer-Encoding", "chunked">> >>, TRUE)
                   EXCEPT !.trailers = << <<"t", "u">>, <<"v", "w">> >>],
               "", "0\r\nt:u\r\nv:w\r\n\r\n"),
      WithBody([Message("PUT", "/", "HTTP11", << <<"Transfer-Encoding", "chunked">> >>, TRUE)
                   EXCEPT !.trailers = << <<"t", "aaaaaaaaaabbbbbbbbbbccccccccccdddddddddd">> >>],
               "", "0\r\nt:aaaaaaaaaabbbbbbbbbbccccccccccdddddddddd\r\n\r\n"),
      WithBody(Message("PUT", "/", "HTTP11", << <<"Transfer-Encoding", "chunked">> >>, TRUE),
               "abcdefgh", "22\r\nabcdefgh") }

\* Words that are no method: one letter of a method replaced by another.
Misspelt == { SubSeq(m, 1, i - 1) \o c \o SubSeq(m, i + 1, Len(m)) :
                m \in {"PUT", "COPY", "MOVE", "MKCOL", "PATCH", "PROPFIND"},
                i \in 2..4, c \in {"A", "O", "P", "R", "U"} }

NotHttp ==
    { Garbage(m \o " /a") : m \in Methods \cup Misspelt \cup {"get", "X"} }
    \cup { Garbage(t) : t \in
             { "GET / HTTX", "GET / X", "GET / HTTP/0", "GET / HTTP/1000.1", "GET / HTTP/10.a",
               "GET / HTTP/1.1000", "GET / HTTP/1.1\rx", "GET /\n(", "GET /\na(", "GET /\na:b\rx",
               "GET /\na:\r\n \t\r\nb", "GET /\na\r\nb\n\n", "GET / HTTP/1.1\na\n\nGET / HTTP/1.1\nb:c\n\n", "GET /\n\rx", "GET h/ ", "GET / \n",
               "GET /\nContent-Length: x", "GET /\nContent-Length:1 2\n 3\n\n",
               "GET /\nContent-Length:1x", "GET /\nConnection: close\n now\n\n",
               "GET /\nTransfer-Encoding:chunked \n\nx",
               "GET /\nTransfer-Encoding:chunked\n\n1x",
               "GET /\nTransfer-Encoding:chunked\n\n1\rx", "GET /\nTransfer-Encoding:chunked\n\n1\r\nab",
               "GET /\nTransfer-Encoding:chunked\n\n1\r\na\rb", "GET /\nupgrading:c\nconn:d\ncontext:e\n\n",
               "GET /\naaaaaaaaaabbbbbbbbbbccccccccccddddddddddeeeeeeeeeeffffffffff:ggggggggg" } }

AllInputs == Messages \cup Bodies \cup NotHttp
=============================================================================

-------------------------- MODULE MC_RequestHandler --------------------------
(***************************************************************************)
(* A file system, configurations and requests for RequestHandler.          *)
(***************************************************************************)
EXTENDS RequestHandler

File(n) == [kind |-> "reg", len |-> n]
Empty(kind) == [kind |-> kind, len |-> 0]

\* A directory to serve with a text, a subdirectory with an index file and an empty one, a pipe
\* and a big file; a directory elsewhere.
Tree == [p \in {"/w", "/w/a.txt", "/w/s", "/w/s/INDEX.html", "/w/e", "/w/pipe", "/w/big", "/o"} |->
            CASE p = "/w/a.txt" -> File(2) [] p = "/w/s/INDEX.html" -> File(0)
              [] p = "/w/big" -> File(9) [] p = "/w/pipe" -> Empty("other")
              [] OTHER -> Empty("dir")]

AllTrees == {Tree, [Tree EXCEPT !["/w/s/INDEX.html"] = Empty("dir")]}

\* A trailing slash, and a symbolic link out of the directory.
Names == [p \in {"/w/", "/w/s/", "/w/link"} |->
             CASE p = "/w/" -> "/w" [] p = "/w/s/" -> "/w/s" [] p = "/w/link" -> "/o"]

Types == [html |-> "text/html", txt |-> "text/plain"]

Serving(more) == << <<"name", "a">>, <<"serve", "/w">> >> \o more

\* One host, two of them, one without a listing, one that serves a file, and an odd one; a host
\* without a name before the one asked for, and behind it.
AllConfigs ==
    { <<Serving(<< <<"default", "yes">> >>)>>,
      <<Serving(<<>>), Serving(<< <<"name", "b">>, <<"default", "Yes">> >>)>>,
      <<Serving(<< <<"dir_listings", "no">>, <<"default", "yes">>, <<"index_files", <<"x", "", "a.txt">> >> >>)>>,
      << << <<"name", "a">>, <<"serve", "/w/a.txt">>, <<"default", "yes">> >> >>,
      <<Serving(<< <<"index_files", <<>> >>, <<"enabled", "no">>, <<"default", "yes">>, <<"dir_listings", "so">> >>)>>,
      << << <<"serve", "/w">> >>, Serving(<<>>), Serving(<<>>)>>,
      <<Serving(<<>>), << <<"serve", "/w">>, <<"default", "yes">> >>, Serving(<<>>)>> }

Uris == {"/", "/a.txt?q", "/s/", "/e", "/none", "/link", "/pipe", "/big", "http://a", "http:///a.txt", ""}

\* No, a good, another or an empty value of a header.
Maybe(name, values) == {<<>>} \cup {<<Header(name, v)>> : v \in values}

\* A request as the callbacks of the parser leave it.
Parsed(method, version, uri, headers) ==
    LET r == [method |-> method, major |-> version[1], minor |-> version[2], version |-> "HTTPXX",
              uri |-> uri, headers |-> headers]
    IN  [r EXCEPT !.version = VersionOf(r)]

Asking(methods, uris, connections) ==
    {Parsed(m, v, u, h \o c) : m \in methods, v \in {<<1, 0>>, <<1, 1>>}, u \in uris,
                               h \in Maybe("Host", {"a", "c", NULL}), c \in connections}

AllRequests ==
    Asking({"GET"}, Uris, Maybe("Connection", {"keep-alive"}))
      \cup Asking({"HEAD"}, {"/s/", "/none"}, Maybe("Connection", {"Close", NULL}))
      \cup Asking({"METHOD_INVALID"}, {"/s/"}, {<<>>})
      \cup Asking({"GET"}, {"/s/"}, {<<Header("Connection", "Keep-Alive"), Header("Connection", "close")>>})
      \cup {Parsed(m, <<2, 0>>, "/s/", <<>>) : m \in {"GET", "HEAD"}}
=============================================================================

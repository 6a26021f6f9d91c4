---------------------------- MODULE RequestHandler ----------------------------
(***************************************************************************)
(* server_process_request (http-server.c) for one request, from the choice *)
(* of the host to the response, and http_response_write (http.c), which    *)
(* completes the response's headers when the writer takes it up.  A worker *)
(* looks at the file system in several calls (realpath, stat, opendir,     *)
(* fopen); files may come, go and change their kind between two of them.   *)
(*                                                                         *)
(* Hosts are searched with Config, URLs are split with HttpUrl.  What a    *)
(* listing or a page says is left out; a body is its kind and length.      *)
(***************************************************************************)
EXTENDS HttpUrl, FiniteSets, SequencesExt

CONSTANTS
    NULL,
    Requests,    \* what the parser hands over: [method, major, minor, version, uri, headers]
    Configs,     \* configuration files: a sequence of hosts, each a sequence of lines
    Trees,       \* file systems: functions from names to [kind, len]
    Canonical,   \* what realpath makes of the names that do not stand for themselves
    MimeList,    \* mime_list: from extensions to types
    PageLen,     \* the length of a built-in page or a listing
    WIDTH,       \* the number of values of uint32_t
    MaxChanges   \* bound on the changes of the file system while a request is processed

ASSUME BoundsAssumption == WIDTH \in Nat \ {0} /\ PageLen \in 0..(WIDTH - 1) /\ MaxChanges \in Nat

VARIABLES
    request,   \* the request
    hosts,     \* config->hosts
    pages,     \* which of error.html and dirindex.html the working directory holds
    libs,      \* external: does tmpfile return a file, does libmagic find a type?
    fs,        \* the file system
    changes,   \* how often it has changed
    pc,        \* the next call the worker makes
    path,      \* filepath, filepath_actual or file_result->path
    streams,   \* the FILEs that are open
    response,  \* the response, or NULL
    head       \* what http_response_write has put out, or NULL

vars == <<request, hosts, pages, libs, fs, changes, pc, path, streams, response, head>>
inputs == <<request, hosts, pages, libs>>

-----------------------------------------------------------------------------
(***************************************************************************)
(* Strings, paths and files.                                               *)
(***************************************************************************)
strcasecmp(a, b) == Len(a) = Len(b) /\ \A i \in 1..Len(a) : LOWER(CharAt(a, i)) = LOWER(CharAt(b, i))

\* strncmp with the length of the shorter string
StartsWith(s, t) == Len(t) <= Len(s) /\ SubSeq(s, 1, Len(t)) = t

Exists(tree, p) == p \in DOMAIN tree /\ tree[p].kind # "absent"

realpath(tree, p) == LET q == IF p \in DOMAIN Canonical THEN Canonical[p] ELSE p
                     IN  IF Exists(tree, q) THEN q ELSE NULL

Is(tree, p, kind) == Exists(tree, p) /\ tree[p].kind = kind

Slashes(p) == {i \in 1..Len(p) : CharAt(p, i) = "/"}
Biggest(S) == CHOOSE i \in S : \A j \in S : j <= i
Dirname(p) == SubSeq(p, 1, Biggest(Slashes(p)) - 1)
Basename(p) == SubSeq(p, Biggest(Slashes(p)) + 1, Len(p))

\* the names in a directory
Entries(tree, d) == {Basename(p) : p \in {q \in DOMAIN tree : Exists(tree, q) /\ Dirname(q) = d}}

(***************************************************************************)
(* What the constants and the worker's variables hold.                     *)
(***************************************************************************)
Version == {"HTTP10", "HTTP11", "HTTPXX"}
Node == [kind : {"absent", "reg", "dir", "other"}, len : Nat]
Stream == [kind : {"reg", "dir", "other", "temporary"},
           path : (UNION {DOMAIN tree : tree \in Trees}) \cup {NULL}, len : Nat]
HeaderField == [name : {"Connection", "Content-Length", "Content-Type", "Date", "Server"},
                content : {"close", "now", "khttpd", "text/html", "text/plain"}
                             \cup {MimeList[ext] : ext \in DOMAIN MimeList} \cup Nat]
Body == [type : {"BODY_NONE", "BODY_STRING", "BODY_FILE"}, len : Nat, of : Stream \cup {NULL}]
Response == [version : Version, code : Nat, headers : Seq(HeaderField), body : Body]

Request == [method : STRING, major : Nat, minor : Nat, version : Version, uri : STRING,
            headers : Seq([name : STRING, content : STRING \cup {NULL}])]

\* parser_cb_on_header_field copies the version when the first header begins, and refuses all
\* but 1.0 and 1.1; that of a request without headers stays unknown.
VersionOf(r) == IF r.headers = <<>> THEN "HTTPXX" ELSE IF r.minor = 0 THEN "HTTP10" ELSE "HTTP11"

ASSUME RequestsAssumption ==
    /\ Requests \subseteq Request
    /\ \A r \in Requests : /\ r.version = VersionOf(r)
                          /\ r.headers # <<>> => r.major = 1 /\ r.minor \in {0, 1}

\* A file is named by its directory, a slash and its name there.
ASSUME TreesAssumption == \A tree \in Trees :
                             /\ tree \in [DOMAIN tree -> Node]
                             /\ \A p \in DOMAIN tree : Dirname(p) \o "/" \o Basename(p) = p
ASSUME NullAssumption == NULL \notin Version \cup Stream \cup HeaderField \cup Response

(***************************************************************************)
(* The settings of a host, line by line (config_read_ini_cb).  How the     *)
(* default mark moves from host to host is in Config; here one host at     *)
(* most is given it.                                                       *)
(***************************************************************************)
config_host_new ==
    [name |-> NULL, default |-> FALSE, enabled |-> TRUE, serve_dir |-> NULL,
     dir_listings |-> TRUE, index_files |-> <<"index.html">>]

Switched(old, v) == CASE strcasecmp(v, "yes") -> TRUE [] strcasecmp(v, "no") -> FALSE [] OTHER -> old

\* A line is <<key, value>>; that of index_files has the pieces between the commas.
Setting(h, line, tree) ==
    LET v == line[2] IN
    CASE line[1] = "name" -> [h EXCEPT !.name = v]
      [] line[1] = "default" -> [h EXCEPT !.default = Switched(@, v)]
      [] line[1] = "enabled" -> [h EXCEPT !.enabled = Switched(@, v)]
      [] line[1] = "dir_listings" -> [h EXCEPT !.dir_listings = Switched(@, v)]
      [] line[1] = "index_files" -> [h EXCEPT !.index_files = SelectSeq(v, LAMBDA f : f # "")]
      [] line[1] = "serve" -> [h EXCEPT !.serve_dir = IF realpath(tree, v) # NULL /\ Is(tree, realpath(tree, v), "dir")
                                                     THEN realpath(tree, v) ELSE @]

Configured(lines, tree) ==
    FoldLeft(LAMBDA h, line : Setting(h, line, tree), config_host_new, lines)

\* The search of a host is Config's.
Search == INSTANCE Config WITH
              Name <- {}, Port <- {80}, None <- NULL, MaxHosts <- 0,
              port <- 80, section <- "Host", phase <- "serving",
              result <- [name |-> NULL, host |-> 0]

-----------------------------------------------------------------------------
(***************************************************************************)
(* Header lists and responses (http.c).  A list is an array of headers.    *)
(***************************************************************************)
Header(name, content) == [name |-> name, content |-> content]

http_header_list_getall(list, name) == {i \in 1..Len(list) : list[i].name = name}

http_header_list_get(list, name) ==
    LET all == http_header_list_getall(list, name)
    IN  IF all = {} THEN NULL ELSE list[CHOOSE i \in all : \A j \in all : i <= j]

\* Each header found is erased at the place where it was found, although the erasures before
\* it have moved the array; a place behind its end has no meaning.
http_header_list_remove(list, name) ==
    LET found == http_header_list_getall(list, name)
        left[i \in 0..Len(list)] == CASE i = 0 -> list
                                      [] i \in found -> RemoveAt(left[i - 1], i)
                                      [] OTHER -> left[i - 1]
    IN  left[Len(list)]

http_header_list_add(list, header, replace) ==
    Append(IF replace THEN http_header_list_remove(list, header.name) ELSE list, header)

NoBody == [type |-> "BODY_NONE", len |-> 0, of |-> NULL]

\* with http_response_line_new(code)
http_response_new(code) ==
    [version |-> "HTTP11", code |-> code, headers |-> <<>>, body |-> NoBody]

\* Mutant: the second Content-Type is added to the first.
BuiltinTwoTypes(code) ==
    LET html == http_header_list_add(<<>>, Header("Content-Type", "text/html"), FALSE)
    IN  [http_response_new(code) EXCEPT
            !.body = [type |-> "BODY_STRING", len |-> PageLen, of |-> NULL],
            !.headers = IF "error.html" \in pages THEN html
                        ELSE http_header_list_add(html, Header("Content-Type", "text/plain"), FALSE)]

http_response_create_builtin(code) ==
    LET html == http_header_list_add(<<>>, Header("Content-Type", "text/html"), FALSE)
    IN  [http_response_new(code) EXCEPT
            !.body = [type |-> "BODY_STRING", len |-> PageLen, of |-> NULL],
            !.headers = IF "error.html" \in pages THEN html
                        ELSE http_header_list_add(html, Header("Content-Type", "text/plain"), TRUE)]

Closing(r) == [r EXCEPT !.headers = http_header_list_add(@, Header("Connection", "close"), FALSE)]

-----------------------------------------------------------------------------
(***************************************************************************)
(* server_process_request.                                                 *)
(***************************************************************************)
Init == /\ request \in Requests
        /\ fs \in Trees
        /\ \E c \in Configs : hosts = [i \in 1..Len(c) |-> Configured(c[i], fs)]
        /\ pages \in SUBSET {"error.html", "dirindex.html"}
        /\ libs \in [tmpfile : BOOLEAN, magic : BOOLEAN]
        /\ changes = 0
        /\ pc = "request" /\ path = NULL /\ streams = {}
        /\ response = NULL /\ head = NULL

\* An early return with a built-in page.
Respond(code) == /\ response' = Closing(http_response_create_builtin(code))
                 /\ pc' = "done"

\* The program's behaviour is undefined from here on.
Undefined == pc' = "undefined" /\ UNCHANGED <<path, streams, response>>

Worker(here) == pc = here /\ UNCHANGED <<inputs, fs, changes, head>>

HostHeader == http_header_list_get(request.headers, "Host")
NeedsHost == request.version = "HTTP11" /\ HostHeader = NULL

\* config_server_gethost; 0 is NULL
HostName == IF request.version = "HTTP11" THEN HostHeader.content ELSE NULL
HostFound == Search!GetHost(HostName)
Host == hosts[HostFound]

ValidMethod == request.method \in {"GET", "HEAD", "POST"}

\* http_parser_parse_url; its result is compared with "< 0", which it never is.
Url == http_parser_parse_url(request.uri, 65535).u
HasPath == Url["PATH"].len > 0

\* Up to the name of the file asked for.
AcceptRequest ==
    /\ Worker("request")
    /\ UNCHANGED streams
    /\ IF NeedsHost THEN Respond(400) /\ UNCHANGED path
       ELSE IF request.version = "HTTP11" /\ HostHeader.content = NULL THEN Undefined
       ELSE IF Search!Nameless(HostName) THEN Undefined
       ELSE IF HostFound = 0 THEN Respond(500) /\ UNCHANGED path
       ELSE IF ~ValidMethod THEN Respond(411) /\ UNCHANGED path
       ELSE IF ~HasPath THEN Respond(400) /\ UNCHANGED path
       ELSE IF Host.serve_dir = NULL THEN Undefined
       ELSE /\ path' = Host.serve_dir \o FieldText(request.uri, Url, "PATH")
            /\ pc' = "realpath"
            /\ UNCHANGED response

\* server_determine_file
ResolveFile ==
    /\ Worker("realpath")
    /\ UNCHANGED streams
    /\ LET actual == realpath(fs, path)
       IN  IF actual = NULL THEN Respond(404) /\ UNCHANGED path
           ELSE IF ~StartsWith(actual, Host.serve_dir) THEN Respond(404) /\ UNCHANGED path
           ELSE path' = actual /\ pc' = "stat" /\ UNCHANGED response

\* A file that is neither a directory nor regular leaves file_result->path NULL, of which
\* server_process_request makes a copy.
Stat ==
    /\ Worker("stat")
    /\ CASE ~Exists(fs, path) -> Respond(404) /\ UNCHANGED <<path, streams>>
         [] Is(fs, path, "dir") -> pc' = "opendir" /\ UNCHANGED <<path, streams, response>>
         [] Is(fs, path, "reg") -> pc' = "fopen" /\ UNCHANGED <<path, streams, response>>
         [] Is(fs, path, "other") -> Undefined

\* Mutant: names are compared as they are.
IndexFilesExact(tree, d) == {e \in Entries(tree, d) : \E f \in ToSet(Host.index_files) : e = f}

\* The entries that server_find_directory_index may meet first.
IndexFiles(tree, d) == {e \in Entries(tree, d) : \E f \in ToSet(Host.index_files) : strcasecmp(e, f)}

\* Mutant: no error is set when there is neither an index nor a listing.
FindIndexSilent ==
    /\ Worker("opendir")
    /\ UNCHANGED streams
    /\ LET found == IF Is(fs, path, "dir") THEN IndexFiles(fs, path) ELSE {}
       IN  \/ \E e \in found : path' = path \o "/" \o e /\ pc' = "fopen" /\ UNCHANGED response
           \/ found = {} /\ Host.dir_listings /\ pc' = "listing" /\ UNCHANGED <<path, response>>
           \/ found = {} /\ ~Host.dir_listings /\ pc' = "undefined" /\ UNCHANGED <<path, response>>

FindIndex ==
    /\ Worker("opendir")
    /\ UNCHANGED streams
    /\ LET found == IF Is(fs, path, "dir") THEN IndexFiles(fs, path) ELSE {}
       IN  \/ \E e \in found : path' = path \o "/" \o e /\ pc' = "fopen" /\ UNCHANGED response
           \/ found = {} /\ Host.dir_listings /\ pc' = "listing" /\ UNCHANGED <<path, response>>
           \/ found = {} /\ ~Host.dir_listings /\ Respond(403) /\ UNCHANGED path

\* strrchr and the list of types; what is not in it is left to libmagic.
Extension(p) == LET dots == {i \in 1..Len(p) : CharAt(p, i) = "."}
                IN  IF dots = {} THEN "" ELSE SubSeq(p, Biggest(dots) + 1, Len(p))
Listed(p) == Extension(p) # "" /\ Extension(p) \in DOMAIN MimeList

\* mime_get_type_magic closes libmagic before the type that it found is used.
Dangling(p) == ~Listed(p) /\ libs.magic

\* The type from the list, or the fallback where libmagic finds none.
mime_get_type(p) == IF Listed(p) THEN MimeList[Extension(p)] ELSE "text/plain"


CloseConnection ==
    LET c == http_header_list_get(request.headers, "Connection")
    IN  \/ c # NULL /\ strcasecmp(c.content, "close")
        \/ request.version = "HTTP10" /\ (c = NULL \/ ~strcasecmp(c.content, "Keep-Alive"))

\* The body of a response from an open file, which is closed at once for HEAD.
BodyOf(s) == IF request.method = "HEAD" THEN NoBody
             ELSE [type |-> "BODY_FILE", len |-> s.len, of |-> s]

\* Mutant: the file of a HEAD request stays open.
OkLeaking(s, mime) ==
    /\ LET r == [http_response_new(200) EXCEPT
                    !.version = request.version,
                    !.headers = http_header_list_add(<<>>, Header("Content-Type", mime), FALSE),
                    !.body = BodyOf(s)]
       IN  response' = IF CloseConnection THEN Closing(r) ELSE r
    /\ streams' = streams \cup {s}
    /\ pc' = "done"

\* The response with the open file s.
Ok(s, mime) ==
    /\ LET r == [http_response_new(200) EXCEPT
                    !.version = request.version,
                    !.headers = http_header_list_add(<<>>, Header("Content-Type", mime), FALSE),
                    !.body = BodyOf(s)]
       IN  response' = IF CloseConnection THEN Closing(r) ELSE r
    /\ streams' = IF request.method = "HEAD" THEN streams ELSE streams \cup {s}
    /\ pc' = "done"

\* strcasecmp reads the value of the Connection header, which a header line without a colon lacks.
NoConnectionValue == LET c == http_header_list_get(request.headers, "Connection")
                     IN  c # NULL /\ c.content = NULL

\* server_generate_directory_index writes the listing into what tmpfile returns, a file or NULL.
GenerateListing ==
    /\ Worker("listing")
    /\ UNCHANGED path
    /\ IF Is(fs, path, "dir") /\ "dirindex.html" \in pages
       THEN IF ~libs.tmpfile \/ NoConnectionValue THEN pc' = "undefined" /\ UNCHANGED <<streams, response>>
            ELSE Ok([kind |-> "temporary", path |-> NULL, len |-> PageLen], "text/html")
       ELSE Respond(500) /\ UNCHANGED streams

\* fopen opens whatever is there by now; of a directory, nothing can be read.
OpenFile ==
    /\ Worker("fopen")
    /\ UNCHANGED path
    /\ CASE ~Exists(fs, path) -> Respond(404) /\ UNCHANGED streams
         [] Exists(fs, path) /\ (Dangling(path) \/ NoConnectionValue) ->
                pc' = "undefined" /\ UNCHANGED <<streams, response>>
         [] OTHER -> Ok([kind |-> fs[path].kind, path |-> path, len |-> fs[path].len],
                        mime_get_type(path))

(***************************************************************************)
(* http_response_write, and the environment.                               *)
(***************************************************************************)
\* Mutant: the terminating NUL is counted.
ContentLengthNul(r) == (r.body.len + 1) % WIDTH

\* The length as uint32_t.
ContentLength(r) == r.body.len % WIDTH

Completed(r) ==
    LET sized == http_header_list_add(r.headers, Header("Content-Length", ContentLength(r)), TRUE)
        typed == IF http_header_list_get(sized, "Content-Type") # NULL THEN sized
                 ELSE http_header_list_add(sized, Header("Content-Type", "text/plain"), FALSE)
        dated == http_header_list_add(typed, Header("Date", "now"), TRUE)
    IN  http_header_list_add(dated, Header("Server", "khttpd"), TRUE)

WriteHead ==
    /\ pc = "done"
    /\ response' = [response EXCEPT !.headers = Completed(response)]
    /\ head' = [version |-> IF response.version = "HTTPXX" THEN NULL ELSE response.version,
                code |-> response.code, headers |-> Completed(response)]
    /\ pc' = "written"
    /\ UNCHANGED <<inputs, fs, changes, path, streams>>

\* A file comes, goes or changes its kind between two calls of the worker; a directory stays as
\* long as it is not empty.  (A change before the first call is another tree to begin with.)
ChangeFile ==
    /\ pc \in {"stat", "opendir", "listing", "fopen"}
    /\ changes < MaxChanges
    /\ \E p \in DOMAIN fs, kind \in {"absent", "reg", "dir"} :
          /\ fs[p].kind # kind
          /\ Entries(fs, p) = {}
          /\ kind # "absent" => Dirname(p) = "" \/ Is(fs, Dirname(p), "dir")
          /\ fs' = [fs EXCEPT ![p].kind = kind]
    /\ changes' = changes + 1
    /\ UNCHANGED <<inputs, pc, path, streams, response, head>>

Next == \/ AcceptRequest \/ ResolveFile \/ Stat \/ FindIndex \/ GenerateListing \/ OpenFile
        \/ WriteHead \/ ChangeFile

Spec == Init /\ [][Next]_vars

-----------------------------------------------------------------------------
\* What the file system, left alone, makes of the request.
TheFile == realpath(fs, Host.serve_dir \o FieldText(request.uri, Url, "PATH"))

Expected ==
    CASE NeedsHost -> 400
      [] ~NeedsHost /\ HostFound = 0 -> 500
      [] ~NeedsHost /\ HostFound # 0 /\ request.method \notin {"GET", "HEAD", "POST"} -> 411
      [] OTHER ->
           IF ~HasPath THEN 400
           ELSE IF TheFile = NULL \/ ~StartsWith(TheFile, Host.serve_dir) THEN 404
           ELSE IF Is(fs, TheFile, "reg") THEN 200
           ELSE IF \E e \in Entries(fs, TheFile) : \E f \in ToSet(Host.index_files) : strcasecmp(e, f)
           THEN 200
           ELSE IF ~Host.dir_listings THEN 403
           ELSE IF "dirindex.html" \in pages THEN 200 ELSE 500

\* While nobody touches the files, the status is what the request, the configuration and the
\* files call for, checked in the order of server_process_request.
StatusRight == response # NULL /\ changes = 0 => response.code = Expected

\* The only files left open are those that the body of the response closes, however the request
\* ends (server_process_request, HEAD included).
HandlesOwned ==
    pc # "undefined" => streams = IF response = NULL \/ response.body.of = NULL THEN {}
                                  ELSE {response.body.of}

Closes == LET c == http_header_list_get(head.headers, "Connection")
          IN  c # NULL /\ strcasecmp(c.content, "close")

\* The client finds the end of the response: the announced length is that of the body, or
\* nothing follows on the connection; a HEAD request is answered without a body, or the
\* connection is closed (http_response_write).
Framed ==
    head # NULL =>
        /\ response.body.len < WIDTH /\ (response.body.of # NULL => response.body.of.kind # "dir")
             => http_header_list_get(head.headers, "Content-Length").content = response.body.len
        /\ request.method = "HEAD" => response.body.type = "BODY_NONE" \/ Closes

ConnectionHeaders == http_header_list_getall(request.headers, "Connection")

\* What the parser says of the connection when the request is complete, from the version and
\* the Connection headers that the client sent.
http_should_keep_alive ==
    LET says(w) == \E i \in ConnectionHeaders : /\ request.headers[i].content # NULL
                                               /\ strcasecmp(request.headers[i].content, w)
    IN  IF request.major > 0 /\ request.minor > 0 THEN ~says("close") ELSE says("keep-alive")


\* No header occurs twice in a response, although several functions add to the list and replace
\* in it, and none of the four that every response has is missing; the status line has a version,
\* unless the request's was not known and the answer is 200 (http_response_write).
HeadComplete ==
    head # NULL =>
        /\ \A i, j \in 1..Len(head.headers) : head.headers[i].name = head.headers[j].name => i = j
        /\ \A n \in {"Content-Length", "Content-Type", "Date", "Server"} :
              http_header_list_get(head.headers, n) # NULL
        /\ head.version = NULL => request.version = "HTTPXX" /\ head.code = 200

\* Where the calls modelled here leave the behaviour of the worker undefined, it is for one of
\* these: a Host or Connection header without a value; a host without a name, which the search
\* compares with (config_server_gethost), or without a directory; a file that is neither regular
\* nor a directory; no temporary file for a listing; a type that libmagic has already freed.
DefinedUnless ==
    pc = "undefined" =>
        \/ \E i \in 1..Len(request.headers) : /\ request.headers[i].name \in {"Host", "Connection"}
                                              /\ request.headers[i].content = NULL
        \/ Search!Nameless(HostName)
        \/ Host.serve_dir = NULL
        \/ Is(fs, path, "other")
        \/ Is(fs, path, "dir") /\ ~libs.tmpfile
        \/ Exists(fs, path) /\ Dangling(path)
=============================================================================

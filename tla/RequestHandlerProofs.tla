------------------------- MODULE RequestHandlerProofs -------------------------
(***************************************************************************)
(* Proofs about server_process_request and the header lists as             *)
(* RequestHandler models them, for any requests, configurations, file      *)
(* systems and changes of the files while a request is processed.          *)
(***************************************************************************)
EXTENDS RequestHandler, FiniteSetTheorems, SequenceTheorems, NaturalsInduction,
        WellFoundedInduction, TLAPS

\* No two headers of a list have the same name.
Unique(list) == \A i, j \in 1..Len(list) : list[i].name = list[j].name => i = j

TypeOK ==
  /\ request \in Requests
  /\ \E tree \in Trees : fs \in [DOMAIN tree -> Node]
  /\ \A p \in DOMAIN fs : Dirname(p) \o "/" \o Basename(p) = p
  /\ changes \in Nat
  /\ pc \in {"request", "realpath", "stat", "opendir", "listing", "fopen", "done", "written",
            "undefined"}
  /\ response \in Response \cup {NULL}

\* There is a response from its creation on, and a header block once it is written.
StageOK == /\ pc \in {"done", "written"} <=> response # NULL
           /\ pc # "written" => head = NULL

\* A file is open exactly while a response has it for its body.
StreamsOK == streams = IF response = NULL \/ response.body.of = NULL THEN {}
                       ELSE {response.body.of}

\* What http_response_write relies on when it adds to the headers.
Closed(r) == Header("Connection", "close") \in ToSet(r.headers)
ResponseOK ==
  response # NULL =>
    /\ Unique(response.headers)
    /\ response.version = "HTTP11" \/ (response.version = request.version /\ response.code = 200)
    /\ request.method = "HEAD" => response.body.type = "BODY_NONE" \/ Closed(response)

Sized(r) == Header("Content-Length", ContentLength(r)) \in ToSet(r.headers)
Always == {"Content-Length", "Content-Type", "Date", "Server"}
HeadOK ==
  pc = "written" =>
    /\ head.headers = response.headers
    /\ head.version = IF response.version = "HTTPXX" THEN NULL ELSE response.version
    /\ head.code = response.code
    /\ Sized(response)
    /\ \A name \in Always : \E h \in ToSet(response.headers) : h.name = name

\* How far server_process_request has come, as long as no file changes: what it has
\* found out already is what the status depends on.
Accepted == ~NeedsHost /\ HostFound # 0 /\ ValidMethod /\ HasPath
Located == path = TheFile /\ path # NULL /\ StartsWith(path, Host.serve_dir)
StatusOK ==
  changes = 0 =>
    /\ pc = "realpath" => Accepted /\ path = Host.serve_dir \o FieldText(request.uri, Url, "PATH")
    /\ pc \in {"stat", "opendir", "listing"} => Accepted /\ Located
    /\ pc \in {"opendir", "listing"} => Is(fs, path, "dir")
    /\ pc = "listing" => IndexFiles(fs, path) = {} /\ Host.dir_listings
    /\ pc = "fopen" => Exists(fs, path) /\ Expected = 200
    /\ response # NULL => response.code = Expected

\* The inductive invariant.
IInv == TypeOK /\ StageOK /\ StreamsOK /\ ResponseOK /\ HeadOK /\ StatusOK /\ DefinedUnless
-----------------------------------------------------------------------------
(* The header lists. *)

\* Induction over the natural numbers, for a property given as a set.
LEMMA SetInduction ==
  ASSUME NEW P \in SUBSET Nat, 0 \in P, \A n \in P : n + 1 \in P
  PROVE  P = Nat
<1> SUFFICES ASSUME Nat \ P # {} PROVE FALSE
  OBVIOUS
<1>1. PICK m \in Nat \ P : \A y \in Nat \ P : ~(<<y, m>> \in OpToRel(<, Nat))
  BY WFMin, NatLessThanWellFounded, Zenon
<1>2. m # 0 /\ m - 1 \in Nat /\ (m - 1) + 1 = m
  OBVIOUS
<1>3. <<m - 1, m>> \in OpToRel(<, Nat)
  BY <1>2 DEF OpToRel
<1>4. m - 1 \in P
  BY <1>1, <1>2, <1>3
<1> QED BY <1>1, <1>2, <1>4

\* Erasing an element moves those behind it up.
LEMMA RemoveAtFacts ==
  ASSUME NEW T, NEW s \in Seq(T), NEW k \in DOMAIN s
  PROVE  /\ RemoveAt(s, k) \in Seq(T)
         /\ Len(RemoveAt(s, k)) = Len(s) - 1
         /\ \A j \in 1..(Len(s) - 1) :
              RemoveAt(s, k)[j] = s[IF j < k THEN j ELSE j + 1]
<1> DEFINE a == SubSeq(s, 1, k - 1)
           b == SubSeq(s, k + 1, Len(s))
<1>1. k \in 1..Len(s) /\ Len(s) \in Nat
  OBVIOUS
<1>2. a \in Seq(T) /\ Len(a) = k - 1 /\ \A j \in 1..(k - 1) : a[j] = s[j]
  BY <1>1
<1>3. /\ b \in Seq(T)
      /\ Len(b) = Len(s) - k
      /\ \A j \in 1..(Len(s) - k) : b[j] = s[k + j]
  BY <1>1
<1>4. RemoveAt(s, k) = a \o b
  BY DEF RemoveAt
<1> HIDE DEF a, b
<1>5. /\ a \o b \in Seq(T)
      /\ Len(a \o b) = Len(s) - 1
  BY <1>1, <1>2, <1>3
<1>6. ASSUME NEW j \in 1..(Len(s) - 1)
      PROVE  (a \o b)[j] = s[IF j < k THEN j ELSE j + 1]
  <2>1. CASE j < k
    <3>1. j \in 1..Len(a)
      BY <1>1, <1>2, <2>1
    <3>2. (a \o b)[j] = a[j]
      BY <1>2, <1>3, <3>1, ConcatProperties
    <3> QED BY <1>1, <1>2, <2>1, <3>1, <3>2
  <2>2. CASE j >= k
    <3>1. /\ j \in 1..(Len(a) + Len(b)) /\ ~(j <= Len(a))
          /\ j - Len(a) = j - k + 1
      BY <1>1, <1>2, <1>3, <2>2
    <3>2. (a \o b)[j] = b[j - k + 1]
      <4>1. (a \o b)[j] = IF j <= Len(a) THEN a[j] ELSE b[j - Len(a)]
        BY <1>2, <1>3, <3>1, ConcatProperties, Zenon
      <4> QED BY <3>1, <4>1
    <3>3. j - k + 1 \in 1..(Len(s) - k) /\ k + (j - k + 1) = j + 1 /\ ~(j < k)
      BY <1>1, <2>2
    <3> QED BY <1>3, <3>2, <3>3
  <2>3. j < k \/ j >= k
    BY <1>1
  <2> QED BY <2>1, <2>2, <2>3
<1> QED BY <1>4, <1>5, <1>6

\* When at most one header of a list has the name, the erasures behind each
\* other are one erasure, or none.
LEMMA RemoveIs ==
  ASSUME NEW list \in Seq(HeaderField), Unique(list), NEW name
  PROVE  /\ \A p \in 1..Len(list) : list[p].name = name =>
              http_header_list_remove(list, name) = RemoveAt(list, p)
         /\ (\A p \in 1..Len(list) : list[p].name # name) =>
              http_header_list_remove(list, name) = list
<1> DEFINE n == Len(list)
           found == {i \in 1..n : list[i].name = name}
           Left(h) == [i \in 0..n |-> CASE i = 0 -> list
                                        [] i \in found -> RemoveAt(h[i - 1], i)
                                        [] OTHER -> h[i - 1]]
           left == CHOOSE h : h = Left(h)
           val(i) == IF \E p \in found : p <= i
                     THEN RemoveAt(list, CHOOSE p \in found : TRUE) ELSE list
           g == [i \in 0..n |-> val(i)]
<1>1. n \in Nat
  OBVIOUS
<1>2. \A p, q \in found : p = q
  BY DEF Unique
<1>3. \A p \in found : p \in 1..n /\ p = CHOOSE q \in found : TRUE
  BY <1>2
<1>zero. 0 \notin found
  BY <1>1
<1>4. http_header_list_remove(list, name) = left[n]
  BY DEF http_header_list_remove, http_header_list_getall
<1> HIDE DEF n, found
<1>5. val(0) = list
  BY <1>1, <1>3
<1>6. ASSUME NEW i \in 1..n
      PROVE  val(i) = IF i \in found THEN RemoveAt(val(i - 1), i) ELSE val(i - 1)
  <2>1. CASE i \in found
    <3>1. \A p \in found : p = i
      BY <1>2, <2>1
    <3>2. val(i - 1) = list
      BY <1>1, <3>1
    <3>3. val(i) = RemoveAt(list, i)
      <4>1. i = (CHOOSE q \in found : TRUE) /\ i <= i
        BY <1>1, <1>3, <2>1
      <4>2. \E p \in found : p <= i
        BY <2>1, <4>1
      <4> QED BY <4>1, <4>2, Zenon
    <3> QED BY <2>1, <3>2, <3>3
  <2>2. CASE i \notin found
    <3>1. \A p \in found : p <= i <=> p <= i - 1
      BY <1>1, <1>3, <2>2
    <3> QED BY <2>2, <3>1
  <2> QED BY <2>1, <2>2
<1> HIDE DEF val
<1>7. g = Left(g)
  <2>1. ASSUME NEW i \in 0..n PROVE g[i] = Left(g)[i]
    <3>1. CASE i = 0
      BY <1>1, <1>zero, <1>5, <3>1
    <3>2. CASE i # 0
      <4>1. i \in 1..n /\ i - 1 \in 0..n
        BY <1>1, <3>2
      <4>2. g[i - 1] = val(i - 1) /\ g[i] = val(i)
        BY <4>1
      <4> QED BY <1>6, <3>2, <4>1, <4>2
    <3> QED BY <3>1, <3>2
  <2> HIDE DEF g
  <2>2. DOMAIN g = 0..n /\ g = [i \in 0..n |-> g[i]]
    BY DEF g
  <2> QED BY <2>1, <2>2
<1>8. left = Left(left)
  <2> HIDE DEF g, Left
  <2> QED BY <1>7, Zenon
<1> HIDE DEF left
<1>9. left[n] = val(n)
  <2> DEFINE P == {m \in Nat : m <= n => left[m] = val(m)}
  <2>1. 0 \in P
    BY <1>1, <1>zero, <1>5, <1>8
  <2>2. ASSUME NEW m \in P PROVE m + 1 \in P
    <3> SUFFICES ASSUME m + 1 <= n PROVE left[m + 1] = val(m + 1)
      <4>1. m + 1 \in Nat
        OBVIOUS
      <4> QED BY <4>1, Zenon
    <3>1. m + 1 \in 1..n /\ m + 1 \in 0..n /\ m + 1 # 0 /\ (m + 1) - 1 = m /\ m <= n
      BY <1>1
    <3>2. left[m + 1] = IF m + 1 \in found THEN RemoveAt(left[m], m + 1) ELSE left[m]
      BY <1>8, <3>1
    <3>3. left[m] = val(m)
      BY <3>1
    <3>4. val(m + 1) = IF m + 1 \in found THEN RemoveAt(val(m), m + 1) ELSE val(m)
      BY <1>6, <3>1
    <3> QED BY <3>2, <3>3, <3>4
  <2> HIDE DEF P
  <2>3. P = Nat
    <3>1. P \in SUBSET Nat
      BY DEF P
    <3> QED BY <2>1, <2>2, <3>1, SetInduction
  <2> QED BY <1>1, <2>3 DEF P
<1>10. ASSUME NEW p \in 1..Len(list), list[p].name = name
       PROVE  http_header_list_remove(list, name) = RemoveAt(list, p)
  <2>1. p \in found /\ p <= n
    BY <1>1, <1>10 DEF found, n
  <2>2. val(n) = RemoveAt(list, p)
    BY <1>3, <2>1 DEF val
  <2> QED BY <1>4, <1>9, <2>2
<1>11. ASSUME \A p \in 1..Len(list) : list[p].name # name
       PROVE  http_header_list_remove(list, name) = list
  <2>1. found = {}
    BY <1>11 DEF found, n
  <2>2. val(n) = list
    BY <2>1 DEF val
  <2> QED BY <1>4, <1>9, <2>2
<1> QED BY <1>10, <1>11

\* No header of the name is left, every other one is, and none twice.
LEMMA RemoveFacts ==
  ASSUME NEW list \in Seq(HeaderField), Unique(list), NEW name,
         NEW new, new = http_header_list_remove(list, name)
  PROVE  /\ new \in Seq(HeaderField)
         /\ Unique(new)
         /\ ToSet(new) = {h \in ToSet(list) : h.name # name}
<1>1. Len(list) \in Nat /\ DOMAIN list = 1..Len(list)
  OBVIOUS
<1>2. ASSUME NEW p \in 1..Len(list), list[p].name = name
      PROVE  /\ new \in Seq(HeaderField)
             /\ Unique(new)
             /\ ToSet(new) = {h \in ToSet(list) : h.name # name}
  <2> DEFINE at(j) == IF j < p THEN j ELSE j + 1
  <2>1. new = RemoveAt(list, p)
    BY <1>2, RemoveIs
  <2>2. /\ new \in Seq(HeaderField)
        /\ Len(new) = Len(list) - 1
        /\ \A j \in 1..Len(new) : new[j] = list[at(j)]
    <3>1. p \in DOMAIN list
      BY <1>1
    <3>2. /\ RemoveAt(list, p) \in Seq(HeaderField)
          /\ Len(RemoveAt(list, p)) = Len(list) - 1
          /\ \A j \in 1..(Len(list) - 1) :
               RemoveAt(list, p)[j] = list[IF j < p THEN j ELSE j + 1]
      BY <3>1, RemoveAtFacts, Zenon
    <3> QED BY <2>1, <3>2
  <2>3. \A j \in 1..Len(new) : at(j) \in 1..Len(list) /\ at(j) # p
    BY <1>1, <2>2
  <2>4. \A i, j \in 1..Len(new) : at(i) = at(j) => i = j
    BY <1>1, <2>2
  <2>5. \A i \in 1..Len(list) : i # p => \E j \in 1..Len(new) : at(j) = i
    <3> SUFFICES ASSUME NEW i \in 1..Len(list), i # p
                 PROVE  \E j \in 1..Len(new) : at(j) = i
      OBVIOUS
    <3>1. CASE i < p
      <4>1. i \in 1..Len(new) /\ at(i) = i
        BY <1>1, <2>2, <3>1
      <4> QED BY <4>1
    <3>2. CASE ~(i < p)
      <4>1. i - 1 \in 1..Len(new) /\ at(i - 1) = i
        BY <1>1, <2>2, <3>2
      <4> QED BY <4>1
    <3> QED BY <3>1, <3>2
  <2> HIDE DEF at
  <2>6. Unique(new)
    BY <2>2, <2>3, <2>4 DEF Unique
  <2>7. DOMAIN new = 1..Len(new)
    BY <2>2
  <2>8. ASSUME NEW h \in ToSet(new) PROVE h \in ToSet(list) /\ h.name # name
    <3>1. PICK j \in 1..Len(new) : h = new[j]
      BY <2>7 DEF ToSet
    <3>2. h = list[at(j)] /\ at(j) \in 1..Len(list) /\ at(j) # p
      BY <2>2, <2>3, <3>1
    <3> QED BY <1>1, <1>2, <3>2 DEF ToSet, Unique
  <2>9. ASSUME NEW h \in ToSet(list), h.name # name PROVE h \in ToSet(new)
    <3>1. PICK i \in 1..Len(list) : h = list[i]
      BY <1>1 DEF ToSet
    <3>2. i # p
      BY <1>2, <2>9, <3>1
    <3>3. PICK j \in 1..Len(new) : at(j) = i
      BY <2>5, <3>2
    <3>4. h = new[j]
      BY <2>2, <3>1, <3>3
    <3> QED BY <2>7, <3>4 DEF ToSet
  <2> QED BY <2>2, <2>6, <2>8, <2>9
<1>3. ASSUME \A p \in 1..Len(list) : list[p].name # name
      PROVE  /\ new \in Seq(HeaderField)
             /\ Unique(new)
             /\ ToSet(new) = {h \in ToSet(list) : h.name # name}
  <2>1. new = list
    BY <1>3, RemoveIs
  <2>2. \A h \in ToSet(list) : h.name # name
    BY <1>1, <1>3 DEF ToSet
  <2> QED BY <2>1, <2>2
<1> QED BY <1>2, <1>3

\* A header whose name is new is added to the others.
LEMMA AppendFacts ==
  ASSUME NEW list \in Seq(HeaderField), Unique(list), NEW h \in HeaderField,
         \A g \in ToSet(list) : g.name # h.name, NEW new, new = Append(list, h)
  PROVE  new \in Seq(HeaderField) /\ Unique(new) /\ ToSet(new) = ToSet(list) \cup {h}
<1>1. /\ new \in Seq(HeaderField)
      /\ Len(new) = Len(list) + 1 /\ Len(list) \in Nat
      /\ DOMAIN new = 1..Len(new) /\ DOMAIN list = 1..Len(list)
      /\ new[Len(new)] = h
      /\ \A i \in 1..Len(list) : new[i] = list[i]
  OBVIOUS
<1>2. \A i \in 1..Len(new) : i = Len(new) \/ i \in 1..Len(list)
  BY <1>1
<1>3. \A i \in 1..Len(list) : list[i].name # h.name /\ i \in 1..Len(new) /\ i # Len(new)
  BY <1>1 DEF ToSet
<1>4. Unique(new)
  BY <1>1, <1>2, <1>3 DEF Unique
<1>5. ToSet(new) = ToSet(list) \cup {h}
  <2>1. Len(new) \in 1..Len(new)
    BY <1>1
  <2> QED BY <1>1, <1>2, <1>3, <2>1 DEF ToSet
<1> QED BY <1>1, <1>4, <1>5

LEMMA AddFacts ==
  ASSUME NEW list \in Seq(HeaderField), Unique(list), NEW h \in HeaderField,
         \A g \in ToSet(list) : g.name # h.name,
         NEW new, new = http_header_list_add(list, h, FALSE)
  PROVE  new \in Seq(HeaderField) /\ Unique(new) /\ ToSet(new) = ToSet(list) \cup {h}
<1>1. new = Append(list, h)
  BY DEF http_header_list_add
<1> QED BY <1>1, AppendFacts

\* A header that replaces is the only one of its name.
LEMMA ReplaceFacts ==
  ASSUME NEW list \in Seq(HeaderField), Unique(list), NEW h \in HeaderField,
         NEW new, new = http_header_list_add(list, h, TRUE)
  PROVE  /\ new \in Seq(HeaderField)
         /\ Unique(new)
         /\ ToSet(new) = {g \in ToSet(list) : g.name # h.name} \cup {h}
<1>1. PICK old : old = http_header_list_remove(list, h.name)
  OBVIOUS
<1>2. /\ old \in Seq(HeaderField)
      /\ Unique(old)
      /\ ToSet(old) = {g \in ToSet(list) : g.name # h.name}
  BY <1>1, RemoveFacts
<1>3. new = Append(old, h)
  BY <1>1 DEF http_header_list_add
<1>4. \A g \in ToSet(old) : g.name # h.name
  BY <1>2
<1>5. new \in Seq(HeaderField) /\ Unique(new) /\ ToSet(new) = ToSet(old) \cup {h}
  BY <1>2, <1>3, <1>4, AppendFacts
<1> QED BY <1>2, <1>5

\* The first header of the name is found.
LEMMA GetFacts ==
  ASSUME NEW T, NEW list \in Seq(T), NEW name
  PROVE  IF \E i \in 1..Len(list) : list[i].name = name
         THEN \E i \in 1..Len(list) : /\ http_header_list_get(list, name) = list[i]
                                      /\ list[i].name = name
         ELSE http_header_list_get(list, name) = NULL
<1> DEFINE all == {i \in 1..Len(list) : list[i].name = name}
<1>1. Len(list) \in Nat /\ all \in SUBSET Nat
  OBVIOUS
<1>2. http_header_list_get(list, name) =
        IF all = {} THEN NULL ELSE list[CHOOSE i \in all : \A j \in all : i <= j]
  BY DEF http_header_list_get, http_header_list_getall
<1>3. ASSUME all # {} PROVE (CHOOSE i \in all : \A j \in all : i <= j) \in all
  <2> HIDE DEF all
  <2>0. all \subseteq Nat
    BY <1>1
  <2>1. PICK m \in all : \A y \in all : ~(<<y, m>> \in OpToRel(<, Nat))
    BY <2>0, <1>3, WFMin, NatLessThanWellFounded, Zenon
  <2>2. \A y \in all : m <= y
    <3>1. \A y \in all : ~(y < m)
      BY <2>0, <2>1 DEF OpToRel
    <3> QED BY <2>0, <3>1
  <2> QED BY <2>1, <2>2
<1> QED BY <1>2, <1>3

\* In a list without repetitions it is the only one.
LEMMA FoundFacts ==
  ASSUME NEW list \in Seq(HeaderField), Unique(list), NEW h \in ToSet(list)
  PROVE  http_header_list_get(list, h.name) = h
<1>1. PICK i \in 1..Len(list) : h = list[i]
  BY DEF ToSet
<1>2. PICK j \in 1..Len(list) : /\ http_header_list_get(list, h.name) = list[j]
                                /\ list[j].name = h.name
  BY <1>1, GetFacts
<1> QED BY <1>1, <1>2 DEF Unique
-----------------------------------------------------------------------------
(* The responses. *)

\* The list of one header.
LEMMA FirstFacts ==
  ASSUME NEW h \in HeaderField, NEW new, new = http_header_list_add(<<>>, h, FALSE)
  PROVE  new \in Seq(HeaderField) /\ Unique(new) /\ ToSet(new) = {h}
<1>1. <<>> \in Seq(HeaderField) /\ Unique(<<>>) /\ ToSet(<<>>) = {}
  BY DEF Unique, ToSet
<1> QED BY <1>1, AddFacts

\* A built-in page has a type and closes the connection.
LEMMA BuiltinFacts ==
  ASSUME NEW code \in Nat, NEW r, r = Closing(http_response_create_builtin(code))
  PROVE  /\ r \in Response /\ Unique(r.headers) /\ Closed(r)
         /\ r.version = "HTTP11" /\ r.code = code /\ r.body.of = NULL
<1> DEFINE plain == Header("Content-Type", "text/plain")
           markup == Header("Content-Type", "text/html")
           close == Header("Connection", "close")
<1>1. /\ plain \in HeaderField /\ plain.name = "Content-Type"
      /\ markup \in HeaderField /\ markup.name = "Content-Type"
      /\ close \in HeaderField /\ close.name = "Connection"
  BY DEF Header, HeaderField
<1> HIDE DEF plain, markup, close
<1>2. PICK one : one = http_header_list_add(<<>>, markup, FALSE)
  OBVIOUS
<1>3. one \in Seq(HeaderField) /\ Unique(one) /\ ToSet(one) = {markup}
  BY <1>1, <1>2, FirstFacts
<1>4. PICK two : two = http_header_list_add(one, plain, TRUE)
  OBVIOUS
<1>5. two \in Seq(HeaderField) /\ Unique(two) /\ ToSet(two) = {plain}
  <2>1. /\ two \in Seq(HeaderField) /\ Unique(two)
        /\ ToSet(two) = {g \in ToSet(one) : g.name # plain.name} \cup {plain}
    BY <1>1, <1>3, <1>4, ReplaceFacts
  <2> QED BY <1>1, <1>3, <2>1
<1>6. PICK typed : typed = IF "error.html" \in pages THEN one ELSE two
  OBVIOUS
<1>7. /\ typed \in Seq(HeaderField) /\ Unique(typed)
      /\ \A h \in ToSet(typed) : h.name # close.name
  BY <1>1, <1>3, <1>5, <1>6
<1>8. PICK all : all = http_header_list_add(typed, close, FALSE)
  OBVIOUS
<1>9. all \in Seq(HeaderField) /\ Unique(all) /\ close \in ToSet(all)
  <2>1. all \in Seq(HeaderField) /\ Unique(all) /\ ToSet(all) = ToSet(typed) \cup {close}
    BY <1>1, <1>7, <1>8, AddFacts
  <2> QED BY <2>1
<1>10. http_response_create_builtin(code) =
         [http_response_new(code) EXCEPT
             !.body = [type |-> "BODY_STRING", len |-> PageLen, of |-> NULL],
             !.headers = typed]
  BY <1>2, <1>4, <1>6, Zenon DEF http_response_create_builtin, plain, markup
<1>11. r = [[version |-> "HTTP11", code |-> code, headers |-> <<>>, body |-> NoBody] EXCEPT
              !.body = [type |-> "BODY_STRING", len |-> PageLen, of |-> NULL],
              !.headers = all]
  <2>1. PICK page : page = http_response_create_builtin(code)
    OBVIOUS
  <2>2. page = [[version |-> "HTTP11", code |-> code, headers |-> <<>>, body |-> NoBody] EXCEPT
                  !.body = [type |-> "BODY_STRING", len |-> PageLen, of |-> NULL],
                  !.headers = typed]
    BY <1>10, <2>1, Zenon DEF http_response_new
  <2>3. page.headers = typed
    BY <2>2
  <2>4. r = [page EXCEPT !.headers = all]
    BY <1>8, <2>1, <2>3, Zenon DEF Closing, close
  <2> QED BY <2>2, <2>4
<1>12. PageLen \in Nat
  BY BoundsAssumption
<1>13. r = [version |-> "HTTP11", code |-> code, headers |-> all,
            body |-> [type |-> "BODY_STRING", len |-> PageLen, of |-> NULL]]
  BY <1>11
<1> QED BY <1>9, <1>12, <1>13 DEF Response, Version, Body, Closed, close

\* What http_response_write adds: no header twice, none of those that were there lost but
\* the ones it replaces.
LEMMA CompletedFacts ==
  ASSUME NEW r \in Response, Unique(r.headers), NEW new, new = Completed(r)
  PROVE  /\ new \in Seq(HeaderField) /\ Unique(new)
         /\ Header("Content-Length", ContentLength(r)) \in ToSet(new)
         /\ Closed(r) => Header("Connection", "close") \in ToSet(new)
         /\ \A name \in Always : \E h \in ToSet(new) : h.name = name
<1> DEFINE length == Header("Content-Length", ContentLength(r))
           plain == Header("Content-Type", "text/plain")
           date == Header("Date", "now")
           server == Header("Server", "khttpd")
           close == Header("Connection", "close")
<1>1. r.headers \in Seq(HeaderField) /\ ContentLength(r) \in Nat
  BY BoundsAssumption DEF Response, Body, ContentLength
<1>2. /\ length \in HeaderField /\ length.name = "Content-Length"
      /\ plain \in HeaderField /\ plain.name = "Content-Type"
      /\ date \in HeaderField /\ date.name = "Date"
      /\ server \in HeaderField /\ server.name = "Server"
      /\ close.name = "Connection"
  BY <1>1 DEF Header, HeaderField
<1> HIDE DEF length, plain, date, server, close
<1>3. PICK sized : sized = http_header_list_add(r.headers, length, TRUE)
  OBVIOUS
<1>4. /\ sized \in Seq(HeaderField) /\ Unique(sized)
      /\ ToSet(sized) = {g \in ToSet(r.headers) : g.name # length.name} \cup {length}
  BY <1>1, <1>2, <1>3, ReplaceFacts
<1>5. PICK typed : typed = IF http_header_list_get(sized, "Content-Type") # NULL THEN sized
                           ELSE http_header_list_add(sized, plain, FALSE)
  OBVIOUS
<1>6. /\ typed \in Seq(HeaderField) /\ Unique(typed)
      /\ ToSet(sized) \subseteq ToSet(typed)
      /\ \E h \in ToSet(typed) : h.name = "Content-Type"
  <2>1. CASE \E i \in 1..Len(sized) : sized[i].name = "Content-Type"
    <3>1. PICK i \in 1..Len(sized) : /\ http_header_list_get(sized, "Content-Type") = sized[i]
                                     /\ sized[i].name = "Content-Type"
      BY <1>4, <2>1, GetFacts
    <3>2. sized[i] \in HeaderField /\ sized[i] \in ToSet(sized)
      BY <1>4 DEF ToSet
    <3>3. typed = sized
      BY <1>5, <3>1, <3>2, NullAssumption
    <3> QED BY <1>4, <3>1, <3>2, <3>3
  <2>2. CASE ~\E i \in 1..Len(sized) : sized[i].name = "Content-Type"
    <3>1. typed = http_header_list_add(sized, plain, FALSE)
      BY <1>4, <1>5, <2>2, GetFacts
    <3>2. \A g \in ToSet(sized) : g.name # plain.name
      BY <1>2, <1>4, <2>2 DEF ToSet
    <3>3. /\ typed \in Seq(HeaderField) /\ Unique(typed)
          /\ ToSet(typed) = ToSet(sized) \cup {plain}
      BY <1>2, <1>4, <3>1, <3>2, AddFacts
    <3> QED BY <1>2, <3>2, <3>3
  <2> QED BY <2>1, <2>2
<1>7. PICK dated : dated = http_header_list_add(typed, date, TRUE)
  OBVIOUS
<1>8. /\ dated \in Seq(HeaderField) /\ Unique(dated)
      /\ ToSet(dated) = {g \in ToSet(typed) : g.name # date.name} \cup {date}
  BY <1>2, <1>6, <1>7, ReplaceFacts
<1>9. new = http_header_list_add(dated, server, TRUE)
  BY <1>3, <1>5, <1>7 DEF Completed, length, plain, date, server
<1>10. /\ new \in Seq(HeaderField) /\ Unique(new)
       /\ ToSet(new) = {g \in ToSet(dated) : g.name # server.name} \cup {server}
  BY <1>2, <1>8, <1>9, ReplaceFacts
<1>11. ASSUME NEW g \in ToSet(typed), g.name # "Date", g.name # "Server" PROVE g \in ToSet(new)
  BY <1>2, <1>8, <1>10, <1>11
<1>12. length \in ToSet(new)
  BY <1>2, <1>4, <1>6, <1>11
<1>13. close \in ToSet(r.headers) => close \in ToSet(new)
  BY <1>2, <1>4, <1>6, <1>11
<1>14. \E h \in ToSet(new) : h.name = "Content-Type"
  BY <1>6, <1>11
<1>15. date \in ToSet(new) /\ server \in ToSet(new)
  BY <1>2, <1>8, <1>10
<1>16. \A name \in Always : \E h \in ToSet(new) : h.name = name
  BY <1>2, <1>12, <1>14, <1>15 DEF Always
<1> QED BY <1>10, <1>12, <1>13, <1>16 DEF Closed, length, close

MimeType == {"text/html", "text/plain"} \cup {MimeList[ext] : ext \in DOMAIN MimeList}

LEMMA MimeFacts ==
  ASSUME NEW p
  PROVE  mime_get_type(p) \in MimeType
<1>1. CASE Listed(p)
  BY <1>1 DEF mime_get_type, MimeType, Listed
<1>2. CASE ~Listed(p)
  BY <1>2 DEF mime_get_type, MimeType
<1> QED BY <1>1, <1>2

\* A response with an open file has a type, and the file for its body unless the method
\* is HEAD.
LEMMA OkFacts ==
  ASSUME NEW s \in Stream, NEW mime \in MimeType, request \in Requests, Ok(s, mime)
  PROVE  /\ response' \in Response /\ Unique(response'.headers)
         /\ response'.version = request.version /\ response'.code = 200
         /\ request.method = "HEAD" =>
              response'.body.type = "BODY_NONE" /\ response'.body.of = NULL
         /\ request.method # "HEAD" => response'.body.of = s
<1> DEFINE kind == Header("Content-Type", mime)
           close == Header("Connection", "close")
<1>1. /\ kind \in HeaderField /\ kind.name = "Content-Type"
      /\ close \in HeaderField /\ close.name = "Connection"
  BY DEF Header, HeaderField, MimeType
<1> HIDE DEF kind, close
<1>2. PICK typed : typed = http_header_list_add(<<>>, kind, FALSE)
  OBVIOUS
<1>3. typed \in Seq(HeaderField) /\ Unique(typed) /\ ToSet(typed) = {kind}
  BY <1>1, <1>2, FirstFacts
<1>4. PICK all : all = http_header_list_add(typed, close, FALSE)
  OBVIOUS
<1>5. all \in Seq(HeaderField) /\ Unique(all)
  <2>1. \A h \in ToSet(typed) : h.name # close.name
    BY <1>1, <1>3
  <2> QED BY <1>1, <1>3, <1>4, <2>1, AddFacts
<1>6. PICK body : body = BodyOf(s)
  OBVIOUS
<1>7. /\ body \in Body
      /\ request.method = "HEAD" => body.type = "BODY_NONE" /\ body.of = NULL
      /\ request.method # "HEAD" => body.of = s
  <2>1. s.len \in Nat
    BY DEF Stream
  <2>2. body = IF request.method = "HEAD"
               THEN [type |-> "BODY_NONE", len |-> 0, of |-> NULL]
               ELSE [type |-> "BODY_FILE", len |-> s.len, of |-> s]
    BY <1>6 DEF BodyOf, NoBody
  <2> QED BY <2>1, <2>2 DEF Body
<1>8. request.version \in Version
  BY RequestsAssumption DEF Request
<1>9. PICK r : r = [http_response_new(200) EXCEPT
                      !.version = request.version, !.headers = typed, !.body = body]
  OBVIOUS
<1>10. r = [version |-> request.version, code |-> 200, headers |-> typed, body |-> body]
  BY <1>9 DEF http_response_new
<1>11. response' = IF CloseConnection THEN Closing(r) ELSE r
  BY <1>2, <1>6, <1>9, Zenon DEF Ok, kind
<1>12. Closing(r) = [r EXCEPT !.headers = all]
  <2>1. r.headers = typed
    BY <1>10
  <2> QED BY <1>4, <2>1, Zenon DEF Closing, close
<1>13. response' \in {[version |-> request.version, code |-> 200, headers |-> h, body |-> body] :
                        h \in {typed, all}}
  BY <1>10, <1>11, <1>12
<1> QED BY <1>3, <1>5, <1>7, <1>8, <1>13 DEF Response
-----------------------------------------------------------------------------
(* The steps. *)

\* What does not depend on the files stays.
LEMMA InputsKept ==
  ASSUME request' = request, hosts' = hosts
  PROVE  /\ Host' = Host /\ HostFound' = HostFound
         /\ Search!Nameless(HostName)' <=> Search!Nameless(HostName)
         /\ Accepted' <=> Accepted
         /\ FieldText(request.uri, Url, "PATH")' = FieldText(request.uri, Url, "PATH")
<1>1. HostFound' = HostFound
  BY DEF HostFound, HostName, HostHeader, Search!GetHost, Search!Matches, Search!Visit,
         Search!Defaults
<1>nameless. Search!Nameless(HostName)' <=> Search!Nameless(HostName)
  BY DEF HostName, HostHeader, Search!Nameless, Search!Matches, Search!Visit
<1>2. Host' = Host
  BY <1>1 DEF Host
<1> QED BY <1>1, <1>2, <1>nameless DEF Accepted, NeedsHost, HostHeader, HasPath, ValidMethod, Url

\* While the files stay, so does the status that is called for.
LEMMA ExpectedKept ==
  ASSUME request' = request, hosts' = hosts, pages' = pages, fs' = fs
  PROVE  Expected' = Expected /\ TheFile' = TheFile
<1>1. /\ Host' = Host /\ HostFound' = HostFound
      /\ FieldText(request.uri, Url, "PATH")' = FieldText(request.uri, Url, "PATH")
  BY InputsKept
<1>2. TheFile' = TheFile
  BY <1>1 DEF TheFile
<1> QED BY <1>1, <1>2 DEF Expected, NeedsHost, HostHeader, HasPath, Url

\* Before the response there is nothing else to keep but the types.
LEMMA NotYet ==
  ASSUME IInv, response = NULL, response' = NULL, UNCHANGED <<inputs, fs, changes, head, streams>>,
         pc' \in {"realpath", "stat", "opendir", "listing", "fopen", "undefined"},
         StatusOK', DefinedUnless'
  PROVE  IInv'
<1>1. TypeOK'
  BY DEF IInv, TypeOK, inputs
<1>2. StageOK' /\ HeadOK'
  BY DEF IInv, StageOK, HeadOK
<1>3. StreamsOK' /\ ResponseOK'
  BY DEF IInv, StreamsOK, ResponseOK
<1> QED BY <1>1, <1>2, <1>3 DEF IInv

\* An error response.
LEMMA RespondOK ==
  ASSUME IInv, response = NULL, NEW code \in Nat, Respond(code), changes = 0 => code = Expected,
         UNCHANGED <<inputs, fs, changes, head, streams>>, pc # "written"
  PROVE  IInv'
<1>1. PICK r : r = Closing(http_response_create_builtin(code))
  OBVIOUS
<1>2. /\ r \in Response /\ Unique(r.headers) /\ Closed(r)
      /\ r.version = "HTTP11" /\ r.code = code /\ r.body.of = NULL
  BY <1>1, BuiltinFacts
<1>3. response' = r /\ pc' = "done" /\ r # NULL
  BY <1>1, <1>2, NullAssumption DEF Respond
<1>4. TypeOK'
  BY <1>2, <1>3 DEF IInv, TypeOK, inputs
<1>5. StageOK' /\ HeadOK' /\ DefinedUnless'
  BY <1>3 DEF IInv, StageOK, HeadOK, DefinedUnless
<1>6. StreamsOK'
  BY <1>2, <1>3 DEF IInv, StreamsOK
<1>7. ResponseOK'
  BY <1>2, <1>3 DEF ResponseOK
<1>8. StatusOK'
  <2>1. Expected' = Expected
    BY ExpectedKept DEF inputs
  <2> QED BY <1>2, <1>3, <2>1 DEF StatusOK
<1> QED BY <1>4, <1>5, <1>6, <1>7, <1>8 DEF IInv

\* A response from a file.
LEMMA OkOK ==
  ASSUME IInv, response = NULL, NEW s \in Stream, NEW mime \in MimeType, Ok(s, mime),
         changes = 0 => Expected = 200,
         UNCHANGED <<inputs, fs, changes, head>>, pc # "written"
  PROVE  IInv'
<1>1. request \in Requests
  BY DEF IInv, TypeOK
<1>2. PICK r : r = response'
  OBVIOUS
<1>3. /\ r \in Response /\ Unique(r.headers)
      /\ r.version = request.version /\ r.code = 200
      /\ request.method = "HEAD" => r.body.type = "BODY_NONE" /\ r.body.of = NULL
      /\ request.method # "HEAD" => r.body.of = s
  BY <1>1, <1>2, OkFacts
<1>4. pc' = "done" /\ r # NULL /\ s # NULL
  BY <1>3, NullAssumption DEF Ok
<1>5. TypeOK'
  BY <1>2, <1>3, <1>4 DEF IInv, TypeOK, inputs
<1>6. StageOK' /\ HeadOK' /\ DefinedUnless'
  BY <1>2, <1>4 DEF IInv, StageOK, HeadOK, DefinedUnless
<1>7. StreamsOK'
  <2>1. streams = {}
    BY DEF IInv, StreamsOK
  <2>2. streams' = IF request.method = "HEAD" THEN streams ELSE streams \cup {s}
    BY DEF Ok
  <2> QED BY <1>2, <1>3, <1>4, <2>1, <2>2 DEF StreamsOK
<1>8. ResponseOK'
  BY <1>2, <1>3 DEF ResponseOK, inputs
<1>9. StatusOK'
  <2>1. Expected' = Expected
    BY ExpectedKept DEF inputs
  <2> QED BY <1>2, <1>3, <1>4, <2>1 DEF StatusOK
<1> QED BY <1>5, <1>6, <1>7, <1>8, <1>9 DEF IInv

\* A step of the worker comes before the response.
LEMMA WorkerFacts ==
  ASSUME IInv, NEW here \in {"request", "realpath", "stat", "opendir", "listing", "fopen"},
         Worker(here)
  PROVE  /\ response = NULL /\ streams = {} /\ pc # "written" /\ pc = here
         /\ UNCHANGED <<inputs, fs, changes, head>>
BY DEF IInv, StageOK, StreamsOK, Worker

\* The search of a host compares the name with names only.
Valueless == request.version = "HTTP11" /\ HostHeader.content = NULL
Named == ~Valueless /\ ~Search!Nameless(HostName)

LEMMA AcceptOK ==
  ASSUME IInv, AcceptRequest
  PROVE  IInv'
<1>1. /\ response = NULL /\ streams = {} /\ pc # "written"
      /\ UNCHANGED <<inputs, fs, changes, head, streams>>
  BY WorkerFacts DEF AcceptRequest
<1>2. CASE NeedsHost
  <2>1. Respond(400) /\ (changes = 0 => 400 = Expected)
    BY <1>2 DEF AcceptRequest, Expected
  <2> QED BY <1>1, <2>1, RespondOK
<1>3. CASE ~NeedsHost /\ request.version = "HTTP11" /\ HostHeader.content = NULL
  <2>1. Undefined
    BY <1>3 DEF AcceptRequest
  <2>2. pc' = "undefined" /\ response' = NULL
    BY <1>1, <2>1 DEF Undefined
  <2>3. \E i \in 1..Len(request.headers) : /\ request.headers[i].name \in {"Host", "Connection"}
                                          /\ request.headers[i].content = NULL
    <3>1. HostHeader # NULL
      BY <1>3 DEF NeedsHost
    <3>2. request.headers \in Seq([name : STRING, content : STRING \cup {NULL}])
      BY RequestsAssumption DEF IInv, TypeOK, Request
    <3>3. PICK i \in 1..Len(request.headers) : /\ HostHeader = request.headers[i]
                                               /\ request.headers[i].name = "Host"
      BY <3>1, <3>2, GetFacts DEF HostHeader
    <3> QED BY <1>3, <3>3
  <2>4. DefinedUnless'
    BY <1>1, <2>3 DEF DefinedUnless, inputs
  <2>5. StatusOK'
    BY <2>2 DEF StatusOK
  <2> QED BY <1>1, <2>2, <2>4, <2>5, NotYet
<1>nameless. CASE ~NeedsHost /\ ~Valueless /\ Search!Nameless(HostName)
  <2>1. Undefined
    BY <1>nameless DEF AcceptRequest, Valueless
  <2>2. pc' = "undefined" /\ response' = NULL
    BY <1>1, <2>1 DEF Undefined
  <2>3. Search!Nameless(HostName)'
    BY <1>1, <1>nameless, InputsKept DEF inputs
  <2>4. DefinedUnless'
    BY <2>3 DEF DefinedUnless
  <2>5. StatusOK'
    BY <2>2 DEF StatusOK
  <2> QED BY <1>1, <2>2, <2>4, <2>5, NotYet
<1>4. CASE /\ ~NeedsHost /\ Named /\ HostFound = 0
  <2>1. Respond(500) /\ (changes = 0 => 500 = Expected)
    BY <1>4 DEF AcceptRequest, Named, Valueless, Expected
  <2> QED BY <1>1, <2>1, RespondOK
<1>5. CASE /\ ~NeedsHost /\ Named /\ HostFound # 0 /\ ~ValidMethod
  <2>1. Respond(411) /\ (changes = 0 => 411 = Expected)
    BY <1>5 DEF AcceptRequest, Expected, ValidMethod, Named, Valueless
  <2> QED BY <1>1, <2>1, RespondOK
<1>6. CASE /\ ~NeedsHost /\ Named /\ HostFound # 0 /\ ValidMethod /\ ~HasPath
  <2>1. Respond(400)
    BY <1>6 DEF AcceptRequest, Named, Valueless
  <2>2. 400 = Expected
    BY <1>6 DEF Expected, ValidMethod
  <2> QED BY <1>1, <2>1, <2>2, RespondOK
<1>7. CASE /\ ~NeedsHost /\ Named /\ HostFound # 0 /\ ValidMethod /\ HasPath /\ Host.serve_dir = NULL
  <2>1. Undefined
    BY <1>7 DEF AcceptRequest, Named, Valueless
  <2>2. pc' = "undefined" /\ response' = NULL
    BY <1>1, <2>1 DEF Undefined
  <2>3. Host' = Host
    BY <1>1, InputsKept DEF inputs
  <2>4. DefinedUnless'
    BY <1>7, <2>3 DEF DefinedUnless
  <2>5. StatusOK'
    BY <2>2 DEF StatusOK
  <2> QED BY <1>1, <2>2, <2>4, <2>5, NotYet
<1>8. CASE /\ ~NeedsHost /\ Named /\ HostFound # 0 /\ ValidMethod /\ HasPath /\ Host.serve_dir # NULL
  <2>1. /\ path' = Host.serve_dir \o FieldText(request.uri, Url, "PATH")
        /\ pc' = "realpath" /\ response' = NULL
    BY <1>1, <1>8 DEF AcceptRequest, Named, Valueless
  <2>2. /\ Host' = Host
        /\ Accepted' <=> Accepted
        /\ FieldText(request.uri, Url, "PATH")' = FieldText(request.uri, Url, "PATH")
    BY <1>1, InputsKept DEF inputs
  <2>3. Accepted
    BY <1>8 DEF Accepted
  <2>4. StatusOK'
    BY <2>1, <2>2, <2>3 DEF StatusOK
  <2>5. DefinedUnless'
    BY <2>1 DEF DefinedUnless
  <2> QED BY <1>1, <2>1, <2>4, <2>5, NotYet
<1> QED BY <1>2, <1>3, <1>nameless, <1>4, <1>5, <1>6, <1>7, <1>8 DEF Valueless, Named

\* The status of a request that was accepted depends on its file.
LEMMA ExpectedFile ==
  ASSUME Accepted
  PROVE  Expected =
           IF TheFile = NULL \/ ~StartsWith(TheFile, Host.serve_dir) THEN 404
           ELSE IF Is(fs, TheFile, "reg") THEN 200
           ELSE IF IndexFiles(fs, TheFile) # {} THEN 200
           ELSE IF ~Host.dir_listings THEN 403
           ELSE IF "dirindex.html" \in pages THEN 200 ELSE 500
BY DEF Accepted, Expected, ValidMethod, IndexFiles

LEMMA ResolveOK ==
  ASSUME IInv, ResolveFile
  PROVE  IInv'
<1>1. /\ response = NULL /\ streams = {} /\ pc # "written" /\ pc = "realpath"
      /\ UNCHANGED <<inputs, fs, changes, head, streams>>
  BY WorkerFacts DEF ResolveFile
<1>2. PICK actual : actual = realpath(fs, path)
  OBVIOUS
<1>3. changes = 0 => Accepted /\ actual = TheFile
  BY <1>1, <1>2 DEF IInv, StatusOK, TheFile
<1>4. CASE actual = NULL \/ ~StartsWith(actual, Host.serve_dir)
  <2>1. Respond(404)
    BY <1>2, <1>4 DEF ResolveFile
  <2>2. changes = 0 => 404 = Expected
    BY <1>3, <1>4, ExpectedFile
  <2> QED BY <1>1, <2>1, <2>2, RespondOK
<1>5. CASE ~(actual = NULL \/ ~StartsWith(actual, Host.serve_dir))
  <2>1. path' = actual /\ pc' = "stat" /\ response' = NULL
    BY <1>1, <1>2, <1>5 DEF ResolveFile
  <2>2. Host' = Host /\ (Accepted' <=> Accepted) /\ TheFile' = TheFile
    BY <1>1, InputsKept, ExpectedKept DEF inputs
  <2>3. StatusOK'
    BY <1>1, <1>3, <1>5, <2>1, <2>2 DEF StatusOK, Located
  <2>4. DefinedUnless'
    BY <2>1 DEF DefinedUnless
  <2> QED BY <1>1, <2>1, <2>3, <2>4, NotYet
<1> QED BY <1>4, <1>5

\* What realpath has returned exists.
LEMMA LocatedFacts ==
  ASSUME Located
  PROVE  Exists(fs, path)
BY DEF Located, TheFile, realpath

LEMMA StatOK ==
  ASSUME IInv, Stat
  PROVE  IInv'
<1>1. /\ response = NULL /\ streams = {} /\ pc # "written" /\ pc = "stat"
      /\ UNCHANGED <<inputs, fs, changes, head>>
  BY WorkerFacts DEF Stat
<1>2. changes = 0 => Accepted /\ Located
  BY <1>1 DEF IInv, StatusOK
<1>3. Host' = Host /\ (Accepted' <=> Accepted) /\ TheFile' = TheFile /\ Expected' = Expected
  BY <1>1, InputsKept, ExpectedKept DEF inputs
<1>4. CASE ~Exists(fs, path)
  <2>1. Respond(404) /\ UNCHANGED streams
    BY <1>4 DEF Stat, Is
  <2>2. changes = 0 => 404 = Expected
    BY <1>2, <1>4, LocatedFacts
  <2> QED BY <1>1, <2>1, <2>2, RespondOK
<1>5. CASE Is(fs, path, "dir")
  <2>1. pc' = "opendir" /\ path' = path /\ streams' = streams /\ response' = NULL
    BY <1>1, <1>5 DEF Stat, Is
  <2>2. Is(fs, path, "dir")'
    BY <1>1, <1>5, <2>1
  <2>3. StatusOK'
    BY <1>1, <1>2, <1>3, <2>1, <2>2 DEF StatusOK, Located
  <2>4. DefinedUnless'
    BY <2>1 DEF DefinedUnless
  <2> QED BY <1>1, <2>1, <2>3, <2>4, NotYet
<1>6. CASE Is(fs, path, "reg")
  <2>1. pc' = "fopen" /\ path' = path /\ streams' = streams /\ response' = NULL
    BY <1>1, <1>6 DEF Stat, Is
  <2>2. Exists(fs, path)'
    BY <1>1, <1>6, <2>1 DEF Is
  <2>3. changes = 0 => Expected = 200
    BY <1>2, <1>6, ExpectedFile DEF Located
  <2>4. StatusOK'
    BY <1>1, <1>3, <2>1, <2>2, <2>3 DEF StatusOK
  <2>5. DefinedUnless'
    BY <2>1 DEF DefinedUnless
  <2> QED BY <1>1, <2>1, <2>4, <2>5, NotYet
<1>7. CASE Is(fs, path, "other")
  <2>1. Undefined
    BY <1>7 DEF Stat, Is
  <2>2. pc' = "undefined" /\ path' = path /\ streams' = streams /\ response' = NULL
    BY <1>1, <2>1 DEF Undefined
  <2>3. DefinedUnless'
    BY <1>1, <1>7, <2>2 DEF DefinedUnless
  <2>4. StatusOK'
    BY <2>2 DEF StatusOK
  <2> QED BY <1>1, <2>2, <2>3, <2>4, NotYet
<1>8. Exists(fs, path) => Is(fs, path, "dir") \/ Is(fs, path, "reg") \/ Is(fs, path, "other")
  BY DEF IInv, TypeOK, Node, Exists, Is
<1> QED BY <1>4, <1>5, <1>6, <1>7, <1>8

\* A file found in a directory has that directory's name, a slash and its own.
LEMMA IndexFacts ==
  ASSUME TypeOK, NEW e \in IndexFiles(fs, path)
  PROVE  Exists(fs, path \o "/" \o e)
<1>1. PICK q \in DOMAIN fs : Exists(fs, q) /\ Dirname(q) = path /\ e = Basename(q)
  BY DEF IndexFiles, Entries
<1>2. path \o "/" \o e = q
  BY <1>1 DEF TypeOK
<1> QED BY <1>1, <1>2

LEMMA FindOK ==
  ASSUME IInv, FindIndex
  PROVE  IInv'
<1>1. /\ response = NULL /\ streams = {} /\ pc # "written" /\ pc = "opendir"
      /\ UNCHANGED <<inputs, fs, changes, head, streams>>
  BY WorkerFacts DEF FindIndex
<1>2. changes = 0 => Accepted /\ Located /\ Is(fs, path, "dir") /\ ~Is(fs, path, "reg")
  BY <1>1 DEF IInv, StatusOK, Is
<1>3. Host' = Host /\ (Accepted' <=> Accepted) /\ TheFile' = TheFile /\ Expected' = Expected
  BY <1>1, InputsKept, ExpectedKept DEF inputs
<1>4. PICK found : found = IF Is(fs, path, "dir") THEN IndexFiles(fs, path) ELSE {}
  OBVIOUS
<1>5. \/ \E e \in found : path' = path \o "/" \o e /\ pc' = "fopen" /\ UNCHANGED response
      \/ found = {} /\ Host.dir_listings /\ pc' = "listing" /\ UNCHANGED <<path, response>>
      \/ found = {} /\ ~Host.dir_listings /\ Respond(403) /\ UNCHANGED path
  BY <1>4, Zenon DEF FindIndex
<1>6. ASSUME NEW e \in found, path' = path \o "/" \o e, pc' = "fopen", response' = response
      PROVE  IInv'
  <2>1. e \in IndexFiles(fs, path)
    BY <1>4
  <2>2. Exists(fs, path \o "/" \o e)
    BY <2>1, IndexFacts DEF IInv
  <2>3. Exists(fs, path)'
    BY <1>1, <1>6, <2>2 DEF Exists
  <2>4. changes = 0 => Expected = 200
    BY <1>2, <2>1, ExpectedFile DEF Located
  <2>5. StatusOK'
    BY <1>1, <1>3, <1>6, <2>3, <2>4 DEF StatusOK
  <2>6. DefinedUnless'
    BY <1>6 DEF DefinedUnless
  <2> QED BY <1>1, <1>6, <2>5, <2>6, NotYet
<1>7. CASE found = {} /\ Host.dir_listings /\ pc' = "listing" /\ UNCHANGED <<path, response>>
  <2>1. changes = 0 => IndexFiles(fs, path) = {}
    BY <1>2, <1>4, <1>7
  <2>2. IndexFiles(fs, path)' = IndexFiles(fs, path) /\ (Is(fs, path, "dir")' <=> Is(fs, path, "dir"))
    BY <1>1, <1>3, <1>7 DEF IndexFiles
  <2>3. StatusOK'
    BY <1>1, <1>2, <1>3, <1>7, <2>1, <2>2 DEF StatusOK, Located
  <2>4. DefinedUnless'
    BY <1>7 DEF DefinedUnless
  <2> QED BY <1>1, <1>7, <2>3, <2>4, NotYet
<1>8. CASE found = {} /\ ~Host.dir_listings /\ Respond(403)
  <2>1. changes = 0 => 403 = Expected
    BY <1>2, <1>4, <1>8, ExpectedFile DEF Located
  <2> QED BY <1>1, <1>8, <2>1, RespondOK
<1> QED BY <1>5, <1>6, <1>7, <1>8

\* A Connection header without a value is one of the request's headers.
LEMMA NoValueFacts ==
  ASSUME request \in Requests, NoConnectionValue
  PROVE  \E i \in 1..Len(request.headers) : /\ request.headers[i].name \in {"Host", "Connection"}
                                           /\ request.headers[i].content = NULL
<1>1. request.headers \in Seq([name : STRING, content : STRING \cup {NULL}])
  BY RequestsAssumption DEF Request
<1>2. PICK c : c = http_header_list_get(request.headers, "Connection")
  OBVIOUS
<1>3. c # NULL /\ c.content = NULL
  BY <1>2 DEF NoConnectionValue
<1>4. PICK i \in 1..Len(request.headers) : /\ c = request.headers[i]
                                           /\ request.headers[i].name = "Connection"
  BY <1>1, <1>2, <1>3, GetFacts
<1> QED BY <1>3, <1>4

\* Undefined behaviour for want of such a value, of a temporary file, or of the type from libmagic.
LEMMA NoResponseOK ==
  ASSUME IInv, response = NULL, pc' = "undefined",
         NoConnectionValue \/ (Is(fs, path, "dir") /\ ~libs.tmpfile)
                           \/ (Exists(fs, path) /\ Dangling(path)),
         UNCHANGED <<inputs, fs, changes, head, path, streams, response>>
  PROVE  IInv'
<1>1. DefinedUnless'
  <2>1. CASE NoConnectionValue
    <3>1. \E i \in 1..Len(request.headers) : /\ request.headers[i].name \in {"Host", "Connection"}
                                            /\ request.headers[i].content = NULL
      BY <2>1, NoValueFacts DEF IInv, TypeOK
    <3> QED BY <3>1 DEF DefinedUnless, inputs
  <2>2. CASE Is(fs, path, "dir") /\ ~libs.tmpfile
    BY <2>2 DEF DefinedUnless, inputs
  <2>3. CASE Exists(fs, path) /\ Dangling(path)
    BY <2>3 DEF DefinedUnless, Dangling, inputs
  <2> QED BY <2>1, <2>2, <2>3
<1>2. StatusOK'
  BY DEF StatusOK
<1> QED BY <1>1, <1>2, NotYet

LEMMA ListingOK ==
  ASSUME IInv, GenerateListing
  PROVE  IInv'
<1>1. /\ response = NULL /\ streams = {} /\ pc # "written" /\ pc = "listing"
      /\ UNCHANGED <<inputs, fs, changes, head>>
  BY WorkerFacts DEF GenerateListing
<1>2. changes = 0 => Expected = IF "dirindex.html" \in pages THEN 200 ELSE 500
  <2> SUFFICES ASSUME changes = 0
               PROVE  Expected = IF "dirindex.html" \in pages THEN 200 ELSE 500
    OBVIOUS
  <2>1. /\ Accepted /\ Located /\ Is(fs, path, "dir") /\ ~Is(fs, path, "reg")
        /\ IndexFiles(fs, path) = {} /\ Host.dir_listings
    BY <1>1 DEF IInv, StatusOK, Is
  <2> QED BY <2>1, ExpectedFile DEF Located
<1>3. changes = 0 => Is(fs, path, "dir")
  BY <1>1 DEF IInv, StatusOK
<1>4. CASE Is(fs, path, "dir") /\ "dirindex.html" \in pages
              /\ (~libs.tmpfile \/ NoConnectionValue)
  <2>1. pc' = "undefined" /\ UNCHANGED <<path, streams, response>>
    BY <1>4 DEF GenerateListing
  <2> QED BY <1>1, <1>4, <2>1, NoResponseOK
<1>5. CASE Is(fs, path, "dir") /\ "dirindex.html" \in pages
              /\ ~(~libs.tmpfile \/ NoConnectionValue)
  <2>1. PICK s : s = [kind |-> "temporary", path |-> NULL, len |-> PageLen]
    OBVIOUS
  <2>2. s \in Stream
    <3>1. PageLen \in Nat
      BY BoundsAssumption
    <3> QED BY <2>1, <3>1 DEF Stream
  <2>3. Ok(s, "text/html")
    BY <1>5, <2>1, Zenon DEF GenerateListing
  <2>4. "text/html" \in MimeType
    BY DEF MimeType
  <2> QED BY <1>1, <1>2, <1>5, <2>2, <2>3, <2>4, OkOK
<1>6. CASE ~(Is(fs, path, "dir") /\ "dirindex.html" \in pages)
  <2>1. Respond(500) /\ UNCHANGED streams
    BY <1>6 DEF GenerateListing
  <2>2. changes = 0 => 500 = Expected
    BY <1>2, <1>3, <1>6
  <2> QED BY <1>1, <2>1, <2>2, RespondOK
<1> QED BY <1>4, <1>5, <1>6

LEMMA OpenOK ==
  ASSUME IInv, OpenFile
  PROVE  IInv'
<1>1. /\ response = NULL /\ streams = {} /\ pc # "written" /\ pc = "fopen"
      /\ UNCHANGED <<inputs, fs, changes, head>>
  BY WorkerFacts DEF OpenFile
<1>2. changes = 0 => Exists(fs, path) /\ Expected = 200
  BY <1>1 DEF IInv, StatusOK
<1>3. CASE ~Exists(fs, path)
  <2>1. Respond(404) /\ UNCHANGED streams
    BY <1>3 DEF OpenFile
  <2> QED BY <1>1, <1>2, <1>3, <2>1, RespondOK
<1>4. CASE Exists(fs, path) /\ (Dangling(path) \/ NoConnectionValue)
  <2>1. pc' = "undefined" /\ UNCHANGED <<path, streams, response>>
    BY <1>4 DEF OpenFile
  <2> QED BY <1>1, <1>4, <2>1, NoResponseOK
<1>5. CASE Exists(fs, path) /\ ~(Dangling(path) \/ NoConnectionValue)
  <2>1. PICK s : s = [kind |-> fs[path].kind, path |-> path, len |-> fs[path].len]
    OBVIOUS
  <2>2. s \in Stream
    <3>1. PICK tree \in Trees : fs \in [DOMAIN tree -> Node]
      BY DEF IInv, TypeOK
    <3>2. path \in DOMAIN tree /\ fs[path] \in Node /\ fs[path].kind # "absent"
      BY <1>5, <3>1 DEF Exists
    <3>3. path \in UNION {DOMAIN t : t \in Trees}
      BY <3>1, <3>2
    <3> QED BY <2>1, <3>2, <3>3 DEF Stream, Node
  <2>3. PICK mime : mime = mime_get_type(path)
    OBVIOUS
  <2>4. mime \in MimeType
    BY <2>3, MimeFacts
  <2>5. Ok(s, mime)
    BY <1>5, <2>1, <2>3, Zenon DEF OpenFile
  <2> QED BY <1>1, <1>2, <2>2, <2>4, <2>5, OkOK
<1> QED BY <1>3, <1>4, <1>5

LEMMA WriteOK ==
  ASSUME IInv, WriteHead
  PROVE  IInv'
<1>1. PICK r : r = response
  OBVIOUS
<1>2. PICK all : all = Completed(r)
  OBVIOUS
<1>3. /\ pc = "done" /\ pc' = "written"
      /\ response' = [r EXCEPT !.headers = all]
      /\ head' = [version |-> IF r.version = "HTTPXX" THEN NULL ELSE r.version,
                  code |-> r.code, headers |-> all]
      /\ UNCHANGED <<inputs, fs, changes, path, streams>>
  BY <1>1, <1>2, Zenon DEF WriteHead
<1>4. r \in Response /\ r # NULL /\ Unique(r.headers)
  BY <1>1, <1>3 DEF IInv, StageOK, TypeOK, ResponseOK
<1>5. /\ all \in Seq(HeaderField) /\ Unique(all)
      /\ Header("Content-Length", ContentLength(r)) \in ToSet(all)
      /\ Closed(r) => Header("Connection", "close") \in ToSet(all)
      /\ \A name \in Always : \E h \in ToSet(all) : h.name = name
  BY <1>2, <1>4, CompletedFacts
<1>6. PICK new : new = response'
  OBVIOUS
<1>7. /\ new \in Response /\ new # NULL
      /\ new.headers = all /\ new.body = r.body /\ new.version = r.version /\ new.code = r.code
  BY <1>3, <1>4, <1>5, <1>6, NullAssumption DEF Response
<1>8. ContentLength(new) = ContentLength(r)
  BY <1>7 DEF ContentLength
<1>9. TypeOK'
  BY <1>3, <1>6, <1>7 DEF IInv, TypeOK, inputs
<1>10. StageOK' /\ DefinedUnless'
  BY <1>3, <1>6, <1>7 DEF StageOK, DefinedUnless
<1>11. StreamsOK'
  BY <1>1, <1>3, <1>4, <1>6, <1>7 DEF IInv, StreamsOK
<1>12. ResponseOK'
  BY <1>1, <1>3, <1>4, <1>5, <1>6, <1>7 DEF IInv, ResponseOK, Closed, inputs
<1>13. HeadOK'
  <2>1. /\ head'.headers = all /\ head'.code = r.code
        /\ head'.version = IF r.version = "HTTPXX" THEN NULL ELSE r.version
    BY <1>3
  <2>2. Sized(new)
    BY <1>5, <1>7, <1>8 DEF Sized
  <2> QED BY <1>5, <1>6, <1>7, <2>1, <2>2 DEF HeadOK, Sized, Always
<1>14. StatusOK'
  <2>1. Expected' = Expected
    BY <1>3, ExpectedKept DEF inputs
  <2> QED BY <1>1, <1>3, <1>4, <1>6, <1>7, <2>1 DEF IInv, StatusOK
<1> QED BY <1>9, <1>10, <1>11, <1>12, <1>13, <1>14 DEF IInv

LEMMA ChangeOK ==
  ASSUME IInv, ChangeFile
  PROVE  IInv'
<1>1. /\ pc \in {"stat", "opendir", "listing", "fopen"}
      /\ changes' = changes + 1
      /\ UNCHANGED <<inputs, pc, path, streams, response, head>>
  BY DEF ChangeFile
<1>2. changes \in Nat
  BY DEF IInv, TypeOK
<1>3. TypeOK'
  <2>1. PICK p \in DOMAIN fs, kind \in {"absent", "reg", "dir"} : fs' = [fs EXCEPT ![p].kind = kind]
    BY DEF ChangeFile
  <2>2. PICK tree \in Trees : fs \in [DOMAIN tree -> Node]
    BY DEF IInv, TypeOK
  <2>3. fs' \in [DOMAIN tree -> Node]
    BY <2>1, <2>2 DEF Node
  <2>4. DOMAIN fs' = DOMAIN fs
    BY <2>2, <2>3
  <2> QED BY <1>1, <1>2, <2>3, <2>4 DEF IInv, TypeOK, inputs
<1>4. StageOK' /\ StreamsOK' /\ HeadOK'
  BY <1>1 DEF IInv, StageOK, StreamsOK, HeadOK
<1>5. ResponseOK'
  BY <1>1 DEF IInv, ResponseOK, inputs
<1>6. StatusOK'
  <2>1. changes' # 0
    BY <1>1, <1>2
  <2> QED BY <2>1 DEF StatusOK
<1>7. DefinedUnless'
  BY <1>1 DEF DefinedUnless
<1> QED BY <1>3, <1>4, <1>5, <1>6, <1>7 DEF IInv
-----------------------------------------------------------------------------
LEMMA InitOK == Init => IInv
<1> SUFFICES ASSUME Init PROVE IInv
  OBVIOUS
<1>1. TypeOK
  BY TreesAssumption DEF Init, TypeOK
<1>2. StageOK /\ StreamsOK /\ ResponseOK /\ HeadOK /\ StatusOK /\ DefinedUnless
  BY DEF Init, StageOK, StreamsOK, ResponseOK, HeadOK, StatusOK, DefinedUnless
<1> QED BY <1>1, <1>2 DEF IInv

LEMMA StepOK == IInv /\ [Next]_vars => IInv'
<1> SUFFICES ASSUME IInv, [Next]_vars PROVE IInv'
  OBVIOUS
<1>1. CASE Next
  BY <1>1, AcceptOK, ResolveOK, StatOK, FindOK, ListingOK, OpenOK, WriteOK, ChangeOK DEF Next
<1>2. CASE UNCHANGED vars
  <2>1. UNCHANGED <<request, hosts, pages, libs, fs, changes, pc, path, streams, response, head>>
    BY <1>2 DEF vars
  <2>2. /\ Host' = Host /\ (Accepted' <=> Accepted)
        /\ Search!Nameless(HostName)' <=> Search!Nameless(HostName)
        /\ FieldText(request.uri, Url, "PATH")' = FieldText(request.uri, Url, "PATH")
        /\ Expected' = Expected /\ TheFile' = TheFile
    BY <2>1, InputsKept, ExpectedKept
  <2>3. TypeOK' /\ StageOK' /\ StreamsOK' /\ ResponseOK' /\ HeadOK'
    BY <2>1 DEF IInv, TypeOK, StageOK, StreamsOK, ResponseOK, HeadOK, Closed, Sized
  <2>4. DefinedUnless'
    BY <2>1, <2>2 DEF IInv, DefinedUnless, Dangling
  <2>5. IndexFiles(fs, path)' = IndexFiles(fs, path)
    BY <2>1, <2>2 DEF IndexFiles
  <2>6. StatusOK'
    BY <2>1, <2>2, <2>5 DEF IInv, StatusOK, Located
  <2> QED BY <2>3, <2>4, <2>6 DEF IInv
<1> QED BY <1>1, <1>2

\* The inductive invariant of server_process_request.
THEOREM InvCorrect == Spec => []IInv
<1> QED BY InitOK, StepOK, PTL DEF Spec

\* While no file changes, server_process_request answers every request with the status that the
\* request, its host and its file call for.
THEOREM StatusCorrect == Spec => []StatusRight
<1>1. IInv => StatusRight
  BY DEF IInv, StatusOK, StatusRight
<1> QED BY <1>1, InvCorrect, PTL

\* The worker leaves no file open but that of the response's body, however it ends and whatever
\* happens to the files meanwhile.
THEOREM HandlesCorrect == Spec => []HandlesOwned
<1>1. IInv => HandlesOwned
  BY DEF IInv, StreamsOK, HandlesOwned
<1> QED BY <1>1, InvCorrect, PTL

\* Where the modelled calls of server_process_request leave its behaviour undefined, it is for
\* want of a header's value, a host's name or directory, a regular file or a temporary one, or for
\* a type that libmagic has freed.
THEOREM DefinedCorrect == Spec => []DefinedUnless
<1>1. IInv => DefinedUnless
  BY DEF IInv
<1> QED BY <1>1, InvCorrect, PTL

\* What has been written, after http_response_write.
LEMMA WrittenFacts ==
  ASSUME IInv, head # NULL
  PROVE  /\ pc = "written" /\ response \in Response
         /\ head.headers \in Seq(HeaderField) /\ Unique(head.headers)
         /\ head.headers = response.headers
BY DEF IInv, TypeOK, StageOK, HeadOK, ResponseOK, Response

\* http_response_write puts out no header twice and all that it should.
THEOREM CompleteCorrect == Spec => []HeadComplete
<1>1. IInv => HeadComplete
  <2> SUFFICES ASSUME IInv, head # NULL
               PROVE  /\ \A i, j \in 1..Len(head.headers) :
                            head.headers[i].name = head.headers[j].name => i = j
                      /\ \A n \in Always : http_header_list_get(head.headers, n) # NULL
                      /\ head.version = NULL => request.version = "HTTPXX" /\ head.code = 200
    BY DEF HeadComplete, Always
  <2>1. /\ pc = "written" /\ response \in Response
        /\ head.headers \in Seq(HeaderField) /\ Unique(head.headers)
        /\ head.headers = response.headers
    BY WrittenFacts
  <2>2. ASSUME NEW n \in Always PROVE http_header_list_get(head.headers, n) # NULL
    <3>1. PICK h \in ToSet(head.headers) : h.name = n
      BY <2>1 DEF IInv, HeadOK
    <3>2. h \in HeaderField
      BY <2>1 DEF ToSet
    <3>3. http_header_list_get(head.headers, n) = h
      BY <2>1, <3>1, FoundFacts
    <3> QED BY <3>2, <3>3, NullAssumption
  <2>3. ASSUME head.version = NULL PROVE request.version = "HTTPXX" /\ head.code = 200
    <3>1. response.version \in Version /\ response # NULL
      BY <2>1, NullAssumption DEF Response
    <3>2. response.version = "HTTPXX" /\ head.code = response.code
      BY <2>1, <2>3, <3>1, NullAssumption DEF IInv, HeadOK
    <3> QED BY <3>1, <3>2 DEF IInv, ResponseOK
  <2> QED BY <2>1, <2>2, <2>3 DEF Unique
<1> QED BY <1>1, InvCorrect, PTL

\* The client finds the end of every response: by its announced length, by the method HEAD, or
\* because the connection closes.
THEOREM FramedCorrect == Spec => []Framed
<1>1. IInv => Framed
  <2> SUFFICES ASSUME IInv, head # NULL
               PROVE  /\ response.body.len < WIDTH =>
                           http_header_list_get(head.headers, "Content-Length").content
                             = response.body.len
                      /\ request.method = "HEAD" => response.body.type = "BODY_NONE" \/ Closes
    BY DEF Framed
  <2>1. /\ pc = "written" /\ response \in Response /\ response # NULL
        /\ head.headers \in Seq(HeaderField) /\ Unique(head.headers)
        /\ head.headers = response.headers
    BY WrittenFacts, NullAssumption
  <2>2. ASSUME response.body.len < WIDTH
        PROVE  http_header_list_get(head.headers, "Content-Length").content = response.body.len
    <3>1. PICK h : h = Header("Content-Length", ContentLength(response))
      OBVIOUS
    <3>2. h \in ToSet(head.headers) /\ h.name = "Content-Length"
      BY <2>1, <3>1 DEF IInv, HeadOK, Sized, Header
    <3>3. http_header_list_get(head.headers, "Content-Length") = h
      BY <2>1, <3>2, FoundFacts
    <3>4. response.body.len % WIDTH = response.body.len
      BY <2>1, <2>2, BoundsAssumption DEF Response, Body
    <3> QED BY <3>1, <3>3, <3>4 DEF Header, ContentLength
  <2>3. ASSUME request.method = "HEAD", response.body.type # "BODY_NONE"
        PROVE  Closes
    <3>1. PICK h : h = Header("Connection", "close")
      OBVIOUS
    <3>2. h \in ToSet(head.headers) /\ h.name = "Connection" /\ h.content = "close"
      BY <2>1, <2>3, <3>1 DEF IInv, ResponseOK, Closed, Header
    <3>3. http_header_list_get(head.headers, "Connection") = h
      BY <2>1, <3>2, FoundFacts
    <3>4. h # NULL
      BY <2>1, <3>2, NullAssumption DEF ToSet
    <3>5. strcasecmp("close", "close")
      BY Zenon DEF strcasecmp
    <3> QED BY <3>2, <3>3, <3>4, <3>5 DEF Closes
  <2> QED BY <2>2, <2>3
<1> QED BY <1>1, InvCorrect, PTL
=============================================================================

---------------------------- MODULE ServerLoopProofs ---------------------------
(***************************************************************************)
(* Proofs about the event loop and the handlers as ServerLoop models them, *)
(* for any number of connections and pool threads and any scenario: the    *)
(* types, the connection's lock, the header block that a handler leaves    *)
(* behind, and the connections that the readers use.                       *)
(***************************************************************************)
EXTENDS ServerLoop, FiniteSetTheorems, SequenceTheorems, NaturalsInduction,
        WellFoundedInduction, TLAPS

PoolName == {"READ", "WRITE", "WORKER"}
QueueItem == [conn : Conn, blocked : BOOLEAN]
Event == [conn : Conn \cup {None}, flags : SUBSET {"IN", "OUT", "RDHUP", "ERR"}]
Reply == [kind : {"ok", "error", "continue"}, req : Nat, close : BOOLEAN,
             sent : {"line", "body"}]
Block == [by : Conn, kind : {"ok", "error", "continue"}, req : Nat,
          part : {"head", "body"}]

Connection == [stage : {"new", "connecting", "listed", "freed"},
               fd : Fd \cup {None}, closed : BOOLEAN, error : BOOLEAN,
               lock : Thread \cup {None}, cur : Nat, failed : BOOLEAN,
               requests : Seq(Nat), responses : Seq(Reply), writes : BOOLEAN]
Socket == [peer : {"open", "fin", "reset"}, sent : Nat, in : Seq(Piece), room : Nat,
           nospace : BOOLEAN, edge : BOOLEAN, wire : Seq(Block)]

\* The places of a pool thread at which it holds its connection's lock.
Holding == {"enqueue", "work", "head", "body", "done", "release"}
PoolThread == [pc : {"idle", "lock", "requeue"} \cup Holding, conn : Conn \cup {None},
               blocked : BOOLEAN, todo : Seq({"WORKER", "WRITE"})]
EventLoop == [pc : {"wait", "events", "clean", "remove", "drain"}, batch : SUBSET Event,
              rest : SUBSET Conn, cur : Conn \cup {None}, idx : 1..3]

TypeOK == /\ conn \in [Conn -> Connection]
          /\ sock \in [Conn -> Socket]
          /\ owner \in [Fd -> Conn \cup {None}]
          /\ queue \in [PoolName -> Seq(QueueItem)]
          /\ th \in [Thread -> PoolThread]
          /\ main \in EventLoop
          /\ env \in Scenario

\* Which threads are where, and with what: a reader does not write, a thread
\* that enqueues has something to enqueue, a writer has a response, what is
\* returned to a queue is blocked.
ThreadIs(t) ==
  /\ th[t].pc # "idle" => th[t].conn \in Conn
  /\ th[t].pc = "enqueue" => th[t].todo # <<>>
  /\ th[t].pc = "enqueue" => t \notin Writer
  /\ th[t].pc = "work" => t \in Worker
  /\ th[t].pc \in {"head", "body", "done"} =>
       t \in Writer /\ conn[th[t].conn].responses # <<>>
  /\ th[t].pc = "requeue" => th[t].blocked
ThreadOK == \A t \in Thread : ThreadIs(t)

\* A handler that works on a connection holds its lock, and nobody else does.
LockOK == /\ \A t \in Thread : th[t].pc \in Holding => conn[th[t].conn].lock = t
          /\ \A c \in Conn : conn[c].lock # None =>
               th[conn[c].lock].pc \in Holding /\ th[conn[c].lock].conn = c

\* A header block is left half written only within the writer's loop.
WritesOK == \A c \in Conn : conn[c].writes =>
              conn[c].lock # None /\ th[conn[c].lock].pc = "head"

\* Events are handled before the clean-up, and both concern connections that
\* are listed; the one that is cleaned up is closed.
LoopOK == /\ main.pc # "events" => main.batch = {}
          /\ \A e \in main.batch : e # Listen =>
               e.conn \in Conn /\ conn[e.conn].stage = "listed"
          /\ \A c \in main.rest : conn[c].stage = "listed"
          /\ main.pc \in {"remove", "drain"} =>
               /\ main.cur \in Conn \ main.rest
               /\ conn[main.cur].stage = "listed"
               /\ conn[main.cur].closed

Unused(c) == conn[c].stage \in {"new", "connecting"}

\* What is not accepted yet is not used; a descriptor that denotes a socket is
\* that of the open connection it belongs to.
OwnerOK == /\ \A c \in Conn : Unused(c) => ~conn[c].closed /\ conn[c].fd = None
           /\ \A t \in Thread : th[t].pc # "idle" => ~Unused(th[t].conn)
           /\ \A p \in PoolName : \A i \in DOMAIN queue[p] : ~Unused(queue[p][i].conn)
           /\ \A f \in Fd : owner[f] # None =>
                /\ conn[owner[f]].stage = "listed"
                /\ conn[owner[f]].fd = f
                /\ ~conn[owner[f]].closed

\* The READ queue and the readers know nothing of the connection that is
\* cleaned up once the event loop has removed its item, or waited for them.
Removed(c) == main.cur = c /\ (main.pc = "drain" \/ (main.pc = "remove" /\ main.idx > 1))
Drained(c) == main.cur = c /\ main.pc = "drain" /\ main.idx > 1

ReaderOK == /\ \A i \in DOMAIN queue["READ"] : ~queue["READ"][i].blocked =>
                 LET c == queue["READ"][i].conn
                 IN conn[c].stage = "listed" /\ ~Removed(c)
            /\ \A t \in Reader : Working(t) =>
                 conn[th[t].conn].stage = "listed" /\ ~Drained(th[t].conn)

\* The inductive invariant.
IInv == TypeOK /\ ThreadOK /\ LockOK /\ WritesOK /\ LoopOK /\ OwnerOK /\ ReaderOK
--------------------------------------------------------------------------------
(* The operators. *)

\* Induction over the natural numbers, for a property given as a set.
LEMMA SetInduction ==
  ASSUME NEW P \in SUBSET Nat, 0 \in P, \A n \in P : n + 1 \in P
  PROVE  P = Nat
<1> SUFFICES ASSUME Nat \ P # {} PROVE FALSE
  OBVIOUS
<1>1. PICK m \in Nat \ P : \A y \in Nat \ P : ~(<<y, m>> \in OpToRel(<, Nat))
  BY WFMin, NatLessThanWellFounded, Zenon
<1>2. m # 0 /\ m - 1 \in Nat /\ (m - 1) + 1 = m
  OBVIOUS
<1>3. <<m - 1, m>> \in OpToRel(<, Nat)
  BY <1>2 DEF OpToRel
<1>4. m - 1 \in P
  BY <1>1, <1>2, <1>3
<1> QED BY <1>1, <1>2, <1>4

\* g is computed from a by the steps f[1], ..., f[n].
IsRun(g, a, f, n) == g[0] = a /\ \A i \in 1..n : g[i] = f[i][g[i - 1]]

\* What a recursive definition of the model chooses exists.
LEMMA Recursion ==
  ASSUME NEW S, NEW n \in Nat, NEW a \in S, NEW f \in [1..n -> [S -> S]]
  PROVE  \E g \in [0..n -> S] : IsRun(g, a, f, n)
<1> USE DEF IsRun
<1> DEFINE Upto(m, g) == g[0] = a /\ \A i \in 1..m : g[i] = f[i][g[i - 1]]
           P == {m \in Nat : m <= n => \E g \in [0..m -> S] : Upto(m, g)}
<1>1. 0 \in P
  <2> DEFINE h == [i \in 0..0 |-> a]
  <2>1. h \in [0..0 -> S] /\ Upto(0, h)
    OBVIOUS
  <2>2. \E g \in [0..0 -> S] : Upto(0, g)
    <3> HIDE DEF h
    <3> QED BY <2>1
  <2> QED BY <2>2
<1>2. ASSUME NEW m \in P PROVE m + 1 \in P
  <2> SUFFICES ASSUME m + 1 <= n
               PROVE  \E g \in [0..(m + 1) -> S] : Upto(m + 1, g)
    <3>1. m + 1 \in Nat
      OBVIOUS
    <3> QED BY <3>1, Zenon
  <2>1. m \in Nat /\ m <= n
    OBVIOUS
  <2>2. PICK g \in [0..m -> S] : Upto(m, g)
    BY <2>1
  <2> DEFINE h == [i \in 0..(m + 1) |-> IF i = m + 1 THEN f[m + 1][g[m]] ELSE g[i]]
  <2>3. f[m + 1][g[m]] \in S
    <3>1. m + 1 \in 1..n /\ m \in 0..m
      BY <2>1
    <3> QED BY <2>2, <3>1
  <2>4. h \in [0..(m + 1) -> S]
    <3>1. \A i \in 0..(m + 1) : i # m + 1 => i \in 0..m
      BY <2>1
    <3> QED BY <2>2, <2>3, <3>1
  <2>5. h[0] = a
    BY <2>1, <2>2
  <2>6. ASSUME NEW i \in 1..(m + 1) PROVE h[i] = f[i][h[i - 1]]
    <3>1. CASE i = m + 1
      <4>1. h[i] = f[m + 1][g[m]]
        BY <2>1, <3>1
      <4>2. h[i - 1] = g[m]
        BY <2>1, <3>1
      <4> QED BY <3>1, <4>1, <4>2
    <3>2. CASE i # m + 1
      <4>1. i \in 1..m /\ i \in 0..m /\ i - 1 \in 0..m /\ i \in 0..(m + 1)
            /\ i - 1 \in 0..(m + 1) /\ i - 1 # m + 1
        BY <2>1, <3>2
      <4>2. h[i] = g[i] /\ h[i - 1] = g[i - 1]
        BY <3>2, <4>1
      <4>3. g[i] = f[i][g[i - 1]]
        BY <2>2, <4>1
      <4> QED BY <4>2, <4>3
    <3> QED BY <3>1, <3>2
  <2> HIDE DEF h
  <2> QED BY <2>4, <2>5, <2>6
<1> HIDE DEF P
<1>3. P = Nat
  <2>1. P \in SUBSET Nat
    BY DEF P
  <2> QED BY <1>1, <1>2, <2>1, SetInduction
<1> QED BY <1>3 DEF P

\* A set that contains the first value and is closed under the steps contains
\* the last value.
LEMMA RunStays ==
  ASSUME NEW S, NEW n \in Nat, NEW g, g[0] \in S,
         \A i \in 1..n : g[i - 1] \in S => g[i] \in S
  PROVE  g[n] \in S
<1> DEFINE P == {m \in Nat : m <= n => g[m] \in S}
<1>1. 0 \in P
  OBVIOUS
<1>2. ASSUME NEW m \in P PROVE m + 1 \in P
  <2>1. CASE m + 1 <= n
    <3>1. m + 1 \in 1..n /\ (m + 1) - 1 = m /\ m <= n /\ m + 1 \in Nat
      BY <2>1
    <3>2. g[m] \in S
      BY <3>1
    <3> QED BY <3>1, <3>2
  <2>2. CASE ~(m + 1 <= n)
    <3>1. m + 1 \in Nat
      OBVIOUS
    <3> QED BY <2>2, <3>1
  <2> QED BY <2>1, <2>2
<1> HIDE DEF P
<1>3. P = Nat
  <2>1. P \in SUBSET Nat
    BY DEF P
  <2> QED BY <1>1, <1>2, <2>1, SetInduction
<1> QED BY <1>3 DEF P

\* queue_remove_byptr leaves no item of the connection, and adds none.
LEMMA WithoutFacts ==
  ASSUME NEW T, NEW q \in Seq(T), NEW c
  PROVE  /\ Without(q, c) \in Seq(T)
         /\ \A i \in DOMAIN Without(q, c) :
              /\ Without(q, c)[i].conn # c
              /\ \E j \in DOMAIN q : Without(q, c)[i] = q[j]
<1> DEFINE n == Len(q)
           S == {s \in Seq(T) : \A i \in DOMAIN s : s[i].conn # c /\ \E j \in DOMAIN q : s[i] = q[j]}
           f == [i \in 1..n |-> [s \in S |-> IF q[i].conn = c THEN s ELSE Append(s, q[i])]]
<1>1. n \in Nat /\ DOMAIN q = 1..n
  OBVIOUS
<1>2. <<>> \in S
  OBVIOUS
<1>3. f \in [1..n -> [S -> S]]
  <2>1. ASSUME NEW i \in 1..n, NEW s \in S, q[i].conn # c PROVE Append(s, q[i]) \in S
    <3>1. s \in Seq(T) /\ q[i] \in T /\ i \in DOMAIN q
      BY <1>1
    <3>2. /\ Append(s, q[i]) \in Seq(T)
          /\ DOMAIN Append(s, q[i]) = 1..(Len(s) + 1)
          /\ DOMAIN s = 1..Len(s) /\ Len(s) \in Nat
      BY <3>1
    <3>3. ASSUME NEW k \in DOMAIN Append(s, q[i])
          PROVE  (k \in DOMAIN s /\ Append(s, q[i])[k] = s[k]) \/ Append(s, q[i])[k] = q[i]
      BY <3>1, <3>2
    <3> QED BY <2>1, <3>1, <3>2, <3>3
  <2> QED BY <2>1
<1> HIDE DEF f
<1>4. PICK g \in [0..n -> S] : IsRun(g, <<>>, f, n)
  <2> HIDE DEF S, n
  <2>1. n \in Nat
    BY <1>1
  <2> QED BY <1>2, <1>3, <2>1, Recursion, Zenon
<1>5. \A i \in 1..n : g[i] = IF q[i].conn = c THEN g[i - 1] ELSE Append(g[i - 1], q[i])
  <2> TAKE i \in 1..n
  <2> HIDE DEF S
  <2>1. g[i - 1] \in S
    <3>1. i - 1 \in 0..n
      BY <1>1
    <3> QED BY <1>4, <3>1
  <2> QED BY <1>4, <2>1 DEF f, IsRun
<1> DEFINE Left(h) == [i \in 0..n |-> CASE i = 0 -> <<>>
                                       [] i > 0 /\ q[i].conn = c -> h[i - 1]
                                       [] OTHER -> Append(h[i - 1], q[i])]
<1> HIDE DEF S
<1>6. g = Left(g)
  <2>1. \A i \in 0..n : i # 0 => i \in 1..n /\ i > 0
    BY <1>1
  <2>2. ASSUME NEW i \in 0..n PROVE g[i] = Left(g)[i]
    <3>1. CASE i = 0
      BY <1>4, <3>1 DEF IsRun
    <3>2. CASE i # 0
      BY <1>5, <2>1, <3>2
    <3> QED BY <3>1, <3>2
  <2> QED BY <1>4, <2>2
<1> DEFINE left == CHOOSE h : h = Left(h)
<1>7. left = Left(left)
  BY <1>6, Zenon
<1>8. Without(q, c) = left[n]
  BY DEF Without
<1> HIDE DEF left
<1>9. left[n] \in S
  <2>1. left[0] \in S
    BY <1>1, <1>2, <1>7
  <2>2. ASSUME NEW i \in 1..n, left[i - 1] \in S PROVE left[i] \in S
    <3>1. i \in 0..n /\ i # 0 /\ i > 0
      BY <1>1
    <3>2. left[i] = IF q[i].conn = c THEN left[i - 1] ELSE Append(left[i - 1], q[i])
      BY <1>7, <3>1
    <3>3. left[i] = f[i][left[i - 1]]
      BY <2>2, <3>2 DEF f
    <3> QED BY <1>3, <2>2, <3>3
  <2> QED BY <1>1, <2>1, <2>2, RunStays
<1> QED BY <1>8, <1>9 DEF S

\* What the parser has found in a buffer.
State == [cur : Nat, complete : BOOLEAN, failed : BOOLEAN]

\* The parser goes on with the request it has or with one whose beginning it
\* was given, and completes only what has begun.
LEMMA ExecuteFacts ==
  ASSUME NEW c, conn[c].cur \in Nat, conn[c].failed \in BOOLEAN, NEW buf \in Seq(Piece)
  PROVE  /\ Execute(c, buf) \in State
         /\ \/ Execute(c, buf).cur = conn[c].cur
            \/ \E i \in DOMAIN buf : buf[i].part = "head" /\ Execute(c, buf).cur = buf[i].req
         /\ Execute(c, buf).complete => Execute(c, buf).failed \/ Execute(c, buf).cur # 0
<1> DEFINE n == Len(buf)
           S == {s \in State :
                   /\ \/ s.cur = conn[c].cur
                      \/ \E i \in DOMAIN buf : buf[i].part = "head" /\ s.cur = buf[i].req
                   /\ s.complete => s.failed \/ s.cur # 0}
           Feed(s, b) == CASE s.failed -> s
                         [] ~s.failed /\ b.part = "head" ->
                              [s EXCEPT !.cur = b.req, !.complete = FALSE]
                         [] ~s.failed /\ b.part = "tail" /\ s.cur # 0 /\ ~s.complete ->
                              [s EXCEPT !.complete = TRUE]
                         [] OTHER -> [s EXCEPT !.failed = TRUE]
           f == [i \in 1..n |-> [s \in S |-> Feed(s, buf[i])]]
           a == [cur |-> conn[c].cur, complete |-> FALSE, failed |-> conn[c].failed]
           Run(h) == [i \in 0..n |-> IF i = 0 THEN a ELSE Feed(h[i - 1], buf[i])]
<1>1. n \in Nat /\ DOMAIN buf = 1..n /\ \A i \in 1..n : buf[i] \in Piece
  OBVIOUS
<1>2. a \in S
  BY DEF State
<1>3. f \in [1..n -> [S -> S]]
  <2>1. ASSUME NEW i \in 1..n, NEW s \in S PROVE Feed(s, buf[i]) \in S
    <3>1. s \in State /\ buf[i].req \in Nat \ {0} /\ buf[i].part \in {"head", "tail", "bad"}
      BY <1>1 DEF Piece
    <3>2. CASE s.failed
      BY <3>2
    <3>3. CASE ~s.failed /\ buf[i].part = "head"
      BY <1>1, <3>1, <3>3 DEF State
    <3>4. CASE ~s.failed /\ buf[i].part = "tail" /\ s.cur # 0 /\ ~s.complete
      BY <3>1, <3>4 DEF State
    <3>5. CASE ~(s.failed \/ buf[i].part = "head"
                 \/ (buf[i].part = "tail" /\ s.cur # 0 /\ ~s.complete))
      BY <3>1, <3>5 DEF State
    <3> QED BY <3>2, <3>3, <3>4, <3>5
  <2> HIDE DEF S, Feed
  <2> QED BY <2>1
<1> HIDE DEF f, a, Feed
<1>4. PICK g \in [0..n -> S] : IsRun(g, a, f, n)
  <2> HIDE DEF S, n
  <2>1. n \in Nat
    BY <1>1
  <2> QED BY <1>2, <1>3, <2>1, Recursion, Zenon
<1> HIDE DEF S
<1>5. \A i \in 1..n : g[i] = Feed(g[i - 1], buf[i])
  <2> TAKE i \in 1..n
  <2>1. g[i - 1] \in S
    <3>1. i - 1 \in 0..n
      BY <1>1
    <3> QED BY <1>4, <3>1
  <2> QED BY <1>4, <2>1 DEF f, IsRun
<1>6. g = Run(g)
  <2>1. \A i \in 0..n : i # 0 => i \in 1..n
    BY <1>1
  <2>2. ASSUME NEW i \in 0..n PROVE g[i] = Run(g)[i]
    <3>1. CASE i = 0
      BY <1>4, <3>1 DEF IsRun
    <3>2. CASE i # 0
      BY <1>5, <2>1, <3>2
    <3> QED BY <3>1, <3>2
  <2> QED BY <1>4, <2>2
<1> DEFINE state == CHOOSE h : h = Run(h)
<1>7. state = Run(state)
  BY <1>6, Zenon
<1>8. Execute(c, buf) = state[n]
  BY DEF Execute, a, Feed
<1> HIDE DEF state
<1>9. state[n] \in S
  <2>1. state[0] \in S
    BY <1>1, <1>2, <1>7
  <2>2. ASSUME NEW i \in 1..n, state[i - 1] \in S PROVE state[i] \in S
    <3>1. i \in 0..n /\ i # 0
      BY <1>1
    <3>2. state[i] = Feed(state[i - 1], buf[i])
      BY <1>7, <3>1
    <3>3. state[i] = f[i][state[i - 1]]
      BY <2>2, <3>2 DEF f
    <3> QED BY <1>3, <2>2, <3>3
  <2> QED BY <1>1, <2>1, <2>2, RunStays
<1> QED BY <1>8, <1>9 DEF S

\* queue_fetchone takes out one item: those behind it move up.
LEMMA RemoveAtFacts ==
  ASSUME NEW T, NEW s \in Seq(T), NEW k \in DOMAIN s
  PROVE  /\ RemoveAt(s, k) \in Seq(T)
         /\ Len(RemoveAt(s, k)) = Len(s) - 1
         /\ \A j \in 1..(Len(s) - 1) :
              RemoveAt(s, k)[j] = s[IF j < k THEN j ELSE j + 1]
<1> DEFINE a == SubSeq(s, 1, k - 1)
           b == SubSeq(s, k + 1, Len(s))
<1>1. k \in 1..Len(s) /\ Len(s) \in Nat
  OBVIOUS
<1>2. a \in Seq(T) /\ Len(a) = k - 1 /\ \A j \in 1..(k - 1) : a[j] = s[j]
  BY <1>1
<1>3. /\ b \in Seq(T)
      /\ Len(b) = Len(s) - k
      /\ \A j \in 1..(Len(s) - k) : b[j] = s[k + j]
  BY <1>1
<1>4. RemoveAt(s, k) = a \o b
  BY DEF RemoveAt
<1> HIDE DEF a, b
<1>5. /\ a \o b \in Seq(T)
      /\ Len(a \o b) = Len(s) - 1
  BY <1>1, <1>2, <1>3
<1>6. ASSUME NEW j \in 1..(Len(s) - 1)
      PROVE  (a \o b)[j] = s[IF j < k THEN j ELSE j + 1]
  <2>1. CASE j < k
    <3>1. j \in 1..Len(a)
      BY <1>1, <1>2, <2>1
    <3>2. (a \o b)[j] = a[j]
      BY <1>2, <1>3, <3>1, ConcatProperties
    <3> QED BY <1>1, <1>2, <2>1, <3>1, <3>2
  <2>2. CASE j >= k
    <3>1. /\ j \in 1..(Len(a) + Len(b)) /\ ~(j <= Len(a))
          /\ j - Len(a) = j - k + 1
      BY <1>1, <1>2, <1>3, <2>2
    <3>2. (a \o b)[j] = b[j - k + 1]
      <4>1. (a \o b)[j] = IF j <= Len(a) THEN a[j] ELSE b[j - Len(a)]
        BY <1>2, <1>3, <3>1, ConcatProperties, Zenon
      <4> QED BY <3>1, <4>1
    <3>3. j - k + 1 \in 1..(Len(s) - k) /\ k + (j - k + 1) = j + 1 /\ ~(j < k)
      BY <1>1, <2>2
    <3> QED BY <1>3, <3>2, <3>3
  <2>3. j < k \/ j >= k
    BY <1>1
  <2> QED BY <2>1, <2>2, <2>3
<1> QED BY <1>4, <1>5, <1>6

\* The least free descriptor.
LEMMA MinFacts ==
  ASSUME NEW S \in SUBSET Nat, S # {}
  PROVE  Min(S) \in S
<1>1. PICK k \in S : \A j \in S : ~(<<j, k>> \in OpToRel(<, Nat))
  BY WFMin, NatLessThanWellFounded, Zenon
<1>2. \A j \in S : k <= j
  <2>1. \A j \in S : ~(j < k)
    BY <1>1 DEF OpToRel
  <2> QED BY <2>1
<1> QED BY <1>2 DEF Min

\* The numbers of the descriptors.
LEMMA FdFacts == Fd \subseteq Nat
<1>1. Cardinality(Conn) \in Nat
  BY ConnAssumption, FS_CardinalityType
<1> QED BY <1>1 DEF Fd

\* What the descriptor of a connection denotes.
LEMMA SocketFacts ==
  ASSUME TypeOK, NEW c \in Conn
  PROVE  /\ SocketOf(c) \in Conn \cup {None}
         /\ WriteResult(c) \in {"ok", "again", "error"}
         /\ WriteResult(c) # "error" => SocketOf(c) \in Conn
<1>1. conn[c] \in Connection /\ owner \in [Fd -> Conn \cup {None}]
  BY DEF TypeOK
<1>2. conn[c].fd \in Fd \cup {None} /\ None \notin Fd /\ None \notin Conn
  BY <1>1, NoneAssumption DEF Connection
<1>3. SocketOf(c) \in Conn \cup {None}
  BY <1>1, <1>2 DEF SocketOf
<1> QED BY <1>3 DEF WriteResult

\* A write goes to one socket: a block more, or a note that there is no space.
LEMMA WrittenFacts ==
  ASSUME TypeOK, NEW c \in Conn, conn[c].responses # <<>>, NEW part \in {"head", "body"}
  PROVE  /\ Written(c, part) \in [Conn -> Socket]
         /\ Head(conn[c].responses) \in Reply
         /\ \A d \in Conn : d # SocketOf(c) => Written(c, part)[d] = sock[d]
         /\ WriteResult(c) = "ok" =>
              LET b == [by |-> c, kind |-> Head(conn[c].responses).kind,
                        req |-> Head(conn[c].responses).req, part |-> part]
              IN /\ b \in Block
                 /\ SocketOf(c) \in Conn
                 /\ Written(c, part)[SocketOf(c)].wire
                      = Append(sock[SocketOf(c)].wire, b)
                 /\ \A d \in Conn : /\ Written(c, part)[d].in = sock[d].in
                                    /\ Written(c, part)[d].peer = sock[d].peer
                                    /\ Written(c, part)[d].sent = sock[d].sent
         /\ WriteResult(c) # "ok" =>
              \A d \in Conn : /\ Written(c, part)[d].wire = sock[d].wire
                              /\ Written(c, part)[d].in = sock[d].in
                              /\ Written(c, part)[d].peer = sock[d].peer
                              /\ Written(c, part)[d].sent = sock[d].sent
<1> DEFINE r == Head(conn[c].responses)
           s == SocketOf(c)
           b == [by |-> c, kind |-> r.kind, req |-> r.req, part |-> part]
<1>1. conn[c].responses \in Seq(Reply) /\ sock \in [Conn -> Socket]
  BY DEF TypeOK, Connection
<1>2. r \in Reply
  BY <1>1, HeadTailProperties
<1>3. b \in Block
  BY <1>2 DEF Reply, Block
<1>4. WriteResult(c) \in {"ok", "again", "error"} /\ (WriteResult(c) # "error" => s \in Conn)
  BY SocketFacts
<1> HIDE DEF b, s
<1>5. CASE WriteResult(c) = "ok"
  <2>1. Written(c, part) = [sock EXCEPT ![s].wire = Append(@, b), ![s].room = @ - 1]
    BY <1>5 DEF Written, b, s
  <2>2. s \in Conn /\ sock[s] \in Socket
    BY <1>1, <1>4, <1>5
  <2>3. sock[s].room \in Nat \ {0}
    <3>1. sock[s].room # 0
      BY <1>4, <1>5 DEF WriteResult, s
    <3> QED BY <2>2, <3>1 DEF Socket
  <2>4. Append(sock[s].wire, b) \in Seq(Block) /\ sock[s].room - 1 \in Nat
    BY <1>3, <2>2, <2>3 DEF Socket
  <2>5. Written(c, part) \in [Conn -> Socket]
    BY <1>1, <2>1, <2>2, <2>4 DEF Socket
  <2>6. Written(c, part)[s].wire = Append(sock[s].wire, b)
    BY <1>1, <2>1, <2>2 DEF Socket
  <2>7. \A d \in Conn : d # s => Written(c, part)[d] = sock[d]
    BY <1>1, <2>1
  <2>8. \A d \in Conn : /\ Written(c, part)[d].in = sock[d].in
                        /\ Written(c, part)[d].peer = sock[d].peer
                        /\ Written(c, part)[d].sent = sock[d].sent
    BY <1>1, <2>1, <2>2 DEF Socket
  <2> QED BY <1>2, <1>3, <1>5, <2>2, <2>5, <2>6, <2>7, <2>8 DEF b, s
<1>6. CASE WriteResult(c) = "again"
  <2>1. Written(c, part) = [sock EXCEPT ![s].nospace = TRUE]
    BY <1>6 DEF Written, s
  <2>2. s \in Conn /\ sock[s] \in Socket
    BY <1>1, <1>4, <1>6
  <2>3. Written(c, part) \in [Conn -> Socket]
    BY <1>1, <2>1, <2>2 DEF Socket
  <2>4. \A d \in Conn : /\ Written(c, part)[d].wire = sock[d].wire
                        /\ Written(c, part)[d].in = sock[d].in
                        /\ Written(c, part)[d].peer = sock[d].peer
                        /\ Written(c, part)[d].sent = sock[d].sent
    BY <1>1, <2>1, <2>2 DEF Socket
  <2>5. \A d \in Conn : d # s => Written(c, part)[d] = sock[d]
    BY <1>1, <2>1
  <2> QED BY <1>2, <1>6, <2>3, <2>4, <2>5 DEF s
<1>7. CASE WriteResult(c) = "error"
  <2>1. Written(c, part) = sock
    BY <1>7 DEF Written
  <2> QED BY <1>1, <1>2, <1>7, <2>1
<1> QED BY <1>4, <1>5, <1>6, <1>7

\* queue_unblock_byptr changes no item but the flag of those of the connection.
LEMMA UnblockedFacts ==
  ASSUME NEW q \in Seq(QueueItem), NEW c
  PROVE  /\ Unblocked(q, c) \in Seq(QueueItem)
         /\ DOMAIN Unblocked(q, c) = DOMAIN q
         /\ \A i \in DOMAIN q :
              /\ Unblocked(q, c)[i].conn = q[i].conn
              /\ q[i].conn # c => Unblocked(q, c)[i] = q[i]
<1>1. Len(q) \in Nat /\ DOMAIN q = 1..Len(q) /\ \A i \in 1..Len(q) : q[i] \in QueueItem
  OBVIOUS
<1>2. \A i \in DOMAIN q : [q[i] EXCEPT !.blocked = FALSE] \in QueueItem
                          /\ [q[i] EXCEPT !.blocked = FALSE].conn = q[i].conn
  BY <1>1 DEF QueueItem
<1>3. Unblocked(q, c) \in [1..Len(q) -> QueueItem]
  BY <1>1, <1>2 DEF Unblocked
<1>4. Unblocked(q, c) \in Seq(QueueItem)
  BY <1>1, <1>3, SeqDef
<1> QED BY <1>1, <1>2, <1>3, <1>4 DEF Unblocked

\* A thread without an item, and one that has fetched one.
LEMMA IdleFacts ==
  /\ Idle \in PoolThread
  /\ \A c \in Conn : [Idle EXCEPT !.pc = "lock", !.conn = c] \in PoolThread
<1>1. <<>> \in Seq({"WORKER", "WRITE"})
  OBVIOUS
<1> DEFINE none == <<>>
<1> HIDE DEF none
<1>2. none \in Seq({"WORKER", "WRITE"})
  BY <1>1 DEF none
<1>3. Idle = [pc |-> "idle", conn |-> None, blocked |-> FALSE, todo |-> none]
  BY DEF Idle, none
<1> QED BY <1>2, <1>3 DEF PoolThread, Holding

\* What READ adds to the connection it has read from.
LEMMA ParsedFacts ==
  ASSUME NEW c, conn[c] \in Connection, NEW s \in State
  PROVE  /\ Parsed(c, s) \in Connection
         /\ \A t \in Thread : [Parsed(c, s) EXCEPT !.lock = t] \in Connection
         /\ AfterParse(s) \in Seq({"WORKER", "WRITE"})
         /\ AfterParse(s) # <<>>
         /\ Parsed(c, s).stage = conn[c].stage
         /\ Parsed(c, s).fd = conn[c].fd
         /\ Parsed(c, s).closed = conn[c].closed
         /\ Parsed(c, s).lock = conn[c].lock
         /\ Parsed(c, s).writes = conn[c].writes
<1>1. \A close \in BOOLEAN, kind \in {"ok", "error", "continue"} :
        Response(kind, s.cur, close) \in Reply
  BY DEF Response, Reply, State
<1>2. /\ Append(conn[c].responses, Response("error", s.cur, TRUE)) \in Seq(Reply)
      /\ Append(conn[c].responses, Response("continue", s.cur, FALSE)) \in Seq(Reply)
      /\ Append(conn[c].requests, s.cur) \in Seq(Nat)
  <2>1. /\ Response("error", s.cur, TRUE) \in Reply
        /\ Response("continue", s.cur, FALSE) \in Reply
    BY <1>1
  <2>2. conn[c].responses \in Seq(Reply) /\ conn[c].requests \in Seq(Nat) /\ s.cur \in Nat
    BY DEF Connection, State
  <2> QED BY <2>1, <2>2, AppendProperties, Zenon
<1> DEFINE failure == Append(conn[c].responses, Response("error", s.cur, TRUE))
           goOn == Append(conn[c].responses, Response("continue", s.cur, FALSE))
           request == Append(conn[c].requests, s.cur)
<1> HIDE DEF failure, goOn, request
<1>a. s.cur \in Nat /\ failure \in Seq(Reply) /\ goOn \in Seq(Reply) /\ request \in Seq(Nat)
  BY <1>2 DEF failure, goOn, request, State
<1>b. /\ <<"WRITE">> \in Seq({"WORKER", "WRITE"}) /\ <<"WRITE">> # <<>>
      /\ <<"WORKER", "WRITE">> \in Seq({"WORKER", "WRITE"}) /\ <<"WORKER", "WRITE">> # <<>>
      /\ <<"WRITE", "WRITE">> \in Seq({"WORKER", "WRITE"}) /\ <<"WRITE", "WRITE">> # <<>>
  OBVIOUS
<1>c. AfterParse(s) \in {<<"WRITE">>, <<"WORKER", "WRITE">>, <<"WRITE", "WRITE">>}
  BY Zenon DEF AfterParse
<1>d. /\ AfterParse(s) \in Seq({"WORKER", "WRITE"})
      /\ AfterParse(s) # <<>>
  BY <1>b, <1>c, Zenon
<1>e. \/ Parsed(c, s) = [conn[c] EXCEPT !.cur = s.cur, !.failed = TRUE, !.responses = failure]
      \/ Parsed(c, s) = [conn[c] EXCEPT !.cur = 0, !.requests = request]
      \/ Parsed(c, s) = [conn[c] EXCEPT !.cur = s.cur, !.responses = goOn]
      \/ Parsed(c, s) = [conn[c] EXCEPT !.cur = s.cur]
  <2>1. CASE s.failed
    BY <2>1 DEF Parsed, failure
  <2>2. CASE ~s.failed /\ s.complete
    BY <2>2 DEF Parsed, request
  <2>3. CASE ~s.failed /\ ~s.complete /\ env.http11 /\ s.cur # 0
    BY <2>3 DEF Parsed, goOn
  <2>4. CASE ~s.failed /\ ~s.complete /\ ~(env.http11 /\ s.cur # 0)
    BY <2>4 DEF Parsed
  <2> QED BY <2>1, <2>2, <2>3, <2>4
<1>f. /\ [conn[c] EXCEPT !.cur = s.cur, !.failed = TRUE, !.responses = failure] \in Connection
      /\ [conn[c] EXCEPT !.cur = 0, !.requests = request] \in Connection
      /\ [conn[c] EXCEPT !.cur = s.cur, !.responses = goOn] \in Connection
      /\ [conn[c] EXCEPT !.cur = s.cur] \in Connection
  BY <1>a DEF Connection
<1>i. Parsed(c, s) \in Connection
  BY <1>e, <1>f, Zenon
<1>g. \A t \in Thread : [Parsed(c, s) EXCEPT !.lock = t] \in Connection
  BY <1>i DEF Connection
<1>h. /\ Parsed(c, s).stage = conn[c].stage
      /\ Parsed(c, s).fd = conn[c].fd
      /\ Parsed(c, s).closed = conn[c].closed
      /\ Parsed(c, s).lock = conn[c].lock
      /\ Parsed(c, s).writes = conn[c].writes
  BY <1>e DEF Connection
<1> QED BY <1>d, <1>g, <1>h, <1>i

\* READ takes what it has read from the socket and parses it.
LEMMA ReadFacts ==
  ASSUME TypeOK, ThreadOK, NEW t \in Thread, ReadData(t)
  PROVE  LET c == th[t].conn
             s == SocketOf(c)
         IN /\ c \in Conn
            /\ s \in Conn
            /\ sock[s].in \in Seq(Piece)
            /\ \E n \in 1..Len(sock[s].in), r \in State :
                 /\ conn' = [conn EXCEPT ![c] = [Parsed(c, r) EXCEPT !.lock = t]]
                 /\ th' = [th EXCEPT ![t].pc = "enqueue", ![t].todo = AfterParse(r)]
                 /\ sock' = [sock EXCEPT ![s].in = SubSeq(@, n + 1, Len(@))]
                 /\ r.complete => r.failed \/ r.cur # 0
                 /\ \/ r.cur = conn[c].cur
                    \/ \E i \in 1..n : /\ sock[s].in[i].part = "head"
                                       /\ r.cur = sock[s].in[i].req
<1> DEFINE c == th[t].conn
           s == SocketOf(c)
<1>1. c \in Conn /\ s \in Conn /\ conn[c] \in Connection /\ sock[s] \in Socket
  BY SocketFacts DEF ReadData, At, ThreadOK, ThreadIs, TypeOK
<1>2. sock[s].in \in Seq(Piece)
  BY <1>1 DEF Socket
<1>3. PICK n \in 1..Len(sock[s].in) :
        LET r == Execute(c, SubSeq(sock[s].in, 1, n))
        IN /\ conn' = [conn EXCEPT ![c] = [Parsed(c, r) EXCEPT !.lock = t]]
           /\ th' = [th EXCEPT ![t].pc = "enqueue", ![t].todo = AfterParse(r)]
           /\ sock' = [sock EXCEPT ![s].in = SubSeq(@, n + 1, Len(@))]
  BY ReadData(t) DEF ReadData
<1> HIDE DEF s
<1> DEFINE in == sock[s].in
           buf == SubSeq(in, 1, n)
           r == Execute(c, buf)
<1>4. buf \in Seq(Piece) /\ DOMAIN buf = 1..n /\ \A i \in 1..n : buf[i] = in[i]
  BY <1>2
<1> HIDE DEF buf
<1>5. /\ r \in State
      /\ r.cur = conn[c].cur \/ \E i \in DOMAIN buf : buf[i].part = "head" /\ r.cur = buf[i].req
      /\ r.complete => r.failed \/ r.cur # 0
  <2>1. conn[c].cur \in Nat /\ conn[c].failed \in BOOLEAN
    BY <1>1 DEF Connection
  <2> QED BY <1>4, <2>1, ExecuteFacts
<1>6. r.cur = conn[c].cur \/ \E i \in 1..n : in[i].part = "head" /\ r.cur = in[i].req
  BY <1>4, <1>5
<1>7. /\ conn' = [conn EXCEPT ![c] = [Parsed(c, r) EXCEPT !.lock = t]]
      /\ th' = [th EXCEPT ![t].pc = "enqueue", ![t].todo = AfterParse(r)]
      /\ sock' = [sock EXCEPT ![s].in = SubSeq(@, n + 1, Len(@))]
  BY <1>3 DEF buf
<1> HIDE DEF r, c
<1> QED BY <1>1, <1>2, <1>5, <1>6, <1>7 DEF s, c

\* The types are preserved by the clients.
LEMMA ClientTypes ==
  ASSUME TypeOK, Client
  PROVE  TypeOK'
<1> USE DEF TypeOK
<1>e. env' = env
  BY Client DEF Client
<1>1. ASSUME NEW c \in Conn, Connect(c) PROVE TypeOK'
  <2>1. [conn[c] EXCEPT !.stage = "connecting"] \in Connection
    BY DEF Connection
  <2> QED BY <1>1, <1>e, <2>1 DEF Connect
<1>2. ASSUME NEW c \in Conn, Send(c) PROVE TypeOK'
  <2>1. /\ env.script[c] \in Seq(Piece) /\ sock[c] \in Socket
    BY ScenarioAssumption
  <2>2. sock[c].sent + 1 \in 1..Len(env.script[c])
    BY <1>2, <2>1 DEF Send, Socket
  <2>3. env.script[c][sock[c].sent + 1] \in Piece
    BY <2>1, <2>2
  <2>4. Append(sock[c].in, env.script[c][sock[c].sent + 1]) \in Seq(Piece)
        /\ sock[c].sent + 1 \in Nat
    BY <2>1, <2>3 DEF Socket
  <2>5. sock' = [sock EXCEPT ![c].sent = @ + 1,
                             ![c].in = Append(@, env.script[c][sock[c].sent + 1]),
                             ![c].edge = TRUE]
    BY <1>2 DEF Send
  <2>6. sock' \in [Conn -> Socket]
    BY <2>1, <2>4, <2>5 DEF Socket
  <2> QED BY <1>2, <2>6, <1>e DEF Send
<1>3. ASSUME NEW c \in Conn, Receive(c) PROVE TypeOK'
  <2>1. env.sendBuf \in Nat /\ sock[c] \in Socket
    BY ScenarioAssumption
  <2> QED BY <1>3, <2>1, <1>e DEF Receive, Socket
<1>4. ASSUME NEW c \in Conn, NEW how \in {"fin", "reset"}, Hangup(c, how) PROVE TypeOK'
  <2>1. [sock[c] EXCEPT !.peer = how, !.edge = TRUE] \in Socket
    BY DEF Socket
  <2> QED BY <1>4, <1>e, <2>1 DEF Hangup
<1> QED BY <1>1, <1>2, <1>3, <1>4, Client DEF Client

\* The types are preserved by the pool threads.
LEMMA PoolTypes ==
  ASSUME TypeOK, ThreadOK, WritesOK, NEW t \in Thread, PoolStep(t)
  PROVE  TypeOK'
<1> DEFINE c == th[t].conn
<1> USE DEF TypeOK, Holding
<1>e. env' = env
  BY PoolStep(t) DEF PoolStep
<1>t. th[t] \in PoolThread /\ (th[t].pc # "idle" => c \in Conn /\ conn[c] \in Connection)
  BY DEF ThreadOK, ThreadIs
<1>p. PoolOf(t) \in PoolName /\ queue[PoolOf(t)] \in Seq(QueueItem)
  BY DEF PoolOf, PoolName
<1>1. CASE Fetch(t)
  <2>1. PICK i \in DOMAIN queue[PoolOf(t)] :
          /\ queue' = [queue EXCEPT ![PoolOf(t)] = RemoveAt(queue[PoolOf(t)], i)]
          /\ th' = [th EXCEPT ![t] =
                      [Idle EXCEPT !.pc = "lock", !.conn = queue[PoolOf(t)][i].conn]]
    BY <1>1 DEF Fetch
  <2>2. RemoveAt(queue[PoolOf(t)], i) \in Seq(QueueItem)
    BY <1>p, RemoveAtFacts
  <2>3. queue[PoolOf(t)][i] \in QueueItem
    BY <1>p
  <2>4. [Idle EXCEPT !.pc = "lock", !.conn = queue[PoolOf(t)][i].conn] \in PoolThread
    BY <2>3, IdleFacts DEF QueueItem
  <2> QED BY <1>1, <1>e, <1>p, <2>1, <2>2, <2>4 DEF Fetch
<1>2. CASE Enqueue(t)
  <2>1. th[t].pc = "enqueue" /\ th[t].todo # <<>> /\ th[t].todo \in Seq({"WORKER", "WRITE"})
    BY <1>2, <1>t DEF Enqueue, At, ThreadOK, ThreadIs, PoolThread
  <2>2. Head(th[t].todo) \in {"WORKER", "WRITE"} /\ Tail(th[t].todo) \in Seq({"WORKER", "WRITE"})
    BY <2>1, HeadTailProperties
  <2>3. Item(c) \in QueueItem
    BY <1>t, <2>1 DEF Item, QueueItem
  <2>4. Head(th[t].todo) \in PoolName
        /\ Append(queue[Head(th[t].todo)], Item(c)) \in Seq(QueueItem)
    BY <2>2, <2>3 DEF PoolName
  <2>5. queue' \in [PoolName -> Seq(QueueItem)]
    BY <1>2, <2>4 DEF Enqueue
  <2>6. th' \in [Thread -> PoolThread]
    BY <1>2, <1>t, <2>2 DEF Enqueue, PoolThread
  <2> QED BY <1>2, <1>e, <2>5, <2>6 DEF Enqueue
<1>3. CASE Release(t)
  <2>1. c \in Conn /\ conn[c] \in Connection
    BY <1>3, <1>t DEF Release, At
  <2>2. conn' = [conn EXCEPT ![c] = [@ EXCEPT !.lock = None]]
    BY <1>3 DEF Release
  <2>3. conn' \in [Conn -> Connection]
    <3>1. [conn[c] EXCEPT !.lock = None] \in Connection
      BY <2>1 DEF Connection
    <3> QED BY <2>2, <3>1
  <2>4. th' \in [Thread -> PoolThread]
    BY <1>3, <1>t, IdleFacts DEF Release, PoolThread
  <2> QED BY <1>3, <1>e, <2>3, <2>4 DEF Release
<1>4. CASE Requeue(t)
  <2>1. [conn |-> c, blocked |-> th[t].blocked] \in QueueItem
    BY <1>4, <1>t DEF Requeue, At, QueueItem, PoolThread
  <2>2. Append(queue[PoolOf(t)], [conn |-> c, blocked |-> th[t].blocked]) \in Seq(QueueItem)
    BY <1>p, <2>1
  <2> QED BY <1>4, <1>e, <1>p, <2>2 DEF Requeue, PoolThread, Idle
<1>5. CASE ReadData(t)
  <2> DEFINE s == SocketOf(c)
  <2>1. c \in Conn /\ conn[c] \in Connection /\ s \in Conn /\ sock[s] \in Socket
        /\ sock[s].in \in Seq(Piece)
    BY <1>5, ReadFacts
  <2>2. PICK n \in 1..Len(sock[s].in), r \in State :
          /\ conn' = [conn EXCEPT ![c] = [Parsed(c, r) EXCEPT !.lock = t]]
          /\ th' = [th EXCEPT ![t].pc = "enqueue", ![t].todo = AfterParse(r)]
          /\ sock' = [sock EXCEPT ![s].in = SubSeq(@, n + 1, Len(@))]
          /\ r.complete => r.failed \/ r.cur # 0
          /\ \/ r.cur = conn[c].cur
             \/ \E i \in 1..n : /\ sock[s].in[i].part = "head"
                                /\ r.cur = sock[s].in[i].req
    BY <1>5, ReadFacts, Zenon
  <2> HIDE DEF s
  <2>4. SubSeq(sock[s].in, n + 1, Len(sock[s].in)) \in Seq(Piece)
    BY <2>1
  <2>6. [Parsed(c, r) EXCEPT !.lock = t] \in Connection
        /\ AfterParse(r) \in Seq({"WORKER", "WRITE"})
    BY <2>1, ParsedFacts
  <2>7. conn' \in [Conn -> Connection]
    BY <2>2, <2>6
  <2>8. th' \in [Thread -> PoolThread]
    BY <1>t, <2>2, <2>6 DEF PoolThread
  <2>9. sock' \in [Conn -> Socket]
    BY <2>1, <2>2, <2>4 DEF Socket
  <2> QED BY <1>5, <1>e, <2>7, <2>8, <2>9 DEF ReadData
<1>6. CASE ReadNothing(t)
  <2>1. c \in Conn /\ conn[c] \in Connection
    BY <1>6, <1>t DEF ReadNothing, At
  <2>2. conn' \in [Conn -> Connection]
    BY <1>6, <2>1 DEF ReadNothing, Connection
  <2>3. th' \in [Thread -> PoolThread]
    BY <1>6, <1>t DEF ReadNothing, PoolThread
  <2> QED BY <1>6, <1>e, <2>2, <2>3 DEF ReadNothing
<1>7. CASE WorkerLock(t)
  BY <1>7, <1>e, <1>t DEF WorkerLock, At, PoolThread, Connection
<1>8. CASE Process(t)
  <2>1. c \in Conn /\ conn[c] \in Connection
    BY <1>8, <1>t DEF Process, At
  <2>2. CASE conn[c].requests = <<>>
    <3>1. th' = [th EXCEPT ![t].pc = "release"] /\ UNCHANGED conn
      BY <1>8, <2>2 DEF Process
    <3>2. th' \in [Thread -> PoolThread]
      BY <1>t, <3>1 DEF PoolThread
    <3> QED BY <1>8, <1>e, <3>1, <3>2 DEF Process
  <2>3. CASE conn[c].requests # <<>>
    <3> DEFINE k == Head(conn[c].requests)
               r == Response("ok", k, k \in env.close)
    <3>1. k \in Nat /\ Tail(conn[c].requests) \in Seq(Nat)
      BY <2>1, <2>3, HeadTailProperties DEF Connection
    <3>2. r \in Reply
      BY <3>1 DEF Response, Reply
    <3> HIDE DEF r, k
    <3>3. Append(conn[c].responses, r) \in Seq(Reply)
      BY <2>1, <3>2 DEF Connection
    <3>4. conn' = [conn EXCEPT ![c].requests = Tail(@), ![c].responses = Append(@, r)]
      BY <1>8, <2>3 DEF Process, k, r
    <3>5. conn' \in [Conn -> Connection]
      <4> DEFINE a == Tail(conn[c].requests)
                 b == Append(conn[c].responses, r)
      <4> HIDE DEF a, b
      <4>1. a \in Seq(Nat) /\ b \in Seq(Reply)
        BY <3>1, <3>3 DEF a, b
      <4>2. conn' = [conn EXCEPT ![c] = [@ EXCEPT !.requests = a, !.responses = b]]
        BY <3>4 DEF a, b
      <4>3. [conn[c] EXCEPT !.requests = a, !.responses = b] \in Connection
        BY <2>1, <4>1 DEF Connection
      <4> QED BY <4>2, <4>3
    <3>6. th' \in [Thread -> PoolThread]
      <4>1. th' = [th EXCEPT ![t].pc = "enqueue", ![t].todo = <<"WRITE">>]
        BY <1>8, <2>3 DEF Process
      <4>2. <<"WRITE">> \in Seq({"WORKER", "WRITE"})
        OBVIOUS
      <4> DEFINE todo == <<"WRITE">>
      <4> HIDE DEF todo
      <4>3. th' = [th EXCEPT ![t].pc = "enqueue", ![t].todo = todo]
            /\ todo \in Seq({"WORKER", "WRITE"})
        BY <4>1, <4>2 DEF todo
      <4> QED BY <1>t, <4>3 DEF PoolThread
    <3> QED BY <1>8, <1>e, <3>5, <3>6 DEF Process
  <2> QED BY <2>2, <2>3
<1>9. CASE WriterLock(t)
  <2>1. c \in Conn /\ conn[c] \in Connection
    BY <1>9, <1>t DEF WriterLock, At
  <2>2. conn' \in [Conn -> Connection]
    <3> DEFINE w == (IF conn[c].writes THEN WriteResult(c) ELSE "none") \in {"again", "error"}
               e == conn[c].error \/ (IF conn[c].writes THEN WriteResult(c) ELSE "none") = "error"
    <3>1. conn' = [conn EXCEPT ![c] = [@ EXCEPT !.lock = t, !.writes = w, !.error = e]]
      BY <1>9 DEF WriterLock
    <3>2. w \in BOOLEAN /\ e \in BOOLEAN
      OBVIOUS
    <3> HIDE DEF w, e
    <3>3. [conn[c] EXCEPT !.lock = t, !.writes = w, !.error = e] \in Connection
      BY <2>1, <3>2 DEF Connection
    <3> QED BY <3>1, <3>3
  <2>3. th' \in [Thread -> PoolThread]
    BY <1>9, <1>t DEF WriterLock, PoolThread
  <2>4. ~conn[c].writes
    BY <1>9, <2>1 DEF WriterLock, WritesOK
  <2>5. sock' \in [Conn -> Socket]
    BY <1>9, <2>4 DEF WriterLock
  <2> QED BY <1>9, <1>e, <2>2, <2>3, <2>5 DEF WriterLock
<1>10. CASE WriteHead(t)
  <2>1. c \in Conn /\ conn[c] \in Connection /\ conn[c].responses # <<>>
    BY <1>10, <1>t DEF WriteHead, At, ThreadOK, ThreadIs
  <2>2. [conn[c].responses EXCEPT ![1].sent = "body"] \in Seq(Reply)
    <3>1. conn[c].responses \in Seq(Reply) /\ 1 \in DOMAIN conn[c].responses
      BY <2>1 DEF Connection
    <3>2. [conn[c].responses[1] EXCEPT !.sent = "body"] \in Reply
      <4>1. conn[c].responses[1] \in Reply
        BY <3>1
      <4> QED BY <4>1 DEF Reply
    <3> QED BY <3>1, <3>2, ExceptSeq
  <2>3. conn' \in [Conn -> Connection]
    <3> DEFINE q == [conn[c].responses EXCEPT ![1].sent = "body"]
               result == IF Head(conn[c].responses).sent = "line" \/ conn[c].writes
                         THEN WriteResult(c) ELSE "none"
               w == result \in {"again", "error"}
               e == conn[c].error \/ result = "error"
    <3>1. conn' = [conn EXCEPT ![c] = [@ EXCEPT !.responses = q, !.writes = w, !.error = e]]
      BY <1>10, <2>1 DEF WriteHead, Connection
    <3>2. w \in BOOLEAN /\ e \in BOOLEAN /\ q \in Seq(Reply)
      BY <2>2
    <3> HIDE DEF q, w, e
    <3>3. [conn[c] EXCEPT !.responses = q, !.writes = w, !.error = e] \in Connection
      BY <2>1, <3>2 DEF Connection
    <3> QED BY <3>1, <3>3
  <2>4. th' \in [Thread -> PoolThread]
    BY <1>10, <1>t DEF WriteHead, PoolThread
  <2>5. sock' \in [Conn -> Socket]
    BY <1>10, <2>1, WrittenFacts DEF WriteHead
  <2> QED BY <1>10, <1>e, <2>3, <2>4, <2>5 DEF WriteHead
<1>11. CASE WriteBody(t)
  <2>1. c \in Conn /\ conn[c] \in Connection /\ conn[c].responses # <<>>
    BY <1>11, <1>t DEF WriteBody, At, ThreadOK, ThreadIs
  <2>2. conn' \in [Conn -> Connection]
    BY <1>11, <2>1 DEF WriteBody, Connection
  <2>3. th' \in [Thread -> PoolThread]
    BY <1>11, <1>t DEF WriteBody, PoolThread
  <2>4. sock' \in [Conn -> Socket]
    BY <1>11, <2>1, WrittenFacts DEF WriteBody
  <2> QED BY <1>11, <1>e, <2>2, <2>3, <2>4 DEF WriteBody
<1>12. CASE WriteDone(t)
  <2>1. c \in Conn /\ conn[c] \in Connection /\ conn[c].responses # <<>>
    BY <1>12, <1>t DEF WriteDone, At, ThreadOK, ThreadIs
  <2>2. Head(conn[c].responses) \in Reply /\ Tail(conn[c].responses) \in Seq(Reply)
    BY <2>1, HeadTailProperties DEF Connection
  <2>3. conn' \in [Conn -> Connection]
    BY <1>12, <2>1, <2>2 DEF WriteDone, Connection, Reply
  <2>4. th' \in [Thread -> PoolThread]
    BY <1>12, <1>t DEF WriteDone, PoolThread
  <2>5. owner' \in [Fd -> Conn \cup {None}]
    BY <1>12, <2>1 DEF WriteDone, SktClose, Connection
  <2> QED BY <1>12, <1>e, <2>3, <2>4, <2>5 DEF WriteDone
<1> QED
  BY <1>1, <1>2, <1>3, <1>4, <1>5, <1>6, <1>7, <1>8, <1>9, <1>10, <1>11, <1>12, PoolStep(t)
  DEF PoolStep

\* The queues are visited one after the other.
LEMMA PoolsFacts ==
  /\ Len(Pools) = 3
  /\ \A i \in 1..3 : Pools[i] \in PoolName
  /\ Pools[1] = "READ"
BY DEF Pools, PoolName

\* The batch of epoll_wait.
LEMMA BatchFacts ==
  ASSUME TypeOK, EpollWait
  PROVE  /\ main'.batch \subseteq Event
         /\ \A e \in main'.batch : e # Listen => e.conn \in Conn /\ Open(e.conn)
<1>1. Listen \in Event
  BY DEF Listen, Event
<1>2. \A c \in Conn : Flags(c) \in SUBSET {"IN", "OUT", "RDHUP", "ERR"}
  BY DEF Flags
<1>3. \A c \in Conn : [conn |-> c, flags |-> Flags(c)] \in Event
  BY <1>2 DEF Event
<1>4. \A e \in main'.batch : \/ e = Listen
                             \/ \E c \in Conn : e = [conn |-> c, flags |-> Flags(c)] /\ Open(c)
  BY DEF EpollWait, TypeOK, EventLoop
<1> QED BY <1>1, <1>3, <1>4

\* The types are preserved by the event loop.
LEMMA LoopTypes ==
  ASSUME TypeOK, LoopOK, LoopStep
  PROVE  TypeOK'
<1> USE DEF TypeOK
<1>e. env' = env
  BY LoopStep DEF LoopStep
<1>m. main \in EventLoop
  OBVIOUS
<1>p. Len(Pools) = 3 /\ Pools[main.idx] \in PoolName /\ queue[Pools[main.idx]] \in Seq(QueueItem)
  BY PoolsFacts DEF EventLoop
<1>1. CASE EpollWait
  <2>1. main' \in EventLoop
    BY <1>1, BatchFacts DEF EpollWait, EventLoop
  <2>2. sock' \in [Conn -> Socket]
    BY <1>1 DEF EpollWait, Socket
  <2> QED BY <1>1, <1>e, <2>1, <2>2 DEF EpollWait
<1>2. ASSUME NEW e, EventDone(e) PROVE main' \in EventLoop
  BY <1>2 DEF EventDone, EventLoop
<1>3. CASE AcceptDone
  BY <1>2, <1>3, <1>e DEF AcceptDone
<1>4. ASSUME NEW c \in Conn, Accept(c) PROVE TypeOK'
  <2> DEFINE free == {f \in Fd : owner[f] = None}
             f == Min(free)
  <2>1. f \in Fd
    <3>1. free # {} /\ free \in SUBSET Nat
      BY <1>4, FdFacts DEF Accept
    <3> QED BY <3>1, MinFacts
  <2> HIDE DEF f
  <2>2. CASE /\ conn' = [conn EXCEPT ![c].stage = "listed", ![c].fd = f]
             /\ owner' = [owner EXCEPT ![f] = c]
             /\ sock' = [sock EXCEPT ![c].edge = TRUE]
             /\ queue' = [queue EXCEPT !["READ"] = Append(@, Item(c))]
             /\ main' = [main EXCEPT !.rest = @ \cup {c}]
    <3>1. [conn[c] EXCEPT !.stage = "listed", !.fd = f] \in Connection
      BY <2>1 DEF Connection
    <3>2. [sock[c] EXCEPT !.edge = TRUE] \in Socket
      BY DEF Socket
    <3>3. Append(queue["READ"], Item(c)) \in Seq(QueueItem) /\ "READ" \in PoolName
      <4>1. Item(c) \in QueueItem
        BY DEF Item, QueueItem
      <4> QED BY <4>1 DEF PoolName
    <3>4. main' \in EventLoop
      BY <2>2, <1>m DEF EventLoop
    <3> QED BY <1>4, <1>e, <2>1, <2>2, <3>1, <3>2, <3>3, <3>4 DEF Accept
  <2>3. CASE /\ conn' = [conn EXCEPT ![c].stage = "freed", ![c].closed = TRUE]
             /\ UNCHANGED <<sock, owner, queue, main>>
    <3>1. [conn[c] EXCEPT !.stage = "freed", !.closed = TRUE] \in Connection
      BY DEF Connection
    <3> QED BY <1>4, <1>e, <2>3, <3>1 DEF Accept
  <2> QED BY <1>4, <2>2, <2>3 DEF Accept, f
<1>5. ASSUME NEW c \in Conn, SktClose(c) PROVE owner' \in [Fd -> Conn \cup {None}]
  BY <1>5 DEF SktClose
<1>6. ASSUME NEW c \in Conn, CleanCheck(c) PROVE TypeOK'
  <2>1. owner' \in [Fd -> Conn \cup {None}]
    BY <1>5, <1>6 DEF CleanCheck
  <2>2. conn' \in [Conn -> Connection]
    <3> DEFINE b == conn[c].closed \/ conn[c].error
    <3>1. b \in BOOLEAN
      OBVIOUS
    <3> HIDE DEF b
    <3>2. [conn[c] EXCEPT !.closed = b] \in Connection
      BY <3>1 DEF Connection
    <3> QED BY <1>6, <3>2 DEF CleanCheck, b
  <2>3. main' \in EventLoop
    <3> DEFINE closed == conn[c].closed \/ conn[c].error
    <3>1. main' = [main EXCEPT !.rest = @ \ {c},
                               !.pc = IF closed THEN "remove" ELSE "clean",
                               !.cur = IF closed THEN c ELSE None,
                               !.idx = 1]
      BY <1>6 DEF CleanCheck
    <3> HIDE DEF closed
    <3>2. main.rest \ {c} \in SUBSET Conn
      BY <1>m DEF EventLoop
    <3> DEFINE rest == main.rest \ {c}
    <3> HIDE DEF rest
    <3>3. rest \in SUBSET Conn /\ 1 \in 1..3
      BY <3>2 DEF rest
    <3>4. CASE closed
      <4>1. main' = [main EXCEPT !.rest = rest, !.pc = "remove", !.cur = c, !.idx = 1]
        BY <3>1, <3>4 DEF rest
      <4> QED BY <1>m, <3>3, <4>1 DEF EventLoop
    <3>5. CASE ~closed
      <4>1. main' = [main EXCEPT !.rest = rest, !.pc = "clean", !.cur = None, !.idx = 1]
        BY <3>1, <3>5 DEF rest
      <4> QED BY <1>m, <3>3, <4>1 DEF EventLoop
    <3> QED BY <3>4, <3>5
  <2> QED BY <1>6, <1>e, <2>1, <2>2, <2>3 DEF CleanCheck
<1>7. CASE OnHangup
  <2>1. PICK e \in main.batch \ {Listen} :
               /\ conn' = [conn EXCEPT ![e.conn].closed = TRUE]
               /\ SktClose(e.conn)
               /\ EventDone(e)
    BY <1>7 DEF OnHangup
  <2>2. e.conn \in Conn
    BY <2>1 DEF LoopOK
  <2>3. [conn[e.conn] EXCEPT !.closed = TRUE] \in Connection
    <3>1. conn[e.conn] \in Connection
      BY <2>2
    <3> QED BY <3>1 DEF Connection
  <2>4. conn' \in [Conn -> Connection] /\ main' \in EventLoop
        /\ owner' \in [Fd -> Conn \cup {None}]
    BY <1>2, <1>5, <2>1, <2>2, <2>3
  <2> QED BY <1>7, <1>e, <2>4 DEF OnHangup
<1>8. ASSUME NEW c \in Conn, NEW p \in PoolName, UnblockOrAdd(c, p)
      PROVE  queue' \in [PoolName -> Seq(QueueItem)]
  <2>1. Unblocked(queue["READ"], c) \in Seq(QueueItem)
    BY UnblockedFacts DEF PoolName
  <2>2. Item(c) \in QueueItem
    BY DEF Item, QueueItem
  <2>3. Append(queue[p], Item(c)) \in Seq(QueueItem)
    BY <2>2
  <2> QED BY <1>8, <2>1, <2>3 DEF UnblockOrAdd
<1>9. CASE OnReadable
  <2>1. PICK e \in main.batch \ {Listen} : UnblockOrAdd(e.conn, "READ") /\ EventDone(e)
    BY <1>9 DEF OnReadable
  <2>2. e.conn \in Conn /\ "READ" \in PoolName
    BY <2>1 DEF LoopOK, PoolName
  <2> QED BY <1>2, <1>8, <1>9, <1>e, <2>1, <2>2 DEF OnReadable
<1>10. CASE OnWritable
  <2>1. PICK e \in main.batch \ {Listen} : UnblockOrAdd(e.conn, "WRITE") /\ EventDone(e)
    BY <1>10 DEF OnWritable
  <2>2. e.conn \in Conn /\ "WRITE" \in PoolName
    BY <2>1 DEF LoopOK, PoolName
  <2> QED BY <1>2, <1>8, <1>10, <1>e, <2>1, <2>2 DEF OnWritable
<1>11. CASE CleanDone
  BY <1>11, <1>e DEF CleanDone, EventLoop
<1>12. CASE CleanRemove
  <2>1. Without(queue[Pools[main.idx]], main.cur) \in Seq(QueueItem)
    BY <1>p, WithoutFacts
  <2>2. main' \in EventLoop
    <3>1. CASE main.idx < 3
      <4> DEFINE next == main.idx + 1
      <4>1. main' = [main EXCEPT !.idx = next]
        BY <1>12, <1>p, <3>1 DEF CleanRemove
      <4>2. next \in 1..3
        BY <1>m, <3>1 DEF EventLoop
      <4> HIDE DEF next
      <4> QED BY <1>m, <4>1, <4>2 DEF EventLoop
    <3>2. CASE ~(main.idx < 3)
      <4>1. main' = [main EXCEPT !.pc = "drain", !.idx = 1]
        BY <1>12, <1>p, <3>2 DEF CleanRemove
      <4>2. 1 \in 1..3
        OBVIOUS
      <4> QED BY <1>m, <4>1, <4>2 DEF EventLoop
    <3> QED BY <3>1, <3>2
  <2> QED BY <1>12, <1>e, <1>p, <2>1, <2>2 DEF CleanRemove
<1>13. CASE CleanDrain
  <2>1. main.cur \in Conn
    BY <1>13 DEF CleanDrain, LoopOK
  <2>2. main' \in EventLoop
    <3>1. CASE main.idx < 3
      <4> DEFINE next == main.idx + 1
      <4>1. main' = [main EXCEPT !.idx = next]
        BY <1>13, <1>p, <3>1 DEF CleanDrain
      <4>2. next \in 1..3
        BY <1>m, <3>1 DEF EventLoop
      <4> HIDE DEF next
      <4> QED BY <1>m, <4>1, <4>2 DEF EventLoop
    <3>2. CASE ~(main.idx < 3)
      <4>1. main' = [main EXCEPT !.pc = "clean", !.cur = None, !.idx = 1]
        BY <1>13, <1>p, <3>2 DEF CleanDrain
      <4>2. 1 \in 1..3
        OBVIOUS
      <4> QED BY <1>m, <4>1, <4>2 DEF EventLoop
    <3> QED BY <3>1, <3>2
  <2>3. conn' \in [Conn -> Connection]
    <3>1. [conn[main.cur] EXCEPT !.stage = "freed"] \in Connection
      <4>1. conn[main.cur] \in Connection
        BY <2>1
      <4> QED BY <4>1 DEF Connection
    <3> QED BY <1>13, <2>1, <3>1 DEF CleanDrain
  <2> QED BY <1>13, <1>e, <2>2, <2>3 DEF CleanDrain
<1> QED
  BY <1>1, <1>3, <1>4, <1>6, <1>7, <1>9, <1>10, <1>11, <1>12, <1>13, LoopStep DEF LoopStep

--------------------------------------------------------------------------------
(* The handlers and the lock of a connection. *)

\* What clients and the event loop leave alone: the threads, and what a
\* connection holds for them.
Quiet == /\ th' = th
         /\ \A c \in Conn : /\ conn'[c].lock = conn[c].lock
                            /\ conn'[c].cur = conn[c].cur
                            /\ conn'[c].requests = conn[c].requests
                            /\ conn'[c].responses = conn[c].responses
                            /\ conn'[c].writes = conn[c].writes

\* Neither a client nor the event loop disturbs the handlers.
LEMMA QuietFacts ==
  ASSUME TypeOK, LoopOK, Client \/ LoopStep
  PROVE  Quiet
<1> USE DEF TypeOK, Quiet
<1>c. \A c \in Conn : conn[c] \in Connection
  OBVIOUS
<1>1. ASSUME NEW c \in Conn, Connect(c) PROVE Quiet
  BY <1>1, <1>c DEF Connect, Connection
<1>2. ASSUME NEW c \in Conn, Send(c) \/ Receive(c) \/ \E how \in {"fin", "reset"} : Hangup(c, how)
      PROVE  Quiet
  BY <1>2 DEF Send, Receive, Hangup
<1>3. CASE EpollWait \/ AcceptDone \/ OnReadable \/ OnWritable \/ CleanDone \/ CleanRemove
  BY <1>3 DEF EpollWait, AcceptDone, OnReadable, OnWritable, CleanDone, CleanRemove
<1>4. ASSUME NEW c \in Conn, Accept(c) PROVE Quiet
  <2> DEFINE f == Min({g \in Fd : owner[g] = None})
  <2>1. th' = th
        /\ \/ conn' = [conn EXCEPT ![c].stage = "listed", ![c].fd = f]
           \/ conn' = [conn EXCEPT ![c].stage = "freed", ![c].closed = TRUE]
    BY <1>4 DEF Accept
  <2> HIDE DEF f
  <2>2. CASE conn' = [conn EXCEPT ![c].stage = "listed", ![c].fd = f]
    BY <1>c, <2>1, <2>2 DEF Connection
  <2>3. CASE conn' = [conn EXCEPT ![c].stage = "freed", ![c].closed = TRUE]
    BY <1>c, <2>1, <2>3 DEF Connection
  <2> QED BY <2>1, <2>2, <2>3
<1>5. ASSUME NEW c \in Conn, CleanCheck(c) PROVE Quiet
  BY <1>5, <1>c DEF CleanCheck, Connection
<1>6. CASE OnHangup
  BY <1>6, <1>c DEF OnHangup, Connection, LoopOK
<1>7. CASE CleanDrain
  <2>1. main.cur \in Conn
    BY <1>7 DEF CleanDrain, LoopOK
  <2>2. th' = th
        /\ (conn' = conn \/ conn' = [conn EXCEPT ![main.cur].stage = "freed"])
    BY <1>7 DEF CleanDrain
  <2>3. CASE conn' = [conn EXCEPT ![main.cur].stage = "freed"]
    <3> DEFINE d == main.cur
    <3>1. d \in Conn /\ conn' = [conn EXCEPT ![d].stage = "freed"]
      BY <2>1, <2>3
    <3> HIDE DEF d
    <3> QED BY <1>c, <2>2, <3>1 DEF Connection
  <2> QED BY <2>2, <2>3
<1> QED
  BY <1>1, <1>2, <1>3, <1>4, <1>5, <1>6, <1>7, Client \/ LoopStep DEF Client, LoopStep

\* What a step of pool thread t on connection c does to the lock of c: it is
\* outside of the lock, takes it, holds it, or gives it back.
Outside(t) == /\ th[t].pc \in {"idle", "requeue"}
              /\ th'[t].pc \in {"idle", "lock"}
              /\ conn' = conn
Takes(t) == /\ th[t].pc = "lock"
            /\ conn[th[t].conn].lock = None
            /\ conn'[th[t].conn].lock = t
            /\ th'[t].pc \in Holding
            /\ th'[t].conn = th[t].conn
Holds(t) == /\ th[t].pc \in Holding
            /\ conn'[th[t].conn].lock = conn[th[t].conn].lock
            /\ th'[t].pc \in Holding
            /\ th'[t].conn = th[t].conn
GivesBack(t) == /\ th[t].pc = "release"
                /\ conn'[th[t].conn].lock = None
                /\ th'[t].pc \in {"idle", "requeue"}
                /\ conn'[th[t].conn].writes = conn[th[t].conn].writes

\* The effect of a step of a pool thread: on itself and its connection only.
Effect(t) ==
  /\ Outside(t) \/ Takes(t) \/ Holds(t) \/ GivesBack(t)
  /\ ThreadIs(t)'
  /\ \A u \in Thread : u # t => th'[u] = th[u]
  /\ \A d \in Conn : d # th[t].conn => conn'[d] = conn[d]
  /\ \A d \in Conn : /\ conn'[d].stage = conn[d].stage
                     /\ conn'[d].fd = conn[d].fd
                     /\ conn[d].closed => conn'[d].closed
  /\ \/ Outside(t)
     \/ th[t].conn \in Conn /\ (conn'[th[t].conn].writes => th'[t].pc = "head")
  /\ main' = main
  /\ env' = env

\* Each step of a pool thread has that effect.
LEMMA EffectFacts ==
  ASSUME TypeOK, ThreadOK, LockOK, WritesOK, NEW t \in Thread, PoolStep(t)
  PROVE  Effect(t)
<1> DEFINE c == th[t].conn
<1> USE DEF Holding
<1>e. env' = env
  BY PoolStep(t) DEF PoolStep
<1>t. th[t] \in PoolThread /\ (th[t].pc # "idle" => c \in Conn /\ conn[c] \in Connection)
  BY DEF ThreadOK, ThreadIs, TypeOK
<1>f. th \in [Thread -> PoolThread] /\ conn \in [Conn -> Connection]
  BY DEF TypeOK
<1>p. PoolOf(t) \in PoolName /\ queue[PoolOf(t)] \in Seq(QueueItem)
  BY DEF PoolOf, PoolName, TypeOK
<1>w. conn[c].writes /\ th[t].pc \in Holding => th[t].pc = "head"
  BY <1>t DEF WritesOK, LockOK, TypeOK
<1>1. CASE Fetch(t)
  <2>1. PICK i \in DOMAIN queue[PoolOf(t)] :
          th' = [th EXCEPT ![t] =
                   [Idle EXCEPT !.pc = "lock", !.conn = queue[PoolOf(t)][i].conn]]
    BY <1>1 DEF Fetch
  <2>2. queue[PoolOf(t)][i] \in QueueItem
    BY <1>p
  <2>3. th'[t].pc = "lock" /\ th'[t].conn \in Conn
    BY <1>f, <2>1, <2>2 DEF Idle, QueueItem
  <2>4. \A u \in Thread : u # t => th'[u] = th[u]
    BY <1>f, <2>1
  <2> QED BY <1>1, <1>e, <2>3, <2>4 DEF Effect, Fetch, At, Outside, ThreadIs
<1>2. CASE Enqueue(t)
  <2>1. /\ th[t].pc = "enqueue" /\ c \in Conn /\ t \notin Writer
        /\ conn' = conn /\ main' = main
    BY <1>2, <1>t DEF Enqueue, At, ThreadOK, ThreadIs
  <2> DEFINE more == Tail(th[t].todo)
             pc == IF more # <<>> THEN "enqueue" ELSE IF t \in Worker THEN "work" ELSE "release"
  <2>2. th' = [th EXCEPT ![t].todo = more, ![t].pc = pc]
    BY <1>2 DEF Enqueue
  <2>3. pc \in {"enqueue", "work", "release"} /\ (pc = "enqueue" => more # <<>>)
        /\ (pc = "work" => t \in Worker)
    OBVIOUS
  <2> HIDE DEF more, pc
  <2>4. th'[t].pc = pc /\ th'[t].todo = more /\ th'[t].conn = c
    BY <1>f, <1>t, <2>2 DEF PoolThread
  <2>5. \A u \in Thread : u # t => th'[u] = th[u]
    BY <1>f, <2>2
  <2>6. ThreadIs(t)'
    BY <2>1, <2>3, <2>4 DEF ThreadIs
  <2> QED BY <1>e, <1>w, <2>1, <2>3, <2>4, <2>5, <2>6 DEF Effect, Holds
<1>3. CASE Release(t)
  <2>1. /\ th[t].pc = "release" /\ c \in Conn /\ main' = main
        /\ conn' = [conn EXCEPT ![c].lock = None]
        /\ th' = [th EXCEPT ![t] = IF th[t].blocked THEN [@ EXCEPT !.pc = "requeue"] ELSE Idle]
    BY <1>3, <1>t DEF Release, At
  <2>2. /\ th'[t].pc \in {"idle", "requeue"}
        /\ th'[t].pc = "requeue" => th'[t].conn = c /\ th'[t].blocked
    BY <1>f, <1>t, <2>1 DEF PoolThread, Idle
  <2>3. \A u \in Thread : u # t => th'[u] = th[u]
    BY <1>f, <2>1
  <2>4. /\ \A d \in Conn : d # c => conn'[d] = conn[d]
        /\ conn'[c] = [conn[c] EXCEPT !.lock = None]
    BY <1>f, <2>1
  <2>5. /\ conn'[c].lock = None /\ conn'[c].writes = conn[c].writes
        /\ conn'[c].stage = conn[c].stage /\ conn'[c].fd = conn[c].fd
        /\ conn'[c].closed = conn[c].closed
    BY <1>t, <2>1, <2>4 DEF Connection
  <2>6. ThreadIs(t)'
    BY <2>1, <2>2 DEF ThreadIs
  <2> QED BY <1>e, <1>w, <2>1, <2>2, <2>3, <2>4, <2>5, <2>6 DEF Effect, GivesBack
<1>4. CASE Requeue(t)
  <2>1. th[t].pc = "requeue" /\ th' = [th EXCEPT ![t] = Idle] /\ conn' = conn /\ main' = main
    BY <1>4 DEF Requeue, At
  <2>2. th'[t] = Idle /\ \A u \in Thread : u # t => th'[u] = th[u]
    BY <1>f, <2>1
  <2> QED BY <1>e, <2>1, <2>2 DEF Effect, Outside, ThreadIs, Idle
<1>5. CASE ReadData(t)
  <2>1. c \in Conn /\ conn[c] \in Connection
    BY <1>5, <1>t DEF ReadData, At
  <2>2. PICK r \in State :
          /\ conn' = [conn EXCEPT ![c] = [Parsed(c, r) EXCEPT !.lock = t]]
          /\ th' = [th EXCEPT ![t].pc = "enqueue", ![t].todo = AfterParse(r)]
    BY <1>5, ReadFacts
  <2>4. /\ AfterParse(r) # <<>> /\ Parsed(c, r) \in Connection
        /\ Parsed(c, r).stage = conn[c].stage /\ Parsed(c, r).fd = conn[c].fd
        /\ Parsed(c, r).closed = conn[c].closed /\ Parsed(c, r).writes = conn[c].writes
    BY <2>1, ParsedFacts
  <2>5. /\ \A d \in Conn : d # c => conn'[d] = conn[d]
        /\ conn'[c] = [Parsed(c, r) EXCEPT !.lock = t]
        /\ \A u \in Thread : u # t => th'[u] = th[u]
        /\ th'[t] = [th[t] EXCEPT !.pc = "enqueue", !.todo = AfterParse(r)]
    BY <1>f, <2>1, <2>2
  <2>6. /\ th'[t].pc = "enqueue" /\ th'[t].todo = AfterParse(r) /\ th'[t].conn = c
        /\ conn'[c].lock = t /\ conn'[c].stage = conn[c].stage /\ conn'[c].fd = conn[c].fd
        /\ conn'[c].closed = conn[c].closed /\ conn'[c].writes = conn[c].writes
    BY <1>t, <2>4, <2>5 DEF Connection, PoolThread
  <2>7. /\ th[t].pc = "lock" /\ conn[c].lock = None /\ t \in Reader /\ main' = main
    BY <1>5 DEF ReadData, At
  <2>8. ~conn[c].writes /\ t \notin Writer
    BY <2>1, <2>7, PoolAssumption DEF WritesOK
  <2>9. ThreadIs(t)'
    BY <2>1, <2>4, <2>6, <2>8 DEF ThreadIs
  <2> QED BY <1>e, <2>1, <2>5, <2>6, <2>7, <2>8, <2>9 DEF Effect, Takes
<1>6. CASE ReadNothing(t)
  <2>1. /\ c \in Conn /\ conn[c] \in Connection /\ main' = main
        /\ th[t].pc = "lock" /\ conn[c].lock = None
        /\ \E b : th' = [th EXCEPT ![t].pc = "release", ![t].blocked = b]
        /\ \E b : conn' = [conn EXCEPT ![c].lock = t, ![c].error = b]
    BY <1>6, <1>t DEF ReadNothing, At
  <2>2. /\ \A u \in Thread : u # t => th'[u] = th[u]
        /\ th'[t].pc = "release" /\ th'[t].conn = c
    BY <1>f, <1>t, <2>1 DEF PoolThread
  <2>3. /\ \A d \in Conn : d # c => conn'[d] = conn[d]
        /\ conn'[c].lock = t /\ conn'[c].stage = conn[c].stage /\ conn'[c].fd = conn[c].fd
        /\ conn'[c].closed = conn[c].closed /\ conn'[c].writes = conn[c].writes
    BY <1>f, <2>1 DEF Connection
  <2>4. ~conn[c].writes
    BY <2>1 DEF WritesOK
  <2> QED BY <1>e, <2>1, <2>2, <2>3, <2>4 DEF Effect, Takes, ThreadIs
<1>7. CASE WorkerLock(t)
  <2>1. /\ c \in Conn /\ conn[c] \in Connection /\ main' = main /\ t \in Worker
        /\ th[t].pc = "lock" /\ conn[c].lock = None
        /\ th' = [th EXCEPT ![t].pc = "work"]
        /\ conn' = [conn EXCEPT ![c].lock = t]
    BY <1>7, <1>t DEF WorkerLock, At
  <2>2. /\ \A u \in Thread : u # t => th'[u] = th[u]
        /\ th'[t].pc = "work" /\ th'[t].conn = c
    BY <1>f, <1>t, <2>1 DEF PoolThread
  <2>3. /\ \A d \in Conn : d # c => conn'[d] = conn[d]
        /\ conn'[c].lock = t /\ conn'[c].stage = conn[c].stage /\ conn'[c].fd = conn[c].fd
        /\ conn'[c].closed = conn[c].closed /\ conn'[c].writes = conn[c].writes
    BY <1>f, <2>1 DEF Connection
  <2>4. ~conn[c].writes
    BY <2>1 DEF WritesOK
  <2> QED BY <1>e, <2>1, <2>2, <2>3, <2>4 DEF Effect, Takes, ThreadIs
<1>8. CASE Process(t)
  <2>1. /\ c \in Conn /\ conn[c] \in Connection /\ main' = main
        /\ th[t].pc = "work" /\ t \in Worker
    BY <1>8, <1>t DEF Process, At, ThreadOK, ThreadIs
  <2>2. t \notin Writer /\ ~conn[c].writes
    BY <1>w, <2>1, PoolAssumption
  <2>3. CASE conn[c].requests = <<>>
    <3>1. th' = [th EXCEPT ![t].pc = "release"] /\ conn' = conn
      BY <1>8, <2>3 DEF Process
    <3>2. /\ \A u \in Thread : u # t => th'[u] = th[u]
          /\ th'[t].pc = "release" /\ th'[t].conn = c
      BY <1>f, <1>t, <3>1 DEF PoolThread
    <3> QED BY <1>e, <2>1, <2>2, <3>1, <3>2 DEF Effect, Holds, ThreadIs
  <2>4. CASE conn[c].requests # <<>>
    <3>1. /\ \E a, b : conn' = [conn EXCEPT ![c].requests = a, ![c].responses = b]
          /\ th' = [th EXCEPT ![t].pc = "enqueue", ![t].todo = <<"WRITE">>]
      BY <1>8, <2>4 DEF Process
    <3>2. /\ \A u \in Thread : u # t => th'[u] = th[u]
          /\ th'[t].pc = "enqueue" /\ th'[t].conn = c /\ th'[t].todo = <<"WRITE">>
      BY <1>f, <1>t, <3>1 DEF PoolThread
    <3>3. /\ \A d \in Conn : d # c => conn'[d] = conn[d]
          /\ conn'[c].lock = conn[c].lock /\ conn'[c].stage = conn[c].stage
          /\ conn'[c].fd = conn[c].fd
          /\ conn'[c].closed = conn[c].closed /\ conn'[c].writes = conn[c].writes
      BY <1>f, <2>1, <3>1 DEF Connection
    <3>4. ThreadIs(t)'
      BY <2>1, <2>2, <3>2 DEF ThreadIs
    <3> QED BY <1>e, <2>1, <2>2, <3>2, <3>3, <3>4 DEF Effect, Holds
  <2> QED BY <2>3, <2>4
<1>9. CASE WriterLock(t)
  <2>1. /\ c \in Conn /\ conn[c] \in Connection /\ main' = main /\ t \in Writer
        /\ th[t].pc = "lock" /\ conn[c].lock = None
    BY <1>9, <1>t DEF WriterLock, At
  <2>2. ~conn[c].writes
    BY <2>1 DEF WritesOK
  <2> DEFINE result == IF conn[c].writes THEN WriteResult(c) ELSE "none"
             left == result \in {"again", "error"}
             b == result = "again"
             e == conn[c].error \/ result = "error"
             pc == IF left \/ conn[c].responses = <<>> THEN "release" ELSE "head"
  <2>3. /\ th' = [th EXCEPT ![t].blocked = b, ![t].pc = pc]
        /\ conn' = [conn EXCEPT ![c].lock = t, ![c].writes = left, ![c].error = e]
    BY <1>9 DEF WriterLock
  <2>8. ~left
    BY <2>2
  <2>4. pc \in {"release", "head"} /\ (pc = "head" => conn[c].responses # <<>>)
    OBVIOUS
  <2> HIDE DEF result, left, b, e, pc
  <2>5. /\ \A u \in Thread : u # t => th'[u] = th[u]
        /\ th'[t].pc = pc /\ th'[t].conn = c
    BY <1>f, <1>t, <2>3 DEF PoolThread
  <2>6. /\ \A d \in Conn : d # c => conn'[d] = conn[d]
        /\ conn'[c].lock = t /\ conn'[c].stage = conn[c].stage /\ conn'[c].fd = conn[c].fd
        /\ conn'[c].closed = conn[c].closed /\ ~conn'[c].writes
        /\ conn'[c].responses = conn[c].responses
    BY <1>f, <2>1, <2>3, <2>8 DEF Connection
  <2>7. ThreadIs(t)'
    BY <2>1, <2>4, <2>5, <2>6 DEF ThreadIs
  <2> QED BY <1>e, <2>1, <2>4, <2>5, <2>6, <2>7 DEF Effect, Takes
<1>10. CASE WriteHead(t)
  <2> DEFINE q == [conn[c].responses EXCEPT ![1].sent = "body"]
             result == IF Head(conn[c].responses).sent = "line" \/ conn[c].writes
                       THEN WriteResult(c) ELSE "none"
             left == result \in {"again", "error"}
             e == conn[c].error \/ result = "error"
             pc == IF e \/ left THEN "head" ELSE "body"
             b == th[t].blocked \/ result = "again"
  <2>1. /\ c \in Conn /\ conn[c] \in Connection /\ main' = main
        /\ th[t].pc = "head" /\ t \in Writer /\ conn[c].responses # <<>>
    BY <1>10, <1>t DEF WriteHead, At, ThreadOK, ThreadIs
  <2>2. /\ conn' = [conn EXCEPT ![c] = [@ EXCEPT !.responses = q, !.writes = left, !.error = e]]
        /\ th' = [th EXCEPT ![t].blocked = b, ![t].pc = pc]
    BY <1>10, <1>f, <2>1 DEF WriteHead, Connection
  <2>3. pc \in {"head", "body"} /\ (left => pc = "head") /\ q # <<>>
    <3>1. conn[c].responses \in Seq(Reply) /\ 1 \in DOMAIN conn[c].responses
      BY <2>1 DEF Connection
    <3>2. DOMAIN q = DOMAIN conn[c].responses
      BY <3>1
    <3> QED BY <3>1, <3>2
  <2> HIDE DEF q, result, left, e, pc, b
  <2>4. /\ \A u \in Thread : u # t => th'[u] = th[u]
        /\ th'[t].pc = pc /\ th'[t].conn = c
    BY <1>f, <1>t, <2>2 DEF PoolThread
  <2>5. /\ \A d \in Conn : d # c => conn'[d] = conn[d]
        /\ conn'[c].lock = conn[c].lock /\ conn'[c].stage = conn[c].stage
        /\ conn'[c].fd = conn[c].fd /\ conn'[c].closed = conn[c].closed
        /\ conn'[c].writes = left /\ conn'[c].responses = q
    BY <1>f, <2>1, <2>2 DEF Connection
  <2>6. ThreadIs(t)'
    BY <2>1, <2>3, <2>4, <2>5 DEF ThreadIs
  <2> QED BY <1>e, <2>1, <2>3, <2>4, <2>5, <2>6 DEF Effect, Holds
<1>11. CASE WriteBody(t)
  <2> DEFINE result == IF Head(conn[c].responses).kind = "continue" THEN "none"
                       ELSE WriteResult(c)
             pc == IF result = "again" THEN "release" ELSE "done"
             e == conn[c].error \/ result = "error"
  <2>1. /\ c \in Conn /\ conn[c] \in Connection /\ main' = main
        /\ th[t].pc = "body" /\ t \in Writer /\ conn[c].responses # <<>> /\ ~conn[c].writes
    BY <1>11, <1>t, <1>w DEF WriteBody, At, ThreadOK, ThreadIs
  <2>2. /\ conn' = [conn EXCEPT ![c].error = e]
        /\ th' = [th EXCEPT ![t].pc = pc]
    BY <1>11 DEF WriteBody
  <2>3. pc \in {"release", "done"}
    OBVIOUS
  <2> HIDE DEF result, pc, e
  <2>4. /\ \A u \in Thread : u # t => th'[u] = th[u]
        /\ th'[t].pc = pc /\ th'[t].conn = c
    BY <1>f, <1>t, <2>2 DEF PoolThread
  <2>5. /\ \A d \in Conn : d # c => conn'[d] = conn[d]
        /\ conn'[c].lock = conn[c].lock /\ conn'[c].stage = conn[c].stage
        /\ conn'[c].fd = conn[c].fd /\ conn'[c].closed = conn[c].closed
        /\ conn'[c].writes = conn[c].writes /\ conn'[c].responses = conn[c].responses
    BY <1>f, <2>1, <2>2 DEF Connection
  <2>6. ThreadIs(t)'
    BY <2>1, <2>3, <2>4, <2>5 DEF ThreadIs
  <2> QED BY <1>e, <2>1, <2>3, <2>4, <2>5, <2>6 DEF Effect, Holds
<1>12. CASE WriteDone(t)
  <2> DEFINE r == Head(conn[c].responses)
             pc == IF r.close \/ Len(conn[c].responses) = 1 THEN "release" ELSE "head"
             q == Tail(conn[c].responses)
             b == conn[c].closed \/ r.close
  <2>1. /\ c \in Conn /\ conn[c] \in Connection /\ main' = main
        /\ th[t].pc = "done" /\ t \in Writer /\ conn[c].responses # <<>> /\ ~conn[c].writes
    BY <1>12, <1>t, <1>w DEF WriteDone, At, ThreadOK, ThreadIs
  <2>2. /\ conn' = [conn EXCEPT ![c].responses = q, ![c].closed = b]
        /\ th' = [th EXCEPT ![t].pc = pc]
    BY <1>12 DEF WriteDone
  <2>3. pc \in {"release", "head"} /\ (pc = "head" => q # <<>>) /\ (conn[c].closed => b)
    <3>1. conn[c].responses \in Seq(Reply)
      BY <2>1 DEF Connection
    <3>2. Len(q) = Len(conn[c].responses) - 1 /\ Len(conn[c].responses) \in Nat
      BY <2>1, <3>1, HeadTailProperties
    <3>3. pc = "head" => Len(q) # 0
      BY <3>2
    <3>4. Len(<<>>) = 0
      OBVIOUS
    <3> QED BY <3>3, <3>4, Zenon
  <2> HIDE DEF r, pc, q, b
  <2>4. /\ \A u \in Thread : u # t => th'[u] = th[u]
        /\ th'[t].pc = pc /\ th'[t].conn = c
    BY <1>f, <1>t, <2>2 DEF PoolThread
  <2>5. /\ \A d \in Conn : d # c => conn'[d] = conn[d]
        /\ conn'[c].lock = conn[c].lock /\ conn'[c].stage = conn[c].stage
        /\ conn'[c].fd = conn[c].fd /\ conn'[c].closed = b
        /\ conn'[c].writes = conn[c].writes /\ conn'[c].responses = q
    BY <1>f, <2>1, <2>2 DEF Connection
  <2>6. ThreadIs(t)'
    BY <2>1, <2>3, <2>4, <2>5 DEF ThreadIs
  <2> QED BY <1>e, <2>1, <2>3, <2>4, <2>5, <2>6 DEF Effect, Holds
<1> QED
  BY <1>1, <1>2, <1>3, <1>4, <1>5, <1>6, <1>7, <1>8, <1>9, <1>10, <1>11, <1>12, PoolStep(t)
  DEF PoolStep

\* Threads, locks and half-written header blocks.
LEMMA LockStep ==
  ASSUME TypeOK, TypeOK', ThreadOK, LockOK, WritesOK, LoopOK, [Next]_vars
  PROVE  ThreadOK' /\ LockOK' /\ WritesOK'
<1>t. /\ \A t \in Thread : th[t] \in PoolThread
      /\ \A c \in Conn : conn[c] \in Connection /\ conn[c].lock \in Thread \cup {None}
      /\ \A c \in Conn : conn'[c].lock \in Thread \cup {None}
      /\ None \notin Thread
  BY NoneAssumption DEF TypeOK, Connection
<1>1. CASE Client \/ LoopStep
  <2>1. Quiet
    BY <1>1, QuietFacts
  <2>2. ThreadOK'
    BY <2>1 DEF Quiet, ThreadOK, ThreadIs
  <2>3. LockOK'
    <3>1. \A t \in Thread : th[t].pc \in Holding => th[t].conn \in Conn
      BY DEF ThreadOK, ThreadIs, Holding
    <3> QED BY <1>t, <2>1, <3>1 DEF Quiet, LockOK
  <2>4. WritesOK'
    BY <2>1 DEF Quiet, WritesOK
  <2> QED BY <2>2, <2>3, <2>4
<1>2. ASSUME NEW t \in Thread, PoolStep(t)
      PROVE  ThreadOK' /\ LockOK' /\ WritesOK'
  <2> DEFINE c == th[t].conn
  <2>1. Effect(t)
    BY <1>2, EffectFacts
  <2>2. ASSUME NEW u \in Thread, u # t, th[u].pc \in Holding
        PROVE  conn'[th[u].conn] = conn[th[u].conn] \/ (th[t].pc = "idle" /\ conn' = conn)
    <3>1. th[u].conn \in Conn /\ conn[th[u].conn].lock = u
      BY <2>2 DEF ThreadOK, ThreadIs, LockOK, Holding
    <3>2. CASE th[u].conn # c
      BY <2>1, <3>1, <3>2 DEF Effect
    <3>3. CASE th[u].conn = c
      <4>1. conn[c].lock = u
        BY <3>1, <3>3
      <4>2. ~Takes(t)
        BY <1>t, <4>1 DEF Takes
      <4>3. th[t].pc \notin Holding
        BY <2>2, <4>1 DEF LockOK
      <4>4. Outside(t)
        BY <2>1, <4>2, <4>3 DEF Effect, Holds, GivesBack, Holding
      <4> QED BY <4>4 DEF Outside
    <3> QED BY <3>2, <3>3
  <2>3. ThreadOK'
    <3> SUFFICES ASSUME NEW u \in Thread PROVE ThreadIs(u)'
      BY DEF ThreadOK
    <3>1. CASE u = t
      BY <2>1, <3>1 DEF Effect
    <3>2. CASE u # t
      <4>1. th'[u] = th[u] /\ ThreadIs(u)
        BY <2>1, <3>2 DEF Effect, ThreadOK
      <4>2. th[u].pc \in {"head", "body", "done"} => conn'[th[u].conn] = conn[th[u].conn]
        BY <2>2, <3>2 DEF Holding
      <4> QED BY <4>1, <4>2 DEF ThreadIs
    <3> QED BY <3>1, <3>2
  <2>4. \A u \in Thread : th'[u].pc \in Holding => conn'[th'[u].conn].lock = u
    <3> TAKE u \in Thread
    <3>1. CASE u # t
      <4>1. th'[u] = th[u]
        BY <2>1, <3>1 DEF Effect
      <4> QED BY <2>2, <3>1, <4>1 DEF LockOK
    <3>2. CASE u = t
      <4>1. CASE Takes(t)
        BY <3>2, <4>1 DEF Takes
      <4>2. CASE Holds(t)
        BY <3>2, <4>2 DEF Holds, LockOK
      <4>3. CASE Outside(t) \/ GivesBack(t)
        BY <3>2, <4>3 DEF Outside, GivesBack, Holding
      <4> QED BY <2>1, <4>1, <4>2, <4>3 DEF Effect
    <3> QED BY <3>1, <3>2
  <2>5. ASSUME NEW d \in Conn, conn'[d].lock # None
        PROVE  th'[conn'[d].lock].pc \in Holding /\ th'[conn'[d].lock].conn = d
    <3>1. CASE Outside(t)
      <4>1. conn'[d] = conn[d] /\ th[conn[d].lock].pc \in Holding
            /\ th[conn[d].lock].conn = d /\ conn[d].lock \in Thread
        BY <1>t, <2>5, <3>1 DEF Outside, LockOK
      <4>2. conn[d].lock # t
        BY <3>1, <4>1 DEF Outside, Holding
      <4> QED BY <2>1, <4>1, <4>2 DEF Effect
    <3>2. CASE d # c /\ ~Outside(t)
      <4>1. conn'[d] = conn[d]
        BY <2>1, <3>2 DEF Effect
      <4>2. conn[d].lock \in Thread /\ th[conn[d].lock].pc \in Holding
            /\ th[conn[d].lock].conn = d
        BY <1>t, <2>5, <4>1 DEF LockOK
      <4>3. conn[d].lock # t
        BY <3>2, <4>2
      <4> QED BY <2>1, <4>1, <4>2, <4>3 DEF Effect
    <3>3. CASE d = c /\ ~Outside(t)
      <4>1. CASE Takes(t)
        BY <3>3, <4>1 DEF Takes
      <4>2. CASE Holds(t)
        BY <3>3, <4>2 DEF Holds, LockOK
      <4>3. ~GivesBack(t)
        BY <2>5, <3>3 DEF GivesBack
      <4> QED BY <2>1, <3>3, <4>1, <4>2, <4>3 DEF Effect
    <3> QED BY <3>1, <3>2, <3>3
  <2>6. ASSUME NEW d \in Conn, conn'[d].writes
        PROVE  conn'[d].lock # None /\ th'[conn'[d].lock].pc = "head"
    <3>1. CASE Outside(t) \/ d # c
      <4>1. conn'[d] = conn[d]
        BY <2>1, <3>1 DEF Effect, Outside
      <4>2. conn[d].lock \in Thread /\ th[conn[d].lock].pc = "head"
            /\ th[conn[d].lock].conn = d
        BY <1>t, <2>6, <4>1 DEF WritesOK, LockOK
      <4>3. conn[d].lock # t
        BY <3>1, <4>2 DEF Outside
      <4> QED BY <1>t, <2>1, <4>1, <4>2, <4>3 DEF Effect
    <3>2. CASE ~Outside(t) /\ d = c
      <4>1. th'[t].pc = "head"
        BY <2>1, <2>6, <3>2 DEF Effect
      <4>2. conn'[d].lock = t
        BY <2>1, <2>4, <3>2, <4>1 DEF Effect, Takes, Holds, GivesBack, Holding
      <4> QED BY <1>t, <4>1, <4>2
    <3> QED BY <3>1, <3>2
  <2> QED BY <2>3, <2>4, <2>5, <2>6 DEF LockOK, WritesOK
<1>3. CASE UNCHANGED vars
  BY <1>3 DEF vars, ThreadOK, ThreadIs, LockOK, WritesOK
<1> QED BY <1>1, <1>2, <1>3 DEF Next

--------------------------------------------------------------------------------
(* The event loop, the descriptors and the readers. *)

\* What a step of a pool thread does to the queues: an item was there before,
\* or it is for the thread's connection; what goes back to READ is blocked, and
\* what is fetched was not.
QueueEffect(t) ==
  /\ \A p \in PoolName : \A i \in DOMAIN queue'[p] :
       \/ \E j \in DOMAIN queue[p] : queue'[p][i] = queue[p][j]
       \/ /\ th[t].pc \in {"enqueue", "requeue"}
          /\ queue'[p][i].conn = th[t].conn
          /\ p = "READ" => queue'[p][i].blocked
  /\ th[t].pc = "idle" =>
       \E j \in DOMAIN queue[PoolOf(t)] : /\ ~queue[PoolOf(t)][j].blocked
                                          /\ th'[t].conn = queue[PoolOf(t)][j].conn

\* A socket is closed only together with its connection.
OwnerEffect == \A f \in Fd : owner'[f] # None =>
                 /\ owner'[f] = owner[f]
                 /\ ~conn[owner[f]].closed => ~conn'[owner[f]].closed

\* skt_close takes the descriptor away from its connection.
LEMMA SktCloseFacts ==
  ASSUME TypeOK, OwnerOK, NEW c \in Conn, SktClose(c)
  PROVE  \A f \in Fd : owner'[f] # None => owner'[f] = owner[f] /\ owner'[f] # c
<1>1. conn[c].fd \in Fd \cup {None} /\ None \notin Fd /\ owner \in [Fd -> Conn \cup {None}]
  BY NoneAssumption DEF TypeOK, Connection
<1>2. \A f \in Fd : owner[f] = c => conn[c].fd = f
  BY NoneAssumption DEF OwnerOK
<1>3. CASE conn[c].fd = None
  BY <1>1, <1>2, <1>3 DEF SktClose
<1>4. CASE conn[c].fd # None
  BY <1>1, <1>2, <1>4 DEF SktClose
<1> QED BY <1>3, <1>4

\* What a step of a pool thread does to the queues.
LEMMA PoolQueueFacts ==
  ASSUME TypeOK, ThreadOK, NEW t \in Thread, PoolStep(t)
  PROVE  QueueEffect(t)
<1> DEFINE c == th[t].conn
<1>t. th[t] \in PoolThread /\ (th[t].pc # "idle" => c \in Conn)
  BY DEF ThreadOK, ThreadIs, TypeOK
<1>f. th \in [Thread -> PoolThread] /\ queue \in [PoolName -> Seq(QueueItem)]
  BY DEF TypeOK
<1>p. PoolOf(t) \in PoolName /\ queue[PoolOf(t)] \in Seq(QueueItem)
  BY DEF PoolOf, PoolName, TypeOK
<1>a. ASSUME NEW q \in Seq(QueueItem), NEW item \in QueueItem
      PROVE  \A i \in DOMAIN Append(q, item) :
               (i \in DOMAIN q /\ Append(q, item)[i] = q[i]) \/ Append(q, item)[i] = item
  OBVIOUS
<1>1. CASE Fetch(t)
  <2> DEFINE p == PoolOf(t)
             q == queue[p]
  <2>1. PICK i \in DOMAIN q :
          /\ ~q[i].blocked
          /\ queue' = [queue EXCEPT ![p] = RemoveAt(q, i)]
          /\ th' = [th EXCEPT ![t] = [Idle EXCEPT !.pc = "lock", !.conn = q[i].conn]]
    BY <1>1 DEF Fetch
  <2>2. /\ RemoveAt(q, i) \in Seq(QueueItem)
        /\ Len(RemoveAt(q, i)) = Len(q) - 1
        /\ \A j \in 1..(Len(q) - 1) : RemoveAt(q, i)[j] = q[IF j < i THEN j ELSE j + 1]
    BY <1>p, RemoveAtFacts
  <2>3. \A j \in DOMAIN RemoveAt(q, i) : \E k \in DOMAIN q : RemoveAt(q, i)[j] = q[k]
    <3> DEFINE r == RemoveAt(q, i)
    <3> HIDE DEF r
    <3>1. r \in Seq(QueueItem) /\ Len(r) = Len(q) - 1 /\ i \in 1..Len(q) /\ Len(q) \in Nat
          /\ DOMAIN q = 1..Len(q)
          /\ \A j \in 1..(Len(q) - 1) : r[j] = q[IF j < i THEN j ELSE j + 1]
      BY <1>p, <2>2 DEF r
    <3>2. \A j \in DOMAIN r : /\ j \in 1..(Len(q) - 1)
                              /\ (IF j < i THEN j ELSE j + 1) \in DOMAIN q
      BY <3>1
    <3>3. \A j \in DOMAIN r : \E k \in DOMAIN q : r[j] = q[k]
      BY <3>1, <3>2
    <3> QED BY <3>3 DEF r
  <2>4. queue'[p] = RemoveAt(q, i) /\ \A s \in PoolName : s # p => queue'[s] = queue[s]
    BY <1>f, <1>p, <2>1
  <2>5. th'[t].conn = q[i].conn /\ th[t].pc = "idle"
    BY <1>1, <1>f, <2>1 DEF Idle, Fetch, At
  <2>6. ASSUME NEW s \in PoolName, NEW j \in DOMAIN queue'[s]
        PROVE  \E k \in DOMAIN queue[s] : queue'[s][j] = queue[s][k]
    <3>1. CASE s = p
      BY <2>3, <2>4, <2>6, <3>1
    <3>2. CASE s # p
      BY <2>4, <2>6, <3>2
    <3> QED BY <3>1, <3>2
  <2> HIDE DEF p
  <2>7. \E k \in DOMAIN queue[p] : ~queue[p][k].blocked /\ th'[t].conn = queue[p][k].conn
    BY <2>1, <2>5
  <2> QED BY <2>6, <2>7 DEF QueueEffect, p
<1>2. CASE Enqueue(t)
  <2> DEFINE p == Head(th[t].todo)
  <2>1. th[t].pc = "enqueue" /\ th[t].todo # <<>> /\ th[t].todo \in Seq({"WORKER", "WRITE"})
    BY <1>2, <1>t DEF Enqueue, At, ThreadOK, ThreadIs, PoolThread
  <2>2. p \in {"WORKER", "WRITE"}
    BY <2>1, HeadTailProperties
  <2> DEFINE item == Item(c)
  <2>3. queue' = [queue EXCEPT ![p] = Append(@, item)]
    BY <1>2 DEF Enqueue
  <2>4. item \in QueueItem /\ item.conn = c /\ p \in PoolName /\ p # "READ"
    BY <1>t, <2>1, <2>2 DEF Item, QueueItem, PoolName
  <2> HIDE DEF p, item
  <2>5. queue'[p] = Append(queue[p], item) /\ \A s \in PoolName : s # p => queue'[s] = queue[s]
        /\ queue[p] \in Seq(QueueItem)
    BY <1>f, <2>3, <2>4
  <2>6. ASSUME NEW s \in PoolName, NEW i \in DOMAIN queue'[s]
        PROVE  \/ \E j \in DOMAIN queue[s] : queue'[s][i] = queue[s][j]
               \/ queue'[s][i].conn = c /\ s # "READ"
    <3>1. CASE s = p
      <4>1. i \in DOMAIN Append(queue[p], item) /\ queue'[s][i] = Append(queue[p], item)[i]
        BY <2>5, <2>6, <3>1
      <4>2. (i \in DOMAIN queue[p] /\ Append(queue[p], item)[i] = queue[p][i])
            \/ Append(queue[p], item)[i] = item
        BY <1>a, <2>4, <2>5, <4>1
      <4> QED BY <2>4, <3>1, <4>1, <4>2
    <3>2. CASE s # p
      BY <2>5, <2>6, <3>2
    <3> QED BY <3>1, <3>2
  <2> QED BY <2>1, <2>6 DEF QueueEffect
<1>3. CASE Requeue(t)
  <2> DEFINE p == PoolOf(t)
             item == [conn |-> c, blocked |-> th[t].blocked]
  <2>1. th[t].pc = "requeue" /\ th[t].blocked /\ queue' = [queue EXCEPT ![p] = Append(@, item)]
    BY <1>3 DEF Requeue, At, ThreadOK, ThreadIs
  <2>2. item \in QueueItem /\ item.conn = c /\ item.blocked
    BY <1>t, <2>1 DEF QueueItem, PoolThread
  <2> HIDE DEF item, p
  <2>3. p \in PoolName /\ queue[p] \in Seq(QueueItem)
    BY <1>p DEF p
  <2>4. queue'[p] = Append(queue[p], item) /\ \A s \in PoolName : s # p => queue'[s] = queue[s]
    BY <1>f, <2>1, <2>3
  <2>5. ASSUME NEW s \in PoolName, NEW i \in DOMAIN queue'[s]
        PROVE  \/ \E j \in DOMAIN queue[s] : queue'[s][i] = queue[s][j]
               \/ queue'[s][i].conn = c /\ queue'[s][i].blocked
    <3>1. CASE s = p
      <4>1. i \in DOMAIN Append(queue[p], item) /\ queue'[s][i] = Append(queue[p], item)[i]
        BY <2>4, <2>5, <3>1
      <4>2. (i \in DOMAIN queue[p] /\ Append(queue[p], item)[i] = queue[p][i])
            \/ Append(queue[p], item)[i] = item
        BY <1>a, <2>2, <2>3, <4>1, Zenon
      <4> QED BY <2>2, <3>1, <4>1, <4>2
    <3>2. CASE s # p
      BY <2>4, <2>5, <3>2
    <3> QED BY <3>1, <3>2
  <2> QED BY <2>1, <2>5 DEF QueueEffect
<1>4. CASE queue' = queue /\ th[t].pc # "idle"
  BY <1>4 DEF QueueEffect
<1>5. CASE \/ Release(t) \/ ReadData(t) \/ ReadNothing(t) \/ WorkerLock(t) \/ Process(t)
           \/ WriterLock(t) \/ WriteHead(t) \/ WriteBody(t) \/ WriteDone(t)
  <2>1. queue' = queue /\ th[t].pc # "idle"
    BY <1>5 DEF Release, ReadData, ReadNothing, WorkerLock, Process, WriterLock, WriteHead,
                WriteBody, WriteDone, At
  <2> QED BY <1>4, <2>1
<1> QED BY <1>1, <1>2, <1>3, <1>5, PoolStep(t) DEF PoolStep

\* What a step of a pool thread does to the descriptors.
LEMMA PoolOwnerFacts ==
  ASSUME TypeOK, ThreadOK, OwnerOK, NEW t \in Thread, PoolStep(t)
  PROVE  OwnerEffect
<1> DEFINE c == th[t].conn
<1>t. th[t].pc # "idle" => c \in Conn
  BY DEF ThreadOK, ThreadIs
<1>c. conn \in [Conn -> Connection] /\ owner \in [Fd -> Conn \cup {None}]
  BY DEF TypeOK
<1>1. CASE WriteDone(t)
  <2> DEFINE r == Head(conn[c].responses)
             q == Tail(conn[c].responses)
             b == conn[c].closed \/ r.close
  <2>1. c \in Conn /\ conn[c] \in Connection
    BY <1>1, <1>t, <1>c DEF WriteDone, At
  <2>2. conn' = [conn EXCEPT ![c].responses = q, ![c].closed = b]
        /\ (IF r.close THEN SktClose(c) ELSE UNCHANGED owner)
    BY <1>1 DEF WriteDone
  <2> HIDE DEF q
  <2>3. /\ \A d \in Conn : d # c => conn'[d] = conn[d]
        /\ conn'[c].closed = b
    BY <1>c, <2>1, <2>2 DEF Connection
  <2>4. CASE r.close
    <3>1. \A f \in Fd : owner'[f] # None => owner'[f] = owner[f] /\ owner'[f] # c
      BY <2>1, <2>2, <2>4, SktCloseFacts
    <3> QED BY <1>c, <2>3, <3>1 DEF OwnerEffect
  <2>5. CASE ~r.close
    <3>1. owner' = owner /\ \A d \in Conn : ~conn[d].closed => ~conn'[d].closed
      BY <2>2, <2>3, <2>5
    <3> QED BY <1>c, <3>1 DEF OwnerEffect
  <2> QED BY <2>4, <2>5
<1>2. CASE owner' = owner /\ \A d \in Conn : conn'[d].closed = conn[d].closed
  BY <1>2, <1>c DEF OwnerEffect
<1>3. CASE ~WriteDone(t)
  <2>1. owner' = owner
    BY <1>3, PoolStep(t)
    DEF PoolStep, Fetch, Enqueue, Requeue, Release, ReadData, ReadNothing, WorkerLock, Process,
        WriterLock, WriteHead, WriteBody
  <2>2. ASSUME NEW d \in Conn PROVE conn'[d].closed = conn[d].closed
    <3>c. conn[d] \in Connection
      BY <1>c
    <3>1. CASE Fetch(t) \/ Enqueue(t) \/ Requeue(t)
      BY <3>1 DEF Fetch, Enqueue, Requeue
    <3>2. CASE Release(t)
      BY <1>c, <3>c, <3>2 DEF Release, Connection
    <3>3. CASE ReadData(t)
      <4>1. PICK r \in State : conn' = [conn EXCEPT ![c] = [Parsed(c, r) EXCEPT !.lock = t]]
        BY <3>3, ReadFacts
      <4>2. c \in Conn /\ conn[c] \in Connection
        BY <1>c, <1>t, <3>3 DEF ReadData, At
      <4>3. Parsed(c, r) \in Connection /\ Parsed(c, r).closed = conn[c].closed
        BY <4>2, ParsedFacts
      <4> QED BY <1>c, <3>c, <4>1, <4>2, <4>3 DEF Connection
    <3>4. CASE ReadNothing(t)
      BY <1>c, <3>c, <3>4 DEF ReadNothing, Connection
    <3>5. CASE WorkerLock(t)
      BY <1>c, <3>c, <3>5 DEF WorkerLock, Connection
    <3>6. CASE Process(t)
      <4>1. CASE conn[c].requests = <<>>
        BY <3>6, <4>1 DEF Process
      <4>2. CASE conn[c].requests # <<>>
        <5> DEFINE a == Tail(conn[c].requests)
                   k == Head(conn[c].requests)
                   b == Append(conn[c].responses, Response("ok", k, k \in env.close))
        <5>1. conn' = [conn EXCEPT ![c].requests = a, ![c].responses = b]
          BY <3>6, <4>2 DEF Process
        <5> HIDE DEF a, b
        <5> QED BY <1>c, <3>c, <5>1 DEF Connection
      <4> QED BY <4>1, <4>2
    <3>7. CASE WriterLock(t)
      BY <1>c, <3>c, <3>7 DEF WriterLock, Connection
    <3>8. CASE WriteHead(t)
      BY <1>c, <3>c, <3>8 DEF WriteHead, Connection
    <3>9. CASE WriteBody(t)
      BY <1>c, <3>c, <3>9 DEF WriteBody, Connection
    <3> QED
      BY <1>3, <3>1, <3>2, <3>3, <3>4, <3>5, <3>6, <3>7, <3>8, <3>9, PoolStep(t) DEF PoolStep
  <2> QED BY <1>2, <2>1, <2>2
<1> QED BY <1>1, <1>3

\* The connections in use: steps of the pool threads.
LEMMA PoolUse ==
  ASSUME TypeOK, ThreadOK, LockOK, WritesOK, LoopOK, OwnerOK, ReaderOK,
         NEW t \in Thread, PoolStep(t)
  PROVE  LoopOK' /\ OwnerOK' /\ ReaderOK'
<1> DEFINE c == th[t].conn
<1>1. Effect(t) /\ QueueEffect(t) /\ OwnerEffect
  BY EffectFacts, PoolQueueFacts, PoolOwnerFacts
<1>2. \A d \in Conn : /\ conn'[d].stage = conn[d].stage
                      /\ conn'[d].fd = conn[d].fd
                      /\ conn[d].closed => conn'[d].closed
  BY <1>1 DEF Effect
<1>3. main' = main /\ \A u \in Thread : u # t => th'[u] = th[u]
  BY <1>1 DEF Effect
<1>q. \A p \in PoolName : \A i \in DOMAIN queue[p] : queue[p][i].conn \in Conn
  <2>1. ASSUME NEW p \in PoolName, NEW i \in DOMAIN queue[p] PROVE queue[p][i] \in QueueItem
    BY DEF TypeOK
  <2> QED BY <2>1 DEF QueueItem
<1>m. main.rest \subseteq Conn
  BY DEF TypeOK, EventLoop
<1>4. LoopOK'
  <2>1. \A e \in main.batch : e # Listen => e.conn \in Conn /\ conn'[e.conn].stage = "listed"
    BY <1>2 DEF LoopOK
  <2>2. \A d \in main.rest : conn'[d].stage = "listed"
    BY <1>2, <1>m DEF LoopOK
  <2>3. main.pc \in {"remove", "drain"} =>
          /\ main.cur \in Conn \ main.rest
          /\ conn'[main.cur].stage = "listed"
          /\ conn'[main.cur].closed
    BY <1>2 DEF LoopOK
  <2>4. main.pc # "events" => main.batch = {}
    BY DEF LoopOK
  <2> QED BY <1>3, <2>1, <2>2, <2>3, <2>4 DEF LoopOK, Listen
<1>5. /\ th[t].pc = "idle" =>
           \E j \in DOMAIN queue[PoolOf(t)] : /\ ~queue[PoolOf(t)][j].blocked
                                              /\ th'[t].conn = queue[PoolOf(t)][j].conn
      /\ th'[t].pc # "idle" => th'[t].conn \in Conn
      /\ th[t].pc # "idle" => c \in Conn
      /\ th[t].pc # "idle" /\ th'[t].pc # "idle" => th'[t].conn = c
      /\ PoolOf(t) \in PoolName
  <2>1. th'[t].pc # "idle" => th'[t].conn \in Conn
    BY <1>1 DEF Effect, ThreadIs
  <2>2. th[t].pc # "idle" => c \in Conn
    BY DEF ThreadOK, ThreadIs
  <2>3. th[t].pc # "idle" /\ th'[t].pc # "idle" => th'[t].conn = c
    <3>1. CASE Takes(t) \/ Holds(t)
      BY <3>1 DEF Takes, Holds
    <3>2. CASE Outside(t)
      <4>1. th[t].pc = "requeue" => th'[t].pc = "idle"
        BY PoolStep(t), <1>1
        DEF PoolStep, Fetch, Enqueue, Release, Requeue, ReadData, ReadNothing, WorkerLock,
            Process, WriterLock, WriteHead, WriteBody, WriteDone, At, Idle, TypeOK
      <4> QED BY <3>2, <4>1 DEF Outside
    <3>3. CASE GivesBack(t)
      <4>1. th[t].pc = "release"
        BY <3>3 DEF GivesBack
      <4>2. Release(t)
        BY PoolStep(t), <4>1
        DEF PoolStep, Fetch, Enqueue, Requeue, ReadData, ReadNothing, WorkerLock, Process,
            WriterLock, WriteHead, WriteBody, WriteDone, At
      <4>3. th' = [th EXCEPT ![t] = IF th[t].blocked THEN [@ EXCEPT !.pc = "requeue"] ELSE Idle]
            /\ th \in [Thread -> PoolThread]
        BY <4>2 DEF Release, TypeOK
      <4> QED BY <4>3 DEF Idle, PoolThread
    <3> QED BY <1>1, <3>1, <3>2, <3>3 DEF Effect
  <2>4. PoolOf(t) \in PoolName
    BY DEF PoolOf, PoolName
  <2> QED BY <1>1, <2>1, <2>2, <2>3, <2>4 DEF QueueEffect
<1>6. OwnerOK'
  <2>1. ASSUME NEW d \in Conn, conn'[d].stage \in {"new", "connecting"}
        PROVE  ~conn'[d].closed /\ conn'[d].fd = None
    <3>1. Unused(d) /\ ~conn[d].closed /\ conn[d].fd = None
      BY <1>2, <2>1 DEF Unused, OwnerOK
    <3>2. th[t].pc # "idle" => d # c
      BY <3>1 DEF OwnerOK
    <3>3. conn'[d] = conn[d]
      <4>1. CASE th[t].pc = "idle"
        BY <1>1, <4>1 DEF Effect, Outside, Takes, Holds, GivesBack, Holding
      <4>2. CASE th[t].pc # "idle"
        BY <1>1, <3>2, <4>2 DEF Effect
      <4> QED BY <4>1, <4>2
    <3> QED BY <3>1, <3>3
  <2>2. ASSUME NEW u \in Thread, th'[u].pc # "idle"
        PROVE  conn'[th'[u].conn].stage \notin {"new", "connecting"}
    <3>1. CASE u # t
      <4>1. th'[u] = th[u] /\ th[u].conn \in Conn /\ ~Unused(th[u].conn)
        BY <1>3, <2>2, <3>1 DEF OwnerOK, ThreadOK, ThreadIs
      <4> QED BY <1>2, <4>1 DEF Unused
    <3>2. CASE u = t
      <4>1. th'[t].conn \in Conn /\ ~Unused(th'[t].conn)
        <5>1. CASE th[t].pc = "idle"
          BY <1>5, <2>2, <3>2, <5>1 DEF OwnerOK
        <5>2. CASE th[t].pc # "idle"
          BY <1>5, <2>2, <3>2, <5>2 DEF OwnerOK
        <5> QED BY <5>1, <5>2
      <4> QED BY <1>2, <3>2, <4>1 DEF Unused
    <3> QED BY <3>1, <3>2
  <2>3. ASSUME NEW p \in PoolName, NEW i \in DOMAIN queue'[p]
        PROVE  conn'[queue'[p][i].conn].stage \notin {"new", "connecting"}
    <3>1. CASE \E j \in DOMAIN queue[p] : queue'[p][i] = queue[p][j]
      <4>1. PICK j \in DOMAIN queue[p] : queue'[p][i] = queue[p][j]
        BY <3>1
      <4>2. queue[p][j].conn \in Conn /\ ~Unused(queue[p][j].conn)
        BY <1>q DEF OwnerOK
      <4> QED BY <1>2, <4>1, <4>2 DEF Unused
    <3>2. CASE th[t].pc \in {"enqueue", "requeue"} /\ queue'[p][i].conn = c
      <4>1. c \in Conn /\ ~Unused(c)
        BY <1>5, <3>2 DEF OwnerOK
      <4> QED BY <1>2, <3>2, <4>1 DEF Unused
    <3> QED BY <1>1, <3>1, <3>2 DEF QueueEffect
  <2>4. ASSUME NEW f \in Fd, owner'[f] # None
        PROVE  /\ conn'[owner'[f]].stage = "listed"
               /\ conn'[owner'[f]].fd = f
               /\ ~conn'[owner'[f]].closed
    <3>1. owner'[f] = owner[f] /\ (~conn[owner[f]].closed => ~conn'[owner[f]].closed)
      BY <1>1, <2>4 DEF OwnerEffect
    <3>2. owner[f] \in Conn
      BY <2>4, <3>1 DEF TypeOK
    <3> QED BY <1>2, <2>4, <3>1, <3>2 DEF OwnerOK
  <2> QED BY <2>1, <2>2, <2>3, <2>4 DEF OwnerOK, Unused
<1>7. ReaderOK'
  <2>1. ASSUME NEW i \in DOMAIN queue'["READ"], ~queue'["READ"][i].blocked
        PROVE  conn'[queue'["READ"][i].conn].stage = "listed" /\ ~Removed(queue'["READ"][i].conn)
    <3>1. PICK j \in DOMAIN queue["READ"] : queue'["READ"][i] = queue["READ"][j]
      BY <1>1, <2>1 DEF QueueEffect, PoolName
    <3>2. queue["READ"][j].conn \in Conn
      BY <1>q DEF PoolName
    <3>3. conn[queue["READ"][j].conn].stage = "listed" /\ ~Removed(queue["READ"][j].conn)
      BY <2>1, <3>1 DEF ReaderOK
    <3> QED BY <1>2, <3>1, <3>2, <3>3
  <2>2. ASSUME NEW u \in Reader, th'[u].pc \notin {"idle", "requeue"}
        PROVE  conn'[th'[u].conn].stage = "listed" /\ ~Drained(th'[u].conn)
    <3>r. u \in Thread
      BY DEF Thread
    <3>1. CASE u # t
      <4>1. th'[u] = th[u] /\ th[u].conn \in Conn
        BY <1>3, <2>2, <3>r, <3>1 DEF ThreadOK, ThreadIs
      <4>2. conn[th[u].conn].stage = "listed" /\ ~Drained(th[u].conn)
        BY <2>2, <4>1 DEF ReaderOK, Working
      <4> QED BY <1>2, <4>1, <4>2
    <3>2. CASE u = t /\ th[t].pc = "idle"
      <4>1. PoolOf(t) = "READ"
        <5>1. t \in Reader
          BY <3>2
        <5> QED BY <5>1, PoolAssumption DEF PoolOf
      <4>2. PICK j \in DOMAIN queue["READ"] : /\ ~queue["READ"][j].blocked
                                              /\ th'[t].conn = queue["READ"][j].conn
        BY <1>5, <3>2, <4>1
      <4>3. th'[t].conn \in Conn /\ conn[th'[t].conn].stage = "listed" /\ ~Removed(th'[t].conn)
        BY <1>q, <4>2 DEF ReaderOK, PoolName
      <4> QED BY <1>2, <3>2, <4>3 DEF Removed, Drained
    <3>3. CASE u = t /\ th[t].pc # "idle"
      <4>1. th[t].pc # "requeue"
        <5>1. th[t].pc = "requeue" => Outside(t)
          BY <1>1 DEF Effect, Takes, Holds, GivesBack, Holding
        <5>2. th[t].pc = "requeue" => th'[t].pc = "idle"
          BY PoolStep(t)
          DEF PoolStep, Fetch, Enqueue, Release, Requeue, ReadData, ReadNothing, WorkerLock,
              Process, WriterLock, WriteHead, WriteBody, WriteDone, At, Idle, TypeOK
        <5> QED BY <2>2, <3>3, <5>2
      <4>2. th'[t].conn = c /\ c \in Conn /\ conn[c].stage = "listed" /\ ~Drained(c)
        BY <1>5, <2>2, <3>3, <4>1 DEF ReaderOK, Working
      <4> QED BY <1>2, <3>3, <4>2
    <3> QED BY <3>1, <3>2, <3>3
  <2> QED BY <1>3, <2>1, <2>2 DEF ReaderOK, Working, Removed, Drained
<1> QED BY <1>4, <1>6, <1>7

\* Steps of the clients.
LEMMA ClientUse ==
  ASSUME TypeOK, ThreadOK, LoopOK, OwnerOK, ReaderOK, Client
  PROVE  LoopOK' /\ OwnerOK' /\ ReaderOK'
<1>c. \A c \in Conn : conn[c] \in Connection
  BY DEF TypeOK
<1>q. \A p \in PoolName : \A i \in DOMAIN queue[p] : queue[p][i].conn \in Conn
  <2>1. ASSUME NEW p \in PoolName, NEW i \in DOMAIN queue[p] PROVE queue[p][i] \in QueueItem
    BY DEF TypeOK
  <2> QED BY <2>1 DEF QueueItem
<1>m. main.rest \subseteq Conn
  BY DEF TypeOK, EventLoop
<1>1. UNCHANGED <<owner, queue, th, main>>
  BY Client DEF Client, Connect, Send, Receive, Hangup
<1>2. ASSUME NEW c \in Conn, Connect(c)
      PROVE  \A d \in Conn : /\ \/ conn'[d].stage = conn[d].stage
                                \/ Unused(d) /\ conn'[d].stage = "connecting"
                             /\ conn'[d].closed = conn[d].closed
                             /\ conn'[d].fd = conn[d].fd
  <2>1. conn' = [conn EXCEPT ![c].stage = "connecting"] /\ conn[c].stage = "new"
    BY <1>2 DEF Connect
  <2> QED BY <1>c, <2>1 DEF TypeOK, Connection, Unused
<1>3. \A d \in Conn : /\ \/ conn'[d].stage = conn[d].stage
                         \/ Unused(d) /\ conn'[d].stage = "connecting"
                      /\ conn'[d].closed = conn[d].closed
                      /\ conn'[d].fd = conn[d].fd
  BY <1>2, Client DEF Client, Send, Receive, Hangup
<1>4. \A d \in Conn : /\ conn[d].stage = "listed" => conn'[d].stage = "listed"
                      /\ Unused(d)' <=> Unused(d)
  BY <1>3 DEF Unused
<1>5. LoopOK'
  <2>1. \A e \in main.batch : e # Listen => e.conn \in Conn /\ conn'[e.conn].stage = "listed"
    BY <1>4 DEF LoopOK
  <2>2. \A d \in main.rest : conn'[d].stage = "listed"
    BY <1>4, <1>m DEF LoopOK
  <2>3. main.pc \in {"remove", "drain"} =>
          /\ main.cur \in Conn \ main.rest
          /\ conn'[main.cur].stage = "listed"
          /\ conn'[main.cur].closed
    BY <1>3, <1>4 DEF LoopOK
  <2>4. main.pc # "events" => main.batch = {}
    BY DEF LoopOK
  <2> QED BY <1>1, <2>1, <2>2, <2>3, <2>4 DEF LoopOK, Listen
<1>6. OwnerOK'
  <2>1. \A c \in Conn : Unused(c)' => ~conn'[c].closed /\ conn'[c].fd = None
    BY <1>3, <1>4 DEF OwnerOK
  <2>2. ASSUME NEW t \in Thread, th[t].pc # "idle" PROVE ~Unused(th[t].conn)'
    <3>1. th[t].conn \in Conn /\ ~Unused(th[t].conn)
      BY <2>2 DEF OwnerOK, ThreadOK, ThreadIs
    <3> QED BY <1>1, <1>3, <3>1 DEF Unused
  <2>3. ASSUME NEW p \in PoolName, NEW i \in DOMAIN queue[p] PROVE ~Unused(queue[p][i].conn)'
    <3>1. queue[p][i].conn \in Conn /\ ~Unused(queue[p][i].conn)
      BY <1>q DEF OwnerOK
    <3> QED BY <1>1, <1>3, <3>1 DEF Unused
  <2>4. ASSUME NEW f \in Fd, owner[f] # None
        PROVE  /\ conn'[owner[f]].stage = "listed"
               /\ conn'[owner[f]].fd = f
               /\ ~conn'[owner[f]].closed
    <3>1. owner[f] \in Conn
      BY <2>4 DEF TypeOK
    <3> QED BY <1>3, <1>4, <2>4, <3>1 DEF OwnerOK
  <2> QED BY <1>1, <2>1, <2>2, <2>3, <2>4 DEF OwnerOK, Unused
<1>7. ReaderOK'
  <2>1. \A i \in DOMAIN queue["READ"] : ~queue["READ"][i].blocked =>
          conn'[queue["READ"][i].conn].stage = "listed" /\ ~Removed(queue["READ"][i].conn)
    BY <1>4, <1>q DEF ReaderOK, PoolName
  <2>2. ASSUME NEW t \in Reader, Working(t)
        PROVE  conn'[th[t].conn].stage = "listed" /\ ~Drained(th[t].conn)
    <3>1. t \in Thread /\ th[t].conn \in Conn
      BY <2>2 DEF Working, Thread, ThreadOK, ThreadIs
    <3> QED BY <1>4, <2>2, <3>1 DEF ReaderOK
  <2> QED BY <1>1, <2>1, <2>2 DEF ReaderOK, Working, Removed, Drained
<1> QED BY <1>5, <1>6, <1>7

\* What the parts of the invariant say of the state before a step of the loop.
LEMMA UseFacts ==
  ASSUME TypeOK, ThreadOK
  PROVE  /\ \A c \in Conn : conn[c] \in Connection
         /\ conn \in [Conn -> Connection]
         /\ \A p \in PoolName : queue[p] \in Seq(QueueItem)
         /\ \A p \in PoolName : \A i \in DOMAIN queue[p] :
              queue[p][i] \in QueueItem /\ queue[p][i].conn \in Conn
         /\ main \in EventLoop
         /\ main.rest \subseteq Conn
         /\ \A t \in Thread : th[t].pc # "idle" => th[t].conn \in Conn
         /\ \A t \in Reader : t \in Thread /\ (Working(t) => th[t].conn \in Conn)
         /\ owner \in [Fd -> Conn \cup {None}]
         /\ None \notin Conn /\ None \notin Fd
<1>1. \A c \in Conn : conn[c] \in Connection
  BY DEF TypeOK
<1>2. \A p \in PoolName : queue[p] \in Seq(QueueItem)
  BY DEF TypeOK
<1>3. ASSUME NEW p \in PoolName, NEW i \in DOMAIN queue[p]
      PROVE  queue[p][i] \in QueueItem /\ queue[p][i].conn \in Conn
  <2>1. queue[p][i] \in QueueItem
    BY <1>2
  <2> QED BY <2>1 DEF QueueItem
<1>4. main.rest \subseteq Conn
  BY DEF TypeOK, EventLoop
<1>5. \A t \in Thread : th[t].pc # "idle" => th[t].conn \in Conn
  BY DEF ThreadOK, ThreadIs
<1>6. \A t \in Reader : t \in Thread /\ (Working(t) => th[t].conn \in Conn)
  BY <1>5 DEF Thread, Working
<1> QED BY <1>1, <1>2, <1>3, <1>4, <1>5, <1>6, NoneAssumption DEF TypeOK

\* The descriptors while connections are closed, accepted or deleted.
LEMMA OwnerKept ==
  ASSUME TypeOK, ThreadOK, OwnerOK, th' = th,
         \A d \in Conn : Unused(d)' =>
           Unused(d) /\ conn'[d].closed = conn[d].closed /\ conn'[d].fd = conn[d].fd,
         \A p \in PoolName : \A i \in DOMAIN queue'[p] :
           \/ \E j \in DOMAIN queue[p] : queue'[p][i].conn = queue[p][j].conn
           \/ queue'[p][i].conn \in Conn /\ conn'[queue'[p][i].conn].stage = "listed",
         \A f \in Fd : owner'[f] # None =>
           /\ conn'[owner'[f]].stage = "listed"
           /\ conn'[owner'[f]].fd = f
           /\ ~conn'[owner'[f]].closed
  PROVE  OwnerOK'
<1>1. \A t \in Thread : th[t].pc # "idle" => ~Unused(th[t].conn)'
  BY UseFacts DEF OwnerOK
<1>2. ASSUME NEW p \in PoolName, NEW i \in DOMAIN queue'[p]
      PROVE  conn'[queue'[p][i].conn].stage \notin {"new", "connecting"}
  <2>1. CASE \E j \in DOMAIN queue[p] : queue'[p][i].conn = queue[p][j].conn
    <3>1. PICK j \in DOMAIN queue[p] : queue'[p][i].conn = queue[p][j].conn
      BY <2>1
    <3>2. queue[p][j].conn \in Conn /\ ~Unused(queue[p][j].conn)
      BY UseFacts DEF OwnerOK
    <3> QED BY <3>1, <3>2 DEF Unused
  <2>2. CASE conn'[queue'[p][i].conn].stage = "listed"
    BY <2>2
  <2> QED BY <1>2, <2>1, <2>2
<1>3. \A c \in Conn : Unused(c)' => ~conn'[c].closed /\ conn'[c].fd = None
  BY DEF OwnerOK
<1> QED BY <1>1, <1>2, <1>3 DEF OwnerOK, Unused

\* What the readers use while nothing is cleaned up.
LEMMA ReaderKept ==
  ASSUME TypeOK, ThreadOK, ReaderOK, th' = th, main'.pc \notin {"remove", "drain"} \/ main'.idx = 1,
         main'.pc # "drain",
         \A d \in Conn : conn[d].stage = "listed" => conn'[d].stage = "listed",
         \A i \in DOMAIN queue'["READ"] :
           \/ \E j \in DOMAIN queue["READ"] : queue'["READ"][i] = queue["READ"][j]
           \/ conn'[queue'["READ"][i].conn].stage = "listed"
  PROVE  ReaderOK'
<1>0. "READ" \in PoolName
  BY DEF PoolName
<1>1. ASSUME NEW i \in DOMAIN queue'["READ"], ~queue'["READ"][i].blocked
      PROVE  conn'[queue'["READ"][i].conn].stage = "listed"
  <2>1. CASE \E j \in DOMAIN queue["READ"] : queue'["READ"][i] = queue["READ"][j]
    <3>1. PICK j \in DOMAIN queue["READ"] : queue'["READ"][i] = queue["READ"][j]
      BY <2>1
    <3>2. queue["READ"][j].conn \in Conn /\ conn[queue["READ"][j].conn].stage = "listed"
      BY <1>0, <1>1, <3>1, UseFacts DEF ReaderOK
    <3> QED BY <3>1, <3>2
  <2> QED BY <2>1
<1>2. ASSUME NEW t \in Reader, Working(t) PROVE conn'[th[t].conn].stage = "listed"
  BY <1>2, UseFacts DEF ReaderOK
<1> QED BY <1>1, <1>2 DEF ReaderOK, Working, Removed, Drained

\* Steps of the event loop.
LEMMA LoopUse ==
  ASSUME TypeOK, TypeOK', ThreadOK, LoopOK, OwnerOK, ReaderOK, LoopStep
  PROVE  LoopOK' /\ OwnerOK' /\ ReaderOK'
<1>t. th' = th
  BY QuietFacts DEF Quiet
<1>u. /\ \A c \in Conn : conn[c] \in Connection
      /\ conn \in [Conn -> Connection]
      /\ \A p \in PoolName : queue[p] \in Seq(QueueItem)
      /\ \A p \in PoolName : \A i \in DOMAIN queue[p] :
           queue[p][i] \in QueueItem /\ queue[p][i].conn \in Conn
      /\ main \in EventLoop
      /\ main.rest \subseteq Conn
      /\ owner \in [Fd -> Conn \cup {None}]
      /\ None \notin Conn /\ None \notin Fd
  BY UseFacts
<1>1. CASE EpollWait
  <2>1. UNCHANGED <<conn, owner, queue>>
    BY <1>1 DEF EpollWait
  <2>2. /\ main'.pc = IF main'.batch = {} THEN "clean" ELSE "events"
        /\ main'.rest = {c \in Conn : conn[c].stage = "listed"}
    BY <1>1, <1>u DEF EpollWait, EventLoop
  <2>3. ASSUME NEW e \in main'.batch, e # Listen PROVE e.conn \in Conn /\ conn[e.conn].stage = "listed"
    <3>1. e.conn \in Conn /\ Open(e.conn)
      BY <1>1, <2>3, BatchFacts
    <3>2. conn[e.conn].fd \in Fd /\ owner[conn[e.conn].fd] = e.conn
      BY <1>u, <3>1 DEF Open, SocketOf, Connection
    <3> QED BY <1>u, <3>1, <3>2 DEF OwnerOK
  <2>4. LoopOK'
    BY <2>1, <2>2, <2>3 DEF LoopOK, Listen
  <2>5. OwnerOK'
    BY <1>t, <2>1 DEF OwnerOK, Unused
  <2>6. ReaderOK'
    BY <1>t, <2>1, <2>2, ReaderKept
  <2> QED BY <2>4, <2>5, <2>6
<1>2. ASSUME NEW e \in main.batch, EventDone(e)
      PROVE  /\ main'.pc \in {"clean", "events"}
             /\ main'.pc = "clean" => main'.batch = {}
             /\ main'.batch \subseteq main.batch
             /\ main'.rest = main.rest
             /\ main.pc = "events"
  BY <1>2, <1>u DEF EventDone, EventLoop, LoopOK
<1>3. CASE AcceptDone
  <2>1. UNCHANGED <<conn, owner, queue>> /\ EventDone(Listen) /\ Listen \in main.batch
    BY <1>3 DEF AcceptDone
  <2>2. /\ main'.pc \in {"clean", "events"} /\ (main'.pc = "clean" => main'.batch = {})
        /\ main'.batch \subseteq main.batch /\ main'.rest = main.rest
    BY <1>2, <2>1
  <2>3. LoopOK'
    BY <2>1, <2>2 DEF LoopOK, Listen
  <2>4. OwnerOK'
    BY <1>t, <2>1 DEF OwnerOK, Unused
  <2>5. ReaderOK'
    BY <1>t, <2>1, <2>2, ReaderKept
  <2> QED BY <2>3, <2>4, <2>5
<1>4. CASE CleanDone
  <2>1. UNCHANGED <<conn, owner, queue>> /\ main' = [main EXCEPT !.pc = "wait"] /\ main.pc = "clean"
    BY <1>4 DEF CleanDone
  <2>2. main'.pc = "wait" /\ main'.batch = main.batch /\ main'.rest = main.rest
    BY <1>u, <2>1 DEF EventLoop
  <2>3. LoopOK'
    BY <2>1, <2>2 DEF LoopOK, Listen
  <2>4. OwnerOK'
    BY <1>t, <2>1 DEF OwnerOK, Unused
  <2>5. ReaderOK'
    BY <1>t, <2>1, <2>2, ReaderKept
  <2> QED BY <2>3, <2>4, <2>5
<1>5. ASSUME NEW c \in Conn, Accept(c) PROVE LoopOK' /\ OwnerOK' /\ ReaderOK'
  <2> DEFINE free == {f \in Fd : owner[f] = None}
             f == Min(free)
  <2>1. f \in Fd /\ owner[f] = None
    <3>1. free # {} /\ free \in SUBSET Nat
      BY <1>5, FdFacts DEF Accept
    <3>2. Min(free) \in free
      BY <3>1, MinFacts
    <3> QED BY <3>2
  <2> HIDE DEF f
  <2>2. conn[c].stage = "connecting" /\ main.pc = "events" /\ ~conn[c].closed /\ c \notin main.rest
    BY <1>5 DEF Accept, LoopOK, OwnerOK, Unused
  <2>3. ASSUME NEW e \in main.batch, e # Listen
        PROVE  e.conn \in Conn /\ conn[e.conn].stage = "listed" /\ e.conn # c
    BY <2>2, <2>3 DEF LoopOK
  <2>4. CASE /\ conn' = [conn EXCEPT ![c].stage = "listed", ![c].fd = f]
             /\ owner' = [owner EXCEPT ![f] = c]
             /\ queue' = [queue EXCEPT !["READ"] = Append(@, Item(c))]
             /\ main' = [main EXCEPT !.rest = @ \cup {c}]
    <3>1. /\ \A d \in Conn : d # c => conn'[d] = conn[d]
          /\ conn'[c].stage = "listed" /\ conn'[c].fd = f /\ ~conn'[c].closed
      BY <1>u, <2>2, <2>4 DEF Connection
    <3>2. main'.pc = "events" /\ main'.batch = main.batch /\ main'.rest = main.rest \cup {c}
      BY <1>u, <2>2, <2>4 DEF EventLoop
    <3>3. LoopOK'
      <4>1. \A d \in main'.rest : conn'[d].stage = "listed"
        BY <1>u, <3>1, <3>2 DEF LoopOK
      <4> QED BY <2>3, <3>1, <3>2, <4>1 DEF LoopOK, Listen
    <3>4. ASSUME NEW p \in PoolName, NEW i \in DOMAIN queue'[p]
          PROVE  \/ \E j \in DOMAIN queue[p] : queue'[p][i] = queue[p][j]
                 \/ queue'[p][i].conn = c
      <4> DEFINE item == Item(c)
      <4>1. item \in QueueItem /\ item.conn = c
        BY DEF Item, QueueItem
      <4> HIDE DEF item
      <4>2. queue' = [queue EXCEPT !["READ"] = Append(@, item)]
        BY <2>4 DEF item
      <4>3. CASE p = "READ"
        <5>1. queue'[p] = Append(queue[p], item) /\ queue[p] \in Seq(QueueItem)
          BY <1>u, <3>4, <4>2, <4>3 DEF TypeOK
        <5>2. (i \in DOMAIN queue[p] /\ queue'[p][i] = queue[p][i]) \/ queue'[p][i] = item
          BY <3>4, <4>1, <5>1
        <5> QED BY <4>1, <5>2
      <4>4. CASE p # "READ"
        BY <3>4, <4>2, <4>4 DEF TypeOK
      <4> QED BY <4>3, <4>4
    <3>5. \A d \in Conn : Unused(d)' =>
            Unused(d) /\ conn'[d].closed = conn[d].closed /\ conn'[d].fd = conn[d].fd
      BY <3>1 DEF Unused
    <3>6. ASSUME NEW g \in Fd, owner'[g] # None
          PROVE  /\ conn'[owner'[g]].stage = "listed"
                 /\ conn'[owner'[g]].fd = g
                 /\ ~conn'[owner'[g]].closed
      <4>1. CASE g = f
        BY <1>u, <2>1, <2>4, <3>1, <4>1
      <4>2. CASE g # f
        <5>1. owner'[g] = owner[g] /\ owner[g] \in Conn
          BY <1>u, <2>4, <3>6, <4>2
        <5>2. /\ conn[owner[g]].stage = "listed" /\ conn[owner[g]].fd = g
              /\ ~conn[owner[g]].closed
          BY <3>6, <5>1 DEF OwnerOK
        <5>3. owner[g] # c
          BY <2>2, <5>2
        <5> QED BY <3>1, <5>1, <5>2, <5>3
      <4> QED BY <4>1, <4>2
    <3>7. OwnerOK'
      <4>1. \A p \in PoolName : \A i \in DOMAIN queue'[p] :
              \/ \E j \in DOMAIN queue[p] : queue'[p][i].conn = queue[p][j].conn
              \/ queue'[p][i].conn \in Conn /\ conn'[queue'[p][i].conn].stage = "listed"
        BY <3>1, <3>4
      <4> QED BY <1>t, <3>5, <3>6, <4>1, OwnerKept
    <3>8. ReaderOK'
      <4>1. \A d \in Conn : conn[d].stage = "listed" => conn'[d].stage = "listed"
        BY <3>1
      <4>2. \A i \in DOMAIN queue'["READ"] :
              \/ \E j \in DOMAIN queue["READ"] : queue'["READ"][i] = queue["READ"][j]
              \/ conn'[queue'["READ"][i].conn].stage = "listed"
        BY <3>1, <3>4 DEF PoolName
      <4> QED BY <1>t, <3>2, <4>1, <4>2, ReaderKept
    <3> QED BY <3>3, <3>7, <3>8
  <2>5. CASE /\ conn' = [conn EXCEPT ![c].stage = "freed", ![c].closed = TRUE]
             /\ UNCHANGED <<sock, owner, queue, main>>
    <3>1. /\ \A d \in Conn : d # c => conn'[d] = conn[d]
          /\ conn'[c].stage = "freed"
      BY <1>u, <2>5 DEF Connection
    <3>2. LoopOK'
      <4>1. \A d \in main.rest : d \in Conn /\ d # c /\ conn[d].stage = "listed"
        BY <1>u, <2>2 DEF LoopOK
      <4> QED BY <2>2, <2>3, <2>5, <3>1, <4>1 DEF LoopOK, Listen
    <3>3. \A d \in Conn : Unused(d)' =>
            Unused(d) /\ conn'[d].closed = conn[d].closed /\ conn'[d].fd = conn[d].fd
      BY <3>1 DEF Unused
    <3>4. ASSUME NEW g \in Fd, owner'[g] # None
          PROVE  /\ conn'[owner'[g]].stage = "listed"
                 /\ conn'[owner'[g]].fd = g
                 /\ ~conn'[owner'[g]].closed
      <4>1. owner'[g] = owner[g] /\ owner[g] \in Conn
        BY <1>u, <2>5, <3>4
      <4>2. /\ conn[owner[g]].stage = "listed" /\ conn[owner[g]].fd = g
            /\ ~conn[owner[g]].closed
        BY <3>4, <4>1 DEF OwnerOK
      <4> QED BY <2>2, <3>1, <4>1, <4>2
    <3>5. OwnerOK'
      BY <1>t, <2>5, <3>3, <3>4, OwnerKept
    <3>6. ReaderOK'
      <4>1. \A d \in Conn : conn[d].stage = "listed" => conn'[d].stage = "listed"
        BY <2>2, <3>1
      <4>2. main'.pc = "events"
        BY <2>2, <2>5
      <4> QED BY <1>t, <2>5, <4>1, <4>2, ReaderKept
    <3> QED BY <3>2, <3>5, <3>6
  <2> QED BY <1>5, <2>4, <2>5 DEF Accept, f
<1>6. CASE OnHangup
  <2>1. PICK e \in main.batch \ {Listen} :
          /\ conn' = [conn EXCEPT ![e.conn].closed = TRUE]
          /\ SktClose(e.conn) /\ EventDone(e) /\ queue' = queue
    BY <1>6 DEF OnHangup
  <2> DEFINE c == e.conn
  <2>2. c \in Conn /\ conn[c].stage = "listed"
    BY <2>1 DEF LoopOK
  <2> HIDE DEF c
  <2>3. /\ conn' = [conn EXCEPT ![c].closed = TRUE] /\ SktClose(c) /\ queue' = queue
        /\ main'.pc \in {"clean", "events"} /\ (main'.pc = "clean" => main'.batch = {})
        /\ main'.batch \subseteq main.batch /\ main'.rest = main.rest
    BY <1>2, <2>1 DEF c
  <2>4. /\ \A d \in Conn : d # c => conn'[d] = conn[d]
        /\ \A d \in Conn : conn'[d].stage = conn[d].stage /\ conn'[d].fd = conn[d].fd
    BY <1>u, <2>2, <2>3 DEF Connection
  <2>5. LoopOK'
    <3>1. \A d \in main.rest : conn'[d].stage = "listed"
      BY <1>u, <2>4 DEF LoopOK
    <3>2. \A f \in main.batch : f # Listen => f.conn \in Conn /\ conn'[f.conn].stage = "listed"
      BY <2>4 DEF LoopOK
    <3> QED BY <2>3, <3>1, <3>2 DEF LoopOK, Listen
  <2>6. OwnerOK'
    <3>1. \A d \in Conn : Unused(d)' =>
            Unused(d) /\ conn'[d].closed = conn[d].closed /\ conn'[d].fd = conn[d].fd
      BY <2>2, <2>4 DEF Unused
    <3>2. \A g \in Fd : owner'[g] # None => owner'[g] = owner[g] /\ owner'[g] # c
      BY <2>2, <2>3, SktCloseFacts
    <3>3. ASSUME NEW g \in Fd, owner'[g] # None
          PROVE  /\ conn'[owner'[g]].stage = "listed"
                 /\ conn'[owner'[g]].fd = g
                 /\ ~conn'[owner'[g]].closed
      <4>1. owner'[g] = owner[g] /\ owner[g] \in Conn /\ owner[g] # c
        BY <1>u, <3>2, <3>3
      <4> QED BY <2>4, <3>3, <4>1 DEF OwnerOK
    <3>4. \A p \in PoolName : \A i \in DOMAIN queue'[p] :
            \/ \E j \in DOMAIN queue[p] : queue'[p][i].conn = queue[p][j].conn
            \/ queue'[p][i].conn \in Conn /\ conn'[queue'[p][i].conn].stage = "listed"
      BY <2>3
    <3> QED BY <1>t, <3>1, <3>3, <3>4, OwnerKept
  <2>7. ReaderOK'
    <3>1. \A d \in Conn : conn[d].stage = "listed" => conn'[d].stage = "listed"
      BY <2>4
    <3>2. \A i \in DOMAIN queue'["READ"] :
            \/ \E j \in DOMAIN queue["READ"] : queue'["READ"][i] = queue["READ"][j]
            \/ conn'[queue'["READ"][i].conn].stage = "listed"
      BY <2>3
    <3> QED BY <1>t, <2>3, <3>1, <3>2, ReaderKept
  <2> QED BY <2>5, <2>6, <2>7
<1>7. ASSUME NEW e \in main.batch \ {Listen}, NEW p \in PoolName, UnblockOrAdd(e.conn, p),
             EventDone(e), UNCHANGED <<conn, owner>>
      PROVE  LoopOK' /\ OwnerOK' /\ ReaderOK'
  <2> DEFINE c == e.conn
             item == Item(c)
  <2>1. c \in Conn /\ conn[c].stage = "listed"
    BY DEF LoopOK
  <2>2. /\ main'.pc \in {"clean", "events"} /\ (main'.pc = "clean" => main'.batch = {})
        /\ main'.batch \subseteq main.batch /\ main'.rest = main.rest
    BY <1>2, <1>7
  <2>3. item \in QueueItem /\ item.conn = c
    BY <2>1 DEF Item, QueueItem
  <2>u. \/ queue' = [queue EXCEPT !["READ"] = Unblocked(@, c)]
        \/ queue' = [queue EXCEPT ![p] = Append(@, item)]
    BY <1>7 DEF UnblockOrAdd
  <2>f. "READ" \in PoolName /\ queue \in [PoolName -> Seq(QueueItem)] /\ queue["READ"] \in Seq(QueueItem)
    BY DEF PoolName, TypeOK
  <2> HIDE DEF c, item
  <2>4. ASSUME NEW s \in PoolName, NEW i \in DOMAIN queue'[s]
        PROVE  \/ \E j \in DOMAIN queue[s] : queue'[s][i] = queue[s][j]
               \/ queue'[s][i].conn = c
    <3>1. CASE queue' = [queue EXCEPT !["READ"] = Unblocked(@, c)]
      <4>1. /\ DOMAIN Unblocked(queue["READ"], c) = DOMAIN queue["READ"]
            /\ \A j \in DOMAIN queue["READ"] :
                 /\ Unblocked(queue["READ"], c)[j].conn = queue["READ"][j].conn
                 /\ queue["READ"][j].conn # c => Unblocked(queue["READ"], c)[j] = queue["READ"][j]
        BY <2>f, UnblockedFacts
      <4>2. CASE s = "READ"
        <5>1. queue'[s] = Unblocked(queue["READ"], c)
          BY <2>f, <3>1, <4>2
        <5> QED BY <2>4, <4>1, <4>2, <5>1
      <4>3. CASE s # "READ"
        BY <2>4, <2>f, <3>1, <4>3
      <4> QED BY <4>2, <4>3
    <3>2. CASE queue' = [queue EXCEPT ![p] = Append(@, item)]
      <4>1. CASE s = p
        <5>1. queue'[s] = Append(queue[s], item) /\ queue[s] \in Seq(QueueItem)
          BY <2>f, <3>2, <4>1
        <5>2. (i \in DOMAIN queue[s] /\ queue'[s][i] = queue[s][i]) \/ queue'[s][i] = item
          BY <2>3, <2>4, <5>1
        <5> QED BY <2>3, <5>2
      <4>2. CASE s # p
        BY <2>4, <2>f, <3>2, <4>2
      <4> QED BY <4>1, <4>2
    <3> QED BY <2>u, <3>1, <3>2
  <2>5. LoopOK'
    <3>1. \A d \in main.rest : conn'[d].stage = "listed"
      BY <1>7, <1>u DEF LoopOK
    <3>2. \A f \in main.batch : f # Listen => f.conn \in Conn /\ conn'[f.conn].stage = "listed"
      BY <1>7 DEF LoopOK
    <3> QED BY <2>2, <3>1, <3>2 DEF LoopOK, Listen
  <2>6. OwnerOK'
    <3>1. \A d \in Conn : Unused(d)' =>
            Unused(d) /\ conn'[d].closed = conn[d].closed /\ conn'[d].fd = conn[d].fd
      BY <1>7 DEF Unused
    <3>2. ASSUME NEW g \in Fd, owner'[g] # None
          PROVE  /\ conn'[owner'[g]].stage = "listed"
                 /\ conn'[owner'[g]].fd = g
                 /\ ~conn'[owner'[g]].closed
      BY <1>7, <3>2 DEF OwnerOK
    <3>3. \A s \in PoolName : \A i \in DOMAIN queue'[s] :
            \/ \E j \in DOMAIN queue[s] : queue'[s][i].conn = queue[s][j].conn
            \/ queue'[s][i].conn \in Conn /\ conn'[queue'[s][i].conn].stage = "listed"
      BY <1>7, <2>1, <2>4
    <3> QED BY <1>t, <3>1, <3>2, <3>3, OwnerKept
  <2>7. ReaderOK'
    <3>1. \A d \in Conn : conn[d].stage = "listed" => conn'[d].stage = "listed"
      BY <1>7
    <3>2. \A i \in DOMAIN queue'["READ"] :
            \/ \E j \in DOMAIN queue["READ"] : queue'["READ"][i] = queue["READ"][j]
            \/ conn'[queue'["READ"][i].conn].stage = "listed"
      BY <1>7, <2>1, <2>4, <2>f
    <3> QED BY <1>t, <2>2, <3>1, <3>2, ReaderKept
  <2> QED BY <2>5, <2>6, <2>7
<1>8. CASE OnReadable \/ OnWritable
  <2>1. \E e \in main.batch \ {Listen} : \E p \in PoolName :
          UnblockOrAdd(e.conn, p) /\ EventDone(e) /\ UNCHANGED <<conn, owner>>
    BY <1>8, Zenon DEF OnReadable, OnWritable, PoolName
  <2> QED BY <1>7, <2>1
<1>9. ASSUME NEW c \in Conn, CleanCheck(c) PROVE LoopOK' /\ OwnerOK' /\ ReaderOK'
  <2> DEFINE closed == conn[c].closed \/ conn[c].error
  <2>1. /\ main.pc = "clean" /\ c \in main.rest /\ conn[c].stage = "listed"
        /\ main.batch = {}
    BY <1>9 DEF CleanCheck, LoopOK
  <2>2. /\ conn' = [conn EXCEPT ![c].closed = closed]
        /\ main' = [main EXCEPT !.rest = @ \ {c},
                                !.pc = IF closed THEN "remove" ELSE "clean",
                                !.cur = IF closed THEN c ELSE None,
                                !.idx = 1]
        /\ IF conn[c].error THEN SktClose(c) ELSE UNCHANGED owner
        /\ queue' = queue
    BY <1>9 DEF CleanCheck
  <2>3. /\ \A d \in Conn : d # c => conn'[d] = conn[d]
        /\ \A d \in Conn : conn'[d].stage = conn[d].stage /\ conn'[d].fd = conn[d].fd
        /\ conn'[c].closed = closed
    BY <1>u, <2>2 DEF Connection
  <2>4. /\ main'.batch = {} /\ main'.rest = main.rest \ {c} /\ main'.idx = 1
        /\ main'.pc = IF closed THEN "remove" ELSE "clean"
        /\ closed => main'.cur = c
    BY <1>u, <2>1, <2>2 DEF EventLoop
  <2> HIDE DEF closed
  <2>5. LoopOK'
    <3>1. \A d \in main.rest : conn'[d].stage = "listed"
      BY <1>u, <2>3 DEF LoopOK
    <3> QED BY <2>1, <2>3, <2>4, <3>1 DEF LoopOK, Listen
  <2>6. OwnerOK'
    <3>1. \A d \in Conn : Unused(d)' =>
            Unused(d) /\ conn'[d].closed = conn[d].closed /\ conn'[d].fd = conn[d].fd
      BY <2>1, <2>3 DEF Unused
    <3>2. ASSUME NEW g \in Fd, owner'[g] # None
          PROVE  owner'[g] = owner[g] /\ (owner'[g] = c => ~conn[c].error)
      <4>1. CASE conn[c].error
        BY <2>2, <3>2, <4>1, SktCloseFacts
      <4>2. CASE ~conn[c].error
        BY <2>2, <4>2
      <4> QED BY <4>1, <4>2
    <3>3. ASSUME NEW g \in Fd, owner'[g] # None
          PROVE  /\ conn'[owner'[g]].stage = "listed"
                 /\ conn'[owner'[g]].fd = g
                 /\ ~conn'[owner'[g]].closed
      <4>1. owner'[g] = owner[g] /\ owner[g] \in Conn /\ (owner'[g] = c => ~conn[c].error)
        BY <1>u, <3>2, <3>3
      <4>2. /\ conn[owner[g]].stage = "listed" /\ conn[owner[g]].fd = g
            /\ ~conn[owner[g]].closed
        BY <3>3, <4>1 DEF OwnerOK
      <4>3. CASE owner[g] = c
        BY <2>3, <4>1, <4>2, <4>3 DEF closed
      <4>4. CASE owner[g] # c
        BY <2>3, <4>1, <4>2, <4>4
      <4> QED BY <4>3, <4>4
    <3>4. \A p \in PoolName : \A i \in DOMAIN queue'[p] :
            \/ \E j \in DOMAIN queue[p] : queue'[p][i].conn = queue[p][j].conn
            \/ queue'[p][i].conn \in Conn /\ conn'[queue'[p][i].conn].stage = "listed"
      BY <2>2
    <3> QED BY <1>t, <3>1, <3>3, <3>4, OwnerKept
  <2>7. ReaderOK'
    <3>1. \A d \in Conn : conn[d].stage = "listed" => conn'[d].stage = "listed"
      BY <2>3
    <3>2. \A i \in DOMAIN queue'["READ"] :
            \/ \E j \in DOMAIN queue["READ"] : queue'["READ"][i] = queue["READ"][j]
            \/ conn'[queue'["READ"][i].conn].stage = "listed"
      BY <2>2
    <3>3. main'.idx = 1 /\ main'.pc # "drain"
      BY <2>4
    <3> QED BY <1>t, <3>1, <3>2, <3>3, ReaderKept
  <2> QED BY <2>5, <2>6, <2>7
<1>10. CASE CleanRemove
  <2> DEFINE c == main.cur
             p == Pools[main.idx]
             left == Without(queue[p], c)
  <2>1. /\ main.pc = "remove" /\ queue' = [queue EXCEPT ![p] = left]
        /\ UNCHANGED <<conn, owner>>
        /\ c \in Conn \ main.rest /\ conn[c].stage = "listed" /\ conn[c].closed
        /\ main.batch = {}
    BY <1>10 DEF CleanRemove, LoopOK
  <2>2. /\ main'.cur = c /\ main'.batch = main.batch /\ main'.rest = main.rest
        /\ main'.pc \in {"remove", "drain"} /\ (main'.pc = "drain" => main'.idx = 1)
        /\ main.idx \in 1..3
    BY <1>10, <1>u, PoolsFacts DEF CleanRemove, EventLoop
  <2>3. p \in PoolName /\ (main.idx = 1 => p = "READ") /\ queue[p] \in Seq(QueueItem)
    BY <1>u, <2>2, PoolsFacts
  <2>4. /\ \A i \in DOMAIN left : left[i].conn # c /\ \E j \in DOMAIN queue[p] : left[i] = queue[p][j]
    BY <2>3, WithoutFacts
  <2>5. queue'[p] = left /\ \A s \in PoolName : s # p => queue'[s] = queue[s]
    BY <2>1, <2>3 DEF TypeOK
  <2> HIDE DEF c, p, left
  <2>6. \A s \in PoolName : \A i \in DOMAIN queue'[s] :
          \E j \in DOMAIN queue[s] : queue'[s][i] = queue[s][j]
    BY <2>3, <2>4, <2>5
  <2>7. LoopOK'
    BY <2>1, <2>2 DEF LoopOK
  <2>8. OwnerOK'
    <3>1. \A d \in Conn : Unused(d)' =>
            Unused(d) /\ conn'[d].closed = conn[d].closed /\ conn'[d].fd = conn[d].fd
      BY <2>1 DEF Unused
    <3>2. ASSUME NEW g \in Fd, owner'[g] # None
          PROVE  /\ conn'[owner'[g]].stage = "listed"
                 /\ conn'[owner'[g]].fd = g
                 /\ ~conn'[owner'[g]].closed
      BY <2>1, <3>2 DEF OwnerOK
    <3>3. \A s \in PoolName : \A i \in DOMAIN queue'[s] :
            \/ \E j \in DOMAIN queue[s] : queue'[s][i].conn = queue[s][j].conn
            \/ queue'[s][i].conn \in Conn /\ conn'[queue'[s][i].conn].stage = "listed"
      BY <2>6
    <3> QED BY <1>t, <3>1, <3>2, <3>3, OwnerKept
  <2>9. ReaderOK'
    <3>1. ASSUME NEW i \in DOMAIN queue'["READ"], ~queue'["READ"][i].blocked
          PROVE  /\ conn[queue'["READ"][i].conn].stage = "listed"
                 /\ queue'["READ"][i].conn # c
      <4>1. PICK j \in DOMAIN queue["READ"] : queue'["READ"][i] = queue["READ"][j]
        BY <2>6 DEF PoolName
      <4>2. conn[queue["READ"][j].conn].stage = "listed" /\ ~Removed(queue["READ"][j].conn)
        BY <3>1, <4>1 DEF ReaderOK
      <4>3. CASE p = "READ"
        BY <2>4, <2>5, <3>1, <4>1, <4>2, <4>3
      <4>4. CASE p # "READ"
        <5>1. main.idx > 1
          BY <2>2, <2>3, <4>4
        <5> QED BY <2>1, <4>1, <4>2, <5>1 DEF Removed, c
      <4> QED BY <4>3, <4>4
    <3>2. ASSUME NEW t \in Reader, Working(t)
          PROVE  conn[th[t].conn].stage = "listed"
      BY <3>2 DEF ReaderOK
    <3>3. \A d : ~(main'.cur = d /\ main'.pc = "drain" /\ main'.idx > 1)
      BY <2>2
    <3> QED BY <1>t, <2>1, <2>2, <3>1, <3>2, <3>3 DEF ReaderOK, Working, Removed, Drained
  <2> QED BY <2>7, <2>8, <2>9
<1>11. CASE CleanDrain
  <2> DEFINE c == main.cur
  <2>1. /\ main.pc = "drain" /\ UNCHANGED <<owner, queue>>
        /\ Pending(Pools[main.idx], c) = {}
        /\ c \in Conn \ main.rest /\ conn[c].stage = "listed" /\ conn[c].closed
        /\ main.batch = {} /\ Len(Pools) = 3 /\ main.idx \in 1..3
    BY <1>11, <1>u, PoolsFacts DEF CleanDrain, LoopOK, EventLoop
  <2>2. ASSUME NEW t \in Reader, Working(t), main.idx = 1 PROVE th[t].conn # c
    <3>1. t \in Thread /\ PoolOf(t) = "READ" /\ Pools[1] = "READ"
      BY PoolsFacts, PoolAssumption DEF Thread, PoolOf
    <3> QED BY <2>1, <2>2, <3>1 DEF Pending
  <2>3. CASE main.idx < 3
    <3>1. main' = [main EXCEPT !.idx = @ + 1] /\ UNCHANGED conn
      BY <1>11, <2>1, <2>3 DEF CleanDrain
    <3>2. main'.cur = c /\ main'.pc = "drain" /\ main'.batch = {} /\ main'.rest = main.rest
      BY <1>u, <2>1, <3>1 DEF EventLoop
    <3> HIDE DEF c
    <3>3. LoopOK'
      BY <2>1, <3>1, <3>2 DEF LoopOK
    <3>4. OwnerOK'
      BY <1>t, <2>1, <3>1 DEF OwnerOK, Unused
    <3>5. ReaderOK'
      <4>1. \A i \in DOMAIN queue["READ"] : ~queue["READ"][i].blocked =>
              /\ conn[queue["READ"][i].conn].stage = "listed"
              /\ queue["READ"][i].conn # c
        BY <2>1 DEF ReaderOK, Removed, c
      <4>2. \A t \in Reader : Working(t) => conn[th[t].conn].stage = "listed"
        BY DEF ReaderOK
      <4>3. \A t \in Reader : Working(t) => th[t].conn # c
        <5>1. CASE main.idx = 1
          BY <2>2, <5>1
        <5>2. CASE main.idx > 1
          BY <2>1, <5>2 DEF ReaderOK, Drained, c
        <5> QED BY <2>1, <5>1, <5>2
      <4> QED BY <1>t, <2>1, <3>1, <3>2, <4>1, <4>2, <4>3
              DEF ReaderOK, Working, Removed, Drained
    <3> QED BY <3>3, <3>4, <3>5
  <2>4. CASE main.idx = 3
    <3>1. /\ main' = [main EXCEPT !.pc = "clean", !.cur = None, !.idx = 1]
          /\ conn' = [conn EXCEPT ![c].stage = "freed"]
      BY <1>11, <2>1, <2>4 DEF CleanDrain
    <3>2. main'.pc = "clean" /\ main'.batch = {} /\ main'.rest = main.rest
      BY <1>u, <2>1, <3>1 DEF EventLoop
    <3> HIDE DEF c
    <3>3. /\ \A d \in Conn : d # c => conn'[d] = conn[d]
          /\ conn'[c].stage = "freed"
      BY <1>u, <2>1, <3>1 DEF Connection
    <3>4. LoopOK'
      <4>1. \A d \in main.rest : conn'[d].stage = "listed"
        BY <1>u, <2>1, <3>3 DEF LoopOK
      <4> QED BY <2>1, <3>2, <4>1 DEF LoopOK
    <3>5. OwnerOK'
      <4>1. \A d \in Conn : Unused(d)' =>
              Unused(d) /\ conn'[d].closed = conn[d].closed /\ conn'[d].fd = conn[d].fd
        BY <3>3 DEF Unused
      <4>2. ASSUME NEW g \in Fd, owner'[g] # None
            PROVE  /\ conn'[owner'[g]].stage = "listed"
                   /\ conn'[owner'[g]].fd = g
                   /\ ~conn'[owner'[g]].closed
        <5>1. owner'[g] = owner[g] /\ owner[g] \in Conn
          BY <1>u, <2>1, <4>2
        <5>2. owner[g] # c
          BY <2>1, <4>2, <5>1 DEF OwnerOK
        <5> QED BY <3>3, <4>2, <5>1, <5>2 DEF OwnerOK
      <4>3. \A p \in PoolName : \A i \in DOMAIN queue'[p] :
              \/ \E j \in DOMAIN queue[p] : queue'[p][i].conn = queue[p][j].conn
              \/ queue'[p][i].conn \in Conn /\ conn'[queue'[p][i].conn].stage = "listed"
        BY <2>1
      <4> QED BY <1>t, <4>1, <4>2, <4>3, OwnerKept
    <3>6. ReaderOK'
      <4>1. \A i \in DOMAIN queue["READ"] : ~queue["READ"][i].blocked =>
              /\ queue["READ"][i].conn \in Conn
              /\ conn[queue["READ"][i].conn].stage = "listed"
              /\ queue["READ"][i].conn # c
        BY <1>u, <2>1 DEF ReaderOK, Removed, c, PoolName
      <4>2. ASSUME NEW t \in Reader, Working(t)
            PROVE  th[t].conn \in Conn /\ conn[th[t].conn].stage = "listed" /\ th[t].conn # c
        <5>1. th[t].conn \in Conn
          BY <4>2, UseFacts
        <5> QED BY <2>1, <2>4, <4>2, <5>1 DEF ReaderOK, Drained, c
      <4>3. \A i \in DOMAIN queue["READ"] : ~queue["READ"][i].blocked =>
              conn'[queue["READ"][i].conn].stage = "listed"
        BY <3>3, <4>1
      <4>4. \A t \in Reader : Working(t) => conn'[th[t].conn].stage = "listed"
        BY <3>3, <4>2
      <4> QED BY <1>t, <2>1, <3>2, <4>3, <4>4 DEF ReaderOK, Working, Removed, Drained
    <3> QED BY <3>4, <3>5, <3>6
  <2> QED BY <2>1, <2>3, <2>4
<1> QED BY <1>1, <1>3, <1>4, <1>5, <1>6, <1>8, <1>9, <1>10, <1>11, LoopStep DEF LoopStep
--------------------------------------------------------------------------------
(* The theorems. *)

\* The invariant holds at the start.
LEMMA InitInv == Init => IInv
<1> SUFFICES ASSUME Init PROVE IInv
  OBVIOUS
<1>1. TypeOK
  <2>1. env \in Scenario
    BY DEF Init
  <2>2. conn \in [Conn -> Connection]
    BY DEF Init, Connection
  <2>3. sock \in [Conn -> Socket]
    <3>1. env.sendBuf \in Nat
      BY <2>1, ScenarioAssumption
    <3> QED BY <3>1 DEF Init, Socket
  <2>4. owner \in [Fd -> Conn \cup {None}] /\ main \in EventLoop
    BY DEF Init, EventLoop
  <2>5. queue \in [PoolName -> Seq(QueueItem)]
    <3>1. Range(Pools) = PoolName
      BY DEF Range, Pools, PoolName
    <3> QED BY <3>1 DEF Init
  <2>6. th \in [Thread -> PoolThread]
    BY IdleFacts DEF Init
  <2> QED BY <2>1, <2>2, <2>3, <2>4, <2>5, <2>6 DEF TypeOK
<1>2. \A t \in Thread : th[t].pc = "idle"
  BY DEF Init, Idle
<1>3. ThreadOK
  BY <1>2 DEF ThreadOK, ThreadIs
<1>4. LockOK /\ WritesOK
  BY <1>2 DEF Init, LockOK, WritesOK, Holding
<1>5. LoopOK
  BY DEF Init, LoopOK
<1>6. \A p \in PoolName : queue[p] = <<>>
  <2>1. Range(Pools) = PoolName
    BY DEF Range, Pools, PoolName
  <2> QED BY <2>1 DEF Init
<1>7. OwnerOK
  BY <1>2, <1>6 DEF Init, OwnerOK, Unused
<1>8. ReaderOK
  BY <1>2, <1>6 DEF ReaderOK, Working, PoolName, Thread
<1> QED BY <1>1, <1>3, <1>4, <1>5, <1>7, <1>8 DEF IInv

\* Every step keeps the types.
LEMMA TypeStep == IInv /\ [Next]_vars => TypeOK'
<1> SUFFICES ASSUME IInv, [Next]_vars PROVE TypeOK'
  OBVIOUS
<1>1. CASE Client
  BY <1>1, ClientTypes DEF IInv
<1>2. CASE LoopStep
  BY <1>2, LoopTypes DEF IInv
<1>3. ASSUME NEW t \in Thread, PoolStep(t) PROVE TypeOK'
  BY <1>3, PoolTypes DEF IInv
<1>4. CASE UNCHANGED vars
  BY <1>4 DEF IInv, TypeOK, vars
<1> QED BY <1>1, <1>2, <1>3, <1>4 DEF Next

\* Every step keeps the invariant.
LEMMA StepInv == IInv /\ [Next]_vars => IInv'
<1> SUFFICES ASSUME IInv, [Next]_vars PROVE IInv'
  OBVIOUS
<1>1. TypeOK'
  BY TypeStep
<1>2. ThreadOK' /\ LockOK' /\ WritesOK'
  BY <1>1, LockStep DEF IInv
<1>3. LoopOK' /\ OwnerOK' /\ ReaderOK'
  <2>1. CASE Client
    BY <2>1, ClientUse DEF IInv
  <2>2. CASE LoopStep
    BY <1>1, <2>2, LoopUse DEF IInv
  <2>3. ASSUME NEW t \in Thread, PoolStep(t) PROVE LoopOK' /\ OwnerOK' /\ ReaderOK'
    BY <2>3, PoolUse DEF IInv
  <2>4. CASE UNCHANGED vars
    <3>1. UNCHANGED <<conn, owner, queue, th, main>>
      BY <2>4 DEF vars
    <3>2. LoopOK'
      BY <3>1 DEF IInv, LoopOK, Listen
    <3>3. OwnerOK'
      BY <3>1 DEF IInv, OwnerOK, Unused
    <3>4. ReaderOK'
      BY <3>1 DEF IInv, ReaderOK, Working, Removed, Drained
    <3> QED BY <3>2, <3>3, <3>4
  <2> QED BY <2>1, <2>2, <2>3, <2>4 DEF Next
<1> QED BY <1>1, <1>2, <1>3 DEF IInv

\* The inductive invariant of the event loop and the handlers.
THEOREM InvCorrect == Spec => []IInv
<1> QED BY InitInv, StepInv, PTL DEF Spec

\* The variables keep their types, in any scenario: fields of the connection,
\* queue items and what each handler's local variables hold.
THEOREM TypeCorrect == Spec => []TypeOK
<1>1. IInv => TypeOK
  BY DEF IInv
<1> QED BY <1>1, InvCorrect, PTL

\* server_loop_write never leaves a half-written header block behind: whenever
\* no handler holds a connection's lock its pending_writes is empty.
THEOREM FlushedCorrect == Spec => []FlushedWhenUnlocked
<1>1. IInv => FlushedWhenUnlocked
  BY DEF IInv, WritesOK, FlushedWhenUnlocked
<1> QED BY <1>1, InvCorrect, PTL

\* server_loop_read never works on a connection that the event loop has
\* deleted: queue_remove_byptr and queue_pending_waitptr on the READ queue are
\* enough for the readers, although they are not for the other two pools.
THEOREM ReadersCorrect == Spec => []ReadersSafe
<1>1. IInv => ReadersSafe
  BY DEF IInv, ReaderOK, ReadersSafe
<1> QED BY <1>1, InvCorrect, PTL

\* CONN_LOCK: two handlers never are between locking and unlocking the same
\* connection.
THEOREM LockExclusive ==
  Spec => [](\A t, u \in Thread : th[t].pc \in Holding /\ th[u].pc \in Holding
                                    /\ th[t].conn = th[u].conn => t = u)
<1>1. IInv => \A t, u \in Thread : th[t].pc \in Holding /\ th[u].pc \in Holding
                                     /\ th[t].conn = th[u].conn => t = u
  BY DEF IInv, LockOK
<1> QED BY <1>1, InvCorrect, PTL

\* A descriptor that is in use is that of the connection it was given to, which
\* is listed and not closed: skt_close and accept keep to it although sockets
\* are closed without the connection's lock.
THEOREM DescriptorCorrect ==
  Spec => [](\A f \in Fd : owner[f] # None => /\ conn[owner[f]].stage = "listed"
                                              /\ conn[owner[f]].fd = f
                                              /\ ~conn[owner[f]].closed)
<1>1. IInv => \A f \in Fd : owner[f] # None => /\ conn[owner[f]].stage = "listed"
                                               /\ conn[owner[f]].fd = f
                                               /\ ~conn[owner[f]].closed
  BY DEF IInv, OwnerOK
<1> QED BY <1>1, InvCorrect, PTL
================================================================================

------------------------------ MODULE ServerLoop -------------------------------
(***************************************************************************)
(* The core of khttp: the epoll loop (server-loop.c) and the handlers of   *)
(* the READ, WRITE and WORKER pools (server-loop-read.c, -write.c,         *)
(* -worker.c), which share connections (server-connection.c, socket.c) and *)
(* hand them to each other through three work queues.                      *)
(*                                                                         *)
(* A queue is the sequence of its items; that fetching, returning and      *)
(* draining behave as used here is what TaskQueue shows of queue.c.  A     *)
(* request is two pieces of input, its beginning and its end; a piece      *)
(* "bad" is input the parser rejects or a protocol upgrade.  A response is *)
(* a header block and a body, each written whole or not at all.  Sockets   *)
(* and clients are external: what read, write, close, accept and epoll do. *)
(***************************************************************************)
EXTENDS Integers, Sequences, SequencesExt, FiniteSets, FiniteSetsExt

CONSTANTS Conn,      \* client connections, each accepted at most once
          Reader,    \* threads of the READ pool
          Writer,    \* threads of the WRITE pool
          Worker,    \* threads of the WORKER pool
          None,      \* NULL, no descriptor, no thread
          Scenario   \* what clients and pools may be like

\* A scenario is a record: script[c], the pieces of input the client of c
\* sends; close, the requests whose response carries Connection: close;
\* http11, whether the requests are HTTP/1.1; serial, whether clients wait
\* for a response before the next request; readAll, whether what has arrived
\* fits in the 16K read buffer; sendBuf, how many blocks a socket's send
\* buffer holds; peer, what clients may do besides ("fin", "reset"); threads,
\* the pool threads that the managers have started.

Thread == Reader \cup Writer \cup Worker
Pools == <<"READ", "WRITE", "WORKER">>
PoolOf(t) == CASE t \in Reader -> "READ" [] t \in Writer -> "WRITE" [] OTHER -> "WORKER"
Fd == 1..Cardinality(Conn)

ASSUME NoneAssumption == None \notin Conn \cup Thread \cup Fd
ASSUME ConnAssumption == IsFiniteSet(Conn)
ASSUME PoolAssumption == /\ Reader \cap Writer = {}
                         /\ Reader \cap Worker = {}
                         /\ Writer \cap Worker = {}

Piece == [req : Nat \ {0}, part : {"head", "tail", "bad"}]
Requests == UNION {{e.script[c][i].req : i \in DOMAIN e.script[c]} :
                     e \in Scenario, c \in Conn}

ASSUME ScenarioAssumption == \A e \in Scenario : /\ e.script \in [Conn -> Seq(Piece)]
                                                /\ e.close \subseteq Nat
                                                /\ e.peer \subseteq {"fin", "reset"}
                                                /\ e.sendBuf \in Nat \ {0}
                                                /\ e.threads \subseteq Thread

\* A client numbers its requests in the order in which it sends them.
ASSUME NumberAssumption ==
  \A e \in Scenario, c \in Conn : \A i, j \in DOMAIN e.script[c] :
    i < j /\ e.script[c][i].part = "head" /\ e.script[c][j].part = "head"
      => e.script[c][i].req < e.script[c][j].req

VARIABLES conn,   \* server_connection and its socket_info, per connection
          sock,   \* the kernel's socket and the client behind it
          owner,  \* which socket each file descriptor denotes
          queue,  \* the list of each pool's queue
          th,     \* the pool threads
          main,   \* the event loop
          env     \* the scenario, the same throughout

vars == <<conn, sock, owner, queue, th, main, env>>

\* The socket that conn->skt->fd denotes now: nothing after a close, and
\* possibly another client's once the number has been given out again.
SocketOf(c) == IF conn[c].fd = None THEN None ELSE owner[conn[c].fd]

Open(c) == SocketOf(c) = c

Item(c) == [conn |-> c, blocked |-> FALSE]

\* A pool thread without an item.
Idle == [pc |-> "idle", conn |-> None, blocked |-> FALSE, todo |-> <<>>]

\* A thread has a token in its queue's processing list from fetchone to the
\* first critical section of return_item.
Working(t) == th[t].pc \notin {"idle", "requeue"}

Pending(p, c) == {t \in Thread : PoolOf(t) = p /\ Working(t) /\ th[t].conn = c}

\* No handler uses a connection after the event loop has deleted it.
NoUseAfterFree == \A t \in Thread : Working(t) => conn[th[t].conn].stage # "freed"

\* Where a pool thread is.  The use of a freed connection is undefined
\* behaviour: no thread is said to go on after it.
At(t, label) == th[t].pc = label /\ NoUseAfterFree
--------------------------------------------------------------------------------
Init == /\ env \in Scenario
        /\ conn = [c \in Conn |-> [stage |-> "new", fd |-> None, closed |-> FALSE,
                                   error |-> FALSE, lock |-> None,
                                   cur |-> 0, failed |-> FALSE,
                                   requests |-> <<>>, responses |-> <<>>,
                                   writes |-> FALSE]]
        /\ sock = [c \in Conn |-> [peer |-> "open", sent |-> 0, in |-> <<>>,
                                   room |-> env.sendBuf, nospace |-> FALSE,
                                   edge |-> FALSE, wire |-> <<>>]]
        /\ owner = [f \in Fd |-> None]
        /\ queue = [p \in Range(Pools) |-> <<>>]
        /\ th = [t \in Thread |-> Idle]
        /\ main = [pc |-> "wait", batch |-> {}, rest |-> {}, cur |-> None, idx |-> 1]
--------------------------------------------------------------------------------
(* Clients (external). *)

Answered(c, k) == \E j \in DOMAIN sock[c].wire :
                    /\ sock[c].wire[j].req = k
                    /\ sock[c].wire[j].part = "body"

Connect(c) == /\ conn[c].stage = "new"
              /\ conn' = [conn EXCEPT ![c].stage = "connecting"]
              /\ UNCHANGED <<sock, owner, queue, th, main>>

\* Input arrives: every arrival is an edge for EPOLLET.
Send(c) == /\ conn[c].stage \notin {"new", "freed"}
           /\ sock[c].peer = "open"
           /\ sock[c].sent < Len(env.script[c])
           /\ LET piece == env.script[c][sock[c].sent + 1]
              IN /\ env.serial => \A k \in 1..(piece.req - 1) : Answered(c, k)
                 /\ sock' = [sock EXCEPT ![c].sent = @ + 1,
                                         ![c].in = Append(@, piece),
                                         ![c].edge = TRUE]
           /\ UNCHANGED <<conn, owner, queue, th, main>>

\* The client takes what fills the send buffer (taking it earlier is like a
\* larger buffer); if a write had found the buffer full, the space is an edge.
Receive(c) == /\ sock[c].room = 0
              /\ sock[c].peer # "reset"
              /\ sock' = [sock EXCEPT ![c].room = env.sendBuf,
                                      ![c].nospace = FALSE,
                                      ![c].edge = @ \/ sock[c].nospace]
              /\ UNCHANGED <<conn, owner, queue, th, main>>

\* The client closes its sending side, or resets the connection.
Hangup(c, how) == /\ conn[c].stage \notin {"new", "freed"}
                  /\ how \in env.peer
                  /\ sock[c].peer = "open"
                  /\ sock' = [sock EXCEPT ![c].peer = how, ![c].edge = TRUE]
                  /\ UNCHANGED <<conn, owner, queue, th, main>>
--------------------------------------------------------------------------------
(* What the pool threads share. *)

\* queue_fetchone: the first item that is not blocked.  The handler then locks
\* the connection the item points to, whether or not it still exists.
Fetch(t) ==
  /\ At(t, "idle") /\ t \in env.threads
  /\ LET q == queue[PoolOf(t)]
     IN \E i \in DOMAIN q :
          /\ ~q[i].blocked
          /\ \A j \in 1..(i - 1) : q[j].blocked
          /\ queue' = [queue EXCEPT ![PoolOf(t)] = RemoveAt(q, i)]
          /\ th' = [th EXCEPT ![t] = [Idle EXCEPT !.pc = "lock", !.conn = q[i].conn]]
  /\ UNCHANGED <<conn, sock, owner, main>>

\* CONN_ENQUEUE, one queue_add after the other.
Enqueue(t) ==
  /\ At(t, "enqueue")
  /\ LET p == Head(th[t].todo)
         more == Tail(th[t].todo)
     IN /\ queue' = [queue EXCEPT ![p] = Append(@, Item(th[t].conn))]
        /\ th' = [th EXCEPT ![t].todo = more,
                            ![t].pc = IF more # <<>> THEN "enqueue"
                                      ELSE IF t \in Worker THEN "work" ELSE "release"]
  /\ UNCHANGED <<conn, sock, owner, main>>

\* CONN_UNLOCK and the first critical section of queue_return_item.
Release(t) ==
  /\ At(t, "release")
  /\ conn' = [conn EXCEPT ![th[t].conn].lock = None]
  /\ th' = [th EXCEPT ![t] = IF th[t].blocked THEN [@ EXCEPT !.pc = "requeue"] ELSE Idle]
  /\ UNCHANGED <<sock, owner, queue, main>>

\* queue_return_item of an item that is not finished.
Requeue(t) ==
  /\ At(t, "requeue")
  /\ queue' = [queue EXCEPT ![PoolOf(t)] =
                 Append(@, [conn |-> th[t].conn, blocked |-> th[t].blocked])]
  /\ th' = [th EXCEPT ![t] = Idle]
  /\ UNCHANGED <<conn, sock, owner, main>>

\* skt_close: closes whatever socket the descriptor denotes.
SktClose(c) == owner' = IF conn[c].fd = None THEN owner
                        ELSE [owner EXCEPT ![conn[c].fd] = None]
--------------------------------------------------------------------------------
(* server_loop_read *)

Response(kind, k, close) == [kind |-> kind, req |-> k, close |-> close, sent |-> "line"]

\* http_parser_execute with the callbacks of http-reader.c over one buffer:
\* the beginning of a message replaces the current request, complete or not;
\* the end of one is rejected where none has begun.
Execute(c, buf) ==
  LET state[i \in 0..Len(buf)] ==
        IF i = 0
        THEN [cur |-> conn[c].cur, complete |-> FALSE, failed |-> conn[c].failed]
        ELSE LET s == state[i - 1]
             IN CASE s.failed -> s
                  [] ~s.failed /\ buf[i].part = "head" ->
                       [s EXCEPT !.cur = buf[i].req, !.complete = FALSE]
                  [] ~s.failed /\ buf[i].part = "tail" /\ s.cur # 0 /\ ~s.complete ->
                       [s EXCEPT !.complete = TRUE]
                  [] OTHER -> [s EXCEPT !.failed = TRUE]
  IN state[Len(buf)]

\* The connection after a buffer has been parsed: an error response, a request
\* for the worker, or 100 Continue for an incomplete HTTP/1.1 request.
Parsed(c, s) ==
  CASE s.failed ->
         [conn[c] EXCEPT !.cur = s.cur, !.failed = TRUE,
                         !.responses = Append(@, Response("error", s.cur, TRUE))]
    [] ~s.failed /\ s.complete ->
         [conn[c] EXCEPT !.cur = 0, !.requests = Append(@, s.cur)]
    [] ~s.failed /\ ~s.complete /\ env.http11 /\ s.cur # 0 ->
         [conn[c] EXCEPT !.cur = s.cur,
                         !.responses = Append(@, Response("continue", s.cur, FALSE))]
    [] OTHER -> [conn[c] EXCEPT !.cur = s.cur]

\* The enqueues that follow; the condition (error = true) is an assignment, so
\* the loop always ends here, with one WRITE item.
AfterParse(s) ==
  CASE s.failed -> <<"WRITE">>
    [] ~s.failed /\ s.complete -> <<"WORKER", "WRITE">>
    [] ~s.failed /\ ~s.complete /\ env.http11 /\ s.cur # 0 -> <<"WRITE", "WRITE">>
    [] OTHER -> <<"WRITE">>

\* CONN_LOCK and read.
ReadData(t) ==
  LET c == th[t].conn
      s == SocketOf(c)
  IN /\ At(t, "lock") /\ t \in Reader
     /\ conn[c].lock = None
     /\ s # None /\ sock[s].peer # "reset" /\ sock[s].in # <<>>
     /\ \E n \in 1..Len(sock[s].in) :
          /\ env.readAll => n = Len(sock[s].in)
          /\ LET r == Execute(c, SubSeq(sock[s].in, 1, n))
             IN /\ conn' = [conn EXCEPT ![c] = [Parsed(c, r) EXCEPT !.lock = t]]
                /\ th' = [th EXCEPT ![t].pc = "enqueue", ![t].todo = AfterParse(r)]
          /\ sock' = [sock EXCEPT ![s].in = SubSeq(@, n + 1, Len(@))]
     /\ UNCHANGED <<owner, queue, main>>

\* read returns EAGAIN (the item blocks), end of file (nothing), or an error.
ReadNothing(t) ==
  LET c == th[t].conn
      s == SocketOf(c)
      failed == s = None \/ sock[s].peer = "reset"
  IN /\ At(t, "lock") /\ t \in Reader
     /\ conn[c].lock = None
     /\ ~failed => sock[s].in = <<>>
     /\ conn' = [conn EXCEPT ![c].lock = t, ![c].error = @ \/ failed]
     /\ th' = [th EXCEPT ![t].pc = "release",
                         ![t].blocked = ~failed /\ sock[s].peer = "open"]
     /\ UNCHANGED <<sock, owner, queue, main>>
--------------------------------------------------------------------------------
(* server_loop_worker *)

WorkerLock(t) ==
  /\ At(t, "lock") /\ t \in Worker
  /\ conn[th[t].conn].lock = None
  /\ conn' = [conn EXCEPT ![th[t].conn].lock = t]
  /\ th' = [th EXCEPT ![t].pc = "work"]
  /\ UNCHANGED <<sock, owner, queue, main>>

\* Faulty variant: the newest request first.
Process_Newest(t) ==
  LET c == th[t].conn
  IN /\ At(t, "work")
     /\ IF conn[c].requests = <<>>
        THEN th' = [th EXCEPT ![t].pc = "release"] /\ UNCHANGED conn
        ELSE LET k == Last(conn[c].requests)
             IN /\ conn' = [conn EXCEPT
                              ![c].requests = Front(@),
                              ![c].responses =
                                 Append(@, Response("ok", k, k \in env.close))]
                /\ th' = [th EXCEPT ![t].pc = "enqueue", ![t].todo = <<"WRITE">>]
     /\ UNCHANGED <<sock, owner, queue, main>>

\* One turn of the loop over the pending requests.
Process(t) ==
  LET c == th[t].conn
  IN /\ At(t, "work")
     /\ IF conn[c].requests = <<>>
        THEN th' = [th EXCEPT ![t].pc = "release"] /\ UNCHANGED conn
        ELSE LET k == Head(conn[c].requests)
             IN /\ conn' = [conn EXCEPT
                              ![c].requests = Tail(@),
                              ![c].responses =
                                 Append(@, Response("ok", k, k \in env.close))]
                /\ th' = [th EXCEPT ![t].pc = "enqueue", ![t].todo = <<"WRITE">>]
     /\ UNCHANGED <<sock, owner, queue, main>>
--------------------------------------------------------------------------------
(* server_loop_write *)

\* What write on conn->skt->fd does.
WriteResult(c) ==
  LET s == SocketOf(c)
  IN CASE s = None -> "error"
       [] s # None /\ sock[s].peer = "reset" -> "error"
       [] s # None /\ sock[s].peer # "reset" /\ sock[s].room = 0 -> "again"
       [] OTHER -> "ok"

Written(c, part) ==
  LET r == Head(conn[c].responses)
      block == [by |-> c, kind |-> r.kind, req |-> r.req, part |-> part]
  IN CASE WriteResult(c) = "ok" ->
            [sock EXCEPT ![SocketOf(c)].wire = Append(@, block),
                         ![SocketOf(c)].room = @ - 1]
       [] WriteResult(c) = "again" -> [sock EXCEPT ![SocketOf(c)].nospace = TRUE]
       [] OTHER -> sock

\* CONN_LOCK; what an earlier handler left in pending_writes goes out first,
\* then the next response if there is one.
WriterLock(t) ==
  LET c == th[t].conn
      result == IF conn[c].writes THEN WriteResult(c) ELSE "none"
      left == result \in {"again", "error"}
  IN /\ At(t, "lock") /\ t \in Writer
     /\ conn[c].lock = None
     /\ conn' = [conn EXCEPT ![c].lock = t,
                             ![c].writes = left,
                             ![c].error = @ \/ result = "error"]
     /\ sock' = IF conn[c].writes THEN Written(c, "head") ELSE sock
     /\ th' = [th EXCEPT ![t].blocked = result = "again",
                         ![t].pc = IF left \/ conn[c].responses = <<>>
                                   THEN "release" ELSE "head"]
     /\ UNCHANGED <<owner, queue, main>>

\* Faulty variant: the handler ends when the header block does not fit.
WriteHead_Yield(t) ==
  LET c == th[t].conn
      r == Head(conn[c].responses)
      pending == r.sent = "line" \/ conn[c].writes
      result == IF pending THEN WriteResult(c) ELSE "none"
      error == conn[c].error \/ result = "error"
      left == result \in {"again", "error"}
  IN /\ At(t, "head")
     /\ conn' = [conn EXCEPT ![c].responses[1].sent = "body",
                             ![c].writes = left,
                             ![c].error = error]
     /\ sock' = IF pending THEN Written(c, "head") ELSE sock
     /\ th' = [th EXCEPT ![t].blocked = @ \/ result = "again",
                         ![t].pc = IF error \/ left THEN "release" ELSE "body"]
     /\ UNCHANGED <<owner, queue, main>>

\* First half of a turn of the loop: format the header block if that was not
\* done yet, and write it.  The turn is repeated while the block is not out
\* or the socket has an error.
WriteHead(t) ==
  LET c == th[t].conn
      r == Head(conn[c].responses)
      pending == r.sent = "line" \/ conn[c].writes
      result == IF pending THEN WriteResult(c) ELSE "none"
      error == conn[c].error \/ result = "error"
      left == result \in {"again", "error"}
  IN /\ At(t, "head")
     /\ conn' = [conn EXCEPT ![c].responses[1].sent = "body",
                             ![c].writes = left,
                             ![c].error = error]
     /\ sock' = IF pending THEN Written(c, "head") ELSE sock
     /\ th' = [th EXCEPT ![t].blocked = @ \/ result = "again",
                         ![t].pc = IF error \/ left THEN "head" ELSE "body"]
     /\ UNCHANGED <<owner, queue, main>>

\* Faulty variant: HBWRITE_BLOCKED counts as done.
WriteBody_BlockedIsDone(t) ==
  LET c == th[t].conn
      result == IF Head(conn[c].responses).kind = "continue" THEN "none"
                ELSE WriteResult(c)
  IN /\ At(t, "body")
     /\ sock' = IF result = "none" THEN sock ELSE Written(c, "body")
     /\ conn' = [conn EXCEPT ![c].error = @ \/ result = "error"]
     /\ th' = [th EXCEPT ![t].pc = "done"]
     /\ UNCHANGED <<owner, queue, main>>

\* http_body_writeto_fd.  When it blocks the handler ends without marking the
\* item blocked; on an error the response counts as sent.
WriteBody(t) ==
  LET c == th[t].conn
      result == IF Head(conn[c].responses).kind = "continue" THEN "none"
                ELSE WriteResult(c)
  IN /\ At(t, "body")
     /\ sock' = IF result = "none" THEN sock ELSE Written(c, "body")
     /\ conn' = [conn EXCEPT ![c].error = @ \/ result = "error"]
     /\ th' = [th EXCEPT ![t].pc = IF result = "again" THEN "release" ELSE "done"]
     /\ UNCHANGED <<owner, queue, main>>

\* Faulty variant: the socket stays open after Connection: close.
WriteDone_KeepOpen(t) ==
  /\ At(t, "done")
  /\ conn' = [conn EXCEPT ![th[t].conn].responses = Tail(@)]
  /\ th' = [th EXCEPT ![t].pc = IF Len(conn[th[t].conn].responses) = 1
                                THEN "release" ELSE "head"]
  /\ UNCHANGED <<sock, owner, queue, main>>

\* The response is done: close the socket if it says so, else go on.
WriteDone(t) ==
  LET c == th[t].conn
      r == Head(conn[c].responses)
  IN /\ At(t, "done")
     /\ conn' = [conn EXCEPT ![c].responses = Tail(@), ![c].closed = @ \/ r.close]
     /\ IF r.close THEN SktClose(c) ELSE UNCHANGED owner
     /\ th' = [th EXCEPT ![t].pc = IF r.close \/ Len(conn[c].responses) = 1
                                   THEN "release" ELSE "head"]
     /\ UNCHANGED <<sock, queue, main>>
--------------------------------------------------------------------------------
(* server_loop *)

\* What epoll_wait reports of a socket with an edge: all that holds of it.
Flags(c) == (IF sock[c].in # <<>> \/ sock[c].peer # "open" THEN {"IN"} ELSE {})
            \cup (IF sock[c].room > 0 THEN {"OUT"} ELSE {})
            \cup (IF sock[c].peer # "open" THEN {"RDHUP"} ELSE {})
            \cup (IF sock[c].peer = "reset" THEN {"ERR"} ELSE {})

Listen == [conn |-> None, flags |-> {"IN"}]

\* Faulty variant: EP_WAIT_TIME of -1, no return without an event.
EpollWait_NoTimeout ==
  LET woken == {c \in Conn : sock[c].edge /\ Open(c)}
      batch == {[conn |-> c, flags |-> Flags(c)] : c \in {d \in woken : Flags(d) # {}}}
               \cup (IF \E c \in Conn : conn[c].stage = "connecting" THEN {Listen} ELSE {})
  IN /\ main.pc = "wait"
     /\ batch # {}
     /\ sock' = [c \in Conn |-> IF c \in woken THEN [sock[c] EXCEPT !.edge = FALSE]
                                ELSE sock[c]]
     /\ main' = [main EXCEPT !.batch = batch, !.pc = "events",
                             !.rest = {c \in Conn : conn[c].stage = "listed"}]
     /\ UNCHANGED <<conn, owner, queue, th>>

\* epoll_wait, which also returns without events after EP_WAIT_TIME; a round
\* that has no event and nothing to clean up changes nothing.
EpollWait ==
  LET woken == {c \in Conn : sock[c].edge /\ Open(c)}
      batch == {[conn |-> c, flags |-> Flags(c)] : c \in {d \in woken : Flags(d) # {}}}
               \cup (IF \E c \in Conn : conn[c].stage = "connecting" THEN {Listen} ELSE {})
  IN /\ main.pc = "wait"
     /\ \/ batch # {} \/ woken # {}
        \/ \E c \in Conn : conn[c].stage = "listed" /\ (conn[c].closed \/ conn[c].error)
     /\ sock' = [c \in Conn |-> IF c \in woken THEN [sock[c] EXCEPT !.edge = FALSE]
                                ELSE sock[c]]
     /\ main' = [main EXCEPT !.batch = batch,
                             !.pc = IF batch = {} THEN "clean" ELSE "events",
                             !.rest = {c \in Conn : conn[c].stage = "listed"}]
     /\ UNCHANGED <<conn, owner, queue, th>>

\* Going on to the next event, and to the clean-up after the last.
EventDone(e) ==
  main' = [main EXCEPT !.batch = @ \ {e},
                       !.pc = IF main.batch = {e} THEN "clean" ELSE "events"]

\* server_socket_accept until it returns NULL: each new client gets the lowest
\* free descriptor, an epoll registration (whose first edge is immediate) and
\* a READ item; or the registration fails and the connection is given up.
Accept(c) ==
  LET free == {f \in Fd : owner[f] = None}
  IN /\ Listen \in main.batch
     /\ conn[c].stage = "connecting"
     /\ free # {}
     /\ \/ /\ conn' = [conn EXCEPT ![c].stage = "listed", ![c].fd = Min(free)]
           /\ owner' = [owner EXCEPT ![Min(free)] = c]
           /\ sock' = [sock EXCEPT ![c].edge = TRUE]
           /\ queue' = [queue EXCEPT !["READ"] = Append(@, Item(c))]
           /\ main' = [main EXCEPT !.rest = @ \cup {c}]
        \/ /\ conn' = [conn EXCEPT ![c].stage = "freed", ![c].closed = TRUE]
           /\ UNCHANGED <<sock, owner, queue, main>>
     /\ UNCHANGED <<th>>

AcceptDone ==
  /\ Listen \in main.batch
  /\ \A c \in Conn : conn[c].stage # "connecting"
  /\ EventDone(Listen)
  /\ UNCHANGED <<conn, sock, owner, queue, th>>

Is(e, flag) == flag \in e.flags

\* EPOLLERR or EPOLLRDHUP: the socket is closed, without the connection's lock.
OnHangup ==
  \E e \in main.batch \ {Listen} :
    /\ Is(e, "ERR") \/ Is(e, "RDHUP")
    /\ conn' = [conn EXCEPT ![e.conn].closed = TRUE]
    /\ SktClose(e.conn)
    /\ EventDone(e)
    /\ UNCHANGED <<sock, queue, th>>

Unblocked(q, c) == [i \in DOMAIN q |-> IF q[i].conn = c
                                       THEN [q[i] EXCEPT !.blocked = FALSE] ELSE q[i]]

\* Faulty variant: no new item when there is none to unblock.
UnblockOrAdd_NoAdd(c, p) == queue' = [queue EXCEPT !["READ"] = Unblocked(@, c)]

\* queue_unblock_byptr on the READ queue; when it finds no item of the
\* connection, queue_add of a new item to the queue of pool p.
UnblockOrAdd(c, p) ==
  queue' = IF \E i \in DOMAIN queue["READ"] : queue["READ"][i].conn = c
           THEN [queue EXCEPT !["READ"] = Unblocked(@, c)]
           ELSE [queue EXCEPT ![p] = Append(@, Item(c))]

\* EPOLLIN of a client, else EPOLLOUT: one flag of the event is acted upon.
OnReadable ==
  \E e \in main.batch \ {Listen} :
    /\ ~Is(e, "ERR") /\ ~Is(e, "RDHUP") /\ Is(e, "IN")
    /\ UnblockOrAdd(e.conn, "READ")
    /\ EventDone(e)
    /\ UNCHANGED <<conn, sock, owner, th>>

OnWritable ==
  \E e \in main.batch \ {Listen} :
    /\ ~Is(e, "ERR") /\ ~Is(e, "RDHUP") /\ ~Is(e, "IN") /\ Is(e, "OUT")
    /\ UnblockOrAdd(e.conn, "WRITE")
    /\ EventDone(e)
    /\ UNCHANGED <<conn, sock, owner, th>>

\* Clean up closed connections: a socket with an error is closed first (again,
\* if it was closed before).
CleanCheck(c) ==
  LET closed == conn[c].closed \/ conn[c].error
  IN /\ main.pc = "clean"
     /\ c \in main.rest
     /\ IF conn[c].error THEN SktClose(c) ELSE UNCHANGED owner
     /\ conn' = [conn EXCEPT ![c].closed = closed]
     /\ main' = [main EXCEPT !.rest = @ \ {c},
                             !.pc = IF closed THEN "remove" ELSE "clean",
                             !.cur = IF closed THEN c ELSE None,
                             !.idx = 1]
     /\ UNCHANGED <<sock, queue, th>>

CleanDone ==
  /\ main.pc = "clean"
  /\ main.rest = {}
  /\ main' = [main EXCEPT !.pc = "wait"]
  /\ UNCHANGED <<conn, sock, owner, queue, th>>

\* queue_remove_byptr: the items of c are taken out of the list, one by one.
Without(q, c) ==
  LET left[i \in 0..Len(q)] == CASE i = 0 -> <<>>
                                [] i > 0 /\ q[i].conn = c -> left[i - 1]
                                [] OTHER -> Append(left[i - 1], q[i])
  IN left[Len(q)]

\* Faulty variant: the first queue is left out.
CleanRemove_NotFirst ==
  /\ main.pc = "remove"
  /\ queue' = IF main.idx = 1 THEN queue
              ELSE [queue EXCEPT ![Pools[main.idx]] = Without(@, main.cur)]
  /\ main' = IF main.idx < Len(Pools) THEN [main EXCEPT !.idx = @ + 1]
             ELSE [main EXCEPT !.pc = "drain", !.idx = 1]
  /\ UNCHANGED <<conn, sock, owner, th>>

\* queue_remove_byptr on the queue of each pool.
CleanRemove ==
  /\ main.pc = "remove"
  /\ queue' = [queue EXCEPT ![Pools[main.idx]] = Without(@, main.cur)]
  /\ main' = IF main.idx < Len(Pools) THEN [main EXCEPT !.idx = @ + 1]
             ELSE [main EXCEPT !.pc = "drain", !.idx = 1]
  /\ UNCHANGED <<conn, sock, owner, th>>

\* queue_pending_waitptr on the queue of each pool, then
\* server_connection_delete.
CleanDrain ==
  /\ main.pc = "drain"
  /\ Pending(Pools[main.idx], main.cur) = {}
  /\ IF main.idx < Len(Pools)
     THEN /\ main' = [main EXCEPT !.idx = @ + 1]
          /\ UNCHANGED conn
     ELSE /\ main' = [main EXCEPT !.pc = "clean", !.cur = None, !.idx = 1]
          /\ conn' = [conn EXCEPT ![main.cur].stage = "freed"]
  /\ UNCHANGED <<sock, owner, queue, th>>
--------------------------------------------------------------------------------
Client == /\ \E c \in Conn : \/ Connect(c) \/ Send(c) \/ Receive(c)
                             \/ \E how \in {"fin", "reset"} : Hangup(c, how)
          /\ UNCHANGED env

PoolStep(t) == /\ \/ Fetch(t) \/ Enqueue(t) \/ Release(t) \/ Requeue(t)
                  \/ ReadData(t) \/ ReadNothing(t)
                  \/ WorkerLock(t) \/ Process(t)
                  \/ WriterLock(t) \/ WriteHead(t) \/ WriteBody(t) \/ WriteDone(t)
               /\ UNCHANGED env

LoopStep == /\ \/ EpollWait \/ AcceptDone
               \/ \E c \in Conn : Accept(c) \/ CleanCheck(c)
               \/ OnHangup \/ OnReadable \/ OnWritable
               \/ CleanDone \/ CleanRemove \/ CleanDrain
            /\ UNCHANGED env

Next == Client \/ LoopStep \/ \E t \in Thread : PoolStep(t)

Spec == Init /\ [][Next]_vars

\* Each pool thread and the event loop keep running, queues and locks are
\* granted, and clients take the data sent to them.
FairSpec == /\ Spec
            /\ \A t \in Thread : WF_vars(PoolStep(t))
            /\ WF_vars(LoopStep)
            /\ \A c \in Conn : WF_vars(Receive(c) /\ UNCHANGED env)
--------------------------------------------------------------------------------
\* Where on the wire to c the blocks are that the handlers of c have written,
\* and which of them follow each other.
Own(c) == {j \in DOMAIN sock[c].wire : sock[c].wire[j].by = c}
Follows(c, i, j) == i < j /\ \A k \in Own(c) : ~(i < k /\ k < j)

\* No reader is handed or left with a freed connection: only the event loop
\* adds to the READ queue, and it waits for the readers before it frees (what
\* the queue still holds for a freed connection is blocked for good).
ReadersSafe == \A t \in Reader : Working(t) => conn[th[t].conn].stage # "freed"

\* A handler never leaves a header block half written behind: between two
\* handlers pending_writes is empty (server_loop_write).
FlushedWhenUnlocked == \A c \in Conn : conn[c].lock = None => ~conn[c].writes

\* On the wire, a body directly follows its own header block, and a header
\* block is followed by its body: handlers that write to one connection in
\* turns, with the buffer filling up at any point, do not mix responses.
WireFramed ==
  \A c \in Conn : \A j \in Own(c) :
    LET b == sock[c].wire[j]
    IN /\ b.part = "body" =>
            \E i \in Own(c) : Follows(c, i, j) /\ sock[c].wire[i] = [b EXCEPT !.part = "head"]
       /\ b.part = "head" /\ b.kind # "continue" =>
            \A k \in Own(c) : Follows(c, j, k) => sock[c].wire[k] = [b EXCEPT !.part = "body"]

\* The beginning of the answer to a request.
IsAnswer(b) == b.kind = "ok" /\ b.part = "head"

\* Requests are answered at most once and in the order they were read, across
\* the READ, WORKER and WRITE pools (pending_requests, pending_responses).
AnswersInOrder ==
  \A c \in Conn : \A i, j \in Own(c) :
    i < j /\ IsAnswer(sock[c].wire[i]) /\ IsAnswer(sock[c].wire[j])
      => sock[c].wire[i].req < sock[c].wire[j].req

\* The end of a response that carries Connection: close.
IsLastBody(b) == /\ b.part = "body"
                 /\ b.kind = "error" \/ (b.kind = "ok" /\ b.req \in env.close)

\* Nothing follows a response that carries Connection: close
\* (server_loop_write closes the socket and leaves its loop).
CloseIsLast ==
  \A c \in Conn : \A i, j \in Own(c) : IsLastBody(sock[c].wire[i]) => j <= i

\* What reaches a client was written for that client's connection.
NoCrossTalk == \A c \in Conn : \A b \in Range(sock[c].wire) : b.by = c

\* Nothing is under way for a connection: no event is due, no thread has it or can fetch it.
Still(c) == /\ ~sock[c].edge
            /\ ~(sock[c].room = 0 /\ sock[c].nospace)
            /\ \A e \in main.batch : e.conn # c
            /\ \A p \in Range(Pools) : \A i \in DOMAIN queue[p] :
                  queue[p][i].conn = c => queue[p][i].blocked
            /\ \A t \in Thread : th[t].conn # c

\* The end of the request has arrived and nobody is going to read it.
LeftUnread(c, k) == Still(c) /\ [req |-> k, part |-> "tail"] \in Range(sock[c].in)

\* Its response is there and nobody is going to write it.
LeftUnsent(c, k) == Still(c) /\ \E i \in DOMAIN conn[c].responses : /\ conn[c].responses[i].kind = "ok"
                                                                    /\ conn[c].responses[i].req = k

\* It has been read, and is deleted unanswered.
Deleted(c, k) == /\ [req |-> k, part |-> "tail"] \notin Range(sock[c].in)
                 /\ conn[c].cur # k
                 /\ k \notin Range(conn[c].requests)
                 /\ \A i \in DOMAIN conn[c].responses : conn[c].responses[i].req # k

\* A request that the client has sent in full is answered, unless the connection is closed first
\* or the code leaves it in one of three ways: what a read has left in the socket stays there (the
\* condition (error = true) of server_loop_read ends its loop); after the send buffer has been
\* full the response stays (EPOLLOUT unblocks the READ queue); and a request of a client that does
\* not wait for its answers is replaced by the next one of the same buffer
\* (parser_cb_on_message_begin).
AnsweredOrLeft ==
  \A c \in Conn, k \in Requests :
    (\E i \in 1..sock[c].sent : env.script[c][i] = [req |-> k, part |-> "tail"])
      ~> \/ Answered(c, k) \/ conn[c].closed \/ conn[c].stage = "freed"
         \/ ~env.readAll /\ LeftUnread(c, k)
         \/ Len(sock[c].wire) >= env.sendBuf /\ LeftUnsent(c, k)
         \/ ~env.serial /\ Deleted(c, k)

\* A connection whose socket was closed is cleaned up (server_loop).
ClosedFreed == \A c \in Conn : conn[c].stage = "listed" /\ conn[c].closed
                                 ~> conn[c].stage = "freed"
================================================================================

------------------------------- MODULE WritePath -------------------------------
(***************************************************************************)
(* How the bytes of a connection's responses reach its socket: the buffers *)
(* of pending_writes (data-buffer.c), the writer of bodies (http-body.c,   *)
(* http_body_writeto_fd) and the loop of server_loop_write that drives     *)
(* them, on a socket that takes as many bytes as it has room for.          *)
(*                                                                         *)
(* ServerLoop takes header blocks and bodies as units; here they are       *)
(* bytes, cut into buffers, chunks and partial writes.  Which item of the  *)
(* WRITE queue lets a handler run is a matter of ServerLoop: here one may  *)
(* run whenever none does, as they take the connection's lock in turns.    *)
(***************************************************************************)
EXTENDS Integers, Sequences

CONSTANTS
  Responses,   \* what is to be sent: the lengths of header block and body,
               \* the type of the body, and whether it says Connection: close
  BufSize,     \* DATA_BUFFER_SIZE
  ChunkSize,   \* buffer_len of http_body_writeto_fd
  SendBuf      \* the socket's send buffer

Kind == {"BODY_NONE", "BODY_STRING", "BODY_FILE"}

ASSUME ResponsesAssumption ==
  /\ Responses \in Seq([head : Nat \ {0}, body : Nat, kind : Kind, close : BOOLEAN])
  /\ \A r \in DOMAIN Responses : Responses[r].kind = "BODY_NONE" => Responses[r].body = 0

ASSUME SizesAssumption == /\ BufSize \in Nat \ {0}
                          /\ ChunkSize \in Nat \ {0}
                          /\ SendBuf \in Nat \ {0}

VARIABLES
  queued,   \* how many of the responses are in pending_responses or were there
  cur,      \* the first of pending_responses, if there is one
  status,   \* its send_status
  offset,   \* rOffset of its body
  list,     \* pending_writes: buffers with what was put in and rOffset
  loops,    \* the last buffer of the list points back into the list
  pc,       \* where the handler is
  error,    \* conn->skt->error
  closed,   \* conn->skt->closed
  wire,     \* the bytes that the socket took
  room,     \* how many more it takes at present
  peer,     \* the other side: open or reset
  disk      \* whether files can be read

socket == <<wire, room>>
world == <<peer, disk>>
vars == <<queued, cur, status, offset, list, loops, pc, error, closed, socket, world>>

Byte == [resp : Nat, part : {"head", "body"}, at : Nat]

HeadByte(r, k) == [resp |-> r, part |-> "head", at |-> k]
BodyByte(r, k) == [resp |-> r, part |-> "body", at |-> k]

\* http_response_new, data_buffer_list_new, http_body_new.
Init == /\ queued = 0 /\ cur = 1 /\ status = "SEND_RESPONSE_LINE" /\ offset = 0
        /\ list = <<>> /\ loops = FALSE
        /\ pc = "idle" /\ error = FALSE /\ closed = FALSE
        /\ wire = <<>> /\ room = SendBuf
        /\ peer = "open" /\ disk = "ok"
--------------------------------------------------------------------------------
(* data_buffer_list_append *)

Least(a, b) == IF a < b THEN a ELSE b

\* Faulty variant: the buffer is made as long as the data.
Filled_Long(src) == IF src = <<>> THEN <<>> ELSE <<[data |-> src, rOffset |-> 0]>>

\* How many new buffers n bytes need.
Buffers(n) == (n + BufSize - 1) \div BufSize

\* New buffers with the bytes of src, each full but the last.
Filled(src) ==
  [j \in 1..Buffers(Len(src)) |->
     [data |-> SubSeq(src, (j - 1) * BufSize + 1, Least(j * BufSize, Len(src))),
      rOffset |-> 0]]

\* Is a new buffer needed at once?  Yes, if there is none or the last is full.
FirstIsNew == list = <<>> \/ Len(list[Len(list)].data) = BufSize

\* The last buffer takes what fits and new ones the rest.  If both happen, the
\* new ones follow the last buffer already when LL_CONCAT appends them to the
\* list once more, and the list loops.
ListAppend(src) ==
  LET n == Len(list)
      fits == IF FirstIsNew THEN 0 ELSE Least(BufSize - Len(list[n].data), Len(src))
      rest == Filled(SubSeq(src, fits + 1, Len(src)))
  IN /\ list' = IF FirstIsNew THEN list \o rest
                ELSE [list EXCEPT ![n].data = @ \o SubSeq(src, 1, fits)] \o rest
     /\ loops' = (loops \/ (~FirstIsNew /\ rest # <<>>))
--------------------------------------------------------------------------------
(* The socket *)

Writable == peer = "open" /\ ~closed

\* write takes the first k of some bytes.
Write(bytes, k) == /\ Writable
                   /\ room > 0
                   /\ k = Least(Len(bytes), room)
                   /\ wire' = wire \o SubSeq(bytes, 1, k)
                   /\ room' = room - k

\* The client takes some of what was sent.
Receive == /\ \E n \in 1..(SendBuf - room) : room' = room + n
           /\ UNCHANGED <<queued, cur, status, offset, list, loops, pc, error, closed,
                          wire, world>>

Reset == /\ peer = "open"
         /\ peer' = "reset"
         /\ UNCHANGED <<queued, cur, status, offset, list, loops, pc, error, closed,
                        socket, disk>>

DiskFails == /\ disk = "ok"
             /\ disk' = "failed"
             /\ UNCHANGED <<queued, cur, status, offset, list, loops, pc, error, closed,
                            socket, peer>>
--------------------------------------------------------------------------------
(* server_loop_write *)

\* READ or WORKER appends a response, holding the connection's lock.
AppendResponse == /\ pc = "idle"
                  /\ queued < Len(Responses)
                  /\ queued' = queued + 1
                  /\ UNCHANGED <<cur, status, offset, list, loops, pc, error, closed,
                                 socket, world>>

\* CONN_LOCK; what an earlier handler left in pending_writes goes first.
Lock == /\ pc = "idle"
        /\ cur <= queued
        /\ pc' = IF list # <<>> THEN "rest" ELSE "turn"
        /\ UNCHANGED <<queued, cur, status, offset, list, loops, error, closed,
                       socket, world>>

\* Faulty variant: the header block is formatted whatever send_status is.
Turn_Again ==
  /\ pc = "turn"
  /\ cur <= queued
  /\ ListAppend([k \in 1..Responses[cur].head |-> HeadByte(cur, k)])
  /\ status' = "SEND_BODY"
  /\ pc' = "flush"
  /\ UNCHANGED <<queued, cur, offset, error, closed, socket, world>>

\* A turn of the loop over responses begins: http_response_write formats the
\* header block unless that was done before.
Turn ==
  /\ pc = "turn"
  /\ cur <= queued
  /\ IF status = "SEND_RESPONSE_LINE"
     THEN ListAppend([k \in 1..Responses[cur].head |-> HeadByte(cur, k)])
     ELSE UNCHANGED <<list, loops>>
  /\ status' = "SEND_BODY"
  /\ pc' = "flush"
  /\ UNCHANGED <<queued, cur, offset, error, closed, socket, world>>

TurnEnd == /\ pc = "turn"
           /\ cur > queued
           /\ pc' = "idle"
           /\ UNCHANGED <<queued, cur, status, offset, list, loops, error, closed,
                          socket, world>>

Flushing == pc \in {"rest", "flush"} /\ ~loops

Unread(buf) == SubSeq(buf.data, buf.rOffset + 1, Len(buf.data))

\* Faulty variant: a partial write counts as a whole one.
FlushWrite_Whole ==
  /\ Flushing
  /\ list # <<>> /\ Unread(Head(list)) # <<>>
  /\ \E k \in 1..BufSize : Write(Unread(Head(list)), k)
  /\ list' = [list EXCEPT ![1].rOffset = Len(list[1].data)]
  /\ UNCHANGED <<queued, cur, status, offset, loops, pc, error, closed, world>>

\* data_buffer_list_writeto_fd, one write: the first buffer has unread bytes.
FlushWrite ==
  /\ Flushing
  /\ list # <<>> /\ Unread(Head(list)) # <<>>
  /\ \E k \in 1..BufSize : /\ Write(Unread(Head(list)), k)
                           /\ list' = [list EXCEPT ![1].rOffset = @ + k]
  /\ UNCHANGED <<queued, cur, status, offset, loops, pc, error, closed, world>>

\* The first buffer is used up and deleted.
FlushDelete == /\ Flushing
               /\ list # <<>> /\ Unread(Head(list)) = <<>>
               /\ list' = Tail(list)
               /\ UNCHANGED <<queued, cur, status, offset, loops, pc, error, closed,
                              socket, world>>

\* The write fails: without room the loop over responses takes another turn,
\* and on an error as well, which it records.  A handler that was writing the
\* rest of an earlier one ends.
FlushStop ==
  /\ Flushing
  /\ list # <<>> /\ Unread(Head(list)) # <<>>
  /\ ~Writable \/ room = 0
  /\ error' = (error \/ ~Writable)
  /\ pc' = IF pc = "rest" THEN "idle" ELSE "turn"
  /\ UNCHANGED <<queued, cur, status, offset, list, loops, closed, socket, world>>

\* All is written; the body follows unless the socket has an error.
FlushEnd == /\ Flushing
            /\ list = <<>>
            /\ pc' = IF pc = "rest" \/ error THEN "turn" ELSE "body"
            /\ UNCHANGED <<queued, cur, status, offset, list, loops, error, closed,
                           socket, world>>
--------------------------------------------------------------------------------
(* http_body_writeto_fd *)

\* What one round of its loop hands to write: all that is left of a string, a
\* buffer full of what is left of a file.
BodyLeft ==
  LET left == Responses[cur].body - offset
  IN [k \in 1..(IF Responses[cur].kind = "BODY_FILE" THEN Least(left, ChunkSize) ELSE left)
        |-> BodyByte(cur, offset + k)]

Readable == disk = "ok" \/ Responses[cur].kind # "BODY_FILE"

\* Faulty variant: the body counts as written once its end was read.
BodyWrite_AtEnd ==
  /\ pc = "body"
  /\ BodyLeft # <<>> /\ Readable
  /\ \E k \in 1..Responses[cur].body : Write(BodyLeft, k) /\ offset' = offset + k
  /\ pc' = IF offset + Len(BodyLeft) = Responses[cur].body THEN "done" ELSE "body"
  /\ UNCHANGED <<queued, cur, status, list, loops, error, closed, world>>

BodyWrite ==
  /\ pc = "body"
  /\ BodyLeft # <<>> /\ Readable
  /\ \E k \in 1..Responses[cur].body : Write(BodyLeft, k) /\ offset' = offset + k
  /\ UNCHANGED <<queued, cur, status, list, loops, pc, error, closed, world>>

\* HBWRITE_BLOCKED: a later handler goes on.
BodyBlocked == /\ pc = "body"
               /\ BodyLeft # <<>> /\ Readable /\ Writable
               /\ room = 0
               /\ pc' = "idle"
               /\ UNCHANGED <<queued, cur, status, offset, list, loops, error, closed,
                              socket, world>>

\* HBWRITE_ERROR: the file or the socket fails; the response counts as sent.
BodyError == /\ pc = "body"
             /\ BodyLeft # <<>>
             /\ ~Readable \/ ~Writable
             /\ error' = TRUE
             /\ pc' = "done"
             /\ UNCHANGED <<queued, cur, status, offset, list, loops, closed,
                            socket, world>>

\* HBWRITE_DONE, or there is no body.
BodyEnd == /\ pc = "body"
           /\ BodyLeft = <<>>
           /\ pc' = "done"
           /\ UNCHANGED <<queued, cur, status, offset, list, loops, error, closed,
                          socket, world>>

\* The response is removed; with Connection: close the socket is closed and
\* the handler ends.
Done == /\ pc = "done"
        /\ cur' = cur + 1
        /\ status' = "SEND_RESPONSE_LINE"
        /\ offset' = 0
        /\ closed' = (closed \/ Responses[cur].close)
        /\ pc' = IF Responses[cur].close THEN "idle" ELSE "turn"
        /\ UNCHANGED <<queued, list, loops, error, socket, world>>
--------------------------------------------------------------------------------
Handler == \/ Lock \/ Turn \/ TurnEnd
           \/ FlushWrite \/ FlushDelete \/ FlushStop \/ FlushEnd
           \/ BodyWrite \/ BodyBlocked \/ BodyError \/ BodyEnd \/ Done

Next == Handler \/ AppendResponse \/ Receive \/ Reset \/ DiskFails

Spec == Init /\ [][Next]_vars
--------------------------------------------------------------------------------
\* The buffers of pending_writes hold no more than they were allocated for,
\* and no more is read from them than was put in.
TypeOK ==
  /\ queued \in 0..Len(Responses)
  /\ cur \in 1..(queued + 1)
  /\ status \in {"SEND_RESPONSE_LINE", "SEND_BODY"}
  /\ offset \in Nat /\ (cur <= Len(Responses) => offset <= Responses[cur].body)
  /\ list \in Seq([data : Seq(Byte), rOffset : Nat])
  /\ \A j \in DOMAIN list : list[j].rOffset <= Len(list[j].data) /\ Len(list[j].data) <= BufSize
  /\ loops \in BOOLEAN
  /\ pc \in {"idle", "rest", "turn", "flush", "body", "done"}
  /\ error \in BOOLEAN /\ closed \in BOOLEAN
  /\ wire \in Seq(Byte)
  /\ room \in 0..SendBuf
  /\ peer \in {"open", "reset"} /\ disk \in {"ok", "failed"}

\* The byte after a position in the body of response r, or in its head.
AfterBody(r, k) == IF k < Responses[r].body THEN BodyByte(r, k + 1) ELSE HeadByte(r + 1, 1)
AfterHead(r, k) == IF k < Responses[r].head THEN HeadByte(r, k + 1) ELSE AfterBody(r, 0)

Succ(b) == IF b.part = "head" THEN AfterHead(b.resp, b.at) ELSE AfterBody(b.resp, b.at)

\* The bytes of all responses follow one another, none missing and none twice.
Ordered(s) == /\ s # <<>> => s[1] = HeadByte(1, 1)
              /\ \A i \in DOMAIN s : i > 1 => s[i] = Succ(s[i - 1])

\* However header blocks are cut into buffers and files into chunks, and
\* wherever the socket takes less than it is given, the client gets every byte
\* once and in order (data_buffer_list_writeto_fd, http_body_writeto_fd).  A
\* file that cannot be read is the exception: the next response follows a
\* body that is too short.
InOrder == disk = "ok" => Ordered(wire)

\* The last byte of response r.
LastByte(r) == IF Responses[r].body > 0 THEN BodyByte(r, Responses[r].body)
               ELSE HeadByte(r, Responses[r].head)

\* A response is removed from pending_responses only when all of it is out,
\* unless the socket or the file failed.
RemovedIsSent == disk = "ok" /\ ~error
                   => \A r \in 1..(cur - 1) : \E i \in DOMAIN wire : wire[i] = LastByte(r)

\* pending_writes never becomes circular: data_buffer_list_append is used only
\* in states where the last buffer does not overflow into new ones.
ListStraight == ~loops
================================================================================

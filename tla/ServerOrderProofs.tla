--------------------------- MODULE ServerOrderProofs ---------------------------
(***************************************************************************)
(* Proofs about what reaches a client, as ServerLoop models it, for any    *)
(* number of connections and pool threads and any scenario: responses are  *)
(* not mixed, requests are answered in order, and nothing follows a        *)
(* response that closes the connection.                                    *)
(***************************************************************************)
EXTENDS ServerLoopProofs

\* A handler writes the body of the first response, or has written it and is
\* about to remove the response.
AtBody(c) == conn[c].lock # None /\ th[conn[c].lock].pc \in {"body", "done"}
Finishing(c) == conn[c].lock # None /\ th[conn[c].lock].pc = "done"

\* Errors close the connection, an answer does if the application says so; only
\* the first response can have been begun, and it has when its body is written.
ResponseOK(c) ==
  /\ \A i \in DOMAIN conn[c].responses :
       LET r == conn[c].responses[i]
       IN /\ r.kind = "error" => r.close
          /\ r.kind = "ok" => (r.close <=> r.req \in env.close)
          /\ i > 1 => r.sent = "line"
  /\ AtBody(c) => conn[c].responses[1].sent = "body" /\ ~conn[c].writes

\* What is not accepted yet has received and sent nothing.
BlankOK(c) == Unused(c) => /\ Own(c) = {}
                           /\ conn[c].responses = <<>>
                           /\ conn[c].requests = <<>>
                           /\ conn[c].cur = 0

\* The input that is left is the end of what the client has sent.
InputOK(c) ==
  /\ Len(sock[c].in) <= sock[c].sent
  /\ sock[c].sent <= Len(env.script[c])
  /\ \A k \in 1..Len(sock[c].in) :
       sock[c].in[k] = env.script[c][sock[c].sent - Len(sock[c].in) + k]

\* The header block of the first response is out, its body is not.
Midway(c) == /\ conn[c].responses # <<>>
             /\ conn[c].responses[1].sent = "body"
             /\ ~conn[c].writes
             /\ ~Finishing(c)

IsLast(c, j) == \A k \in Own(c) : k <= j

\* The last block on an open connection is the header block of the response
\* that is midway; if none is, it is the end of a response.
FrameOK(c) ==
  Open(c) /\ sock[c].peer # "reset" =>
    /\ Midway(c) =>
         \E j \in Own(c) :
           /\ IsLast(c, j)
           /\ sock[c].wire[j] = [by |-> c, kind |-> conn[c].responses[1].kind,
                                 req |-> conn[c].responses[1].req, part |-> "head"]
    /\ ~Midway(c) =>
         \A j \in Own(c) : IsLast(c, j) =>
           sock[c].wire[j].part = "body" \/ sock[c].wire[j].kind = "continue"

\* A socket stays open after a closing response only until its handler has
\* removed the response.
CloseOK(c) ==
  Open(c) /\ (\E j \in Own(c) : IsLastBody(sock[c].wire[j])) =>
    Finishing(c) /\ conn[c].responses[1].close

\* The numbers of the requests that are answered, processed, read, begun and
\* still to be read: each is smaller than those of the next stages.
IsReady(c, i) == /\ conn[c].responses[i].kind = "ok"
                 /\ i > 1 \/ conn[c].responses[i].sent = "line" \/ conn[c].writes
Answers(c) == {sock[c].wire[j].req : j \in {k \in Own(c) : IsAnswer(sock[c].wire[k])}}
Ready(c) == {conn[c].responses[i].req : i \in {k \in DOMAIN conn[c].responses : IsReady(c, k)}}
Asked(c) == {conn[c].requests[i] : i \in DOMAIN conn[c].requests}
Begun(c) == {conn[c].cur} \ {0}
IsComing(c, k) == /\ k > sock[c].sent - Len(sock[c].in)
                  /\ env.script[c][k].part = "head"
Coming(c) == {env.script[c][k].req : k \in {i \in DOMAIN env.script[c] : IsComing(c, i)}}

RepliesRise(c) ==
  \A i, j \in DOMAIN conn[c].responses : i < j /\ IsReady(c, i) /\ IsReady(c, j) =>
    conn[c].responses[i].req < conn[c].responses[j].req
RequestsRise(c) == \A i, j \in DOMAIN conn[c].requests :
                     i < j => conn[c].requests[i] < conn[c].requests[j]

Below(S, T) == \A m \in S, n \in T : m < n

OrderOK(c) ==
  Open(c) =>
    /\ Below(Answers(c), Ready(c) \cup Asked(c) \cup Begun(c) \cup Coming(c))
    /\ Below(Ready(c), Asked(c) \cup Begun(c) \cup Coming(c))
    /\ Below(Asked(c), Begun(c) \cup Coming(c))
    /\ Below(Begun(c), Coming(c))
    /\ RepliesRise(c) /\ RequestsRise(c)

\* The three properties, of one connection.
Framed(c) ==
  \A j \in Own(c) :
    /\ sock[c].wire[j].part = "body" =>
         \E i \in Own(c) : /\ Follows(c, i, j)
                           /\ sock[c].wire[i] = [sock[c].wire[j] EXCEPT !.part = "head"]
    /\ sock[c].wire[j].part = "head" /\ sock[c].wire[j].kind # "continue" =>
         \A k \in Own(c) : Follows(c, j, k) =>
           sock[c].wire[k] = [sock[c].wire[j] EXCEPT !.part = "body"]
Ordered(c) == \A i, j \in Own(c) :
                i < j /\ IsAnswer(sock[c].wire[i]) /\ IsAnswer(sock[c].wire[j])
                  => sock[c].wire[i].req < sock[c].wire[j].req
Closing(c) == \A i, j \in Own(c) : IsLastBody(sock[c].wire[i]) => j <= i

WireOK(c) == Framed(c) /\ Ordered(c) /\ Closing(c)

\* The inductive invariant.
ConnOK(c) == /\ ResponseOK(c) /\ BlankOK(c) /\ InputOK(c)
             /\ FrameOK(c) /\ CloseOK(c) /\ OrderOK(c)
             /\ WireOK(c)
OInv == IInv /\ \A c \in Conn : ConnOK(c)
--------------------------------------------------------------------------------
(* Steps that leave a connection as it is. *)

\* What the handlers of a connection have written to it is the same.
WireKept(c) == /\ Own(c)' = Own(c)
               /\ \A j \in Own(c) : sock'[c].wire[j] = sock[c].wire[j]

\* Nothing happens to the requests and responses of the connection.
Kept(c) == /\ WireKept(c)
           /\ conn'[c].responses = conn[c].responses
           /\ conn'[c].requests = conn[c].requests
           /\ conn'[c].writes = conn[c].writes
           /\ conn'[c].cur = conn[c].cur
           /\ Finishing(c)' <=> Finishing(c)
           /\ AtBody(c)' => AtBody(c)

\* What every step keeps to: a connection is opened once, a reset is final,
\* and input is only read.
Common(c) == /\ env' = env
             /\ Unused(c)' => Unused(c)
             /\ Open(c)' => Open(c) \/ Unused(c)
             /\ sock'[c].peer # "reset" => sock[c].peer # "reset"
             /\ InputOK(c)'
             /\ Coming(c)' \subseteq Coming(c)

\* The three properties only depend on the blocks.
LEMMA WireKeptFacts ==
  ASSUME NEW c \in Conn, env' = env, WireKept(c), WireOK(c)
  PROVE  WireOK(c)' /\ Answers(c)' = Answers(c)
<1>1. ASSUME NEW i, NEW j PROVE Follows(c, i, j)' <=> Follows(c, i, j)
  BY DEF WireKept, Follows
<1>2. Framed(c)'
  BY <1>1 DEF WireKept, WireOK, Framed
<1>3. \A j \in Own(c) : /\ IsAnswer(sock[c].wire[j])' <=> IsAnswer(sock[c].wire[j])
                        /\ IsLastBody(sock[c].wire[j])' <=> IsLastBody(sock[c].wire[j])
  BY DEF WireKept, IsAnswer, IsLastBody
<1>4. Ordered(c)' /\ Closing(c)'
  BY <1>3 DEF WireKept, WireOK, Ordered, Closing
<1>5. Answers(c)' = Answers(c)
  BY <1>3 DEF WireKept, Answers
<1> QED BY <1>2, <1>4, <1>5 DEF WireOK

\* A connection to which nothing happens keeps what holds of it.
LEMMA KeptFacts ==
  ASSUME NEW c \in Conn, Kept(c), Common(c), ConnOK(c)
  PROVE  ConnOK(c)'
<1>1. WireOK(c)' /\ Answers(c)' = Answers(c) /\ Own(c)' = Own(c)
      /\ \A j \in Own(c) : sock'[c].wire[j] = sock[c].wire[j]
  BY WireKeptFacts DEF Kept, Common, ConnOK, WireKept
<1>2. ResponseOK(c)'
  BY DEF Kept, Common, ConnOK, ResponseOK
<1>3. BlankOK(c)'
  BY <1>1 DEF Kept, Common, ConnOK, BlankOK
<1>4. Midway(c)' <=> Midway(c)
  BY DEF Kept, Midway
<1>5. CASE ~Open(c)'
  BY <1>1, <1>2, <1>3, <1>5 DEF ConnOK, Common, FrameOK, CloseOK, OrderOK
<1>6. CASE Unused(c)
  <2>1. Own(c) = {} /\ conn[c].responses = <<>> /\ conn[c].requests = <<>> /\ conn[c].cur = 0
    BY <1>6 DEF ConnOK, BlankOK
  <2>2. FrameOK(c)' /\ CloseOK(c)'
    BY <1>1, <1>4, <2>1 DEF FrameOK, CloseOK, Midway
  <2>3. Answers(c)' = {} /\ Ready(c)' = {} /\ Asked(c)' = {} /\ Begun(c)' = {}
    BY <1>1, <2>1 DEF Answers, Ready, Asked, Begun, Kept
  <2>4. OrderOK(c)'
    BY <2>1, <2>3 DEF OrderOK, RepliesRise, RequestsRise, Below, Kept
  <2> QED BY <1>1, <1>2, <1>3, <2>2, <2>4 DEF ConnOK, Common
<1>7. CASE Open(c)' /\ Open(c)
  <2>2. FrameOK(c)'
    BY <1>1, <1>4, <1>7 DEF FrameOK, IsLast, Kept, Common, ConnOK
  <2>3. CloseOK(c)'
    <3>1. \A j \in Own(c) : IsLastBody(sock[c].wire[j])' <=> IsLastBody(sock[c].wire[j])
      BY <1>1 DEF IsLastBody, Common
    <3> QED BY <1>1, <1>7, <3>1 DEF CloseOK, Kept, ConnOK
  <2>4. \A i : IsReady(c, i)' <=> IsReady(c, i)
    BY DEF IsReady, Kept
  <2>5. Ready(c)' = Ready(c) /\ Asked(c)' = Asked(c) /\ Begun(c)' = Begun(c)
    BY <2>4 DEF Ready, Asked, Begun, Kept
  <2>6. OrderOK(c)'
    BY <1>1, <1>7, <2>4, <2>5 DEF OrderOK, RepliesRise, RequestsRise, Below, Kept, Common, ConnOK
  <2> QED BY <1>1, <1>2, <1>3, <2>2, <2>3, <2>6 DEF ConnOK, Common
<1> QED BY <1>5, <1>6, <1>7 DEF Common

\* What TypeOK says of one connection and its socket.
LEMMA ConnFacts ==
  ASSUME TypeOK, NEW c \in Conn
  PROVE  /\ conn[c] \in Connection
         /\ conn[c].responses \in Seq(Reply)
         /\ conn[c].requests \in Seq(Nat)
         /\ conn[c].cur \in Nat
         /\ conn[c].writes \in BOOLEAN
         /\ sock[c] \in Socket
         /\ sock[c].in \in Seq(Piece)
         /\ sock[c].sent \in Nat
         /\ sock[c].wire \in Seq(Block)
         /\ env.script[c] \in Seq(Piece)
<1>1. conn[c] \in Connection /\ sock[c] \in Socket
  BY DEF TypeOK
<1>2. env.script[c] \in Seq(Piece)
  BY ScenarioAssumption DEF TypeOK
<1> QED BY <1>1, <1>2 DEF Connection, Socket

\* Input that nobody sends or reads.
LEMMA InputSame ==
  ASSUME NEW c \in Conn, env' = env, sock'[c].in = sock[c].in, sock'[c].sent = sock[c].sent,
         InputOK(c)
  PROVE  InputOK(c)' /\ Coming(c)' \subseteq Coming(c)
BY DEF InputOK, Coming, IsComing

\* The client sends the next piece.
LEMMA InputSend ==
  ASSUME TypeOK, NEW c \in Conn, env' = env, InputOK(c),
         sock[c].sent < Len(env.script[c]),
         sock'[c].in = Append(sock[c].in, env.script[c][sock[c].sent + 1]),
         sock'[c].sent = sock[c].sent + 1
  PROVE  InputOK(c)' /\ Coming(c)' \subseteq Coming(c)
<1> DEFINE in == sock[c].in
           sent == sock[c].sent
           script == env.script[c]
           piece == script[sent + 1]
<1>1. in \in Seq(Piece) /\ sent \in Nat /\ script \in Seq(Piece)
  BY ConnFacts
<1>2. Len(in) <= sent /\ sent < Len(script) /\ \A k \in 1..Len(in) : in[k] = script[sent - Len(in) + k]
  BY DEF InputOK
<1>3. sock'[c].in = Append(in, piece) /\ sock'[c].sent = sent + 1 /\ env'.script[c] = script
  OBVIOUS
<1> HIDE DEF in, sent, script
<1>4. /\ Len(Append(in, piece)) = Len(in) + 1 /\ Len(in) \in Nat
      /\ \A k \in 1..Len(in) : Append(in, piece)[k] = in[k]
      /\ Append(in, piece)[Len(in) + 1] = piece
  <2>1. piece \in Piece
    BY <1>1, <1>2
  <2> HIDE DEF piece
  <2> QED BY <1>1, <2>1
<1>5. ASSUME NEW k \in 1..(Len(in) + 1)
      PROVE  Append(in, piece)[k] = script[(sent + 1) - (Len(in) + 1) + k]
  <2>1. (sent + 1) - (Len(in) + 1) + k = sent - Len(in) + k
    BY <1>1, <1>4
  <2>2. CASE k \in 1..Len(in)
    BY <1>2, <1>4, <2>1, <2>2
  <2>3. CASE k = Len(in) + 1
    <3>1. sent - Len(in) + k = sent + 1
      BY <1>1, <1>4, <2>3
    <3> QED BY <1>4, <2>1, <2>3, <3>1
  <2> QED BY <1>4, <2>2, <2>3
<1>6. (sent + 1) - (Len(in) + 1) = sent - Len(in)
  BY <1>1, <1>4
<1>7. InputOK(c)'
  <2>1. Len(in) + 1 <= sent + 1 /\ sent + 1 <= Len(script)
    BY <1>1, <1>2, <1>4
  <2> QED BY <1>3, <1>4, <1>5, <2>1 DEF InputOK
<1>8. Coming(c)' \subseteq Coming(c)
  BY <1>3, <1>4, <1>6 DEF Coming, IsComing, in, sent, script
<1> QED BY <1>7, <1>8

\* A handler reads the first n pieces.
LEMMA InputRead ==
  ASSUME TypeOK, NEW c \in Conn, env' = env, InputOK(c), NEW n \in 1..Len(sock[c].in),
         sock'[c].in = SubSeq(sock[c].in, n + 1, Len(sock[c].in)),
         sock'[c].sent = sock[c].sent
  PROVE  /\ InputOK(c)' /\ Coming(c)' \subseteq Coming(c)
         /\ \A i \in 1..n : sock[c].in[i].part = "head" =>
              /\ sock[c].in[i].req \in Coming(c)
              /\ Below({sock[c].in[i].req}, Coming(c)')
<1> DEFINE in == sock[c].in
           sent == sock[c].sent
           script == env.script[c]
           left == SubSeq(in, n + 1, Len(in))
<1>1. in \in Seq(Piece) /\ sent \in Nat /\ script \in Seq(Piece) /\ n \in 1..Len(in)
  BY ConnFacts
<1>2. Len(in) <= sent /\ sent <= Len(script) /\ \A k \in 1..Len(in) : in[k] = script[sent - Len(in) + k]
  BY DEF InputOK
<1>3. sock'[c].in = left /\ sock'[c].sent = sent /\ env'.script[c] = script
  OBVIOUS
<1>s. \A i, j \in DOMAIN script : i < j /\ script[i].part = "head" /\ script[j].part = "head"
                                    => script[i].req < script[j].req
  BY NumberAssumption DEF TypeOK
<1> HIDE DEF in, sent, script
<1>4. /\ Len(left) = Len(in) - n /\ Len(in) \in Nat /\ n \in Nat /\ n <= Len(in)
      /\ \A k \in 1..(Len(in) - n) : left[k] = in[n + k]
  BY <1>1
<1> HIDE DEF left
<1>5. ASSUME NEW k \in 1..Len(left) PROVE left[k] = script[sent - Len(left) + k]
  <2>1. n + k \in 1..Len(in) /\ sent - Len(left) + k = sent - Len(in) + (n + k)
    BY <1>1, <1>4
  <2> QED BY <1>2, <1>4, <2>1
<1>6. InputOK(c)'
  <2>1. Len(left) <= sent
    BY <1>1, <1>2, <1>4
  <2> QED BY <1>2, <1>3, <1>5, <2>1 DEF InputOK
<1>7. sent - Len(left) = sent - Len(in) + n
  BY <1>1, <1>4
<1>8. Coming(c)' = {script[k].req : k \in {i \in DOMAIN script :
                                            i > sent - Len(in) + n /\ script[i].part = "head"}}
  BY <1>3, <1>7 DEF Coming, IsComing
<1>9. Coming(c) = {script[k].req : k \in {i \in DOMAIN script :
                                           i > sent - Len(in) /\ script[i].part = "head"}}
  BY DEF Coming, IsComing, in, sent, script
<1>10. Coming(c)' \subseteq Coming(c)
  <2>1. \A i \in DOMAIN script : i > sent - Len(in) + n => i > sent - Len(in)
    BY <1>1, <1>4
  <2> QED BY <1>8, <1>9, <2>1
<1>11. ASSUME NEW i \in 1..n, in[i].part = "head"
       PROVE  in[i].req \in Coming(c) /\ Below({in[i].req}, Coming(c)')
  <2> DEFINE p == sent - Len(in) + i
  <2>1. /\ i \in 1..Len(in) /\ p \in DOMAIN script /\ p > sent - Len(in)
        /\ p <= sent - Len(in) + n
    BY <1>1, <1>2, <1>4
  <2>2. in[i] = script[p]
    BY <1>2, <2>1
  <2> HIDE DEF p
  <2>3. in[i].req \in Coming(c)
    BY <1>9, <1>11, <2>1, <2>2
  <2>4. ASSUME NEW m \in Coming(c)' PROVE in[i].req < m
    <3>1. PICK k \in DOMAIN script : /\ k > sent - Len(in) + n
                                     /\ script[k].part = "head" /\ m = script[k].req
      BY <1>8
    <3>2. p < k
      BY <1>1, <1>4, <2>1, <3>1
    <3> QED BY <1>s, <1>11, <2>1, <2>2, <3>1, <3>2
  <2> QED BY <2>3, <2>4 DEF Below
<1> QED BY <1>6, <1>10, <1>11 DEF in

\* Blocks stay where they are.
LEMMA WireSame ==
  ASSUME NEW c \in Conn, sock'[c].wire = sock[c].wire
  PROVE  WireKept(c)
BY DEF WireKept, Own

\* A connection is opened by accept only.
LEMMA OpenFacts ==
  ASSUME TypeOK, TypeOK', OwnerOK, NEW c \in Conn,
         \A f \in Fd : owner'[f] = c => owner[f] = c \/ Unused(c)
  PROVE  Open(c)' => Open(c) \/ Unused(c)
<1> SUFFICES ASSUME Open(c)', ~Unused(c) PROVE Open(c)
  OBVIOUS
<1>1. PICK f \in Fd : owner'[f] = c
  <2>1. conn'[c].fd \in Fd \cup {None} /\ None \notin Conn
    BY NoneAssumption DEF TypeOK, Connection
  <2> QED BY <2>1 DEF Open, SocketOf
<1>2. owner[f] = c
  BY <1>1
<1>3. conn[c].fd = f /\ None \notin Conn \cup Fd
  BY <1>2, NoneAssumption DEF OwnerOK
<1> QED BY <1>2, <1>3 DEF Open, SocketOf

\* What the clients do to a connection.
LEMMA ClientKept ==
  ASSUME IInv, TypeOK', Client, NEW c \in Conn, InputOK(c)
  PROVE  Kept(c) /\ Common(c)
<1>t. TypeOK /\ sock \in [Conn -> Socket] /\ sock[c] \in Socket /\ conn \in [Conn -> Connection]
  BY DEF IInv, TypeOK
<1>1. Quiet
  BY QuietFacts DEF IInv
<1>2. env' = env /\ owner' = owner
  BY Client DEF Client, Connect, Send, Receive, Hangup
<1>3. PICK d \in Conn : Connect(d) \/ Send(d) \/ Receive(d) \/ \E how \in {"fin", "reset"} : Hangup(d, how)
  BY Client DEF Client
<1>d. c # d => sock'[c] = sock[c]
  BY <1>t, <1>3 DEF Connect, Send, Receive, Hangup
<1>4. sock'[c].wire = sock[c].wire
  <2>1. CASE Send(d)
    <3> DEFINE piece == env.script[d][sock[d].sent + 1]
    <3>1. sock' = [sock EXCEPT ![d].sent = @ + 1, ![d].in = Append(@, piece), ![d].edge = TRUE]
      BY <2>1 DEF Send
    <3> HIDE DEF piece
    <3> QED BY <1>t, <1>d, <3>1 DEF Socket
  <2>2. CASE Connect(d) \/ Receive(d)
    BY <1>t, <1>d, <2>2 DEF Connect, Receive, Socket
  <2>3. ASSUME NEW how \in {"fin", "reset"}, Hangup(d, how) PROVE sock'[c].wire = sock[c].wire
    BY <1>t, <1>d, <2>3 DEF Hangup, Socket
  <2> QED BY <1>3, <2>1, <2>2, <2>3
<1>5. Kept(c)
  BY <1>1, <1>4, WireSame DEF Quiet, Kept, Finishing, AtBody
<1>6. Unused(c)' => Unused(c)
  BY <1>t, <1>3 DEF Unused, Connect, Send, Receive, Hangup
<1>7. Open(c)' => Open(c) \/ Unused(c)
  BY <1>t, <1>2, OpenFacts DEF IInv
<1>8. sock'[c].peer # "reset" => sock[c].peer # "reset"
  <2>1. CASE Connect(d) \/ Send(d) \/ Receive(d)
    BY <1>t, <2>1 DEF Connect, Send, Receive, Socket
  <2>2. ASSUME NEW how \in {"fin", "reset"}, Hangup(d, how)
        PROVE sock'[c].peer # "reset" => sock[c].peer # "reset"
    <3>1. CASE c = d
      BY <2>2, <3>1 DEF Hangup
    <3>2. CASE c # d
      BY <1>t, <2>2, <3>2 DEF Hangup
    <3> QED BY <3>1, <3>2
  <2> QED BY <1>3, <2>1, <2>2
<1>9. InputOK(c)' /\ Coming(c)' \subseteq Coming(c)
  <2>1. CASE Send(d) /\ c = d
    <3> DEFINE piece == env.script[c][sock[c].sent + 1]
    <3>1. /\ sock[c].sent < Len(env.script[c])
          /\ sock' = [sock EXCEPT ![c].sent = @ + 1, ![c].in = Append(@, piece), ![c].edge = TRUE]
      BY <2>1 DEF Send
    <3>2. sock'[c].in = Append(sock[c].in, piece) /\ sock'[c].sent = sock[c].sent + 1
      <4> HIDE DEF piece
      <4> QED BY <1>t, <3>1 DEF Socket
    <3> QED BY <1>t, <1>2, <3>1, <3>2, InputSend
  <2>2. CASE ~(Send(d) /\ c = d)
    <3>1. sock'[c].in = sock[c].in /\ sock'[c].sent = sock[c].sent
      <4>1. CASE c = d /\ (Connect(d) \/ Receive(d))
        BY <1>t, <4>1 DEF Connect, Receive, Socket
      <4>2. ASSUME NEW how \in {"fin", "reset"}, Hangup(d, how), c = d
            PROVE  sock'[c].in = sock[c].in /\ sock'[c].sent = sock[c].sent
        BY <1>t, <4>2 DEF Hangup, Socket
      <4> QED BY <1>3, <1>d, <2>2, <4>1, <4>2
    <3> QED BY <1>2, <3>1, InputSame
  <2> QED BY <2>1, <2>2
<1> QED BY <1>2, <1>5, <1>6, <1>7, <1>8, <1>9 DEF Common

\* What the event loop does to a connection.
LEMMA LoopKept ==
  ASSUME IInv, TypeOK', LoopStep, NEW c \in Conn, InputOK(c)
  PROVE  Kept(c) /\ Common(c)
<1>t. /\ TypeOK /\ OwnerOK /\ LoopOK
      /\ sock \in [Conn -> Socket] /\ sock[c] \in Socket /\ conn \in [Conn -> Connection]
      /\ owner \in [Fd -> Conn \cup {None}] /\ None \notin Conn
  BY NoneAssumption DEF IInv, TypeOK
<1>1. Quiet
  BY <1>t, QuietFacts
<1>2. env' = env
  BY LoopStep DEF LoopStep
<1>3. /\ sock'[c].wire = sock[c].wire /\ sock'[c].peer = sock[c].peer
      /\ sock'[c].in = sock[c].in /\ sock'[c].sent = sock[c].sent
  <2>1. CASE EpollWait
    BY <1>t, <2>1 DEF EpollWait, Socket
  <2>2. ASSUME NEW d \in Conn, Accept(d)
        PROVE  sock' = [sock EXCEPT ![d].edge = TRUE] \/ sock' = sock
    BY <2>2 DEF Accept
  <2>3. ASSUME NEW d \in Conn, sock' = [sock EXCEPT ![d].edge = TRUE]
        PROVE  /\ sock'[c].wire = sock[c].wire /\ sock'[c].peer = sock[c].peer
               /\ sock'[c].in = sock[c].in /\ sock'[c].sent = sock[c].sent
    BY <1>t, <2>3 DEF Socket
  <2>4. \/ sock' = sock \/ EpollWait
        \/ \E d \in Conn : sock' = [sock EXCEPT ![d].edge = TRUE]
    BY <2>2, LoopStep DEF LoopStep, AcceptDone, CleanCheck, OnHangup, OnReadable, OnWritable,
                          CleanDone, CleanRemove, CleanDrain
  <2> QED BY <2>1, <2>3, <2>4
<1>4. Kept(c)
  BY <1>1, <1>3, WireSame DEF Quiet, Kept, Finishing, AtBody
<1>5. InputOK(c)' /\ Coming(c)' \subseteq Coming(c)
  BY <1>2, <1>3, InputSame
<1>6. (Unused(c)' => Unused(c)) /\ \A f \in Fd : owner'[f] = c => owner[f] = c \/ Unused(c)
  <2>1. CASE EpollWait \/ AcceptDone \/ OnReadable \/ OnWritable \/ CleanDone \/ CleanRemove
    BY <2>1 DEF EpollWait, AcceptDone, OnReadable, OnWritable, CleanDone, CleanRemove, Unused
  <2>2. ASSUME NEW d \in Conn, Accept(d)
        PROVE  (Unused(c)' => Unused(c)) /\ \A f \in Fd : owner'[f] = c => owner[f] = c \/ Unused(c)
    <3> DEFINE f == Min({g \in Fd : owner[g] = None})
    <3>1. /\ conn[d].stage = "connecting"
          /\ \/ /\ conn' = [conn EXCEPT ![d].stage = "listed", ![d].fd = f]
                /\ owner' = [owner EXCEPT ![f] = d]
             \/ /\ conn' = [conn EXCEPT ![d].stage = "freed", ![d].closed = TRUE]
                /\ owner' = owner
      BY <2>2 DEF Accept
    <3> HIDE DEF f
    <3> QED BY <1>t, <3>1 DEF Unused, Connection
  <2>3. ASSUME NEW d \in Conn, SktClose(d)
        PROVE  \A f \in Fd : owner'[f] = c => owner[f] = c
    BY <1>t, <2>3, SktCloseFacts
  <2>4. CASE OnHangup
    <3>1. PICK e \in main.batch \ {Listen} : /\ conn' = [conn EXCEPT ![e.conn].closed = TRUE]
                                             /\ SktClose(e.conn)
      BY <2>4 DEF OnHangup
    <3>2. e.conn \in Conn
      BY <1>t, <3>1 DEF LoopOK
    <3> QED BY <1>t, <2>3, <3>1, <3>2 DEF Unused, Connection
  <2>5. ASSUME NEW d \in Conn, CleanCheck(d)
        PROVE  (Unused(c)' => Unused(c)) /\ \A f \in Fd : owner'[f] = c => owner[f] = c
    <3> DEFINE closed == conn[d].closed \/ conn[d].error
    <3>1. conn' = [conn EXCEPT ![d].closed = closed] /\ (SktClose(d) \/ owner' = owner)
      BY <2>5 DEF CleanCheck
    <3> HIDE DEF closed
    <3> QED BY <1>t, <2>3, <3>1 DEF Unused, Connection
  <2>6. CASE CleanDrain
    <3> DEFINE d == main.cur
    <3>1. owner' = owner /\ d \in Conn
          /\ (conn' = conn \/ conn' = [conn EXCEPT ![d].stage = "freed"])
      BY <1>t, <2>6 DEF CleanDrain, LoopOK
    <3> HIDE DEF d
    <3> QED BY <1>t, <3>1 DEF Unused, Connection
  <2> QED BY <2>1, <2>2, <2>4, <2>5, <2>6, LoopStep DEF LoopStep
<1>7. Open(c)' => Open(c) \/ Unused(c)
  BY <1>t, <1>6, OpenFacts
<1> QED BY <1>2, <1>3, <1>4, <1>5, <1>6, <1>7 DEF Common
--------------------------------------------------------------------------------
(* Steps of the pool threads, except what they do to their own connection. *)

\* Where the blocks of a connection are after one more block.
LEMMA OwnAppend ==
  ASSUME NEW c \in Conn, sock[c].wire \in Seq(Block), NEW b \in Block,
         sock'[c].wire = Append(sock[c].wire, b)
  PROVE  LET n == Len(sock[c].wire) + 1
         IN /\ n \in Nat
            /\ Own(c) \subseteq 1..(n - 1)
            /\ \A j \in Own(c) : sock'[c].wire[j] = sock[c].wire[j]
            /\ sock'[c].wire[n] = b
            /\ b.by # c => Own(c)' = Own(c)
            /\ b.by = c => Own(c)' = Own(c) \cup {n}
<1> DEFINE wire == sock[c].wire
           n == Len(wire) + 1
<1>1. wire \in Seq(Block) /\ sock'[c].wire = Append(wire, b)
  OBVIOUS
<1>2. Own(c) = {j \in DOMAIN wire : wire[j].by = c}
  BY DEF Own
<1>3. Own(c)' = {j \in DOMAIN Append(wire, b) : Append(wire, b)[j].by = c}
  BY <1>1 DEF Own
<1> HIDE DEF wire
<1>4. /\ n \in Nat /\ DOMAIN wire = 1..(n - 1) /\ DOMAIN Append(wire, b) = 1..n
      /\ \A j \in 1..(n - 1) : Append(wire, b)[j] = wire[j]
      /\ Append(wire, b)[n] = b
  BY <1>1
<1>5. \A j \in 1..n : j \in 1..(n - 1) \/ j = n
  BY <1>4
<1>6. Own(c) \subseteq 1..(n - 1) /\ n \notin Own(c)
  BY <1>2, <1>4
<1>7. b.by # c => Own(c)' = Own(c)
  BY <1>2, <1>3, <1>4, <1>5
<1>8. b.by = c => Own(c)' = Own(c) \cup {n}
  BY <1>2, <1>3, <1>4, <1>5
<1> QED BY <1>1, <1>4, <1>6, <1>7, <1>8 DEF wire

\* The block that a writer puts on a wire.
NewBlock(c, part) == [by |-> c, kind |-> Head(conn[c].responses).kind,
                      req |-> Head(conn[c].responses).req, part |-> part]

\* A write of connection c, as seen on the wire of connection d.
Puts(c, d, part) == /\ WriteResult(c) = "ok" /\ d = SocketOf(c)
                    /\ sock'[d].wire = Append(sock[d].wire, NewBlock(c, part))

\* What a step of a pool thread does to the sockets.
LEMMA PoolSocket ==
  ASSUME IInv, NEW t \in Thread, PoolStep(t), NEW d \in Conn
  PROVE  LET c == th[t].conn
         IN /\ sock'[d].peer = sock[d].peer /\ sock'[d].sent = sock[d].sent
            /\ \/ sock'[d].in = sock[d].in
               \/ ReadData(t) /\ d = SocketOf(c)
            /\ \/ sock'[d].wire = sock[d].wire
               \/ WriteHead(t) /\ Puts(c, d, "head")
               \/ WriteBody(t) /\ Puts(c, d, "body")
<1> DEFINE c == th[t].conn
<1>t. TypeOK /\ ThreadOK /\ sock \in [Conn -> Socket] /\ sock[d] \in Socket
  BY DEF IInv, TypeOK
<1>1. CASE ReadData(t)
  <2> DEFINE s == SocketOf(c)
  <2>1. s \in Conn
    BY <1>t, <1>1, ReadFacts
  <2>r. PICK n \in 1..Len(sock[s].in) : sock' = [sock EXCEPT ![s].in = SubSeq(@, n + 1, Len(@))]
    BY <1>t, <1>1, ReadFacts
  <2>2. d # s => sock'[d] = sock[d]
    BY <1>t, <2>1, <2>r
  <2>3. /\ sock'[d].peer = sock[d].peer /\ sock'[d].sent = sock[d].sent
        /\ sock'[d].wire = sock[d].wire
    <3> HIDE DEF s
    <3> DEFINE rest == SubSeq(sock[s].in, n + 1, Len(sock[s].in))
    <3>1. sock' = [sock EXCEPT ![s].in = rest]
      BY <2>r
    <3> HIDE DEF rest
    <3>2. CASE d = s
      BY <1>t, <2>1, <3>1, <3>2 DEF Socket
    <3>3. CASE d # s
      BY <1>t, <3>1, <3>3
    <3> QED BY <3>2, <3>3
  <2> QED BY <1>1, <2>2, <2>3
<1>2. ASSUME NEW part \in {"head", "body"}, th[t].pc \in {"head", "body"}, sock' = Written(c, part)
      PROVE  /\ sock'[d].peer = sock[d].peer /\ sock'[d].sent = sock[d].sent
             /\ sock'[d].in = sock[d].in
             /\ sock'[d].wire = sock[d].wire \/ Puts(c, d, part)
  <2>1. c \in Conn /\ conn[c].responses # <<>>
    BY <1>t, <1>2 DEF ThreadOK, ThreadIs
  <2>2. WriteResult(c) = "ok" =>
          /\ Written(c, part)[SocketOf(c)].wire
               = Append(sock[SocketOf(c)].wire, NewBlock(c, part))
          /\ \A e \in Conn : /\ Written(c, part)[e].in = sock[e].in
                             /\ Written(c, part)[e].peer = sock[e].peer
                             /\ Written(c, part)[e].sent = sock[e].sent
    BY <1>t, <2>1, WrittenFacts DEF NewBlock
  <2>3. \A e \in Conn : e # SocketOf(c) => Written(c, part)[e] = sock[e]
    BY <1>t, <2>1, WrittenFacts
  <2>4. WriteResult(c) # "ok" =>
          \A e \in Conn : /\ Written(c, part)[e].wire = sock[e].wire
                          /\ Written(c, part)[e].in = sock[e].in
                          /\ Written(c, part)[e].peer = sock[e].peer
                          /\ Written(c, part)[e].sent = sock[e].sent
    BY <1>t, <2>1, WrittenFacts
  <2>5. CASE d # SocketOf(c)
    BY <1>2, <2>3, <2>5
  <2>6. CASE d = SocketOf(c)
    BY <1>2, <2>2, <2>4, <2>6 DEF Puts
  <2> QED BY <2>5, <2>6
<1>3. CASE WriteHead(t)
  <2>1. th[t].pc = "head" /\ (sock' = sock \/ sock' = Written(c, "head"))
    BY <1>3 DEF WriteHead, At
  <2> QED BY <1>2, <1>3, <2>1
<1>4. CASE WriteBody(t)
  <2>1. th[t].pc = "body" /\ (sock' = sock \/ sock' = Written(c, "body"))
    BY <1>4 DEF WriteBody, At
  <2> QED BY <1>2, <1>4, <2>1
<1>5. CASE WriterLock(t)
  <2>1. c \in Conn /\ conn[c].lock = None
    BY <1>t, <1>5 DEF WriterLock, At, ThreadOK, ThreadIs
  <2>2. ~conn[c].writes
    BY <2>1 DEF IInv, WritesOK
  <2>3. sock' = sock
    BY <1>5, <2>2 DEF WriterLock
  <2> QED BY <2>3
<1>6. CASE Fetch(t) \/ Enqueue(t) \/ Release(t) \/ Requeue(t) \/ ReadNothing(t)
           \/ WorkerLock(t) \/ Process(t) \/ WriteDone(t)
  <2>1. sock' = sock
    BY <1>6 DEF Fetch, Enqueue, Release, Requeue, ReadNothing, WorkerLock, Process, WriteDone
  <2> QED BY <2>1
<1> QED BY <1>1, <1>3, <1>4, <1>5, <1>6, PoolStep(t) DEF PoolStep

\* Input is read in the order in which it was sent.
LEMMA PoolInput ==
  ASSUME IInv, NEW t \in Thread, PoolStep(t), NEW d \in Conn, InputOK(d)
  PROVE  InputOK(d)' /\ Coming(d)' \subseteq Coming(d)
<1>1. env' = env /\ sock'[d].sent = sock[d].sent
  BY PoolSocket DEF PoolStep
<1>2. CASE sock'[d].in = sock[d].in
  BY <1>1, <1>2, InputSame
<1>3. CASE ReadData(t) /\ d = SocketOf(th[t].conn)
  <2>1. TypeOK /\ ThreadOK /\ sock \in [Conn -> Socket]
    BY DEF IInv, TypeOK
  <2>2. PICK n \in 1..Len(sock[d].in) : sock' = [sock EXCEPT ![d].in = SubSeq(@, n + 1, Len(@))]
    BY <1>3, <2>1, ReadFacts
  <2>3. sock'[d].in = SubSeq(sock[d].in, n + 1, Len(sock[d].in))
    BY <2>1, <2>2 DEF Socket
  <2> QED BY <1>1, <2>1, <2>3, InputRead
<1> QED BY <1>2, <1>3, PoolSocket

\* What every step of a pool thread keeps to.
LEMMA PoolCommon ==
  ASSUME IInv, TypeOK', NEW t \in Thread, PoolStep(t), NEW d \in Conn, InputOK(d)
  PROVE  Common(d)
<1>1. Effect(t) /\ OwnerEffect
  BY EffectFacts, PoolOwnerFacts DEF IInv
<1>2. Unused(d)' => Unused(d)
  BY <1>1 DEF Effect, Unused
<1>3. Open(d)' => Open(d) \/ Unused(d)
  <2>1. \A f \in Fd : owner'[f] = d => owner[f] = d \/ Unused(d)
    BY <1>1, NoneAssumption DEF OwnerEffect
  <2> QED BY <2>1, OpenFacts DEF IInv
<1> QED BY <1>1, <1>2, <1>3, PoolInput, PoolSocket DEF Common, Effect

\* The connection that a thread locks is its own.
LEMMA LockFacts ==
  ASSUME IInv, NEW t \in Thread, NEW d \in Conn, conn[d].lock = t
  PROVE  th[t].pc \in Holding /\ th[t].conn = d
BY NoneAssumption DEF IInv, LockOK, TypeOK

\* A pool thread leaves the other connections alone.
LEMMA PoolOther ==
  ASSUME IInv, NEW t \in Thread, PoolStep(t), NEW d \in Conn, d # th[t].conn
  PROVE  Kept(d)
<1>1. Effect(t)
  BY EffectFacts DEF IInv
<1>2. conn'[d] = conn[d] /\ \A u \in Thread : u # t => th'[u] = th[u]
  BY <1>1 DEF Effect
<1>3. conn[d].lock # t /\ conn[d].lock \in Thread \cup {None}
  BY LockFacts DEF IInv, TypeOK, Connection
<1>4. (Finishing(d)' <=> Finishing(d)) /\ (AtBody(d)' <=> AtBody(d))
  BY <1>2, <1>3 DEF Finishing, AtBody
<1>5. WireKept(d)
  <2>1. CASE sock'[d].wire = sock[d].wire
    BY <2>1, WireSame
  <2>2. ASSUME NEW part \in {"head", "body"}, th[t].pc \in {"head", "body"}, Puts(th[t].conn, d, part)
        PROVE  WireKept(d)
    <3> DEFINE c == th[t].conn
               b == NewBlock(c, part)
    <3>1. c \in Conn /\ conn[c].responses # <<>> /\ TypeOK
      BY <2>2 DEF IInv, ThreadOK, ThreadIs
    <3>2. b \in Block /\ b.by = c
      <4>1. Head(conn[c].responses) \in Reply
        BY <3>1, WrittenFacts
      <4> QED BY <3>1, <4>1 DEF NewBlock, Block, Reply
    <3>3. sock'[d].wire = Append(sock[d].wire, b) /\ sock[d].wire \in Seq(Block)
      BY <2>2, <3>1, ConnFacts DEF Puts
    <3> HIDE DEF b
    <3> QED BY <3>2, <3>3, OwnAppend DEF WireKept
  <2>3. WriteHead(t) => th[t].pc = "head"
    BY DEF WriteHead, At
  <2>4. WriteBody(t) => th[t].pc = "body"
    BY DEF WriteBody, At
  <2> QED BY <2>1, <2>2, <2>3, <2>4, PoolSocket
<1> QED BY <1>2, <1>4, <1>5 DEF Kept

\* Steps of a thread that concern its local variables, the queues and the lock.
LEMMA PoolQuiet ==
  ASSUME IInv, NEW t \in Thread, NEW c \in Conn, c = th[t].conn, PoolStep(t),
         \/ Fetch(t) \/ Enqueue(t) \/ Release(t) \/ Requeue(t)
         \/ ReadNothing(t) \/ WorkerLock(t) \/ WriterLock(t)
  PROVE  Kept(c)
<1>t. /\ TypeOK /\ conn[c] \in Connection /\ conn \in [Conn -> Connection]
      /\ th \in [Thread -> PoolThread] /\ None \notin Thread
  BY NoneAssumption DEF IInv, TypeOK
<1>c. c = th[t].conn /\ c \in Conn
  OBVIOUS
<1>1. /\ conn'[c].responses = conn[c].responses /\ conn'[c].requests = conn[c].requests
      /\ conn'[c].cur = conn[c].cur
  <2>1. CASE Fetch(t) \/ Enqueue(t) \/ Requeue(t)
    BY <2>1 DEF Fetch, Enqueue, Requeue
  <2>2. CASE Release(t)
    BY <1>t, <1>c, <2>2 DEF Release, Connection
  <2>3. CASE WorkerLock(t)
    BY <1>t, <1>c, <2>3 DEF WorkerLock, Connection
  <2>4. CASE ReadNothing(t)
    <3> DEFINE failed == SocketOf(c) = None \/ sock[SocketOf(c)].peer = "reset"
    <3>1. conn' = [conn EXCEPT ![c].lock = t, ![c].error = @ \/ failed]
      BY <1>c, <2>4 DEF ReadNothing
    <3> HIDE DEF failed
    <3> QED BY <1>t, <1>c, <3>1 DEF Connection
  <2>5. CASE WriterLock(t)
    <3> DEFINE result == IF conn[c].writes THEN WriteResult(c) ELSE "none"
               left == result \in {"again", "error"}
    <3>1. conn' = [conn EXCEPT ![c].lock = t, ![c].writes = left, ![c].error = @ \/ result = "error"]
      BY <1>c, <2>5 DEF WriterLock
    <3> HIDE DEF result, left
    <3> QED BY <1>t, <1>c, <3>1 DEF Connection
  <2> QED BY <2>1, <2>2, <2>3, <2>4, <2>5
<1>2. conn'[c].writes = conn[c].writes
  <2>1. CASE Fetch(t) \/ Enqueue(t) \/ Requeue(t)
    BY <2>1 DEF Fetch, Enqueue, Requeue
  <2>2. CASE Release(t)
    BY <1>t, <1>c, <2>2 DEF Release, Connection
  <2>3. CASE WorkerLock(t)
    BY <1>t, <1>c, <2>3 DEF WorkerLock, Connection
  <2>4. CASE ReadNothing(t)
    <3> DEFINE failed == SocketOf(c) = None \/ sock[SocketOf(c)].peer = "reset"
    <3>1. conn' = [conn EXCEPT ![c].lock = t, ![c].error = @ \/ failed]
      BY <1>c, <2>4 DEF ReadNothing
    <3> HIDE DEF failed
    <3> QED BY <1>t, <1>c, <3>1 DEF Connection
  <2>5. CASE WriterLock(t)
    <3>1. conn[c].lock = None
      BY <1>c, <2>5 DEF WriterLock
    <3>2. conn[c].writes = FALSE
      BY <1>t, <1>c, <3>1 DEF IInv, WritesOK, Connection
    <3> DEFINE result == IF conn[c].writes THEN WriteResult(c) ELSE "none"
               left == result \in {"again", "error"}
    <3>3. conn' = [conn EXCEPT ![c].lock = t, ![c].writes = left, ![c].error = @ \/ result = "error"]
      BY <1>c, <2>5 DEF WriterLock
    <3>4. left = FALSE
      BY <3>2
    <3> HIDE DEF result, left
    <3> QED BY <1>t, <1>c, <3>2, <3>3, <3>4 DEF Connection
  <2> QED BY <2>1, <2>2, <2>3, <2>4, <2>5
<1>3. sock' = sock
  <2>1. CASE WriterLock(t)
    <3>1. conn[c].lock = None
      BY <1>c, <2>1 DEF WriterLock
    <3>2. ~conn[c].writes
      BY <1>c, <3>1 DEF IInv, WritesOK
    <3> QED BY <1>c, <2>1, <3>2 DEF WriterLock
  <2>2. CASE ~WriterLock(t)
    BY <2>2 DEF Fetch, Enqueue, Release, Requeue, ReadNothing, WorkerLock
  <2> QED BY <2>1, <2>2
<1>4. th[t].pc \notin {"body", "done"} /\ th'[t].pc \notin {"body", "done"}
  <2>1. th[t].pc \notin {"body", "done"}
    BY DEF Fetch, Enqueue, Release, Requeue, ReadNothing, WorkerLock, WriterLock, At
  <2>2. CASE Fetch(t)
    BY <1>t, <2>1, <2>2 DEF Fetch, Idle
  <2>3. CASE Enqueue(t)
    <3> DEFINE more == Tail(th[t].todo)
               pc == IF more # <<>> THEN "enqueue" ELSE IF t \in Worker THEN "work" ELSE "release"
    <3>1. th' = [th EXCEPT ![t].todo = more, ![t].pc = pc]
      BY <2>3 DEF Enqueue
    <3>2. pc \in {"enqueue", "work", "release"}
      OBVIOUS
    <3> HIDE DEF more, pc
    <3> QED BY <1>t, <2>1, <3>1, <3>2 DEF PoolThread
  <2>4. CASE Release(t)
    <3>1. th'[t] = IF th[t].blocked THEN [th[t] EXCEPT !.pc = "requeue"] ELSE Idle
      BY <1>t, <2>4 DEF Release
    <3> QED BY <1>t, <2>1, <3>1 DEF PoolThread, Idle
  <2>5. CASE Requeue(t)
    BY <1>t, <2>1, <2>5 DEF Requeue, Idle
  <2>6. CASE WorkerLock(t)
    BY <1>t, <2>1, <2>6 DEF WorkerLock, PoolThread
  <2>7. CASE ReadNothing(t)
    <3> DEFINE blocked == ~(SocketOf(c) = None \/ sock[SocketOf(c)].peer = "reset")
                          /\ sock[SocketOf(c)].peer = "open"
    <3>1. th' = [th EXCEPT ![t].pc = "release", ![t].blocked = blocked]
      BY <1>c, <2>7 DEF ReadNothing
    <3> HIDE DEF blocked
    <3> QED BY <1>t, <2>1, <3>1 DEF PoolThread
  <2>8. CASE WriterLock(t)
    <3> DEFINE result == IF conn[c].writes THEN WriteResult(c) ELSE "none"
               blocked == result = "again"
               pc == IF result \in {"again", "error"} \/ conn[c].responses = <<>>
                     THEN "release" ELSE "head"
    <3>1. th' = [th EXCEPT ![t].blocked = blocked, ![t].pc = pc]
      BY <1>c, <2>8 DEF WriterLock
    <3>2. pc \in {"release", "head"}
      OBVIOUS
    <3> HIDE DEF blocked, pc
    <3> QED BY <1>t, <2>1, <3>1, <3>2 DEF PoolThread
  <2> QED BY <2>1, <2>2, <2>3, <2>4, <2>5, <2>6, <2>7, <2>8
<1>5. (Finishing(c)' <=> Finishing(c)) /\ (AtBody(c)' => AtBody(c))
  <2>1. Effect(t)
    BY EffectFacts DEF IInv
  <2>2. conn[c].lock = t => th[t].pc \in Holding
    BY <1>c, LockFacts
  <2>3. th[t].pc \in Holding => conn[c].lock = t
    BY <1>c DEF IInv, LockOK
  <2>4. conn[c].lock \in Thread \cup {None}
    BY <1>t DEF Connection
  <2>5. CASE Outside(t)
    BY <1>t, <2>1, <2>2, <2>4, <2>5 DEF Effect, Outside, Holding, Finishing, AtBody
  <2>6. CASE Takes(t)
    BY <1>t, <1>c, <1>4, <2>6 DEF Takes, Finishing, AtBody
  <2>7. CASE Holds(t)
    BY <1>t, <1>c, <1>4, <2>3, <2>7 DEF Holds, Finishing, AtBody
  <2>8. CASE GivesBack(t)
    BY <1>t, <1>c, <1>4, <2>3, <2>8 DEF GivesBack, Holding, Finishing, AtBody
  <2> QED BY <2>1, <2>5, <2>6, <2>7, <2>8 DEF Effect
<1>6. WireKept(c)
  BY <1>c, <1>3, WireSame
<1> QED BY <1>1, <1>2, <1>5, <1>6 DEF Kept
--------------------------------------------------------------------------------
(* The wire, with one more block. *)

\* Which blocks follow each other when a block is added at the end.
LEMMA FollowsFacts ==
  ASSUME TypeOK, NEW c \in Conn, NEW b \in Block, b.by = c,
         sock'[c].wire = Append(sock[c].wire, b), NEW n, n = Len(sock[c].wire) + 1
  PROVE  /\ \A i, j \in Own(c) : Follows(c, i, j)' <=> Follows(c, i, j)
         /\ \A i \in Own(c) : Follows(c, i, n)' <=> IsLast(c, i)
         /\ \A j \in Own(c)' : ~Follows(c, n, j)'
         /\ n \in Own(c)' /\ IsLast(c, n)' /\ n \notin Own(c)
         /\ \A j \in Own(c) : ~IsLast(c, j)'
<1>1. /\ n \in Nat /\ Own(c) \subseteq 1..(n - 1) /\ Own(c)' = Own(c) \cup {n}
  BY ConnFacts, OwnAppend
<1>2. \A j \in Own(c) : j \in Nat /\ j < n
  BY <1>1
<1>3. ASSUME NEW i \in Own(c), NEW j \in Own(c) PROVE Follows(c, i, j)' <=> Follows(c, i, j)
  BY <1>1, <1>2 DEF Follows
<1>4. ASSUME NEW i \in Own(c) PROVE Follows(c, i, n)' <=> IsLast(c, i)
  <2>1. \A k \in Own(c) : ~(i < k /\ k < n) <=> k <= i
    BY <1>1, <1>2
  <2>2. i < n /\ ~(i < n /\ n < n)
    BY <1>1, <1>2
  <2> QED BY <1>1, <2>1, <2>2 DEF Follows, IsLast
<1>5. \A j \in Own(c)' : ~Follows(c, n, j)'
  BY <1>1, <1>2 DEF Follows
<1>6. n \in Own(c)' /\ IsLast(c, n)' /\ n \notin Own(c) /\ \A j \in Own(c) : ~IsLast(c, j)'
  BY <1>1, <1>2 DEF IsLast
<1> QED BY <1>3, <1>4, <1>5, <1>6

\* A header block after the end of a response.
LEMMA PutHead ==
  ASSUME TypeOK, NEW c \in Conn, NEW b \in Block, b.by = c, b.part = "head",
         sock'[c].wire = Append(sock[c].wire, b), Framed(c),
         \A j \in Own(c) : IsLast(c, j) =>
           sock[c].wire[j].part = "body" \/ sock[c].wire[j].kind = "continue"
  PROVE  Framed(c)'
<1>n. PICK n : n = Len(sock[c].wire) + 1
  OBVIOUS
<1>1. /\ Own(c)' = Own(c) \cup {n}
      /\ \A j \in Own(c) : sock'[c].wire[j] = sock[c].wire[j]
      /\ sock'[c].wire[n] = b
  BY <1>n, ConnFacts, OwnAppend
<1>2. /\ \A i, j \in Own(c) : Follows(c, i, j)' <=> Follows(c, i, j)
      /\ \A i \in Own(c) : Follows(c, i, n)' <=> IsLast(c, i)
      /\ \A j \in Own(c)' : ~Follows(c, n, j)'
  BY <1>n, FollowsFacts
<1>3. ASSUME NEW j \in Own(c)', sock'[c].wire[j].part = "body"
      PROVE  \E i \in Own(c)' : /\ Follows(c, i, j)'
                                /\ sock'[c].wire[i] = [sock'[c].wire[j] EXCEPT !.part = "head"]
  <2>1. j \in Own(c) /\ sock[c].wire[j].part = "body"
    BY <1>1, <1>3
  <2>2. PICK i \in Own(c) : Follows(c, i, j) /\ sock[c].wire[i] = [sock[c].wire[j] EXCEPT !.part = "head"]
    BY <2>1 DEF Framed
  <2> QED BY <1>1, <1>2, <2>1, <2>2
<1>4. ASSUME NEW j \in Own(c)', sock'[c].wire[j].part = "head", sock'[c].wire[j].kind # "continue",
             NEW k \in Own(c)', Follows(c, j, k)'
      PROVE  sock'[c].wire[k] = [sock'[c].wire[j] EXCEPT !.part = "body"]
  <2>1. j \in Own(c)
    BY <1>1, <1>2, <1>4
  <2>2. CASE k \in Own(c)
    <3>1. /\ sock[c].wire[j].part = "head" /\ sock[c].wire[j].kind # "continue"
          /\ Follows(c, j, k)
      BY <1>1, <1>2, <1>4, <2>1, <2>2
    <3>2. sock[c].wire[k] = [sock[c].wire[j] EXCEPT !.part = "body"]
      <4>1. \A i \in Own(c) : Follows(c, j, i) =>
              sock[c].wire[i] = [sock[c].wire[j] EXCEPT !.part = "body"]
        BY <2>1, <3>1 DEF Framed
      <4> QED BY <2>2, <3>1, <4>1
    <3> QED BY <1>1, <2>1, <2>2, <3>2
  <2>3. CASE k = n
    BY <1>1, <1>2, <1>4, <2>1, <2>3
  <2> QED BY <1>1, <2>2, <2>3
<1> QED BY <1>3, <1>4 DEF Framed

\* A body after its own header block.
LEMMA PutBody ==
  ASSUME TypeOK, NEW c \in Conn, NEW b \in Block, b.by = c, b.part = "body",
         sock'[c].wire = Append(sock[c].wire, b), Framed(c),
         NEW l \in Own(c), IsLast(c, l), sock[c].wire[l] = [b EXCEPT !.part = "head"]
  PROVE  Framed(c)'
<1>n. PICK n : n = Len(sock[c].wire) + 1
  OBVIOUS
<1>1. /\ Own(c)' = Own(c) \cup {n}
      /\ \A j \in Own(c) : sock'[c].wire[j] = sock[c].wire[j] /\ j \in Nat
      /\ sock'[c].wire[n] = b
  BY <1>n, ConnFacts, OwnAppend
<1>2. /\ \A i, j \in Own(c) : Follows(c, i, j)' <=> Follows(c, i, j)
      /\ \A i \in Own(c) : Follows(c, i, n)' <=> IsLast(c, i)
      /\ \A j \in Own(c)' : ~Follows(c, n, j)'
  BY <1>n, FollowsFacts
<1>3. ASSUME NEW j \in Own(c)', sock'[c].wire[j].part = "body"
      PROVE  \E i \in Own(c)' : /\ Follows(c, i, j)'
                                /\ sock'[c].wire[i] = [sock'[c].wire[j] EXCEPT !.part = "head"]
  <2>1. CASE j \in Own(c)
    <3>1. PICK i \in Own(c) : Follows(c, i, j) /\ sock[c].wire[i] = [sock[c].wire[j] EXCEPT !.part = "head"]
      <4>1. sock[c].wire[j].part = "body"
        BY <1>1, <1>3, <2>1
      <4> QED BY <2>1, <4>1, Zenon DEF Framed
    <3> QED BY <1>1, <1>2, <2>1, <3>1
  <2>2. CASE j = n
    BY <1>1, <1>2, <2>2
  <2> QED BY <1>1, <2>1, <2>2
<1>4. ASSUME NEW j \in Own(c)', sock'[c].wire[j].part = "head", sock'[c].wire[j].kind # "continue",
             NEW k \in Own(c)', Follows(c, j, k)'
      PROVE  sock'[c].wire[k] = [sock'[c].wire[j] EXCEPT !.part = "body"]
  <2>1. j \in Own(c)
    BY <1>1, <1>2, <1>4
  <2>2. CASE k \in Own(c)
    <3>1. /\ sock[c].wire[j].part = "head" /\ sock[c].wire[j].kind # "continue"
          /\ Follows(c, j, k)
      BY <1>1, <1>2, <1>4, <2>1, <2>2
    <3>2. sock[c].wire[k] = [sock[c].wire[j] EXCEPT !.part = "body"]
      <4>1. \A i \in Own(c) : Follows(c, j, i) =>
              sock[c].wire[i] = [sock[c].wire[j] EXCEPT !.part = "body"]
        BY <2>1, <3>1 DEF Framed
      <4> QED BY <2>2, <3>1, <4>1
    <3> QED BY <1>1, <2>1, <2>2, <3>2
  <2>3. CASE k = n
    <3>1. j = l
      <4>1. IsLast(c, j)
        BY <1>2, <1>4, <2>1, <2>3
      <4>2. j <= l /\ l <= j /\ j \in Nat /\ l \in Nat
        BY <1>1, <2>1, <4>1 DEF IsLast
      <4> QED BY <4>2
    <3>2. sock'[c].wire[j] = [b EXCEPT !.part = "head"] /\ sock'[c].wire[k] = b
      BY <1>1, <2>1, <2>3, <3>1
    <3> QED BY <3>2 DEF Block
  <2> QED BY <1>1, <2>2, <2>3
<1> QED BY <1>3, <1>4 DEF Framed
--------------------------------------------------------------------------------
(* The requests and responses of a thread's own connection. *)

\* A connection in use is not opened again.
LEMMA OpenKept ==
  ASSUME NEW c \in Conn, Common(c), ~Unused(c)
  PROVE  Open(c)' => Open(c)
BY DEF Common

\* A step that writes nothing and neither begins nor ends a response.
LEMMA StillFacts ==
  ASSUME NEW c \in Conn, Common(c), ~Unused(c), WireKept(c), ConnOK(c),
         ~Finishing(c), ~Finishing(c)', Midway(c)' <=> Midway(c),
         Midway(c) => /\ conn'[c].responses[1].kind = conn[c].responses[1].kind
                      /\ conn'[c].responses[1].req = conn[c].responses[1].req
  PROVE  /\ BlankOK(c)' /\ InputOK(c)' /\ FrameOK(c)' /\ CloseOK(c)' /\ WireOK(c)'
         /\ Answers(c)' = Answers(c)
<1>1. WireOK(c)' /\ Answers(c)' = Answers(c) /\ Own(c)' = Own(c)
      /\ \A j \in Own(c) : sock'[c].wire[j] = sock[c].wire[j]
  BY WireKeptFacts DEF Common, ConnOK, WireKept
<1>2. BlankOK(c)' /\ InputOK(c)'
  BY DEF Common, BlankOK
<1>3. FrameOK(c)'
  BY <1>1, OpenKept DEF FrameOK, IsLast, Common, ConnOK
<1>4. CloseOK(c)'
  <2>1. \A j \in Own(c) : IsLastBody(sock[c].wire[j])' <=> IsLastBody(sock[c].wire[j])
    BY <1>1 DEF IsLastBody, Common
  <2> QED BY <1>1, <2>1, OpenKept DEF CloseOK, ConnOK
<1> QED BY <1>1, <1>2, <1>3, <1>4

\* A new response comes after those that wait.
LEMMA ReplyAppend ==
  ASSUME TypeOK, NEW c \in Conn, ConnOK(c), env' = env,
         NEW r \in Reply, r.sent = "line", r.kind = "error" => r.close,
         r.kind = "ok" => (r.close <=> r.req \in env.close),
         conn'[c].responses = Append(conn[c].responses, r),
         conn'[c].writes = conn[c].writes,
         ~AtBody(c)', ~Finishing(c), ~Finishing(c)'
  PROVE  /\ ResponseOK(c)' /\ (Midway(c)' <=> Midway(c))
         /\ Midway(c) => conn'[c].responses[1] = conn[c].responses[1]
         /\ r.kind # "ok" => Ready(c)' = Ready(c)
         /\ r.kind = "ok" => Ready(c)' = Ready(c) \cup {r.req}
         /\ RepliesRise(c) /\ (r.kind = "ok" => Below(Ready(c), {r.req})) => RepliesRise(c)'
<1> DEFINE old == conn[c].responses
           new == conn'[c].responses
<1>p. PICK n : n = Len(old) + 1
  OBVIOUS
<1>1. /\ old \in Seq(Reply) /\ n \in Nat \ {0} /\ DOMAIN old = 1..(n - 1) /\ DOMAIN new = 1..n
      /\ \A i \in 1..(n - 1) : new[i] = old[i]
      /\ new[n] = r
  <2>1. old \in Seq(Reply)
    BY ConnFacts
  <2> QED BY <1>p, <2>1
<1>2. \A i \in 1..n : i \in 1..(n - 1) \/ i = n
  BY <1>1
<1>3. old # <<>> => 1 \in 1..(n - 1)
  BY <1>1, <1>p
<1>e. old = <<>> => n = 1
  BY <1>1, <1>p
<1>n. new # <<>>
  BY <1>1
<1> HIDE DEF old, new
<1>4. ResponseOK(c)'
  <2>1. ASSUME NEW i \in DOMAIN new
        PROVE  /\ new[i].kind = "error" => new[i].close
               /\ new[i].kind = "ok" => (new[i].close <=> new[i].req \in env.close)
               /\ i > 1 => new[i].sent = "line"
    <3>1. CASE i \in 1..(n - 1)
      <4>1. i \in DOMAIN old /\ new[i] = old[i]
        BY <1>1, <3>1
      <4> QED BY <4>1 DEF ConnOK, ResponseOK, old
    <3>2. CASE i = n
      BY <1>1, <3>2
    <3> QED BY <1>1, <1>2, <2>1, <3>1, <3>2
  <2> QED BY <2>1 DEF ResponseOK, new
<1>5. (Midway(c)' <=> Midway(c)) /\ (Midway(c) => new[1] = old[1])
  <2>1. CASE old = <<>>
    BY <1>1, <1>e, <1>n, <2>1 DEF Midway, old, new
  <2>2. CASE old # <<>>
    BY <1>1, <1>3, <1>n, <2>2 DEF Midway, old, new
  <2> QED BY <2>1, <2>2
<1>6. \A i \in 1..(n - 1) : IsReady(c, i)' <=> IsReady(c, i)
  BY <1>1 DEF IsReady, old, new
<1>7. IsReady(c, n)' <=> r.kind = "ok"
  BY <1>1 DEF IsReady, new
<1>8. Ready(c) = {old[i].req : i \in {k \in 1..(n - 1) : IsReady(c, k)}}
  BY <1>1 DEF Ready, old
<1>9. Ready(c)' = {new[i].req : i \in {k \in 1..n : IsReady(c, k)'}}
  BY <1>1 DEF Ready, new
<1>10. r.kind # "ok" => Ready(c)' = Ready(c)
  BY <1>1, <1>2, <1>6, <1>7, <1>8, <1>9
<1>11. r.kind = "ok" => Ready(c)' = Ready(c) \cup {r.req}
  BY <1>1, <1>2, <1>6, <1>7, <1>8, <1>9
<1>12. RepliesRise(c) /\ (r.kind = "ok" => Below(Ready(c), {r.req})) => RepliesRise(c)'
  <2> SUFFICES ASSUME RepliesRise(c), r.kind = "ok" => Below(Ready(c), {r.req}),
                      NEW i \in 1..n, NEW j \in 1..n, i < j, IsReady(c, i)', IsReady(c, j)'
               PROVE  new[i].req < new[j].req
    BY <1>1 DEF RepliesRise, new
  <2>1. i \in 1..(n - 1) /\ IsReady(c, i)
    BY <1>1, <1>6
  <2>2. CASE j = n
    BY <1>1, <1>7, <1>8, <2>1, <2>2 DEF Below
  <2>3. CASE j \in 1..(n - 1)
    BY <1>1, <1>6, <2>1, <2>3 DEF RepliesRise, old
  <2> QED BY <1>2, <2>2, <2>3
<1> QED BY <1>4, <1>5, <1>10, <1>11, <1>12 DEF old, new

\* Where a connection's handler is.
LEMMA HandlerFacts ==
  ASSUME IInv, NEW t \in Thread, NEW c \in Conn, c = th[t].conn, th[t].pc # "idle"
  PROVE  /\ ~Unused(c) /\ t # None
         /\ th[t].pc \in Holding => /\ conn[c].lock = t
                                    /\ Finishing(c) <=> th[t].pc = "done"
                                    /\ AtBody(c) <=> th[t].pc \in {"body", "done"}
         /\ conn[c].lock = None => ~Finishing(c) /\ ~AtBody(c)
         /\ conn'[c].lock = t => /\ Finishing(c)' <=> th'[t].pc = "done"
                                 /\ AtBody(c)' <=> th'[t].pc \in {"body", "done"}
<1>1. t # None
  BY NoneAssumption
<1>2. ~Unused(c)
  BY DEF IInv, OwnerOK
<1>3. th[t].pc \in Holding => conn[c].lock = t
  BY DEF IInv, LockOK
<1> QED BY <1>1, <1>2, <1>3 DEF Finishing, AtBody

\* server_loop_worker answers the oldest request that was read.
LEMMA ProcessOK ==
  ASSUME IInv, TypeOK', NEW t \in Thread, NEW c \in Conn, c = th[t].conn, ConnOK(c), Common(c),
         Process(t)
  PROVE  ConnOK(c)'
<1>t. /\ TypeOK /\ conn[c] \in Connection /\ conn \in [Conn -> Connection]
      /\ th[t] \in PoolThread /\ th \in [Thread -> PoolThread]
      /\ conn[c].requests \in Seq(Nat)
  BY ConnFacts DEF IInv, TypeOK
<1>1. th[t].pc = "work" /\ sock' = sock /\ c = th[t].conn
  BY DEF Process, At
<1>2. ~Unused(c) /\ conn[c].lock = t /\ ~Finishing(c) /\ ~AtBody(c)
  BY <1>1, HandlerFacts DEF Holding
<1>w. WireKept(c)
  BY <1>1, WireSame
<1>3. CASE conn[c].requests = <<>>
  <2>1. conn' = conn /\ th' = [th EXCEPT ![t].pc = "release"]
    BY <1>3 DEF Process
  <2>2. th'[t].pc = "release"
    BY <1>t, <2>1 DEF PoolThread
  <2>3. ~Finishing(c)' /\ ~AtBody(c)'
    BY <1>1, <1>2, <2>1, <2>2, HandlerFacts
  <2>4. Kept(c)
    BY <1>2, <1>w, <2>1, <2>3 DEF Kept
  <2> QED BY <2>4, KeptFacts
<1>4. CASE conn[c].requests # <<>>
  <2>k. PICK k : k = Head(conn[c].requests)
    OBVIOUS
  <2>r. PICK r : r = Response("ok", k, k \in env.close)
    OBVIOUS
  <2>1. conn' = [conn EXCEPT ![c].requests = Tail(@), ![c].responses = Append(@, r)]
        /\ th' = [th EXCEPT ![t].pc = "enqueue", ![t].todo = <<"WRITE">>]
    BY <1>4, <2>k, <2>r DEF Process
  <2>2. k \in Nat /\ Tail(conn[c].requests) \in Seq(Nat)
    BY <1>t, <1>4, <2>k
  <2>3. r \in Reply /\ r.sent = "line" /\ r.kind = "ok" /\ r.req = k
        /\ (r.close <=> r.req \in env.close)
    <3>1. Response("ok", k, k \in env.close) \in Reply
      BY <2>2 DEF Response, Reply
    <3>2. r.kind = "ok" /\ r.req = k /\ r.sent = "line" /\ (r.close <=> k \in env.close)
      BY <2>r, Zenon DEF Response
    <3> QED BY <2>r, <3>1, <3>2
  <2>4. /\ conn'[c].responses = Append(conn[c].responses, r)
        /\ conn'[c].requests = Tail(conn[c].requests)
        /\ conn'[c].writes = conn[c].writes /\ conn'[c].cur = conn[c].cur
        /\ conn'[c].lock = conn[c].lock
    BY <1>t, <2>1 DEF Connection
  <2>5. th'[t].pc = "enqueue"
    <3> DEFINE todo == <<"WRITE">>
    <3>1. th' = [th EXCEPT ![t].pc = "enqueue", ![t].todo = todo]
      BY <2>1
    <3> HIDE DEF todo
    <3> QED BY <1>t, <3>1 DEF PoolThread
  <2>6. ~Finishing(c)' /\ ~AtBody(c)'
    BY <1>1, <1>2, <2>4, <2>5, HandlerFacts
  <2>7. /\ ResponseOK(c)' /\ (Midway(c)' <=> Midway(c))
        /\ Midway(c) => conn'[c].responses[1] = conn[c].responses[1]
        /\ Ready(c)' = Ready(c) \cup {k}
        /\ RepliesRise(c) /\ Below(Ready(c), {k}) => RepliesRise(c)'
    BY <1>t, <1>2, <2>3, <2>4, <2>6, ReplyAppend DEF Common
  <2>8. /\ BlankOK(c)' /\ InputOK(c)' /\ FrameOK(c)' /\ CloseOK(c)' /\ WireOK(c)'
        /\ Answers(c)' = Answers(c)
    BY <1>2, <1>w, <2>6, <2>7, StillFacts
  <2>9. OrderOK(c)'
    <3> DEFINE old == conn[c].requests
               new == Tail(old)
    <3>1. /\ old \in Seq(Nat) /\ DOMAIN old = 1..Len(old) /\ Len(old) \in Nat \ {0}
          /\ DOMAIN new = 1..(Len(old) - 1) /\ k = old[1]
          /\ \A i \in 1..(Len(old) - 1) : new[i] = old[i + 1]
      BY <1>t, <1>4, <2>k
    <3> HIDE DEF new, old
    <3>2. \A i \in DOMAIN new : i + 1 \in DOMAIN old /\ 1 < i + 1
      BY <3>1
    <3>i. 1 \in DOMAIN old
      BY <3>1
    <3>3. Asked(c) = {old[i] : i \in DOMAIN old} /\ Asked(c)' = {new[i] : i \in DOMAIN new}
      BY <2>4 DEF Asked, old, new
    <3>4. Asked(c)' \subseteq Asked(c) /\ k \in Asked(c)
      BY <3>1, <3>2, <3>3, <3>i
    <3>5. RequestsRise(c) <=> \A i, j \in DOMAIN old : i < j => old[i] < old[j]
      BY DEF RequestsRise, old
    <3>6. RequestsRise(c)' <=> \A i, j \in DOMAIN new : i < j => new[i] < new[j]
      BY <2>4 DEF RequestsRise, old, new
    <3>7. RequestsRise(c) => RequestsRise(c)' /\ Below({k}, Asked(c)')
      <4> SUFFICES ASSUME RequestsRise(c) PROVE RequestsRise(c)' /\ Below({k}, Asked(c)')
        OBVIOUS
      <4>1. ASSUME NEW i \in DOMAIN new, NEW j \in DOMAIN new, i < j PROVE new[i] < new[j]
        <5>1. i + 1 < j + 1
          BY <3>1, <4>1
        <5> QED BY <3>1, <3>2, <3>5, <4>1, <5>1
      <4>2. \A i \in DOMAIN new : k < new[i]
        BY <3>1, <3>2, <3>5, <3>i
      <4> QED BY <3>3, <3>6, <4>1, <4>2 DEF Below
    <3>8. Begun(c)' = Begun(c) /\ Coming(c)' \subseteq Coming(c)
      BY <2>4 DEF Begun, Common
    <3> QED BY <1>2, <2>7, <2>8, <3>4, <3>7, <3>8, OpenKept DEF OrderOK, Below, ConnOK
  <2> QED BY <2>7, <2>8, <2>9 DEF ConnOK
<1> QED BY <1>3, <1>4

\* server_loop_write removes the response that is done, and closes the socket
\* if it says so.
LEMMA WriteDoneOK ==
  ASSUME IInv, TypeOK', NEW t \in Thread, NEW c \in Conn, c = th[t].conn, ConnOK(c), Common(c),
         WriteDone(t)
  PROVE  ConnOK(c)'
<1> DEFINE old == conn[c].responses
           new == Tail(old)
<1>t. /\ TypeOK /\ conn[c] \in Connection /\ conn \in [Conn -> Connection]
      /\ th[t] \in PoolThread /\ th \in [Thread -> PoolThread]
      /\ old \in Seq(Reply)
  BY ConnFacts DEF IInv, TypeOK
<1>1. th[t].pc = "done" /\ sock' = sock /\ c = th[t].conn
  BY DEF WriteDone, At
<1>2. ~Unused(c) /\ conn[c].lock = t /\ Finishing(c) /\ AtBody(c)
  BY <1>1, HandlerFacts DEF Holding
<1>3. old # <<>>
  BY <1>1 DEF IInv, ThreadOK, ThreadIs
<1>4. /\ conn'[c].responses = new /\ conn'[c].requests = conn[c].requests
      /\ conn'[c].writes = conn[c].writes /\ conn'[c].cur = conn[c].cur
      /\ conn'[c].lock = conn[c].lock
  <2>1. \E b : conn' = [conn EXCEPT ![c].responses = Tail(@), ![c].closed = b]
    BY <1>1 DEF WriteDone
  <2> QED BY <1>t, <2>1 DEF Connection
<1>5. th'[t].pc \in {"release", "head"}
  <2> DEFINE pc == IF Head(old).close \/ Len(old) = 1 THEN "release" ELSE "head"
  <2>1. th' = [th EXCEPT ![t].pc = pc]
    BY <1>1 DEF WriteDone
  <2>2. pc \in {"release", "head"}
    OBVIOUS
  <2> HIDE DEF pc
  <2> QED BY <1>t, <2>1, <2>2 DEF PoolThread
<1>6. ~Finishing(c)' /\ ~AtBody(c)'
  BY <1>1, <1>2, <1>4, <1>5, HandlerFacts
<1>7. /\ DOMAIN old = 1..Len(old) /\ Len(old) \in Nat \ {0}
      /\ DOMAIN new = 1..(Len(old) - 1) /\ Head(old) = old[1]
      /\ \A i \in 1..(Len(old) - 1) : new[i] = old[i + 1]
      /\ new = <<>> \/ 1 \in DOMAIN new
  BY <1>t, <1>3
<1> HIDE DEF new, old
<1>8. \A i \in DOMAIN new : i + 1 \in DOMAIN old /\ 1 < i + 1 /\ new[i] = old[i + 1] /\ i \in Nat
  BY <1>7
<1>9. /\ old[1].sent = "body" /\ ~conn[c].writes
      /\ \A i \in DOMAIN old : /\ old[i].kind = "error" => old[i].close
                               /\ old[i].kind = "ok" => (old[i].close <=> old[i].req \in env.close)
                               /\ i > 1 => old[i].sent = "line"
  BY <1>2 DEF ConnOK, ResponseOK, old
<1>10. \A i \in DOMAIN new : new[i].sent = "line"
  BY <1>8, <1>9
<1>11. ResponseOK(c)'
  BY <1>4, <1>6, <1>8, <1>9, <1>10 DEF ResponseOK, Common
<1>12. ~Midway(c)' /\ ~Midway(c)
  BY <1>2, <1>4, <1>7, <1>10 DEF Midway
<1>w. /\ WireOK(c)' /\ Answers(c)' = Answers(c) /\ Own(c)' = Own(c)
      /\ sock' = sock
  BY <1>1, WireSame, WireKeptFacts DEF Common, ConnOK, WireKept
<1>13. FrameOK(c)'
  BY <1>2, <1>12, <1>w, OpenKept DEF FrameOK, IsLast, ConnOK
<1>14. CloseOK(c)'
  <2>1. \A j \in Own(c) : IsLastBody(sock[c].wire[j])' <=> IsLastBody(sock[c].wire[j])
    BY <1>w DEF IsLastBody, Common
  <2>2. CASE ~old[1].close
    BY <1>2, <1>w, <2>1, <2>2, OpenKept DEF CloseOK, ConnOK, old
  <2>3. CASE old[1].close
    <3>1. SktClose(c)
      BY <1>1, <1>7, <2>3 DEF WriteDone, old
    <3>2. \A f \in Fd : owner'[f] # c
      BY <3>1, SktCloseFacts, NoneAssumption DEF IInv
    <3>3. conn'[c].fd \in Fd \cup {None} /\ None \notin Conn
      BY NoneAssumption DEF TypeOK, Connection
    <3> QED BY <3>2, <3>3 DEF CloseOK, Open, SocketOf
  <2> QED BY <2>2, <2>3
<1>15. OrderOK(c)'
  <2>1. \A i \in DOMAIN new : IsReady(c, i)' <=> IsReady(c, i + 1)
    BY <1>4, <1>8, <1>9, <1>10 DEF IsReady, old
  <2>2. Ready(c) = {old[i].req : i \in {k \in DOMAIN old : IsReady(c, k)}}
    BY DEF Ready, old
  <2>3. Ready(c)' = {new[i].req : i \in {k \in DOMAIN new : IsReady(c, k)'}}
    BY <1>4 DEF Ready, new
  <2>4. Ready(c)' \subseteq Ready(c)
    BY <1>8, <2>1, <2>2, <2>3
  <2>5. RepliesRise(c) => RepliesRise(c)'
    <3> SUFFICES ASSUME RepliesRise(c), NEW i \in DOMAIN new, NEW j \in DOMAIN new, i < j,
                        IsReady(c, i)', IsReady(c, j)'
                 PROVE  new[i].req < new[j].req
      BY <1>4 DEF RepliesRise
    <3>1. i + 1 \in DOMAIN old /\ j + 1 \in DOMAIN old /\ i + 1 < j + 1
      BY <1>8
    <3>2. IsReady(c, i + 1) /\ IsReady(c, j + 1)
      BY <2>1
    <3> QED BY <1>8, <3>1, <3>2 DEF RepliesRise, old
  <2>6. RequestsRise(c)' <=> RequestsRise(c)
    BY <1>4 DEF RequestsRise
  <2>7. Begun(c)' = Begun(c) /\ Asked(c)' = Asked(c) /\ Coming(c)' \subseteq Coming(c)
    BY <1>4 DEF Begun, Asked, Common
  <2> QED BY <1>2, <1>w, <2>4, <2>5, <2>6, <2>7, OpenKept DEF OrderOK, Below, ConnOK
<1>16. BlankOK(c)' /\ InputOK(c)'
  BY <1>2 DEF Common, BlankOK
<1> QED BY <1>11, <1>13, <1>14, <1>15, <1>16, <1>w DEF ConnOK

\* What reading and parsing does to the connection: the parser is left with
\* request new, which it had before or which began in the n pieces read.
LEMMA ReadConn ==
  ASSUME TypeOK, ThreadOK, NEW t \in Thread, NEW c \in Conn, c = th[t].conn, ReadData(t)
  PROVE  LET s == SocketOf(c)
         IN /\ s \in Conn
            /\ conn'[c].lock = t /\ th'[t].pc = "enqueue"
            /\ conn'[c].writes = conn[c].writes
            /\ \A d \in Conn : sock'[d].wire = sock[d].wire
            /\ \E n \in 1..Len(sock[s].in), new \in Nat :
                 /\ sock'[s].in = SubSeq(sock[s].in, n + 1, Len(sock[s].in))
                 /\ sock'[s].sent = sock[s].sent
                 /\ \/ new = conn[c].cur
                    \/ \E i \in 1..n : /\ sock[s].in[i].part = "head"
                                       /\ new = sock[s].in[i].req
                 /\ \/ /\ conn'[c].cur = new /\ conn'[c].requests = conn[c].requests
                       /\ \/ conn'[c].responses = conn[c].responses
                          \/ \E kind \in {"error", "continue"} :
                               conn'[c].responses = Append(conn[c].responses,
                                 Response(kind, new, kind = "error"))
                    \/ /\ conn'[c].cur = 0 /\ new # 0
                       /\ conn'[c].requests = Append(conn[c].requests, new)
                       /\ conn'[c].responses = conn[c].responses
<1> DEFINE s == SocketOf(c)
<1>t. /\ conn \in [Conn -> Connection] /\ conn[c] \in Connection
      /\ sock \in [Conn -> Socket]
      /\ th \in [Thread -> PoolThread] /\ th[t] \in PoolThread
  BY DEF TypeOK
<1>1. s \in Conn
  BY ReadFacts
<1>r. PICK n \in 1..Len(sock[SocketOf(th[t].conn)].in), r \in State :
        /\ conn' = [conn EXCEPT ![th[t].conn] = [Parsed(th[t].conn, r) EXCEPT !.lock = t]]
        /\ th' = [th EXCEPT ![t].pc = "enqueue", ![t].todo = AfterParse(r)]
        /\ sock' = [sock EXCEPT ![SocketOf(th[t].conn)].in = SubSeq(@, n + 1, Len(@))]
        /\ r.complete => r.failed \/ r.cur # 0
        /\ \/ r.cur = conn[th[t].conn].cur
           \/ \E i \in 1..n : /\ sock[SocketOf(th[t].conn)].in[i].part = "head"
                              /\ r.cur = sock[SocketOf(th[t].conn)].in[i].req
  BY ReadFacts, Zenon
<1>2. /\ n \in 1..Len(sock[s].in)
      /\ conn' = [conn EXCEPT ![c] = [Parsed(c, r) EXCEPT !.lock = t]]
      /\ th' = [th EXCEPT ![t].pc = "enqueue", ![t].todo = AfterParse(r)]
      /\ sock' = [sock EXCEPT ![s].in = SubSeq(@, n + 1, Len(@))]
      /\ r.complete => r.failed \/ r.cur # 0
      /\ \/ r.cur = conn[c].cur
         \/ \E i \in 1..n : /\ sock[s].in[i].part = "head"
                            /\ r.cur = sock[s].in[i].req
  BY <1>r
<1> HIDE DEF s
<1>3. th'[t].pc = "enqueue"
  <2> DEFINE todo == AfterParse(r)
  <2>1. th' = [th EXCEPT ![t].pc = "enqueue", ![t].todo = todo]
    BY <1>2
  <2> HIDE DEF todo
  <2> QED BY <1>t, <2>1 DEF PoolThread
<1>4. /\ sock'[s].in = SubSeq(sock[s].in, n + 1, Len(sock[s].in))
      /\ sock'[s].sent = sock[s].sent
      /\ \A d \in Conn : sock'[d].wire = sock[d].wire
  <2> DEFINE rest == SubSeq(sock[s].in, n + 1, Len(sock[s].in))
  <2>1. sock' = [sock EXCEPT ![s].in = rest]
    BY <1>2
  <2> HIDE DEF rest
  <2>2. sock'[s].in = rest /\ sock'[s].sent = sock[s].sent
        /\ \A d \in Conn : sock'[d].wire = sock[d].wire
    BY <1>t, <1>1, <2>1 DEF Socket
  <2> QED BY <2>2 DEF rest
<1>5. r.cur \in Nat
  BY DEF State
<1> DEFINE failure == Append(conn[c].responses, Response("error", r.cur, TRUE))
           goOn == Append(conn[c].responses, Response("continue", r.cur, FALSE))
           request == Append(conn[c].requests, r.cur)
<1>6. \/ Parsed(c, r) = [conn[c] EXCEPT !.cur = r.cur, !.failed = TRUE, !.responses = failure]
      \/ Parsed(c, r) = [conn[c] EXCEPT !.cur = 0, !.requests = request] /\ r.cur # 0
      \/ Parsed(c, r) = [conn[c] EXCEPT !.cur = r.cur, !.responses = goOn]
      \/ Parsed(c, r) = [conn[c] EXCEPT !.cur = r.cur]
  <2>1. CASE r.failed
    BY <2>1 DEF Parsed
  <2>2. CASE ~r.failed /\ r.complete
    <3>1. r.cur # 0
      BY <1>2, <2>2
    <3>2. Parsed(c, r) = [conn[c] EXCEPT !.cur = 0, !.requests = request]
      BY <2>2 DEF Parsed
    <3> QED BY <3>1, <3>2
  <2>3. CASE ~r.failed /\ ~r.complete /\ env.http11 /\ r.cur # 0
    BY <2>3 DEF Parsed
  <2>4. CASE ~r.failed /\ ~r.complete /\ ~(env.http11 /\ r.cur # 0)
    BY <2>4 DEF Parsed
  <2> QED BY <2>1, <2>2, <2>3, <2>4
<1> DEFINE Step(new) ==
             \/ /\ conn'[c].cur = new /\ conn'[c].requests = conn[c].requests
                /\ \/ conn'[c].responses = conn[c].responses
                   \/ conn'[c].responses = failure
                   \/ conn'[c].responses = goOn
             \/ /\ conn'[c].cur = 0 /\ new # 0
                /\ conn'[c].requests = request
                /\ conn'[c].responses = conn[c].responses
<1> HIDE DEF failure, goOn, request
<1>7. conn'[c] = [Parsed(c, r) EXCEPT !.lock = t]
  BY <1>t, <1>2
<1>8. conn'[c].lock = t /\ conn'[c].writes = conn[c].writes
  <2>1. Parsed(c, r) \in Connection /\ Parsed(c, r).writes = conn[c].writes
    BY <1>t, ParsedFacts
  <2> QED BY <1>7, <2>1 DEF Connection
<1>9. Step(r.cur)
  <2>1. CASE Parsed(c, r) = [conn[c] EXCEPT !.cur = r.cur, !.failed = TRUE, !.responses = failure]
    BY <1>t, <1>7, <2>1 DEF Connection
  <2>2. CASE Parsed(c, r) = [conn[c] EXCEPT !.cur = 0, !.requests = request] /\ r.cur # 0
    BY <1>t, <1>7, <2>2 DEF Connection
  <2>3. CASE Parsed(c, r) = [conn[c] EXCEPT !.cur = r.cur, !.responses = goOn]
    BY <1>t, <1>7, <2>3 DEF Connection
  <2>4. CASE Parsed(c, r) = [conn[c] EXCEPT !.cur = r.cur]
    BY <1>t, <1>7, <2>4 DEF Connection
  <2> QED BY <1>6, <2>1, <2>2, <2>3, <2>4
<1>10. \/ /\ conn'[c].cur = r.cur /\ conn'[c].requests = conn[c].requests
          /\ \/ conn'[c].responses = conn[c].responses
             \/ \E kind \in {"error", "continue"} :
                  conn'[c].responses = Append(conn[c].responses,
                    Response(kind, r.cur, kind = "error"))
       \/ /\ conn'[c].cur = 0 /\ r.cur # 0
          /\ conn'[c].requests = Append(conn[c].requests, r.cur)
          /\ conn'[c].responses = conn[c].responses
  <2>1. conn'[c].responses = failure =>
          conn'[c].responses = Append(conn[c].responses, Response("error", r.cur, "error" = "error"))
    BY DEF failure
  <2>2. conn'[c].responses = goOn =>
          conn'[c].responses = Append(conn[c].responses, Response("continue", r.cur, "continue" = "error"))
    BY DEF goOn
  <2> QED BY <1>9, <2>1, <2>2 DEF request
<1> QED BY <1>1, <1>2, <1>3, <1>4, <1>5, <1>8, <1>10 DEF s

\* A request comes after those that wait.
LEMMA AskedAppend ==
  ASSUME NEW c \in Conn, conn[c].requests \in Seq(Nat), NEW new \in Nat,
         conn'[c].requests = Append(conn[c].requests, new)
  PROVE  /\ Asked(c)' = Asked(c) \cup {new}
         /\ RequestsRise(c) /\ Below(Asked(c), {new}) => RequestsRise(c)'
<1> DEFINE old == conn[c].requests
           all == Append(old, new)
<1>p. PICK n : n = Len(old) + 1
  OBVIOUS
<1>1. /\ n \in Nat \ {0} /\ DOMAIN old = 1..(n - 1) /\ DOMAIN all = 1..n
      /\ \A i \in 1..(n - 1) : all[i] = old[i]
      /\ all[n] = new
  BY <1>p
<1>2. conn'[c].requests = all /\ \A i \in 1..n : i \in 1..(n - 1) \/ i = n
  BY <1>1
<1>3. \A i \in 1..(n - 1) : i \in 1..n /\ i < n
  BY <1>1
<1> HIDE DEF all, old
<1>4. Asked(c) = {old[i] : i \in 1..(n - 1)}
  BY <1>1 DEF Asked, old
<1>5. Asked(c)' = {all[i] : i \in 1..n}
  BY <1>1, <1>2 DEF Asked
<1>6. Asked(c)' = Asked(c) \cup {new}
  <2>1. n \in 1..n
    BY <1>1
  <2> QED BY <1>1, <1>2, <1>3, <1>4, <1>5, <2>1
<1>7. ASSUME RequestsRise(c), Below(Asked(c), {new}), NEW i \in 1..n, NEW j \in 1..n, i < j
      PROVE  all[i] < all[j]
  <2>1. i \in 1..(n - 1)
    BY <1>1, <1>7
  <2>2. CASE j = n
    BY <1>1, <1>4, <1>7, <2>1, <2>2 DEF Below
  <2>3. CASE j \in 1..(n - 1)
    BY <1>1, <1>7, <2>1, <2>3 DEF RequestsRise, old
  <2> QED BY <1>2, <2>2, <2>3
<1> QED BY <1>1, <1>2, <1>6, <1>7 DEF RequestsRise

\* server_loop_read goes on with the current request, or with one that is
\* read now, and hands it on when it is complete.
LEMMA ReadDataOK ==
  ASSUME IInv, TypeOK', NEW t \in Thread, NEW c \in Conn, c = th[t].conn, ConnOK(c), Common(c),
         ReadData(t)
  PROVE  ConnOK(c)'
<1>t. TypeOK /\ ThreadOK /\ conn[c].requests \in Seq(Nat) /\ conn[c].cur \in Nat
  BY ConnFacts DEF IInv
<1>1. th[t].pc = "lock" /\ conn[c].lock = None
  BY DEF ReadData, At
<1>2. ~Unused(c) /\ ~Finishing(c) /\ ~AtBody(c)
  BY <1>1, HandlerFacts
<1>3. /\ SocketOf(c) \in Conn
      /\ conn'[c].lock = t /\ th'[t].pc = "enqueue"
      /\ conn'[c].writes = conn[c].writes
      /\ \A d \in Conn : sock'[d].wire = sock[d].wire
  BY <1>t, ReadConn
<1>4. PICK n \in 1..Len(sock[SocketOf(c)].in), new \in Nat :
        /\ sock'[SocketOf(c)].in = SubSeq(sock[SocketOf(c)].in, n + 1, Len(sock[SocketOf(c)].in))
        /\ sock'[SocketOf(c)].sent = sock[SocketOf(c)].sent
        /\ \/ new = conn[c].cur
           \/ \E i \in 1..n : /\ sock[SocketOf(c)].in[i].part = "head"
                              /\ new = sock[SocketOf(c)].in[i].req
        /\ \/ /\ conn'[c].cur = new /\ conn'[c].requests = conn[c].requests
              /\ \/ conn'[c].responses = conn[c].responses
                 \/ \E kind \in {"error", "continue"} :
                      conn'[c].responses = Append(conn[c].responses,
                        Response(kind, new, kind = "error"))
           \/ /\ conn'[c].cur = 0 /\ new # 0
              /\ conn'[c].requests = Append(conn[c].requests, new)
              /\ conn'[c].responses = conn[c].responses
  BY <1>t, ReadConn, Zenon
<1>5. ~Finishing(c)' /\ ~AtBody(c)'
  BY <1>1, <1>3, HandlerFacts
<1>w. WireKept(c)
  BY <1>3, WireSame
<1>6. /\ ResponseOK(c)' /\ (Midway(c)' <=> Midway(c)) /\ Ready(c)' = Ready(c)
      /\ Midway(c) => conn'[c].responses[1] = conn[c].responses[1]
      /\ RepliesRise(c) => RepliesRise(c)'
  <2>1. CASE conn'[c].responses = conn[c].responses
    <3>1. ResponseOK(c)'
      BY <1>5, <2>1 DEF ResponseOK, ConnOK, Common
    <3>2. Midway(c)' <=> Midway(c)
      BY <1>2, <1>3, <1>5, <2>1 DEF Midway
    <3>3. \A i : IsReady(c, i)' <=> IsReady(c, i)
      BY <1>3, <2>1 DEF IsReady
    <3>4. Ready(c)' = Ready(c)
      BY <2>1, <3>3 DEF Ready
    <3>5. RepliesRise(c) => RepliesRise(c)'
      BY <2>1, <3>3 DEF RepliesRise
    <3> QED BY <2>1, <3>1, <3>2, <3>4, <3>5
  <2>2. ASSUME NEW kind \in {"error", "continue"},
               conn'[c].responses = Append(conn[c].responses,
                                           Response(kind, new, kind = "error"))
        PROVE  /\ ResponseOK(c)' /\ (Midway(c)' <=> Midway(c)) /\ Ready(c)' = Ready(c)
               /\ Midway(c) => conn'[c].responses[1] = conn[c].responses[1]
               /\ RepliesRise(c) => RepliesRise(c)'
    <3>r. PICK r : r = Response(kind, new, kind = "error")
      OBVIOUS
    <3>1. r \in Reply /\ r.sent = "line" /\ r.kind = kind /\ (r.close <=> kind = "error")
      <4>1. Response(kind, new, kind = "error") \in Reply
        BY DEF Response, Reply
      <4>2. r.kind = kind /\ r.sent = "line" /\ (r.close <=> kind = "error")
        BY <3>r, Zenon DEF Response
      <4> QED BY <3>r, <4>1, <4>2
    <3>2. conn'[c].responses = Append(conn[c].responses, r)
      BY <2>2, <3>r
    <3> QED BY <1>t, <1>2, <1>3, <1>5, <3>1, <3>2, ReplyAppend DEF Common
  <2> QED BY <1>4, <2>1, <2>2
<1>7. /\ BlankOK(c)' /\ InputOK(c)' /\ FrameOK(c)' /\ CloseOK(c)' /\ WireOK(c)'
      /\ Answers(c)' = Answers(c)
  BY <1>2, <1>5, <1>6, <1>w, StillFacts
<1>8. OrderOK(c)'
  <2> SUFFICES ASSUME Open(c) PROVE OrderOK(c)'
    BY <1>2, OpenKept DEF OrderOK
  <2>1. SocketOf(c) = c
    BY DEF Open
  <2>2. /\ Coming(c)' \subseteq Coming(c)
        /\ \A i \in 1..n : sock[c].in[i].part = "head" =>
             /\ sock[c].in[i].req \in Coming(c)
             /\ Below({sock[c].in[i].req}, Coming(c)')
    BY <1>t, <1>4, <2>1, InputRead DEF ConnOK, Common
  <2>o. /\ Below(Answers(c), Ready(c) \cup Asked(c) \cup Begun(c) \cup Coming(c))
        /\ Below(Ready(c), Asked(c) \cup Begun(c) \cup Coming(c))
        /\ Below(Asked(c), Begun(c) \cup Coming(c))
        /\ Below(Begun(c), Coming(c))
        /\ RepliesRise(c) /\ RequestsRise(c)
    BY DEF OrderOK, ConnOK
  <2>3. new # 0 => new \in Begun(c) \cup Coming(c) /\ Below({new}, Coming(c)')
    <3>1. CASE new = conn[c].cur
      BY <2>2, <2>o, <3>1 DEF Begun, Below
    <3>2. ASSUME NEW i \in 1..n, sock[c].in[i].part = "head", new = sock[c].in[i].req
          PROVE  new \in Coming(c) /\ Below({new}, Coming(c)')
      BY <2>2, <3>2
    <3> QED BY <1>4, <2>1, <3>1, <3>2
  <2>4. CASE conn'[c].cur = new /\ conn'[c].requests = conn[c].requests
    <3>1. Asked(c)' = Asked(c) /\ RequestsRise(c)'
      BY <2>4, <2>o DEF Asked, RequestsRise
    <3>2. Begun(c)' \subseteq Begun(c) \cup Coming(c) /\ Below(Begun(c)', Coming(c)')
      BY <2>3, <2>4 DEF Begun, Below
    <3> QED BY <1>6, <1>7, <2>2, <2>o, <3>1, <3>2 DEF OrderOK, Below
  <2>5. CASE conn'[c].cur = 0 /\ new # 0 /\ conn'[c].requests = Append(conn[c].requests, new)
    <3>1. Below(Asked(c), {new})
      BY <2>3, <2>5, <2>o DEF Below
    <3>2. Asked(c)' = Asked(c) \cup {new} /\ RequestsRise(c)'
      BY <1>t, <2>5, <2>o, <3>1, AskedAppend
    <3>3. Begun(c)' = {}
      BY <2>5 DEF Begun
    <3> QED BY <1>6, <1>7, <2>2, <2>3, <2>5, <2>o, <3>2, <3>3 DEF OrderOK, Below
  <2> QED BY <1>4, <2>4, <2>5
<1> QED BY <1>6, <1>7, <1>8 DEF ConnOK
--------------------------------------------------------------------------------
(* What a writer does to its own connection. *)

\* The header block of the first response is to be written.
IsPending(c) == conn[c].responses[1].sent = "line" \/ conn[c].writes

\* server_loop_write formats the header block, writes it or leaves it pending.
LEMMA WriteHeadConn ==
  ASSUME IInv, NEW t \in Thread, NEW c \in Conn, c = th[t].conn, WriteHead(t)
  PROVE  /\ conn[c].responses # <<>> /\ conn[c].responses \in Seq(Reply)
         /\ DOMAIN conn'[c].responses = DOMAIN conn[c].responses
         /\ 1 \in DOMAIN conn[c].responses
         /\ \A i \in DOMAIN conn[c].responses :
              /\ conn'[c].responses[i].kind = conn[c].responses[i].kind
              /\ conn'[c].responses[i].req = conn[c].responses[i].req
              /\ conn'[c].responses[i].close = conn[c].responses[i].close
              /\ i # 1 => conn'[c].responses[i].sent = conn[c].responses[i].sent
         /\ conn'[c].responses[1].sent = "body"
         /\ conn'[c].requests = conn[c].requests /\ conn'[c].cur = conn[c].cur
         /\ conn'[c].lock = conn[c].lock
         /\ conn'[c].writes <=> IsPending(c) /\ WriteResult(c) # "ok"
         /\ th'[t].pc \in {"head", "body"}
         /\ conn'[c].writes => th'[t].pc = "head"
<1> DEFINE old == conn[c].responses
           result == IF Head(old).sent = "line" \/ conn[c].writes THEN WriteResult(c) ELSE "none"
           w == result \in {"again", "error"}
           e == conn[c].error \/ result = "error"
           q == [old EXCEPT ![1].sent = "body"]
<1>t. /\ TypeOK /\ conn[c] \in Connection /\ conn \in [Conn -> Connection]
      /\ th[t] \in PoolThread /\ th \in [Thread -> PoolThread]
      /\ old \in Seq(Reply)
  BY ConnFacts DEF IInv, TypeOK
<1>1. old # <<>> /\ th[t].pc = "head"
  BY DEF WriteHead, At, IInv, ThreadOK, ThreadIs
<1>2. Head(old) = old[1] /\ 1 \in DOMAIN old /\ old[1] \in Reply /\ \A i \in DOMAIN old : old[i] \in Reply
  BY <1>t, <1>1
<1>3. WriteResult(c) \in {"ok", "again", "error"}
  BY <1>t, SocketFacts
<1>4. w <=> IsPending(c) /\ WriteResult(c) # "ok"
  BY <1>2, <1>3 DEF IsPending
<1>5. conn' = [conn EXCEPT ![c] = [@ EXCEPT !.responses = q, !.writes = w, !.error = e]]
      /\ th'[t].pc = IF e \/ w THEN "head" ELSE "body"
  <2>1. conn' = [conn EXCEPT ![c] = [@ EXCEPT !.responses = q, !.writes = w, !.error = e]]
    BY <1>t, <1>1 DEF WriteHead, Connection
  <2>2. th'[t].pc = IF e \/ w THEN "head" ELSE "body"
    <3> DEFINE pc == IF e \/ w THEN "head" ELSE "body"
    <3>1. \E b : th' = [th EXCEPT ![t].blocked = b, ![t].pc = pc]
      BY <1>1 DEF WriteHead
    <3> HIDE DEF pc
    <3>2. th'[t].pc = pc
      BY <1>t, <3>1 DEF PoolThread
    <3> QED BY <3>2 DEF pc
  <2> QED BY <2>1, <2>2
<1>6. /\ DOMAIN q = DOMAIN old /\ q[1] = [old[1] EXCEPT !.sent = "body"]
      /\ \A i \in DOMAIN old : i # 1 => q[i] = old[i]
  BY <1>2
<1> HIDE DEF q, w, e, result
<1>7. /\ conn'[c].responses = q /\ conn'[c].writes = w
      /\ conn'[c].requests = conn[c].requests /\ conn'[c].cur = conn[c].cur
      /\ conn'[c].lock = conn[c].lock
  BY <1>t, <1>5 DEF Connection
<1>8. /\ q[1].sent = "body" /\ q[1].kind = old[1].kind /\ q[1].req = old[1].req
      /\ q[1].close = old[1].close
  BY <1>2, <1>6 DEF Reply
<1>9. \A i \in DOMAIN old : /\ q[i].kind = old[i].kind /\ q[i].req = old[i].req
                             /\ q[i].close = old[i].close
                             /\ i # 1 => q[i].sent = old[i].sent
  <2> HIDE DEF old
  <2> QED BY <1>6, <1>8
<1>10. th'[t].pc \in {"head", "body"} /\ (w => th'[t].pc = "head")
  BY <1>5
<1>11. conn'[c].writes <=> IsPending(c) /\ WriteResult(c) # "ok"
  BY <1>4, <1>7
<1> QED BY <1>t, <1>1, <1>2, <1>6, <1>7, <1>8, <1>9, <1>10, <1>11

\* The header block goes to the connection's socket if it is written.
LEMMA WriteHeadSock ==
  ASSUME IInv, NEW t \in Thread, NEW c \in Conn, c = th[t].conn, WriteHead(t), PoolStep(t)
  PROVE  /\ Open(c) /\ IsPending(c) /\ WriteResult(c) = "ok" =>
              /\ sock'[c].wire = Append(sock[c].wire, NewBlock(c, "head"))
              /\ sock'[c].peer # "reset"
         /\ ~(Open(c) /\ IsPending(c) /\ WriteResult(c) = "ok") =>
              sock'[c].wire = sock[c].wire
<1>1. TypeOK /\ conn[c].responses # <<>> /\ Head(conn[c].responses) = conn[c].responses[1]
  BY ConnFacts, WriteHeadConn DEF IInv
<1>2. sock' = IF IsPending(c) THEN Written(c, "head") ELSE sock
  BY <1>1 DEF WriteHead, IsPending
<1>3. WriteResult(c) = "ok" =>
        Written(c, "head")[SocketOf(c)].wire = Append(sock[SocketOf(c)].wire, NewBlock(c, "head"))
  BY <1>1, WrittenFacts DEF NewBlock
<1>4. WriteResult(c) # "ok" => Written(c, "head")[c].wire = sock[c].wire
  BY <1>1, WrittenFacts
<1>5. SocketOf(c) # c => Written(c, "head")[c] = sock[c]
  BY <1>1, WrittenFacts
<1>6. Open(c) /\ WriteResult(c) = "ok" => sock'[c].peer # "reset"
  <2>1. sock'[c].peer = sock[c].peer
    BY PoolSocket
  <2>2. SocketOf(c) = c /\ WriteResult(c) = "ok" => sock[c].peer # "reset"
    <3> SUFFICES ASSUME SocketOf(c) = c, sock[c].peer = "reset" PROVE WriteResult(c) = "error"
      OBVIOUS
    <3>1. c # None
      BY NoneAssumption
    <3> QED BY <3>1 DEF WriteResult
  <2> QED BY <2>1, <2>2 DEF Open
<1> QED BY <1>2, <1>3, <1>4, <1>5, <1>6 DEF Open

\* Neither handler is about to remove the response; the body is written next
\* when the header block is out.
LEMMA WriteHeadResponses ==
  ASSUME IInv, NEW t \in Thread, NEW c \in Conn, c = th[t].conn, ConnOK(c), env' = env,
         WriteHead(t)
  PROVE  /\ ~Unused(c) /\ ~Finishing(c) /\ ~Finishing(c)'
         /\ ResponseOK(c)'
         /\ \A i \in DOMAIN conn[c].responses : i # 1 => (IsReady(c, i)' <=> IsReady(c, i))
         /\ Midway(c) <=> ~IsPending(c)
         /\ Midway(c)' <=> ~conn'[c].writes
         /\ IsReady(c, 1) <=> conn[c].responses[1].kind = "ok" /\ IsPending(c)
         /\ IsReady(c, 1)' <=> conn[c].responses[1].kind = "ok" /\ conn'[c].writes
<1> DEFINE old == conn[c].responses
           new == conn'[c].responses
<1>1. /\ old # <<>> /\ old \in Seq(Reply)
      /\ DOMAIN new = DOMAIN old
      /\ 1 \in DOMAIN old
      /\ \A i \in DOMAIN old :
           /\ new[i].kind = old[i].kind
           /\ new[i].req = old[i].req
           /\ new[i].close = old[i].close
           /\ i # 1 => new[i].sent = old[i].sent
      /\ new[1].sent = "body"
      /\ conn'[c].lock = conn[c].lock
      /\ th'[t].pc \in {"head", "body"}
      /\ conn'[c].writes => th'[t].pc = "head"
  BY WriteHeadConn
<1>2. old[1].sent \in {"line", "body"} /\ new # <<>> /\ \A i \in DOMAIN old : i # 1 => i > 1
  <2>1. old[1] \in Reply
    BY <1>1
  <2>2. new = <<>> => DOMAIN new = {}
    OBVIOUS
  <2>3. \A i \in DOMAIN old : i # 1 => i > 1
    BY <1>1
  <2> QED BY <1>1, <2>1, <2>2, <2>3 DEF Reply
<1>3. th[t].pc = "head"
  BY DEF WriteHead, At
<1>4. ~Unused(c) /\ conn[c].lock = t /\ ~Finishing(c) /\ ~AtBody(c)
  BY <1>3, HandlerFacts DEF Holding
<1>5. ~Finishing(c)' /\ (AtBody(c)' <=> th'[t].pc = "body")
  BY <1>1, <1>3, <1>4, HandlerFacts
<1>6. ResponseOK(c)'
  <2>1. \A i \in DOMAIN old : /\ old[i].kind = "error" => old[i].close
                              /\ old[i].kind = "ok" => (old[i].close <=> old[i].req \in env.close)
                              /\ i > 1 => old[i].sent = "line"
    BY DEF ConnOK, ResponseOK
  <2>2. AtBody(c)' => new[1].sent = "body" /\ ~conn'[c].writes
    BY <1>1, <1>5
  <2> HIDE DEF old, new
  <2>3. ASSUME NEW i \in DOMAIN new
        PROVE  /\ new[i].kind = "error" => new[i].close
               /\ new[i].kind = "ok" => (new[i].close <=> new[i].req \in env.close)
               /\ i > 1 => new[i].sent = "line"
    <3>1. i \in DOMAIN old /\ (i > 1 => i # 1)
      BY <1>1, <2>3
    <3> QED BY <1>1, <2>1, <3>1
  <2> QED BY <2>2, <2>3 DEF ResponseOK, new
<1>7. \A i \in DOMAIN old : i # 1 => (IsReady(c, i)' <=> IsReady(c, i))
  BY <1>1, <1>2 DEF IsReady
<1>8. (Midway(c) <=> ~IsPending(c)) /\ (Midway(c)' <=> ~conn'[c].writes)
  BY <1>1, <1>2, <1>4, <1>5 DEF Midway, IsPending
<1>9. /\ IsReady(c, 1) <=> old[1].kind = "ok" /\ IsPending(c)
      /\ IsReady(c, 1)' <=> old[1].kind = "ok" /\ conn'[c].writes
  BY <1>1, <1>2 DEF IsReady, IsPending
<1> QED BY <1>4, <1>5, <1>6, <1>7, <1>8, <1>9

\* A block that is not put on the connection's own wire.
LEMMA WriteHeadNot ==
  ASSUME IInv, TypeOK', NEW t \in Thread, NEW c \in Conn, c = th[t].conn, ConnOK(c), Common(c),
         WriteHead(t), PoolStep(t), ~(Open(c) /\ IsPending(c) /\ WriteResult(c) = "ok")
  PROVE  ConnOK(c)'
<1> DEFINE old == conn[c].responses
           new == conn'[c].responses
<1>1. /\ DOMAIN new = DOMAIN old
      /\ 1 \in DOMAIN old
      /\ \A i \in DOMAIN old : new[i].kind = old[i].kind /\ new[i].req = old[i].req
      /\ conn'[c].requests = conn[c].requests /\ conn'[c].cur = conn[c].cur
      /\ conn'[c].writes <=> IsPending(c) /\ WriteResult(c) # "ok"
  BY WriteHeadConn
<1>2. /\ ~Unused(c) /\ ~Finishing(c) /\ ~Finishing(c)'
      /\ ResponseOK(c)'
      /\ \A i \in DOMAIN old : i # 1 => (IsReady(c, i)' <=> IsReady(c, i))
      /\ Midway(c) <=> ~IsPending(c)
      /\ Midway(c)' <=> ~conn'[c].writes
      /\ IsReady(c, 1) <=> old[1].kind = "ok" /\ IsPending(c)
      /\ IsReady(c, 1)' <=> old[1].kind = "ok" /\ conn'[c].writes
  BY WriteHeadResponses DEF Common
<1>w. WireKept(c)
  BY WriteHeadSock, WireSame
<1>3. CASE ~Open(c)
  <2>1. ~Open(c)'
    BY <1>2, <1>3, OpenKept
  <2>2. WireOK(c)'
    BY <1>w, WireKeptFacts DEF Common, ConnOK
  <2>3. BlankOK(c)' /\ InputOK(c)'
    BY <1>2 DEF Common, BlankOK
  <2>4. FrameOK(c)' /\ CloseOK(c)' /\ OrderOK(c)'
    BY <2>1 DEF FrameOK, CloseOK, OrderOK
  <2> QED BY <1>2, <2>2, <2>3, <2>4 DEF ConnOK
<1>4. CASE ~IsPending(c) \/ WriteResult(c) # "ok"
  <2>1. conn'[c].writes <=> IsPending(c)
    BY <1>1, <1>4
  <2>2. Midway(c)' <=> Midway(c)
    BY <1>2, <2>1
  <2>3. /\ BlankOK(c)' /\ InputOK(c)' /\ FrameOK(c)' /\ CloseOK(c)' /\ WireOK(c)'
        /\ Answers(c)' = Answers(c)
    BY <1>1, <1>2, <1>w, <2>2, StillFacts
  <2>4. \A i \in DOMAIN old : IsReady(c, i)' <=> IsReady(c, i)
    BY <1>2, <2>1
  <2>5. Ready(c)' = Ready(c)
    <3>1. {k \in DOMAIN new : IsReady(c, k)'} = {k \in DOMAIN old : IsReady(c, k)}
      BY <1>1, <2>4
    <3> QED BY <1>1, <3>1 DEF Ready
  <2>6. RepliesRise(c) => RepliesRise(c)'
    BY <1>1, <2>4 DEF RepliesRise
  <2>7. Begun(c)' = Begun(c) /\ Asked(c)' = Asked(c) /\ Coming(c)' \subseteq Coming(c)
        /\ (RequestsRise(c)' <=> RequestsRise(c))
    BY <1>1 DEF Begun, Asked, RequestsRise, Common
  <2>8. OrderOK(c)'
    BY <1>2, <2>3, <2>5, <2>6, <2>7, OpenKept DEF OrderOK, Below, ConnOK
  <2> QED BY <1>2, <2>3, <2>8 DEF ConnOK
<1> QED BY <1>3, <1>4

\* A header block that is put on the connection's own wire.
LEMMA WriteHeadPut ==
  ASSUME IInv, TypeOK', NEW t \in Thread, NEW c \in Conn, c = th[t].conn, ConnOK(c), Common(c),
         WriteHead(t), PoolStep(t), Open(c) /\ IsPending(c) /\ WriteResult(c) = "ok"
  PROVE  ConnOK(c)'
<1> DEFINE old == conn[c].responses
           new == conn'[c].responses
<1>1. /\ old # <<>> /\ old \in Seq(Reply)
      /\ DOMAIN new = DOMAIN old
      /\ 1 \in DOMAIN old
      /\ \A i \in DOMAIN old : new[i].kind = old[i].kind /\ new[i].req = old[i].req
      /\ conn'[c].requests = conn[c].requests /\ conn'[c].cur = conn[c].cur
      /\ ~conn'[c].writes
  BY WriteHeadConn
<1>2. /\ ~Unused(c) /\ ~Finishing(c) /\ ~Finishing(c)'
      /\ ResponseOK(c)'
      /\ \A i \in DOMAIN old : i # 1 => (IsReady(c, i)' <=> IsReady(c, i))
      /\ ~Midway(c) /\ Midway(c)'
      /\ IsReady(c, 1) <=> old[1].kind = "ok"
      /\ ~IsReady(c, 1)'
  BY <1>1, WriteHeadResponses DEF Common
<1>b. PICK b : b = NewBlock(c, "head")
  OBVIOUS
<1>3. /\ b \in Block /\ b.by = c /\ b.part = "head"
      /\ b = [by |-> c, kind |-> old[1].kind, req |-> old[1].req, part |-> "head"]
  <2>1. Head(old) = old[1] /\ old[1] \in Reply
    BY <1>1
  <2> QED BY <1>b, <2>1 DEF NewBlock, Block, Reply
<1>4. sock'[c].wire = Append(sock[c].wire, b) /\ sock'[c].peer # "reset"
      /\ TypeOK /\ sock[c].wire \in Seq(Block) /\ sock[c].peer # "reset"
  BY <1>b, WriteHeadSock, PoolSocket, ConnFacts DEF IInv
<1>n. PICK n : n = Len(sock[c].wire) + 1
  OBVIOUS
<1>5. /\ n \in Nat /\ Own(c) \subseteq 1..(n - 1) /\ Own(c)' = Own(c) \cup {n}
      /\ \A j \in Own(c) : sock'[c].wire[j] = sock[c].wire[j]
      /\ sock'[c].wire[n] = b
  BY <1>3, <1>4, <1>n, OwnAppend
<1>6. \A j \in Own(c) : j \in Nat /\ j < n
  BY <1>5
<1>7. Framed(c)'
  <2>1. \A j \in Own(c) : IsLast(c, j) =>
          sock[c].wire[j].part = "body" \/ sock[c].wire[j].kind = "continue"
    BY <1>2, <1>4 DEF FrameOK, ConnOK
  <2> QED BY <1>3, <1>4, <2>1, PutHead DEF ConnOK, WireOK
<1>8. FrameOK(c)'
  <2>1. IsLast(c, n)' /\ n \in Own(c)'
    BY <1>3, <1>4, <1>n, FollowsFacts
  <2>2. sock'[c].wire[n] = [by |-> c, kind |-> new[1].kind, req |-> new[1].req, part |-> "head"]
    BY <1>1, <1>3, <1>5
  <2> QED BY <1>2, <2>1, <2>2 DEF FrameOK
<1>9. \A j \in Own(c)' : ~IsLastBody(sock[c].wire[j])'
  <2>1. \A j \in Own(c) : ~IsLastBody(sock[c].wire[j])
    BY <1>2 DEF CloseOK, ConnOK
  <2>2. \A j \in Own(c) : ~IsLastBody(sock[c].wire[j])'
    BY <1>5, <2>1 DEF IsLastBody, Common
  <2>3. ~IsLastBody(sock[c].wire[n])'
    BY <1>3, <1>5 DEF IsLastBody
  <2> QED BY <1>5, <2>2, <2>3
<1>10. CloseOK(c)' /\ Closing(c)'
  BY <1>9 DEF CloseOK, Closing
<1>o. /\ Below(Answers(c), Ready(c) \cup Asked(c) \cup Begun(c) \cup Coming(c))
      /\ Below(Ready(c), Asked(c) \cup Begun(c) \cup Coming(c))
      /\ Below(Asked(c), Begun(c) \cup Coming(c))
      /\ Below(Begun(c), Coming(c))
      /\ RepliesRise(c) /\ RequestsRise(c)
  BY DEF OrderOK, ConnOK
<1>11. old[1].kind = "ok" => old[1].req \in Ready(c)
  BY <1>1, <1>2 DEF Ready
<1>12. /\ \A j \in Own(c) : IsAnswer(sock[c].wire[j])' <=> IsAnswer(sock[c].wire[j])
       /\ IsAnswer(sock[c].wire[n])' <=> old[1].kind = "ok"
       /\ sock'[c].wire[n].req = old[1].req
  <2>1. \A j \in Own(c) : IsAnswer(sock[c].wire[j])' <=> IsAnswer(sock[c].wire[j])
    BY <1>5 DEF IsAnswer
  <2>2. sock'[c].wire[n].kind = old[1].kind /\ sock'[c].wire[n].req = old[1].req
        /\ sock'[c].wire[n].part = "head"
    BY <1>3, <1>5
  <2>3. IsAnswer(sock[c].wire[n])' <=> old[1].kind = "ok"
    BY <2>2 DEF IsAnswer
  <2> QED BY <2>1, <2>2, <2>3
<1>13. \A m \in Answers(c)' : m \in Answers(c) \/ (m = old[1].req /\ old[1].kind = "ok")
  BY <1>5, <1>12 DEF Answers
<1>14. Ordered(c)'
  <2> SUFFICES ASSUME NEW i \in Own(c)', NEW j \in Own(c)', i < j,
                      IsAnswer(sock[c].wire[i])', IsAnswer(sock[c].wire[j])'
               PROVE  sock'[c].wire[i].req < sock'[c].wire[j].req
    BY DEF Ordered
  <2>1. i \in Own(c)
    BY <1>5, <1>6
  <2>2. CASE j \in Own(c)
    BY <1>5, <1>12, <2>1, <2>2 DEF Ordered, ConnOK, WireOK
  <2>3. CASE j = n
    <3>1. sock[c].wire[i].req \in Answers(c)
      BY <1>12, <2>1 DEF Answers
    <3> QED BY <1>5, <1>11, <1>12, <1>o, <2>1, <2>3, <3>1 DEF Below
  <2> QED BY <1>5, <2>2, <2>3
<1>15. \A m \in Ready(c)' : m \in Ready(c) /\ (old[1].kind = "ok" => old[1].req < m)
  <2> SUFFICES ASSUME NEW m \in Ready(c)'
               PROVE  m \in Ready(c) /\ (old[1].kind = "ok" => old[1].req < m)
    OBVIOUS
  <2>1. PICK i \in DOMAIN new : IsReady(c, i)' /\ m = new[i].req
    BY DEF Ready
  <2>2. i \in DOMAIN old /\ i # 1 /\ IsReady(c, i) /\ m = old[i].req
    BY <1>1, <1>2, <2>1
  <2>3. 1 < i
    BY <1>1, <2>2
  <2>4. m \in Ready(c)
    BY <2>2 DEF Ready
  <2>5. old[1].kind = "ok" => old[1].req < old[i].req
    BY <1>1, <1>2, <1>o, <2>2, <2>3 DEF RepliesRise
  <2> QED BY <2>2, <2>4, <2>5
<1>16. RepliesRise(c)'
  <2> SUFFICES ASSUME NEW i \in DOMAIN new, NEW j \in DOMAIN new, i < j,
                      IsReady(c, i)', IsReady(c, j)'
               PROVE  new[i].req < new[j].req
    BY DEF RepliesRise
  <2>1. i # 1 /\ j # 1
    BY <1>2
  <2> QED BY <1>1, <1>2, <1>o, <2>1 DEF RepliesRise
<1>17. Begun(c)' = Begun(c) /\ Asked(c)' = Asked(c) /\ Coming(c)' \subseteq Coming(c)
       /\ RequestsRise(c)'
  <2>1. RequestsRise(c)' <=> RequestsRise(c)
    BY <1>1 DEF RequestsRise
  <2>2. Begun(c)' = Begun(c) /\ Asked(c)' = Asked(c) /\ Coming(c)' \subseteq Coming(c)
    BY <1>1 DEF Begun, Asked, Common
  <2> QED BY <1>o, <2>1, <2>2
<1>18. OrderOK(c)'
  BY <1>11, <1>13, <1>15, <1>16, <1>17, <1>o DEF OrderOK, Below
<1>19. BlankOK(c)' /\ InputOK(c)'
  BY <1>2 DEF Common, BlankOK
<1> QED BY <1>2, <1>7, <1>8, <1>10, <1>14, <1>18, <1>19 DEF ConnOK, WireOK

\* http_body_writeto_fd changes the connection's error only, and the handler
\* goes on unless the body does not fit.
LEMMA WriteBodyConn ==
  ASSUME IInv, NEW t \in Thread, NEW c \in Conn, c = th[t].conn, WriteBody(t), ConnOK(c),
         env' = env
  PROVE  /\ conn[c].responses # <<>> /\ conn[c].responses[1] \in Reply
         /\ Head(conn[c].responses) = conn[c].responses[1]
         /\ conn'[c].responses = conn[c].responses /\ conn'[c].requests = conn[c].requests
         /\ conn'[c].writes = conn[c].writes /\ conn'[c].cur = conn[c].cur
         /\ ~Unused(c) /\ ~Finishing(c) /\ Midway(c)
         /\ Finishing(c)' <=> conn[c].responses[1].kind = "continue" \/ WriteResult(c) # "again"
         /\ ResponseOK(c)'
<1> DEFINE old == conn[c].responses
           pc == IF old[1].kind # "continue" /\ WriteResult(c) = "again" THEN "release" ELSE "done"
<1>t. /\ TypeOK /\ conn[c] \in Connection /\ conn \in [Conn -> Connection]
      /\ th[t] \in PoolThread /\ th \in [Thread -> PoolThread]
      /\ old \in Seq(Reply)
  BY ConnFacts DEF IInv, TypeOK
<1>1. old # <<>> /\ th[t].pc = "body"
  BY DEF WriteBody, At, IInv, ThreadOK, ThreadIs
<1>2. Head(old) = old[1] /\ old[1] \in Reply
  BY <1>t, <1>1
<1>3. /\ conn'[c].responses = old /\ conn'[c].requests = conn[c].requests
      /\ conn'[c].writes = conn[c].writes /\ conn'[c].cur = conn[c].cur
      /\ conn'[c].lock = conn[c].lock
  <2>1. \E e : conn' = [conn EXCEPT ![c].error = e]
    BY DEF WriteBody
  <2> QED BY <1>t, <2>1 DEF Connection
<1>4. th'[t].pc = pc
  <2>1. th' = [th EXCEPT ![t].pc = pc]
    BY <1>2 DEF WriteBody
  <2> HIDE DEF pc
  <2> QED BY <1>t, <2>1 DEF PoolThread
<1>5. ~Unused(c) /\ conn[c].lock = t /\ ~Finishing(c) /\ AtBody(c)
  BY <1>1, HandlerFacts DEF Holding
<1>6. (Finishing(c)' <=> pc = "done") /\ (AtBody(c)' <=> pc = "done")
  BY <1>1, <1>3, <1>4, <1>5, HandlerFacts
<1>7. old[1].sent = "body" /\ ~conn[c].writes
  BY <1>5 DEF ConnOK, ResponseOK
<1>8. Midway(c)
  BY <1>1, <1>5, <1>7 DEF Midway
<1>9. ResponseOK(c)'
  <2>1. \A i \in DOMAIN old : /\ old[i].kind = "error" => old[i].close
                              /\ old[i].kind = "ok" => (old[i].close <=> old[i].req \in env.close)
                              /\ i > 1 => old[i].sent = "line"
    BY DEF ConnOK, ResponseOK
  <2> HIDE DEF old
  <2> QED BY <1>3, <1>7, <2>1 DEF ResponseOK
<1> QED BY <1>1, <1>2, <1>3, <1>5, <1>6, <1>8, <1>9

\* The body goes to the connection's socket if there is one and it fits.
LEMMA WriteBodySock ==
  ASSUME IInv, NEW t \in Thread, NEW c \in Conn, c = th[t].conn, WriteBody(t), PoolStep(t),
         conn[c].responses # <<>>, Head(conn[c].responses) = conn[c].responses[1]
  PROVE  LET puts == /\ Open(c) /\ conn[c].responses[1].kind # "continue"
                     /\ WriteResult(c) = "ok"
         IN /\ puts => /\ sock'[c].wire = Append(sock[c].wire, NewBlock(c, "body"))
                       /\ sock[c].peer # "reset"
            /\ ~puts => sock'[c].wire = sock[c].wire
            /\ sock'[c].peer = sock[c].peer
            /\ Open(c) /\ WriteResult(c) = "error" => sock[c].peer = "reset"
<1>1. TypeOK /\ sock'[c].peer = sock[c].peer /\ c # None
  BY PoolSocket, NoneAssumption DEF IInv
<1>2. sock' = IF conn[c].responses[1].kind = "continue" THEN sock ELSE Written(c, "body")
  <2>1. conn[c].responses[1].kind = "continue" => sock' = sock
    BY DEF WriteBody
  <2>2. conn[c].responses[1].kind # "continue" /\ WriteResult(c) # "none" => sock' = Written(c, "body")
    BY DEF WriteBody
  <2>3. WriteResult(c) # "none"
    BY <1>1, SocketFacts
  <2> QED BY <2>1, <2>2, <2>3
<1>3. WriteResult(c) = "ok" =>
        Written(c, "body")[SocketOf(c)].wire = Append(sock[SocketOf(c)].wire, NewBlock(c, "body"))
  BY <1>1, WrittenFacts DEF NewBlock
<1>4. WriteResult(c) # "ok" => Written(c, "body")[c].wire = sock[c].wire
  BY <1>1, WrittenFacts
<1>5. SocketOf(c) # c => Written(c, "body")[c] = sock[c]
  BY <1>1, WrittenFacts
<1>6. SocketOf(c) = c => /\ WriteResult(c) = "ok" => sock[c].peer # "reset"
                         /\ WriteResult(c) = "error" => sock[c].peer = "reset"
  BY <1>1 DEF WriteResult
<1> QED BY <1>1, <1>2, <1>3, <1>4, <1>5, <1>6 DEF Open

\* Nothing is written to the connection's own wire.
LEMMA WriteBodyNot ==
  ASSUME IInv, NEW t \in Thread, NEW c \in Conn, c = th[t].conn, ConnOK(c), Common(c),
         WriteBody(t), PoolStep(t),
         ~(Open(c) /\ conn[c].responses[1].kind # "continue" /\ WriteResult(c) = "ok")
  PROVE  ConnOK(c)'
<1>1. /\ conn[c].responses # <<>> /\ Head(conn[c].responses) = conn[c].responses[1]
      /\ conn'[c].responses = conn[c].responses /\ conn'[c].requests = conn[c].requests
      /\ conn'[c].writes = conn[c].writes /\ conn'[c].cur = conn[c].cur
      /\ ~Unused(c) /\ ~Finishing(c) /\ Midway(c)
      /\ Finishing(c)' <=> conn[c].responses[1].kind = "continue" \/ WriteResult(c) # "again"
      /\ ResponseOK(c)'
  BY WriteBodyConn DEF Common
<1>2. /\ sock'[c].wire = sock[c].wire /\ sock'[c].peer = sock[c].peer
      /\ Open(c) /\ WriteResult(c) = "error" => sock[c].peer = "reset"
  BY <1>1, WriteBodySock
<1>3. WriteResult(c) \in {"ok", "again", "error"}
  BY SocketFacts DEF IInv
<1>w. /\ WireOK(c)' /\ Answers(c)' = Answers(c) /\ Own(c)' = Own(c)
      /\ \A j \in Own(c) : sock'[c].wire[j] = sock[c].wire[j] /\ j \in Nat
  <2>1. WireKept(c)
    BY <1>2, WireSame
  <2>2. \A j \in Own(c) : j \in Nat
    BY ConnFacts DEF IInv, Own
  <2> QED BY <2>1, <2>2, WireKeptFacts DEF WireKept, Common, ConnOK
<1>4. BlankOK(c)' /\ InputOK(c)'
  BY <1>1 DEF Common, BlankOK
<1>5. OrderOK(c)'
  <2>1. \A i : IsReady(c, i)' <=> IsReady(c, i)
    BY <1>1 DEF IsReady
  <2>2. Ready(c)' = Ready(c) /\ (RepliesRise(c)' <=> RepliesRise(c))
    BY <1>1, <2>1 DEF Ready, RepliesRise
  <2>3. Begun(c)' = Begun(c) /\ Asked(c)' = Asked(c) /\ Coming(c)' \subseteq Coming(c)
        /\ (RequestsRise(c)' <=> RequestsRise(c))
    BY <1>1 DEF Begun, Asked, RequestsRise, Common
  <2> QED BY <1>1, <1>w, <2>2, <2>3, OpenKept DEF OrderOK, Below, ConnOK
<1>6. FrameOK(c)' /\ CloseOK(c)'
  <2>1. CASE ~Open(c)
    BY <1>1, <2>1, OpenKept DEF FrameOK, CloseOK
  <2>2. CASE Open(c)
    <3>1. \A j \in Own(c) : ~IsLastBody(sock[c].wire[j])
      BY <1>1, <2>2 DEF CloseOK, ConnOK
    <3>2. CloseOK(c)'
      BY <1>w, <3>1 DEF CloseOK, IsLastBody, Common
    <3>3. CASE sock[c].peer = "reset"
      BY <1>2, <3>2, <3>3 DEF FrameOK
    <3>4. CASE sock[c].peer # "reset"
      <4>1. PICK j \in Own(c) :
              /\ IsLast(c, j)
              /\ sock[c].wire[j] = [by |-> c, kind |-> conn[c].responses[1].kind,
                                    req |-> conn[c].responses[1].req, part |-> "head"]
        BY <1>1, <2>2, <3>4 DEF FrameOK, ConnOK
      <4>k. sock[c].wire[j].kind = conn[c].responses[1].kind
        BY <4>1
      <4>2. CASE conn[c].responses[1].kind = "continue"
        <5>1. ~Midway(c)'
          BY <1>1, <4>2 DEF Midway
        <5>2. \A k \in Own(c) : IsLast(c, k) => k = j
          BY <1>w, <4>1 DEF IsLast
        <5> QED BY <1>w, <3>2, <4>k, <4>2, <5>1, <5>2 DEF FrameOK, IsLast
      <4>3. CASE conn[c].responses[1].kind # "continue"
        <5>1. WriteResult(c) = "again"
          BY <1>2, <1>3, <2>2, <3>4, <4>3
        <5>2. Midway(c)'
          BY <1>1, <4>3, <5>1 DEF Midway
        <5> QED BY <1>1, <1>w, <3>2, <4>1, <5>2 DEF FrameOK, IsLast
      <4> QED BY <4>2, <4>3
    <3> QED BY <3>3, <3>4
  <2> QED BY <2>1, <2>2
<1> QED BY <1>1, <1>w, <1>4, <1>5, <1>6 DEF ConnOK

\* A body is written to the connection's own wire.
LEMMA WriteBodyPut ==
  ASSUME IInv, NEW t \in Thread, NEW c \in Conn, c = th[t].conn, ConnOK(c), Common(c),
         WriteBody(t), PoolStep(t),
         Open(c) /\ conn[c].responses[1].kind # "continue" /\ WriteResult(c) = "ok"
  PROVE  ConnOK(c)'
<1> DEFINE r == conn[c].responses[1]
<1>1. /\ conn[c].responses # <<>> /\ Head(conn[c].responses) = r /\ r \in Reply
      /\ conn'[c].responses = conn[c].responses /\ conn'[c].requests = conn[c].requests
      /\ conn'[c].writes = conn[c].writes /\ conn'[c].cur = conn[c].cur
      /\ ~Unused(c) /\ ~Finishing(c) /\ Midway(c)
      /\ Finishing(c)'
      /\ ResponseOK(c)'
  BY WriteBodyConn DEF Common
<1>b. PICK b : b = NewBlock(c, "body")
  OBVIOUS
<1>2. /\ b \in Block /\ b.by = c /\ b.part = "body" /\ b.kind = r.kind /\ b.req = r.req
      /\ b = [by |-> c, kind |-> r.kind, req |-> r.req, part |-> "body"]
  BY <1>b, <1>1 DEF NewBlock, Block, Reply
<1>3. /\ sock'[c].wire = Append(sock[c].wire, b) /\ sock[c].peer # "reset"
      /\ TypeOK /\ sock[c].wire \in Seq(Block)
  BY <1>1, <1>b, WriteBodySock, ConnFacts DEF IInv
<1>n. PICK n : n = Len(sock[c].wire) + 1
  OBVIOUS
<1>4. /\ n \in Nat /\ Own(c) \subseteq 1..(n - 1) /\ Own(c)' = Own(c) \cup {n}
      /\ \A j \in Own(c) : sock'[c].wire[j] = sock[c].wire[j]
      /\ sock'[c].wire[n] = b
  BY <1>2, <1>3, <1>n, OwnAppend
<1>5. \A j \in Own(c) : j \in Nat /\ j < n
  BY <1>4
<1>6. PICK l \in Own(c) : IsLast(c, l) /\ sock[c].wire[l] = [b EXCEPT !.part = "head"]
  <2>1. PICK l \in Own(c) :
          /\ IsLast(c, l)
          /\ sock[c].wire[l] = [by |-> c, kind |-> r.kind, req |-> r.req, part |-> "head"]
    BY <1>1, <1>3 DEF FrameOK, ConnOK
  <2>2. [b EXCEPT !.part = "head"] = [by |-> c, kind |-> r.kind, req |-> r.req, part |-> "head"]
    BY <1>2
  <2> QED BY <2>1, <2>2
<1>7. Framed(c)'
  BY <1>2, <1>3, <1>6, PutBody DEF ConnOK, WireOK
<1>8. FrameOK(c)'
  <2>1. ~Midway(c)'
    BY <1>1 DEF Midway
  <2>2. \A j \in Own(c) : ~IsLast(c, j)'
    BY <1>2, <1>3, <1>n, FollowsFacts
  <2> QED BY <1>2, <1>4, <2>1, <2>2 DEF FrameOK
<1>9. \A j \in Own(c) : ~IsLastBody(sock[c].wire[j])'
  <2>1. \A j \in Own(c) : ~IsLastBody(sock[c].wire[j])
    BY <1>1 DEF CloseOK, ConnOK
  <2> QED BY <1>4, <2>1 DEF IsLastBody, Common
<1>10. Closing(c)'
  <2> SUFFICES ASSUME NEW i \in Own(c)', NEW j \in Own(c)', IsLastBody(sock[c].wire[i])'
               PROVE  j <= i
    BY DEF Closing
  <2>1. i = n
    BY <1>4, <1>9
  <2> QED BY <1>4, <1>5, <2>1
<1>11. CloseOK(c)'
  <2>1. IsLastBody(sock[c].wire[n])' => r.kind = "error" \/ (r.kind = "ok" /\ r.req \in env.close)
    BY <1>2, <1>4 DEF IsLastBody, Common
  <2>2. 1 \in DOMAIN conn[c].responses
    BY <1>1, <1>3, ConnFacts
  <2>3. r.kind = "error" \/ (r.kind = "ok" /\ r.req \in env.close) => r.close
    BY <2>2 DEF ResponseOK, ConnOK
  <2> QED BY <1>1, <1>4, <1>9, <2>1, <2>3 DEF CloseOK
<1>12. /\ \A j \in Own(c) : IsAnswer(sock[c].wire[j])' <=> IsAnswer(sock[c].wire[j])
       /\ ~IsAnswer(sock[c].wire[n])'
  <2>1. \A j \in Own(c) : IsAnswer(sock[c].wire[j])' <=> IsAnswer(sock[c].wire[j])
    BY <1>4 DEF IsAnswer
  <2>2. ~IsAnswer(sock[c].wire[n])'
    BY <1>2, <1>4 DEF IsAnswer
  <2> QED BY <2>1, <2>2
<1>13. Answers(c)' = Answers(c)
  <2>1. {k \in Own(c) : IsAnswer(sock[c].wire[k])}' = {k \in Own(c) : IsAnswer(sock[c].wire[k])}
    BY <1>4, <1>12
  <2> QED BY <1>4, <2>1 DEF Answers
<1>14. Ordered(c)'
  <2> SUFFICES ASSUME NEW i \in Own(c)', NEW j \in Own(c)', i < j,
                      IsAnswer(sock[c].wire[i])', IsAnswer(sock[c].wire[j])'
               PROVE  sock'[c].wire[i].req < sock'[c].wire[j].req
    BY DEF Ordered
  <2>1. i \in Own(c) /\ j \in Own(c) /\ IsAnswer(sock[c].wire[i]) /\ IsAnswer(sock[c].wire[j])
    BY <1>4, <1>12
  <2> QED BY <1>4, <2>1 DEF Ordered, ConnOK, WireOK
<1>15. OrderOK(c)'
  <2>1. \A i : IsReady(c, i)' <=> IsReady(c, i)
    BY <1>1 DEF IsReady
  <2>2. Ready(c)' = Ready(c) /\ (RepliesRise(c)' <=> RepliesRise(c))
    BY <1>1, <2>1 DEF Ready, RepliesRise
  <2>3. Begun(c)' = Begun(c) /\ Asked(c)' = Asked(c) /\ Coming(c)' \subseteq Coming(c)
        /\ (RequestsRise(c)' <=> RequestsRise(c))
    BY <1>1 DEF Begun, Asked, RequestsRise, Common
  <2> QED BY <1>13, <2>2, <2>3 DEF OrderOK, Below, ConnOK
<1>16. BlankOK(c)' /\ InputOK(c)'
  BY <1>1 DEF Common, BlankOK
<1> QED BY <1>1, <1>7, <1>8, <1>10, <1>11, <1>14, <1>15, <1>16 DEF ConnOK, WireOK
--------------------------------------------------------------------------------
(* The theorems. *)

\* A step of a pool thread keeps what holds of each connection.
LEMMA PoolConn ==
  ASSUME IInv, TypeOK', NEW t \in Thread, PoolStep(t), NEW c \in Conn, ConnOK(c)
  PROVE  ConnOK(c)'
<1>1. Common(c)
  BY PoolCommon DEF ConnOK
<1>2. CASE c # th[t].conn
  BY <1>1, <1>2, PoolOther, KeptFacts
<1>3. CASE c = th[t].conn
  <2>1. CASE \/ Fetch(t) \/ Enqueue(t) \/ Release(t) \/ Requeue(t)
             \/ ReadNothing(t) \/ WorkerLock(t) \/ WriterLock(t)
    BY <1>1, <1>3, <2>1, PoolQuiet, KeptFacts
  <2>2. CASE ReadData(t)
    BY <1>1, <1>3, <2>2, ReadDataOK
  <2>3. CASE Process(t)
    BY <1>1, <1>3, <2>3, ProcessOK
  <2>4. CASE WriteHead(t)
    BY <1>1, <1>3, <2>4, WriteHeadPut, WriteHeadNot
  <2>5. CASE WriteBody(t)
    BY <1>1, <1>3, <2>5, WriteBodyPut, WriteBodyNot
  <2>6. CASE WriteDone(t)
    BY <1>1, <1>3, <2>6, WriteDoneOK
  <2> QED BY <2>1, <2>2, <2>3, <2>4, <2>5, <2>6, PoolStep(t) DEF PoolStep
<1> QED BY <1>2, <1>3

\* At the start no connection is in use and nothing is written.
LEMMA InitOrder == Init => OInv
<1> SUFFICES ASSUME Init, NEW c \in Conn PROVE ConnOK(c)
  BY InitInv DEF OInv
<1>1. /\ conn[c].fd = None /\ conn[c].lock = None /\ conn[c].cur = 0
      /\ conn[c].requests = <<>> /\ conn[c].responses = <<>>
      /\ sock[c].in = <<>> /\ sock[c].sent = 0 /\ sock[c].wire = <<>>
  BY DEF Init
<1>2. Own(c) = {} /\ ~Open(c) /\ ~AtBody(c)
  BY <1>1, NoneAssumption DEF Own, Open, SocketOf, AtBody
<1>3. InputOK(c)
  <2>1. env.script[c] \in Seq(Piece)
    BY ScenarioAssumption DEF Init
  <2>2. Len(env.script[c]) \in Nat /\ Len(sock[c].in) = 0
    BY <1>1, <2>1
  <2> QED BY <1>1, <2>2 DEF InputOK
<1>4. ResponseOK(c) /\ BlankOK(c)
  BY <1>1, <1>2 DEF ResponseOK, BlankOK
<1>5. FrameOK(c) /\ CloseOK(c) /\ OrderOK(c)
  BY <1>2 DEF FrameOK, CloseOK, OrderOK
<1>6. WireOK(c)
  BY <1>2 DEF WireOK, Framed, Ordered, Closing
<1> QED BY <1>3, <1>4, <1>5, <1>6 DEF ConnOK

\* Every step keeps the invariant.
LEMMA StepOrder == OInv /\ [Next]_vars => OInv'
<1> SUFFICES ASSUME OInv, [Next]_vars, NEW c \in Conn PROVE ConnOK(c)'
  BY StepInv DEF OInv
<1>1. IInv /\ TypeOK' /\ ConnOK(c) /\ InputOK(c)
  BY TypeStep DEF OInv, ConnOK
<1>2. CASE Client
  BY <1>1, <1>2, ClientKept, KeptFacts
<1>3. CASE LoopStep
  BY <1>1, <1>3, LoopKept, KeptFacts
<1>4. ASSUME NEW t \in Thread, PoolStep(t) PROVE ConnOK(c)'
  BY <1>1, <1>4, PoolConn
<1>5. CASE UNCHANGED vars
  <2>1. UNCHANGED <<conn, sock, owner, th, env>>
    BY <1>5 DEF vars
  <2>2. WireKept(c)
    BY <2>1, WireSame
  <2>3. Kept(c)
    BY <2>1, <2>2 DEF Kept, Finishing, AtBody
  <2>4. InputOK(c)' /\ Coming(c)' \subseteq Coming(c)
    BY <1>1, <2>1, InputSame
  <2>5. Common(c)
    BY <2>1, <2>4 DEF Common, Unused, Open, SocketOf
  <2> QED BY <1>1, <2>3, <2>5, KeptFacts
<1> QED BY <1>2, <1>3, <1>4, <1>5 DEF Next

\* The inductive invariant of what is written to the connections.
THEOREM WireCorrect == Spec => []OInv
<1> QED BY InitOrder, StepOrder, PTL DEF Spec

\* server_loop_write, called for one connection by several handlers in turns
\* and interrupted at any point by a full send buffer, does not mix responses:
\* a body directly follows its own header block, and nothing else does.
THEOREM FramedCorrect == Spec => []WireFramed
<1>1. OInv => WireFramed
  BY DEF OInv, ConnOK, WireOK, Framed, WireFramed
<1> QED BY <1>1, WireCorrect, PTL

\* Requests are answered at most once and in the order in which the client
\* sent them, although they pass through three pools, whatever the number of
\* threads in each and in whatever order these get the lock.
THEOREM OrderCorrect == Spec => []AnswersInOrder
<1>1. OInv => AnswersInOrder
  BY DEF OInv, ConnOK, WireOK, Ordered, AnswersInOrder
<1> QED BY <1>1, WireCorrect, PTL

\* After a response that carries Connection: close server_loop_write closes the
\* socket before it gives the lock back, and no handler of the connection writes
\* to that client again: neither one that was waiting nor one for a later request.
THEOREM CloseCorrect == Spec => []CloseIsLast
<1>1. OInv => CloseIsLast
  BY DEF OInv, ConnOK, WireOK, Closing, CloseIsLast
<1> QED BY <1>1, WireCorrect, PTL
================================================================================

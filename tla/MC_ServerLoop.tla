----------------------------- MODULE MC_ServerLoop -----------------------------
(***************************************************************************)
(* Instances of ServerLoop for TLC.  What clients send is given piece by   *)
(* piece; a request is its first and its last piece.                       *)
(***************************************************************************)
EXTENDS ServerLoop, TLC

CONSTANTS r1, r2, w1, w2, k1

Part(k, part) == [req |-> k, part |-> part]

Request(k) == <<Part(k, "head"), Part(k, "tail")>>

\* One or two requests, and a request followed by input that is rejected.
OneRequest == [c \in Conn |-> Request(1)]
TwoRequests == [c \in Conn |-> Request(1) \o Request(2)]
RequestThenBad == [c \in Conn |-> Request(1) \o <<Part(2, "bad")>>]

\* A client that sends two requests, waits for the answers and has the
\* connection closed; everything fits in the buffers.
Serial == [script |-> TwoRequests, close |-> {2}, http11 |-> FALSE, serial |-> TRUE,
           readAll |-> TRUE, sendBuf |-> 8, peer |-> {}, threads |-> {r1, w1, k1}]

\* Pipelined requests, two writers, and a send buffer that fills up.
Pipeline == [Serial EXCEPT !.close = {}, !.serial = FALSE,
                           !.sendBuf = 1, !.threads = {r1, w1, w2, k1}]

\* Two readers, and clients that end or reset the connection at any point.
Hangups == [Serial EXCEPT !.script = OneRequest, !.close = {1},
                          !.serial = FALSE, !.readAll = FALSE, !.sendBuf = 1,
                          !.peer = {"fin", "reset"}, !.threads = {r1, r2, w1, k1}]

\* Input that the parser rejects follows a request.
Rejected == [Pipeline EXCEPT !.script = RequestThenBad, !.readAll = FALSE,
                             !.threads = {r1, w1, k1}]

\* An HTTP/1.1 request read in parts, answered with 100 Continue first.
InParts == [Pipeline EXCEPT !.script = OneRequest, !.http11 = TRUE, !.readAll = FALSE,
                            !.threads = {r1, w1, w2, k1}]

\* One request, after which the client ends the connection at any point.
EarlyEnd == [Serial EXCEPT !.script = OneRequest, !.close = {},
                           !.sendBuf = 2, !.peer = {"fin"}]

\* Reads that leave a part of the input, requests sent before the answers, and a send buffer for
\* one block.
InPieces == [Serial EXCEPT !.script = OneRequest, !.close = {1}, !.http11 = TRUE, !.readAll = FALSE]
Pipelined == [Serial EXCEPT !.serial = FALSE]
FullBuffer == [Serial EXCEPT !.script = OneRequest, !.close = {1}, !.sendBuf = 1]

LiveScenarios == {Serial, InPieces, Pipelined, FullBuffer}
SafetyScenarios == {Pipeline, Hangups, Rejected, InParts}
EarlyEndScenario == {EarlyEnd}

PoolSymmetry == Permutations(Reader) \cup Permutations(Writer)
================================================================================

---------------------------- MODULE WritePathProofs ----------------------------
(***************************************************************************)
(* Proofs about the write path, for any responses and any sizes of         *)
(* buffers, chunks and the socket's send buffer.                           *)
(***************************************************************************)
EXTENDS WritePath, SequenceTheorems, TLAPS

\* The byte that has to follow a sequence of bytes.
After(s) == IF s = <<>> THEN HeadByte(1, 1) ELSE Succ(s[Len(s)])

\* A byte that some response has.
Exists(b) == /\ b.resp \in DOMAIN Responses
             /\ b.at >= 1
             /\ b.at <= IF b.part = "head" THEN Responses[b.resp].head
                        ELSE Responses[b.resp].body

\* What the handler's place says of the response and the buffers.  In
\* particular a header block is formatted only into an empty list.
ControlOK ==
  /\ pc \in {"flush", "body", "done"} => cur <= queued
  /\ pc # "rest"
  /\ status = "SEND_BODY" => cur <= queued
  /\ status = "SEND_RESPONSE_LINE" => list = <<>> /\ pc \in {"idle", "turn"} /\ offset = 0
  /\ list # <<>> => pc \in {"turn", "flush"} /\ offset = 0
  /\ ~loops
  /\ error /\ disk = "ok" => ~Writable

\* Where in the header block a buffer begins.
Start(j) == list[j].data[1].at

\* The buffers hold the rest of the current header block, one after the other,
\* and only the first was read from.
BuffersOK ==
  /\ \A j \in DOMAIN list :
       /\ list[j].data # <<>>
       /\ Start(j) >= 1
       /\ \A k \in DOMAIN list[j].data : list[j].data[k] = HeadByte(cur, Start(j) + k - 1)
       /\ j > 1 => list[j].rOffset = 0
       /\ Start(j) + Len(list[j].data) - 1 <= Responses[cur].head
       /\ j < Len(list) => Start(j + 1) = Start(j) + Len(list[j].data)
       /\ j = Len(list) => Start(j) + Len(list[j].data) - 1 = Responses[cur].head

\* Where the wire has got to.
Position == IF status = "SEND_RESPONSE_LINE" THEN HeadByte(cur, 1)
            ELSE IF list # <<>> THEN AfterHead(cur, Start(1) + list[1].rOffset - 1)
            ELSE AfterBody(cur, offset)

PositionOK == disk = "ok" /\ ~error
                => /\ After(wire) = Position
                   /\ pc = "done" => offset = Responses[cur].body

WireOK == \A i \in DOMAIN wire : Exists(wire[i])

\* The inductive invariant.
IInv == TypeOK /\ ControlOK /\ BuffersOK /\ WireOK /\ PositionOK /\ InOrder /\ RemovedIsSent
--------------------------------------------------------------------------------
LEMMA ResponseType ==
  ASSUME NEW r \in DOMAIN Responses
  PROVE  /\ Responses[r].head \in Nat \ {0}
         /\ Responses[r].body \in Nat
         /\ Responses[r].kind \in Kind
         /\ Responses[r].close \in BOOLEAN
<1>1. Responses[r] \in [head : Nat \ {0}, body : Nat, kind : Kind, close : BOOLEAN]
  BY ResponsesAssumption, LenProperties, ElementOfSeq, Zenon
<1> QED BY <1>1

\* Bytes that follow the wire's last one, in order, extend it in order.
LEMMA Extend ==
  ASSUME NEW s \in Seq(Byte), NEW t \in Seq(Byte), t # <<>>,
         Ordered(s), t[1] = After(s),
         \A i \in DOMAIN t : i > 1 => t[i] = Succ(t[i - 1])
  PROVE  Ordered(s \o t) /\ After(s \o t) = Succ(t[Len(t)])
<1> DEFINE u == s \o t
<1>1. /\ u \in Seq(Byte) /\ Len(u) = Len(s) + Len(t)
      /\ \A i \in 1..Len(u) : u[i] = IF i <= Len(s) THEN s[i] ELSE t[i - Len(s)]
  BY ConcatProperties
<1>2. Len(t) >= 1 /\ Len(s) \in Nat /\ Len(t) \in Nat
  BY EmptySeq, LenProperties
<1>3. u[1] = HeadByte(1, 1)
  <2>1. CASE s = <<>>
    BY <2>1, <1>1, <1>2 DEF After
  <2>2. CASE s # <<>>
    BY <2>2, <1>1, <1>2, EmptySeq DEF Ordered
  <2> QED BY <2>1, <2>2
<1>4. ASSUME NEW i \in 1..Len(u), i > 1 PROVE u[i] = Succ(u[i - 1])
  <2>1. CASE i <= Len(s)
    <3>1. i \in DOMAIN s /\ u[i] = s[i] /\ u[i - 1] = s[i - 1]
      BY <2>1, <1>1, <1>2, <1>4
    <3> QED BY <3>1, <1>4 DEF Ordered
  <2>2. CASE i = Len(s) + 1
    <3>1. u[i] = t[1] /\ u[i - 1] = s[Len(s)] /\ s # <<>>
      BY <2>2, <1>1, <1>2, <1>4
    <3> QED BY <3>1 DEF After
  <2>3. CASE i > Len(s) + 1
    <3>1. u[i] = t[i - Len(s)] /\ u[i - 1] = t[i - Len(s) - 1]
      BY <2>3, <1>1, <1>2, <1>4
    <3>2. i - Len(s) \in DOMAIN t /\ i - Len(s) > 1
      BY <2>3, <1>1, <1>2, <1>4
    <3> QED BY <3>1, <3>2
  <2>4. i <= Len(s) \/ i = Len(s) + 1 \/ i > Len(s) + 1
    BY <1>1, <1>2
  <2> QED BY <2>1, <2>2, <2>3, <2>4
<1>5. u # <<>> /\ u[Len(u)] = t[Len(t)]
  BY <1>1, <1>2
<1>6. DOMAIN u = 1..Len(u)
  BY <1>1
<1> HIDE DEF u
<1>7. Ordered(u)
  BY <1>3, <1>4, <1>6 DEF Ordered
<1>8. After(u) = Succ(t[Len(t)])
  BY <1>5 DEF After
<1> QED BY <1>7, <1>8 DEF u

\* Rounding up to whole buffers.
LEMMA Rounding ==
  ASSUME NEW n \in Nat \ {0}
  PROVE  /\ Buffers(n) \in Nat \ {0}
         /\ n <= Buffers(n) * BufSize
         /\ \A j \in 1..Buffers(n) : /\ (j - 1) * BufSize \in Nat
                                     /\ (j - 1) * BufSize < n
                                     /\ j * BufSize = (j - 1) * BufSize + BufSize
                                     /\ j < Buffers(n) => j * BufSize < n
<1>1. PICK b \in Nat \ {0} : b = BufSize
  BY SizesAssumption
<1>2. PICK m : m = Buffers(n)
  OBVIOUS
<1>3. m = (n + b - 1) \div b
  BY <1>1, <1>2 DEF Buffers
<1>4. m \in Int /\ m * b <= n + b - 1 /\ n + b - 1 < m * b + b
  BY <1>3, Z3
<1>5. n <= m * b /\ m >= 1
  BY <1>4
<1>6. ASSUME NEW j \in 1..m PROVE j * b = (j - 1) * b + b /\ (j - 1) * b \in Nat
  BY <1>6, <1>4
<1>7. ASSUME NEW j \in 1..m PROVE j * b <= m * b
  BY <1>7, <1>4
<1>8. ASSUME NEW j \in 1..m, j < m PROVE j * b + b <= m * b
  <2>1. j + 1 \in 1..m
    BY <1>8, <1>4
  <2>2. (j + 1) * b <= m * b
    BY <2>1, <1>7
  <2>3. (j + 1) * b = j * b + b
    BY <2>1
  <2> QED BY <2>2, <2>3
<1>9. ASSUME NEW j \in 1..m PROVE (j - 1) * b < n
  BY <1>4, <1>6, <1>7
<1>10. ASSUME NEW j \in 1..m, j < m PROVE j * b < n
  BY <1>4, <1>8, <1>10
<1> QED BY <1>1, <1>2, <1>4, <1>5, <1>6, <1>9, <1>10

\* A function on 1..n is a sequence of length n.
LEMMA FunctionSeq ==
  ASSUME NEW S, NEW n \in Nat, NEW g \in [1..n -> S]
  PROVE  g \in Seq(S) /\ Len(g) = n /\ DOMAIN g = 1..n
OBVIOUS

\* The elements of a subsequence.
LEMMA Cut ==
  ASSUME NEW S, NEW s \in Seq(S), NEW a \in Nat, NEW b \in Nat, a <= b, b <= Len(s)
  PROVE  /\ SubSeq(s, a + 1, b) \in Seq(S)
         /\ Len(SubSeq(s, a + 1, b)) = b - a
         /\ \A k \in 1..(b - a) : SubSeq(s, a + 1, b)[k] = s[a + k]
OBVIOUS

Buffer == [data : Seq(Byte), rOffset : Nat]

\* Buffer j of the m buffers f that the n bytes of src are put into.
Piece(f, src, n, m, j) ==
  /\ DOMAIN f = 1..m
  /\ f[j] \in Buffer
  /\ f[j].rOffset = 0
  /\ (j - 1) * BufSize \in Nat
  /\ Len(f[j].data) \in 1..BufSize
  /\ (j - 1) * BufSize + Len(f[j].data) <= n
  /\ \A k \in 1..Len(f[j].data) : f[j].data[k] = src[(j - 1) * BufSize + k]
  /\ j < m => j * BufSize = (j - 1) * BufSize + Len(f[j].data)
  /\ j = m => n = (j - 1) * BufSize + Len(f[j].data)

LEMMA FilledBuffer ==
  ASSUME NEW src \in Seq(Byte), NEW n \in Nat \ {0}, Len(src) = n,
         NEW m, m = Buffers(n), NEW f, f = Filled(src), NEW j \in 1..m
  PROVE  Piece(f, src, n, m, j)
<1>1. BufSize \in Nat \ {0}
  BY SizesAssumption
<1>2. /\ m \in Nat \ {0} /\ n <= m * BufSize
      /\ (j - 1) * BufSize \in Nat /\ (j - 1) * BufSize < n
      /\ j * BufSize = (j - 1) * BufSize + BufSize
      /\ j < m => j * BufSize < n
  BY Rounding, Zenon
<1>3. PICK low \in Nat : low = (j - 1) * BufSize
  BY <1>2
<1>4. PICK high : high = Least(j * BufSize, n)
  OBVIOUS
<1>5. /\ high \in Nat /\ low < high /\ high <= n /\ high - low <= BufSize
      /\ j < m => high = j * BufSize
      /\ j = m => high = n
  BY <1>1, <1>2, <1>3, <1>4 DEF Least
<1>6. /\ DOMAIN f = 1..m
      /\ f[j] = [data |-> SubSeq(src, low + 1, high), rOffset |-> 0]
  BY <1>3, <1>4 DEF Filled
<1>7. PICK d : d = SubSeq(src, low + 1, high)
  OBVIOUS
<1>8. /\ d \in Seq(Byte) /\ Len(d) = high - low
      /\ \A k \in 1..(high - low) : d[k] = src[low + k]
  BY <1>5, <1>7, Cut
<1>9. f[j] \in Buffer /\ f[j].data = d /\ f[j].rOffset = 0
  BY <1>6, <1>7, <1>8 DEF Buffer
<1> QED BY <1>1, <1>2, <1>3, <1>5, <1>6, <1>8, <1>9 DEF Piece

\* What the buffers are that a header block of response r is put into.
Holds(f, r) ==
  /\ f \in Seq(Buffer) /\ f # <<>>
  /\ f[1].data[1].at = 1
  /\ \A j \in DOMAIN f :
       /\ f[j].data # <<>>
       /\ f[j].data[1].at >= 1
       /\ Len(f[j].data) <= BufSize
       /\ f[j].rOffset = 0
       /\ f[j].data[1].at + Len(f[j].data) - 1 <= Responses[r].head
       /\ \A k \in DOMAIN f[j].data : f[j].data[k] = HeadByte(r, f[j].data[1].at + k - 1)
       /\ j < Len(f) => f[j + 1].data[1].at = f[j].data[1].at + Len(f[j].data)
       /\ j = Len(f) => f[j].data[1].at + Len(f[j].data) - 1 = Responses[r].head

LEMMA FilledFacts ==
  ASSUME NEW r \in DOMAIN Responses, NEW src,
         src = [k \in 1..Responses[r].head |-> HeadByte(r, k)]
  PROVE  src \in Seq(Byte) /\ Len(src) \in Nat \ {0} /\ Holds(Filled(src), r)
<1>1. PICK n \in Nat \ {0} : n = Responses[r].head
  BY ResponseType
<1>2. r \in Nat /\ BufSize \in Nat \ {0}
  BY ResponsesAssumption, SizesAssumption, LenProperties
<1>3. \A k \in 1..n : HeadByte(r, k) \in Byte
  BY <1>2 DEF HeadByte, Byte
<1>4. src \in [1..n -> Byte] /\ \A k \in 1..n : src[k] = HeadByte(r, k)
  BY <1>1, <1>3
<1>5. src \in Seq(Byte) /\ Len(src) = n
  BY <1>4, FunctionSeq
<1>6. PICK m \in Nat \ {0} : m = Buffers(n)
  BY Rounding
<1>7. PICK f : f = Filled(src)
  OBVIOUS
<1>8. ASSUME NEW j \in 1..m PROVE Piece(f, src, n, m, j)
  BY <1>1, <1>5, <1>6, <1>7, FilledBuffer, Zenon
<1>9. 1 \in 1..m /\ DOMAIN f = 1..m
  <2>1. 1 \in 1..m
    BY <1>6
  <2> QED BY <2>1, <1>8, Zenon DEF Piece
<1>10. f \in Seq(Buffer) /\ Len(f) = m /\ f # <<>>
  <2>1. f = [j \in 1..Buffers(Len(src)) |-> f[j]]
    BY <1>7 DEF Filled
  <2>2. f \in [1..m -> Buffer]
    BY <2>1, <1>5, <1>6, <1>8 DEF Piece
  <2> QED BY <2>2, FunctionSeq
<1>11. ASSUME NEW j \in 1..m
       PROVE  /\ f[j].data \in Seq(Byte) /\ f[j].data # <<>>
              /\ DOMAIN f[j].data = 1..Len(f[j].data)
              /\ \A k \in 1..Len(f[j].data) : f[j].data[k] = HeadByte(r, (j - 1) * BufSize + k)
              /\ f[j].data[1].at = (j - 1) * BufSize + 1
  <2>1. PICK low \in Nat : low = (j - 1) * BufSize
    BY <1>8 DEF Piece
  <2>2. PICK d : d = f[j].data
    OBVIOUS
  <2>3. d \in Seq(Byte) /\ Len(d) \in 1..BufSize /\ low + Len(d) <= n
    BY <1>8, <2>1, <2>2 DEF Buffer, Piece
  <2>4. \A k \in 1..Len(d) : d[k] = src[low + k]
    BY <1>8, <2>1, <2>2 DEF Piece
  <2>5. \A k \in 1..Len(d) : low + k \in 1..n
    BY <2>3, <1>2
  <2>6. \A k \in 1..Len(d) : d[k] = HeadByte(r, low + k)
    BY <2>4, <2>5, <1>4
  <2>7. 1 \in 1..Len(d) /\ d # <<>> /\ DOMAIN d = 1..Len(d)
    BY <2>3, <1>2
  <2>8. d[1].at = low + 1
    BY <2>6, <2>7 DEF HeadByte
  <2> QED BY <2>1, <2>2, <2>3, <2>6, <2>7, <2>8
<1>12. f[1].data[1].at = 1
  <2>1. f[1].data[1].at = (1 - 1) * BufSize + 1
    BY <1>9, <1>11, Zenon
  <2> QED BY <2>1, <1>2
<1>13. ASSUME NEW j \in DOMAIN f
       PROVE  /\ f[j].data # <<>>
              /\ f[j].data[1].at >= 1
              /\ Len(f[j].data) <= BufSize
              /\ f[j].rOffset = 0
              /\ f[j].data[1].at + Len(f[j].data) - 1 <= Responses[r].head
              /\ \A k \in DOMAIN f[j].data :
                   f[j].data[k] = HeadByte(r, f[j].data[1].at + k - 1)
              /\ j < Len(f) => f[j + 1].data[1].at = f[j].data[1].at + Len(f[j].data)
              /\ j = Len(f) => f[j].data[1].at + Len(f[j].data) - 1 = Responses[r].head
  <2>1. j \in 1..m
    BY <1>9
  <2>2. PICK low \in Nat : low = (j - 1) * BufSize
    BY <1>8, <2>1 DEF Piece
  <2>3. f[j].data # <<>> /\ f[j].data[1].at = low + 1 /\ f[j].rOffset = 0
        /\ Len(f[j].data) \in 1..BufSize
    BY <1>8, <1>11, <2>1, <2>2 DEF Piece
  <2>4. ASSUME NEW k \in DOMAIN f[j].data
        PROVE  f[j].data[k] = HeadByte(r, f[j].data[1].at + k - 1)
    <3>1. k \in 1..Len(f[j].data)
      BY <1>11, <2>1
    <3>2. f[j].data[k] = HeadByte(r, low + k)
      BY <3>1, <1>11, <2>1, <2>2
    <3>3. f[j].data[1].at + k - 1 = low + k
      BY <3>1, <2>3
    <3> QED BY <3>2, <3>3
  <2>5. ASSUME j < m PROVE f[j + 1].data[1].at = f[j].data[1].at + Len(f[j].data)
    <3>1. j + 1 \in 1..m /\ (j + 1) - 1 = j
      BY <2>1, <2>5
    <3>2. f[j + 1].data[1].at = j * BufSize + 1
      BY <3>1, <1>11
    <3>3. j * BufSize = low + Len(f[j].data)
      BY <1>8, <2>1, <2>2, <2>5 DEF Piece
    <3>4. PICK l \in Nat : l = Len(f[j].data)
      BY <2>3, <1>2
    <3>5. f[j + 1].data[1].at = (low + l) + 1 /\ f[j].data[1].at = low + 1
      BY <3>2, <3>3, <3>4, <2>3, Zenon
    <3>6. (low + l) + 1 = (low + 1) + l
      BY <2>2, <3>4
    <3> QED BY <3>4, <3>5, <3>6, Zenon
  <2>6. ASSUME j = m PROVE f[j].data[1].at + Len(f[j].data) - 1 = n
    <3>1. n = low + Len(f[j].data)
      BY <1>8, <2>1, <2>2, <2>6 DEF Piece
    <3>2. PICK l \in Nat : l = Len(f[j].data)
      BY <2>3, <1>2
    <3>3. n = low + l /\ f[j].data[1].at = low + 1
      BY <3>1, <3>2, <2>3, Zenon
    <3>4. (low + 1) + l - 1 = low + l
      BY <2>2, <3>2
    <3> QED BY <3>2, <3>3, <3>4, Zenon
  <2>7. f[j].data[1].at >= 1 /\ Len(f[j].data) <= BufSize
    BY <2>3, <1>2
  <2>8. f[j].data[1].at + Len(f[j].data) - 1 <= n
    <3>1. low + Len(f[j].data) <= n
      BY <1>8, <2>1, <2>2 DEF Piece
    <3> QED BY <3>1, <2>2, <2>3, <1>1, <1>2
  <2> QED BY <2>3, <2>4, <2>5, <2>6, <2>7, <2>8, <1>1, <1>10, Zenon
<1> QED BY <1>5, <1>7, <1>10, <1>12, <1>13 DEF Holds
--------------------------------------------------------------------------------
\* The response being written is one there is.
LEMMA CurrentExists ==
  ASSUME TypeOK, cur <= queued
  PROVE  /\ cur \in DOMAIN Responses /\ cur \in Nat \ {0}
         /\ Responses[cur].head \in Nat \ {0} /\ Responses[cur].body \in Nat
<1>1. Len(Responses) \in Nat /\ DOMAIN Responses = 1..Len(Responses)
  BY ResponsesAssumption, LenProperties
<1>2. cur \in DOMAIN Responses /\ cur \in Nat \ {0}
  BY <1>1 DEF TypeOK
<1> QED BY <1>2, ResponseType

\* What a write of bytes that continue the wire does to it.
LEMMA WriteFacts ==
  ASSUME TypeOK, ControlOK, WireOK, InOrder,
         NEW bytes \in Seq(Byte), bytes # <<>>,
         \A i \in DOMAIN bytes : Exists(bytes[i]),
         \A i \in DOMAIN bytes : i > 1 => bytes[i] = Succ(bytes[i - 1]),
         disk = "ok" /\ ~error => After(wire) = bytes[1],
         NEW k, Write(bytes, k), UNCHANGED world
  PROVE  /\ k \in 1..Len(bytes)
         /\ wire' \in Seq(Byte) /\ room' \in 0..SendBuf
         /\ WireOK' /\ InOrder'
         /\ disk = "ok" => After(wire') = Succ(bytes[k])
         /\ \A i \in DOMAIN wire : i \in DOMAIN wire' /\ wire'[i] = wire[i]
<1>1. Len(bytes) \in Nat /\ Len(bytes) >= 1 /\ DOMAIN bytes = 1..Len(bytes)
  BY EmptySeq, LenProperties
<1>2. room \in Nat /\ room > 0 /\ room <= SendBuf /\ SendBuf \in Nat
  BY SizesAssumption DEF TypeOK, Write
<1>3. k \in 1..Len(bytes) /\ room' \in 0..SendBuf
  BY <1>1, <1>2 DEF Write, Least
<1>4. PICK t : t = SubSeq(bytes, 1, k)
  OBVIOUS
<1>5. /\ t \in Seq(Byte) /\ Len(t) = k /\ DOMAIN t = 1..k /\ t # <<>>
      /\ \A i \in 1..k : t[i] = bytes[i]
  BY <1>1, <1>3, <1>4
<1>6. wire \in Seq(Byte) /\ wire' = wire \o t
  BY <1>4 DEF TypeOK, Write
<1>7. /\ wire' \in Seq(Byte) /\ Len(wire') = Len(wire) + Len(t)
      /\ \A i \in 1..(Len(wire) + Len(t)) :
           wire'[i] = IF i <= Len(wire) THEN wire[i] ELSE t[i - Len(wire)]
  BY <1>5, <1>6, ConcatProperties
<1>8. Len(wire) \in Nat /\ DOMAIN wire = 1..Len(wire) /\ DOMAIN wire' = 1..Len(wire')
  BY <1>6, <1>7, LenProperties
<1>9. \A i \in DOMAIN wire : i \in DOMAIN wire' /\ wire'[i] = wire[i]
  BY <1>5, <1>7, <1>8, <1>3
<1>10. WireOK'
  <2>1. \A i \in DOMAIN wire' : Exists(wire'[i])
    <3> SUFFICES ASSUME NEW i \in DOMAIN wire' PROVE Exists(wire'[i])
      OBVIOUS
    <3>1. CASE i <= Len(wire)
      <4>1. i \in DOMAIN wire /\ wire'[i] = wire[i]
        BY <3>1, <1>7, <1>8, <1>5, <1>3
      <4> QED BY <4>1 DEF WireOK
    <3>2. CASE i > Len(wire)
      <4>1. i - Len(wire) \in 1..k /\ wire'[i] = t[i - Len(wire)]
        BY <3>2, <1>7, <1>8, <1>5, <1>3
      <4>2. i - Len(wire) \in DOMAIN bytes /\ wire'[i] = bytes[i - Len(wire)]
        BY <4>1, <1>5, <1>1, <1>3
      <4> QED BY <4>2
    <3> QED BY <3>1, <3>2, <1>8
  <2> QED BY <2>1 DEF WireOK, Exists
<1>11. ASSUME disk = "ok" PROVE Ordered(wire') /\ After(wire') = Succ(bytes[k])
  <2>1. ~error
    BY <1>11 DEF ControlOK, Write, TypeOK
  <2>2. Ordered(wire)
    BY <1>11 DEF InOrder
  <2>3. t[1] = After(wire)
    BY <1>1, <1>3, <1>5, <1>11, <2>1
  <2>4. \A i \in DOMAIN t : i > 1 => t[i] = Succ(t[i - 1])
    <3> SUFFICES ASSUME NEW i \in DOMAIN t, i > 1 PROVE t[i] = Succ(t[i - 1])
      OBVIOUS
    <3>1. i \in DOMAIN bytes /\ t[i] = bytes[i] /\ t[i - 1] = bytes[i - 1]
      BY <1>1, <1>3, <1>5
    <3> QED BY <3>1
  <2>5. t[Len(t)] = bytes[k]
    BY <1>3, <1>5
  <2> QED BY <1>5, <1>6, <2>2, <2>3, <2>4, <2>5, Extend
<1>12. InOrder'
  <2>1. disk' = "ok" => disk = "ok"
    BY DEF world
  <2>2. Ordered(wire)' <=> Ordered(wire')
    BY DEF Ordered
  <2> QED BY <1>11, <2>1, <2>2 DEF InOrder
<1> QED BY <1>3, <1>7, <1>9, <1>10, <1>11, <1>12

\* A step that leaves the response, the buffers and the wire alone keeps what
\* the invariant says of them.
LEMMA Frame ==
  ASSUME IInv, UNCHANGED <<cur, status, offset, list, wire>>,
         disk' = "ok" => disk = "ok",
         ~error' => ~error,
         pc' = "done" /\ ~error' => pc = "done" \/ offset = Responses[cur].body
  PROVE  BuffersOK' /\ WireOK' /\ PositionOK' /\ InOrder' /\ RemovedIsSent'
<1>1. BuffersOK'
  BY DEF IInv, BuffersOK, Start, HeadByte
<1>2. WireOK' /\ InOrder'
  BY DEF IInv, WireOK, InOrder, Exists, Ordered, HeadByte, Succ, AfterHead, AfterBody, BodyByte
<1>3. Position' = Position /\ After(wire)' = After(wire)
  BY DEF Position, Start, After, Succ, AfterHead, AfterBody, HeadByte, BodyByte
<1>4. PositionOK'
  BY <1>3 DEF IInv, PositionOK
<1>5. RemovedIsSent'
  BY DEF IInv, RemovedIsSent, LastByte, HeadByte, BodyByte
<1> QED BY <1>1, <1>2, <1>4, <1>5

\* The steps of the handler that only move on, and those of the others.
LEMMA ControlStep ==
  ASSUME IInv, \/ Lock \/ TurnEnd \/ FlushStop \/ FlushEnd \/ BodyBlocked \/ BodyError \/ BodyEnd
               \/ AppendResponse \/ Receive \/ Reset \/ DiskFails
  PROVE  IInv'
<1> USE DEF TypeOK, ControlOK, socket, world, Writable
<1>0. TypeOK /\ ControlOK /\ UNCHANGED <<cur, status, offset, list, wire>>
  BY DEF IInv, Lock, TurnEnd, FlushStop, FlushEnd, BodyBlocked, BodyError, BodyEnd,
         AppendResponse, Receive, Reset, DiskFails
<1>1. ASSUME Lock PROVE IInv'
  <2>1. TypeOK' /\ ControlOK'
    BY <1>0, <1>1 DEF Lock
  <2> QED BY <1>1, <2>1, Frame DEF Lock, IInv
<1>2. ASSUME TurnEnd PROVE IInv'
  <2>1. TypeOK' /\ ControlOK'
    BY <1>0, <1>2 DEF TurnEnd
  <2> QED BY <1>2, <2>1, Frame DEF TurnEnd, IInv
<1>3. ASSUME FlushStop PROVE IInv'
  <2>1. TypeOK' /\ ControlOK'
    BY <1>0, <1>3 DEF FlushStop, Flushing
  <2> QED BY <1>3, <2>1, <1>0, Frame DEF FlushStop, IInv
<1>4. ASSUME FlushEnd PROVE IInv'
  <2>1. TypeOK' /\ ControlOK'
    BY <1>0, <1>4 DEF FlushEnd, Flushing
  <2> QED BY <1>4, <2>1, Frame DEF FlushEnd, IInv
<1>5. ASSUME BodyBlocked PROVE IInv'
  <2>1. TypeOK' /\ ControlOK'
    BY <1>0, <1>5 DEF BodyBlocked
  <2> QED BY <1>5, <2>1, Frame DEF BodyBlocked, IInv
<1>6. ASSUME BodyError PROVE IInv'
  <2>1. TypeOK' /\ ControlOK'
    BY <1>0, <1>6 DEF BodyError, Readable
  <2> QED BY <1>6, <2>1, Frame DEF BodyError, IInv
<1>7. ASSUME BodyEnd PROVE IInv'
  <2>1. TypeOK' /\ ControlOK'
    BY <1>0, <1>7 DEF BodyEnd
  <2>2. cur <= queued
    BY <1>0, <1>7 DEF BodyEnd
  <2>3. PICK left \in Nat : left = Responses[cur].body - offset
    BY <1>0, <2>2, CurrentExists
  <2>4. left = 0
    <3>1. ChunkSize \in Nat \ {0} /\ BodyLeft = <<>>
      BY <1>7, SizesAssumption DEF BodyEnd
    <3>2. SUFFICES ASSUME left >= 1 PROVE BodyLeft # <<>>
      BY <2>3, <3>1
    <3>3. 1 \in DOMAIN BodyLeft
      BY <2>3, <3>1, <3>2 DEF BodyLeft, Least
    <3> QED BY <3>3
  <2>5. offset = Responses[cur].body
    BY <2>3, <2>4, <1>0, <2>2, CurrentExists
  <2> QED BY <1>7, <2>1, <2>5, Frame DEF BodyEnd, IInv
<1>8. ASSUME AppendResponse PROVE IInv'
  <2>1. Len(Responses) \in Nat
    BY ResponsesAssumption, LenProperties
  <2>2. queued' \in 0..Len(Responses) /\ cur' \in 1..(queued' + 1)
    BY <1>0, <1>8, <2>1 DEF AppendResponse
  <2>3. TypeOK'
    BY <1>0, <1>8, <2>2 DEF AppendResponse
  <2>4. ControlOK'
    BY <1>0, <1>8, <2>1 DEF AppendResponse
  <2> QED BY <1>8, <2>3, <2>4, Frame DEF AppendResponse, IInv
<1>9. ASSUME Receive PROVE IInv'
  <2>1. TypeOK' /\ ControlOK'
    BY <1>0, <1>9, SizesAssumption DEF Receive
  <2> QED BY <1>9, <2>1, Frame DEF Receive, IInv
<1>10. ASSUME Reset PROVE IInv'
  <2>1. TypeOK' /\ ControlOK'
    BY <1>0, <1>10 DEF Reset
  <2> QED BY <1>10, <2>1, Frame DEF Reset, IInv
<1>11. ASSUME DiskFails PROVE IInv'
  <2>1. TypeOK' /\ ControlOK'
    BY <1>0, <1>11 DEF DiskFails
  <2> QED BY <1>11, <2>1, Frame DEF DiskFails, IInv
<1> QED BY <1>1, <1>2, <1>3, <1>4, <1>5, <1>6, <1>7, <1>8, <1>9, <1>10, <1>11

\* Formatting a header block puts it into an empty list, whole.
LEMMA TurnStep ==
  ASSUME IInv, Turn
  PROVE  IInv'
<1> USE DEF socket, world, Writable
<1>1. CASE status = "SEND_BODY"
  <2>1. UNCHANGED <<queued, cur, status, offset, list, loops, error, closed, wire, room, peer, disk>>
        /\ pc = "turn" /\ pc' = "flush" /\ cur <= queued
    BY <1>1 DEF Turn
  <2>2. TypeOK' /\ ControlOK'
    BY <1>1, <2>1 DEF IInv, TypeOK, ControlOK
  <2> QED BY <2>1, <2>2, Frame DEF IInv
<1>2. CASE status = "SEND_RESPONSE_LINE"
  <2>1. TypeOK /\ ControlOK /\ list = <<>> /\ offset = 0 /\ cur <= queued /\ pc' = "flush"
    BY <1>2 DEF IInv, ControlOK, Turn
  <2>2. cur \in DOMAIN Responses /\ Responses[cur].head \in Nat \ {0}
    BY <2>1, CurrentExists
  <2>3. PICK src : src = [k \in 1..Responses[cur].head |-> HeadByte(cur, k)]
    OBVIOUS
  <2>4. src \in Seq(Byte) /\ Len(src) \in Nat \ {0} /\ Holds(Filled(src), cur)
    BY <2>2, <2>3, FilledFacts
  <2>5. PICK f : f = Filled(src)
    OBVIOUS
  <2>6. list' = f /\ loops' = FALSE
    <3>1. ListAppend(src)
      BY <1>2, <2>3 DEF Turn
    <3>2. FirstIsNew
      BY <2>1 DEF FirstIsNew
    <3>3. SubSeq(src, 0 + 1, Len(src)) = src
      BY <2>4
    <3>4. f \in Seq(Buffer) /\ loops = FALSE
      BY <2>1, <2>4, <2>5 DEF Holds, ControlOK, TypeOK
    <3>5. list' = list \o f /\ loops' = loops
      BY <3>1, <3>2, <3>3, <3>4, <2>5 DEF ListAppend
    <3> QED BY <3>4, <3>5, <2>1
  <2>7. /\ UNCHANGED <<queued, cur, offset, error, closed, wire, room, peer, disk>>
        /\ status' = "SEND_BODY"
    BY DEF Turn
  <2>8. Holds(f, cur)
    BY <2>4, <2>5
  <2>9. TypeOK'
    <3>1. list' \in Seq(Buffer)
      BY <2>6, <2>8 DEF Holds
    <3>2. \A j \in DOMAIN list' : list'[j].rOffset <= Len(list'[j].data) /\ Len(list'[j].data) <= BufSize
      <4> SUFFICES ASSUME NEW j \in DOMAIN f
                   PROVE  f[j].rOffset <= Len(f[j].data) /\ Len(f[j].data) <= BufSize
        BY <2>6
      <4>1. f[j].rOffset = 0 /\ Len(f[j].data) <= BufSize
        BY <2>8 DEF Holds
      <4>2. f[j] \in Buffer
        <5>1. f \in Seq(Buffer)
          BY <2>6, <3>1
        <5> QED BY <5>1
      <4> QED BY <4>1, <4>2 DEF Buffer
    <3> QED BY <3>1, <3>2, <2>1, <2>6, <2>7 DEF TypeOK, Buffer
  <2>10. ControlOK'
    BY <2>1, <2>6, <2>7 DEF ControlOK, TypeOK
  <2>11. BuffersOK'
    BY <2>6, <2>7, <2>8 DEF BuffersOK, Holds, Start
  <2>12. WireOK' /\ InOrder' /\ RemovedIsSent'
    BY <2>7 DEF IInv, WireOK, InOrder, RemovedIsSent, Exists, Ordered, LastByte,
                HeadByte, Succ, AfterHead, AfterBody, BodyByte
  <2>13. PositionOK'
    <3>1. SUFFICES ASSUME disk = "ok", ~error PROVE After(wire) = Position'
      BY <2>1, <2>7 DEF PositionOK, After, Succ, AfterHead, AfterBody, HeadByte, BodyByte
    <3>2. After(wire) = HeadByte(cur, 1)
      BY <1>2, <3>1 DEF IInv, PositionOK, Position
    <3>3. f # <<>> /\ f[1].data[1].at = 1 /\ f[1].rOffset = 0
      <4>1. f # <<>> /\ f \in Seq(Buffer)
        BY <2>8 DEF Holds
      <4>2. 1 \in DOMAIN f
        BY <4>1
      <4> QED BY <2>8, <4>1, <4>2 DEF Holds
    <3>4. Position' = AfterHead(cur, 1 + 0 - 1)
      BY <2>6, <2>7, <3>3 DEF Position, Start, AfterHead, AfterBody, HeadByte, BodyByte
    <3> QED BY <3>2, <3>4, <2>2 DEF AfterHead, HeadByte
  <2> QED BY <2>9, <2>10, <2>11, <2>12, <2>13 DEF IInv
<1> QED BY <1>1, <1>2 DEF IInv, TypeOK

\* What was sent stays sent.
LEMMA RemovedKept ==
  ASSUME RemovedIsSent, cur' = cur, disk' = disk, error' = error,
         \A i \in DOMAIN wire : i \in DOMAIN wire' /\ wire'[i] = wire[i]
  PROVE  RemovedIsSent'
<1> SUFFICES ASSUME disk = "ok", ~error, NEW r \in 1..(cur - 1)
             PROVE  \E i \in DOMAIN wire' : wire'[i] = LastByte(r)
  BY DEF RemovedIsSent, LastByte, HeadByte, BodyByte
<1>1. PICK i \in DOMAIN wire : wire[i] = LastByte(r)
  BY DEF RemovedIsSent
<1> QED BY <1>1

\* The unread bytes of the first buffer are the next ones of the header block.
LEMMA FirstBuffer ==
  ASSUME IInv, Flushing, list # <<>>
  PROVE  /\ pc = "flush" /\ cur <= queued /\ status = "SEND_BODY" /\ offset = 0
         /\ Head(list) = list[1] /\ 1 \in DOMAIN list /\ list \in Seq(Buffer)
         /\ list[1] \in Buffer /\ list[1].data # <<>>
         /\ Start(1) \in Nat \ {0}
         /\ list[1].rOffset <= Len(list[1].data)
         /\ Start(1) + Len(list[1].data) - 1 <= Responses[cur].head
         /\ \A k \in 1..Len(list[1].data) : list[1].data[k] = HeadByte(cur, Start(1) + k - 1)
<1>1. pc = "flush" /\ cur <= queued /\ status = "SEND_BODY" /\ offset = 0
  BY DEF IInv, ControlOK, TypeOK, Flushing
<1>2. list \in Seq(Buffer)
  BY DEF IInv, TypeOK, Buffer
<1>3. Head(list) = list[1] /\ 1 \in DOMAIN list /\ list[1] \in Buffer
  BY <1>2
<1>4. /\ list[1].data # <<>> /\ Start(1) >= 1
      /\ list[1].rOffset <= Len(list[1].data)
      /\ Start(1) + Len(list[1].data) - 1 <= Responses[cur].head
      /\ \A k \in DOMAIN list[1].data : list[1].data[k] = HeadByte(cur, Start(1) + k - 1)
  BY <1>3, Zenon DEF IInv, BuffersOK, TypeOK
<1>5. DOMAIN list[1].data = 1..Len(list[1].data) /\ list[1].data[1] \in Byte
  BY <1>3, <1>4 DEF Buffer
<1>6. Start(1) \in Nat \ {0}
  BY <1>4, <1>5 DEF Start, Byte
<1> QED BY <1>1, <1>2, <1>3, <1>4, <1>5, <1>6

\* Moving rOffset.
LEMMA Moved ==
  ASSUME NEW b \in Buffer, NEW n \in Nat
  PROVE  /\ [b EXCEPT !.rOffset = n] \in Buffer
         /\ [b EXCEPT !.rOffset = n].data = b.data
         /\ [b EXCEPT !.rOffset = n].rOffset = n
BY DEF Buffer

\* A write from the first buffer.
LEMMA FlushWriteStep ==
  ASSUME IInv, FlushWrite
  PROVE  IInv'
<1>1. Flushing /\ list # <<>> /\ Unread(list[1]) # <<>>
  BY FirstBuffer DEF FlushWrite
<1>2. PICK d : d = list[1].data
  OBVIOUS
<1>3. PICK o : o = list[1].rOffset
  OBVIOUS
<1>4. PICK st \in Nat \ {0} : st = Start(1)
  BY <1>1, FirstBuffer
<1>5. /\ d \in Seq(Byte) /\ d # <<>> /\ o \in Nat /\ o <= Len(d) /\ Len(d) \in Nat
      /\ \A k \in 1..Len(d) : d[k] = HeadByte(cur, st + k - 1)
      /\ st + Len(d) - 1 <= Responses[cur].head
  BY <1>1, <1>2, <1>3, <1>4, FirstBuffer, LenProperties DEF Buffer
<1>6. TypeOK /\ cur <= queued /\ status = "SEND_BODY" /\ pc = "flush" /\ offset = 0
  BY <1>1, FirstBuffer DEF IInv
<1>7. PICK h \in Nat : h = Responses[cur].head
  BY <1>6, CurrentExists
<1>8. PICK bytes : bytes = Unread(list[1])
  OBVIOUS
<1>9. /\ bytes \in Seq(Byte) /\ Len(bytes) = Len(d) - o /\ bytes # <<>> /\ o < Len(d)
      /\ DOMAIN bytes = 1..(Len(d) - o)
      /\ \A i \in 1..(Len(d) - o) : bytes[i] = d[o + i]
  <2>1. bytes = SubSeq(d, o + 1, Len(d))
    BY <1>2, <1>3, <1>8 DEF Unread
  <2>2. /\ bytes \in Seq(Byte) /\ Len(bytes) = Len(d) - o
        /\ \A i \in 1..(Len(d) - o) : bytes[i] = d[o + i]
    BY <2>1, <1>5, Cut
  <2>3. bytes # <<>>
    BY <1>1, <1>8
  <2>4. Len(d) - o >= 1 /\ DOMAIN bytes = 1..(Len(d) - o)
    BY <2>2, <2>3, <1>5
  <2> QED BY <2>2, <2>3, <2>4, <1>5
<1>10. \A i \in 1..(Len(d) - o) : /\ bytes[i] = HeadByte(cur, st + o + i - 1)
                                  /\ st + o + i - 1 >= 1 /\ st + o + i - 1 <= h
  <2> SUFFICES ASSUME NEW i \in 1..(Len(d) - o)
               PROVE  /\ bytes[i] = HeadByte(cur, st + o + i - 1)
                      /\ st + o + i - 1 >= 1 /\ st + o + i - 1 <= h
    OBVIOUS
  <2>1. o + i \in 1..Len(d) /\ st + (o + i) - 1 = st + o + i - 1
    BY <1>4, <1>5
  <2>2. bytes[i] = HeadByte(cur, st + o + i - 1)
    BY <2>1, <1>5, <1>9
  <2>3. st + o + i - 1 >= 1 /\ st + o + i - 1 <= h
    BY <2>1, <1>4, <1>5, <1>7
  <2> QED BY <2>2, <2>3
<1>11. \A i \in DOMAIN bytes : Exists(bytes[i])
  BY <1>6, <1>7, <1>9, <1>10, CurrentExists DEF Exists, HeadByte
<1>12. \A i \in DOMAIN bytes : Succ(bytes[i]) = AfterHead(cur, st + o + i - 1)
  BY <1>9, <1>10 DEF Succ, HeadByte
<1>13. ASSUME NEW i \in DOMAIN bytes, i > 1 PROVE bytes[i] = Succ(bytes[i - 1])
  <2>1. i \in 1..(Len(d) - o) /\ i - 1 \in 1..(Len(d) - o) /\ i - 1 \in DOMAIN bytes
    BY <1>9, <1>13, <1>5
  <2>2. Succ(bytes[i - 1]) = AfterHead(cur, st + o + (i - 1) - 1)
    BY <2>1, <1>12
  <2>3. st + o + (i - 1) - 1 < h /\ (st + o + (i - 1) - 1) + 1 = st + o + i - 1
    BY <2>1, <1>4, <1>5, <1>7, <1>10
  <2>4. AfterHead(cur, st + o + (i - 1) - 1) = HeadByte(cur, st + o + i - 1)
    BY <2>3, <1>7 DEF AfterHead
  <2> QED BY <2>1, <2>2, <2>4, <1>10
<1>14. ASSUME disk = "ok", ~error PROVE After(wire) = bytes[1]
  <2>1. After(wire) = AfterHead(cur, st + o - 1)
    BY <1>1, <1>3, <1>4, <1>6, <1>14 DEF IInv, PositionOK, Position
  <2>2. 1 \in 1..(Len(d) - o) /\ st + o - 1 < h /\ (st + o - 1) + 1 = st + o + 1 - 1
    BY <1>4, <1>5, <1>7, <1>9, <1>10
  <2>3. AfterHead(cur, st + o - 1) = HeadByte(cur, st + o + 1 - 1)
    BY <2>2, <1>7 DEF AfterHead
  <2> QED BY <2>1, <2>2, <2>3, <1>10
<1>15. PICK k \in 1..BufSize : Write(bytes, k) /\ list' = [list EXCEPT ![1].rOffset = @ + k]
  BY <1>1, <1>8, FirstBuffer DEF FlushWrite
<1>16. UNCHANGED <<queued, cur, status, offset, loops, pc, error, closed, peer, disk>>
  BY DEF FlushWrite, world
<1>17. /\ k \in 1..Len(bytes)
       /\ wire' \in Seq(Byte) /\ room' \in 0..SendBuf
       /\ WireOK' /\ InOrder'
       /\ disk = "ok" => After(wire') = Succ(bytes[k])
       /\ \A i \in DOMAIN wire : i \in DOMAIN wire' /\ wire'[i] = wire[i]
  <2>1. TypeOK /\ ControlOK /\ WireOK /\ InOrder /\ UNCHANGED world
    BY <1>16 DEF IInv, world
  <2> QED BY <2>1, <1>9, <1>11, <1>13, <1>14, <1>15, WriteFacts, Zenon
<1>18. /\ list' \in Seq(Buffer) /\ Len(list') = Len(list) /\ DOMAIN list' = DOMAIN list
       /\ \A j \in DOMAIN list : list'[j].data = list[j].data
       /\ \A j \in DOMAIN list : j # 1 => list'[j].rOffset = list[j].rOffset
       /\ list'[1].rOffset = o + k /\ o + k <= Len(d)
  <2>1. list \in Seq(Buffer) /\ 1 \in DOMAIN list /\ k \in Nat /\ o + k <= Len(d) /\ list[1] \in Buffer
    BY <1>1, <1>5, <1>9, <1>17, FirstBuffer
  <2>2. list' = [list EXCEPT ![1] = [list[1] EXCEPT !.rOffset = o + k]]
    BY <1>3, <1>15
  <2>3. [list[1] EXCEPT !.rOffset = o + k] \in Buffer
    <3>1. o + k \in Nat
      BY <2>1, <1>5
    <3> QED BY <2>1, <3>1, Moved, Zenon
  <2>4. list' \in Seq(Buffer) /\ Len(list') = Len(list) /\ DOMAIN list' = DOMAIN list
    BY <2>1, <2>2, <2>3
  <2>5. list'[1] = [list[1] EXCEPT !.rOffset = o + k] /\ \A j \in DOMAIN list : j # 1 => list'[j] = list[j]
    BY <2>1, <2>2
  <2>6. list'[1].data = list[1].data /\ list'[1].rOffset = o + k
    BY <2>1, <2>5 DEF Buffer
  <2> QED BY <2>1, <2>4, <2>5, <2>6, Zenon
<1>19. TypeOK'
  <2>1. \A j \in DOMAIN list' : list'[j].rOffset <= Len(list'[j].data) /\ Len(list'[j].data) <= BufSize
    <3> SUFFICES ASSUME NEW j \in DOMAIN list
                 PROVE  list'[j].rOffset <= Len(list'[j].data) /\ Len(list'[j].data) <= BufSize
      BY <1>18
    <3>1. CASE j = 1
      BY <3>1, <1>2, <1>18, <1>6 DEF TypeOK
    <3>2. CASE j # 1
      BY <3>2, <1>18, <1>6 DEF TypeOK
    <3> QED BY <3>1, <3>2
  <2> QED BY <2>1, <1>6, <1>16, <1>17, <1>18 DEF TypeOK, Buffer
<1>20. ControlOK'
  BY <1>1, <1>6, <1>16 DEF IInv, ControlOK, Writable
<1>21. BuffersOK'
  <2>1. \A j \in DOMAIN list : /\ Start(j)' = Start(j)
                               /\ j > 1 => list'[j].rOffset = 0
    BY <1>18 DEF IInv, BuffersOK, Start
  <2>2. \A j \in DOMAIN list : j < Len(list) => Start(j + 1)' = Start(j + 1)
    <3> SUFFICES ASSUME NEW j \in DOMAIN list, j < Len(list) PROVE j + 1 \in DOMAIN list
      BY <2>1
    <3> QED BY <1>6 DEF TypeOK
  <2>3. cur' = cur
    BY <1>16
  <2> SUFFICES ASSUME NEW j \in DOMAIN list
               PROVE  /\ list'[j].data # <<>>
                      /\ Start(j)' >= 1
                      /\ \A i \in DOMAIN list'[j].data :
                           list'[j].data[i] = HeadByte(cur', Start(j)' + i - 1)
                      /\ j > 1 => list'[j].rOffset = 0
                      /\ Start(j)' + Len(list'[j].data) - 1 <= Responses[cur'].head
                      /\ j < Len(list') => Start(j + 1)' = Start(j)' + Len(list'[j].data)
                      /\ j = Len(list') => Start(j)' + Len(list'[j].data) - 1 = Responses[cur'].head
    BY <1>18 DEF BuffersOK, HeadByte
  <2>4. Start(j)' = Start(j) /\ list'[j].data = list[j].data /\ Len(list') = Len(list)
    BY <2>1, <1>18
  <2> QED BY <2>1, <2>2, <2>3, <2>4, Zenon DEF IInv, BuffersOK
<1>22. PositionOK'
  <2>1. SUFFICES ASSUME disk = "ok", ~error PROVE After(wire)' = Position'
    BY <1>6, <1>16 DEF PositionOK
  <2>2. After(wire') = AfterHead(cur, st + o + k - 1)
    BY <2>1, <1>9, <1>12, <1>17
  <2>3. list' # <<>> /\ Start(1)' = st
    <3>1. 1 \in DOMAIN list /\ DOMAIN list' = DOMAIN list
      BY <1>1, <1>18, FirstBuffer
    <3> QED BY <3>1, <1>4, <1>18 DEF Start
  <2>4. Position' = AfterHead(cur, st + (o + k) - 1)
    BY <2>3, <1>6, <1>16, <1>18 DEF Position, AfterHead, AfterBody, HeadByte, BodyByte
  <2>5. st + (o + k) - 1 = st + o + k - 1
    BY <1>4, <1>5, <1>15, SizesAssumption
  <2> QED BY <2>2, <2>4, <2>5 DEF After, Succ, AfterHead, AfterBody, HeadByte, BodyByte
<1>23. RemovedIsSent'
  BY <1>16, <1>17, RemovedKept DEF IInv
<1> QED BY <1>17, <1>19, <1>20, <1>21, <1>22, <1>23 DEF IInv

\* The next buffer goes on where the one that is deleted ended.
LEMMA FlushDeleteStep ==
  ASSUME IInv, FlushDelete
  PROVE  IInv'
<1>1. Flushing /\ list # <<>> /\ Unread(list[1]) = <<>> /\ list' = Tail(list)
  BY FirstBuffer DEF FlushDelete
<1>2. /\ UNCHANGED <<queued, cur, status, offset, loops, pc, error, closed, wire, room>>
      /\ UNCHANGED <<peer, disk>>
  BY DEF FlushDelete, socket, world
<1>3. /\ TypeOK /\ cur <= queued /\ status = "SEND_BODY" /\ pc = "flush" /\ offset = 0
      /\ list \in Seq(Buffer) /\ 1 \in DOMAIN list
  BY <1>1, FirstBuffer DEF IInv
<1>4. PICK n \in Nat \ {0} : n = Len(list)
  BY <1>1, <1>3, LenProperties, EmptySeq
<1>5. /\ list' \in Seq(Buffer) /\ Len(list') = n - 1 /\ DOMAIN list' = 1..(n - 1)
      /\ \A j \in 1..(n - 1) : list'[j] = list[j + 1] /\ j + 1 \in DOMAIN list
  BY <1>1, <1>3, <1>4
<1>6. TypeOK'
  <2>1. \A j \in DOMAIN list' : list'[j].rOffset <= Len(list'[j].data) /\ Len(list'[j].data) <= BufSize
    BY <1>3, <1>5 DEF TypeOK
  <2> QED BY <2>1, <1>2, <1>3, <1>5 DEF TypeOK, Buffer
<1>7. ControlOK'
  BY <1>2, <1>3 DEF IInv, ControlOK, Writable
<1>8. BuffersOK'
  <2> SUFFICES ASSUME NEW j \in 1..(n - 1)
               PROVE  /\ list'[j].data # <<>>
                      /\ Start(j)' >= 1
                      /\ \A i \in DOMAIN list'[j].data :
                           list'[j].data[i] = HeadByte(cur', Start(j)' + i - 1)
                      /\ j > 1 => list'[j].rOffset = 0
                      /\ Start(j)' + Len(list'[j].data) - 1 <= Responses[cur'].head
                      /\ j < Len(list') => Start(j + 1)' = Start(j)' + Len(list'[j].data)
                      /\ j = Len(list') => Start(j)' + Len(list'[j].data) - 1 = Responses[cur'].head
    BY <1>5 DEF BuffersOK, HeadByte
  <2>1. /\ j + 1 \in DOMAIN list /\ j + 1 > 1 /\ list'[j] = list[j + 1] /\ cur' = cur
        /\ Start(j)' = Start(j + 1)
    BY <1>2, <1>5 DEF Start
  <2>2. j < Len(list') => j + 1 < Len(list) /\ Start(j + 1)' = Start((j + 1) + 1)
    <3>1. SUFFICES ASSUME j < n - 1 PROVE j + 1 < n /\ Start(j + 1)' = Start((j + 1) + 1)
      BY <1>4, <1>5
    <3>2. j + 1 < n /\ j + 1 \in 1..(n - 1)
      BY <3>1, <1>4
    <3>3. list'[j + 1] = list[(j + 1) + 1]
      BY <3>2, <1>5
    <3> QED BY <3>2, <3>3, Zenon DEF Start
  <2>3. j = Len(list') => j + 1 = Len(list)
    BY <1>4, <1>5
  <2> QED BY <2>1, <2>2, <2>3, Zenon DEF IInv, BuffersOK
<1>9. PICK d : d = list[1].data
  OBVIOUS
<1>10. PICK st \in Nat \ {0} : st = Start(1)
  BY <1>1, FirstBuffer
<1>11. d \in Seq(Byte) /\ Len(d) \in Nat /\ list[1].rOffset = Len(d)
  <2>1. d \in Seq(Byte) /\ Len(d) \in Nat /\ list[1].rOffset \in Nat /\ list[1].rOffset <= Len(d)
    BY <1>1, <1>9, FirstBuffer, LenProperties DEF Buffer
  <2>2. Len(Unread(list[1])) = Len(d) - list[1].rOffset
    BY <2>1, <1>9, Cut DEF Unread
  <2>3. Len(Unread(list[1])) = 0
    BY <1>1
  <2> QED BY <2>1, <2>2, <2>3
<1>12. Position = AfterHead(cur, st + Len(d) - 1)
  BY <1>1, <1>3, <1>10, <1>11 DEF Position
<1>13. Position' = Position
  <2>1. CASE n = 1
    <3>1. list' = <<>>
      BY <2>1, <1>5
    <3>2. Position' = AfterBody(cur, 0)
      BY <3>1, <1>2, <1>3 DEF Position, AfterBody, HeadByte, BodyByte
    <3>3. st + Len(d) - 1 = Responses[cur].head
      BY <2>1, <1>3, <1>4, <1>9, <1>10 DEF IInv, BuffersOK
    <3>4. Responses[cur].head \in Nat
      BY <1>3, CurrentExists
    <3>5. AfterHead(cur, st + Len(d) - 1) = AfterBody(cur, 0)
      BY <3>3, <3>4 DEF AfterHead
    <3> QED BY <3>2, <3>5, <1>12
  <2>2. CASE n # 1
    <3>1. 1 \in 1..(n - 1) /\ 1 + 1 = 2 /\ 1 < n
      BY <2>2, <1>4
    <3>2. list' # <<>> /\ list'[1] = list[2] /\ 2 \in DOMAIN list
      BY <3>1, <1>5
    <3>3. Start(1)' = Start(2) /\ list'[1].rOffset = 0
      BY <3>2 DEF Start, IInv, BuffersOK
    <3>4. Start(2) = st + Len(d)
      BY <3>1, <1>3, <1>4, <1>9, <1>10 DEF IInv, BuffersOK
    <3>5. Position' = AfterHead(cur, (st + Len(d)) + 0 - 1)
      BY <3>2, <3>3, <3>4, <1>2, <1>3 DEF Position, AfterHead, AfterBody, HeadByte, BodyByte
    <3>6. (st + Len(d)) + 0 - 1 = st + Len(d) - 1
      BY <1>10, <1>11
    <3> QED BY <3>5, <3>6, <1>12, Zenon
  <2> QED BY <2>1, <2>2
<1>14. PositionOK'
  <2>1. After(wire)' = After(wire)
    BY <1>2 DEF After, Succ, AfterHead, AfterBody, HeadByte, BodyByte
  <2> QED BY <2>1, <1>2, <1>13 DEF IInv, PositionOK
<1>15. WireOK' /\ InOrder' /\ RemovedIsSent'
  BY <1>2 DEF IInv, WireOK, InOrder, RemovedIsSent, Exists, Ordered, LastByte,
              HeadByte, Succ, AfterHead, AfterBody, BodyByte
<1> QED BY <1>6, <1>7, <1>8, <1>14, <1>15 DEF IInv

\* A write of a body, or of a chunk of one.
LEMMA BodyWriteStep ==
  ASSUME IInv, BodyWrite
  PROVE  IInv'
<1>1. /\ TypeOK /\ ControlOK /\ pc = "body" /\ cur <= queued /\ list = <<>> /\ status = "SEND_BODY"
      /\ offset \in Nat
  BY DEF IInv, ControlOK, TypeOK, BodyWrite
<1>2. /\ UNCHANGED <<queued, cur, status, list, loops, pc, error, closed>>
      /\ UNCHANGED <<peer, disk>>
  BY DEF BodyWrite, world
<1>3. PICK len \in Nat : len = Responses[cur].body
  BY <1>1, CurrentExists
<1>4. cur \in DOMAIN Responses /\ cur \in Nat \ {0} /\ offset <= len
  <2>1. cur \in DOMAIN Responses /\ cur \in Nat \ {0}
    BY <1>1, CurrentExists
  <2>2. cur <= Len(Responses)
    BY <2>1, ResponsesAssumption
  <2> QED BY <1>1, <1>3, <2>1, <2>2 DEF TypeOK
<1>5. PICK bytes : bytes = BodyLeft
  OBVIOUS
<1>6. PICK n \in Nat : n <= len - offset /\ bytes = [i \in 1..n |-> BodyByte(cur, offset + i)]
  <2>1. Least(len - offset, ChunkSize) \in Nat /\ Least(len - offset, ChunkSize) <= len - offset
    BY <1>1, <1>3, <1>4, SizesAssumption DEF Least
  <2>2. CASE Responses[cur].kind = "BODY_FILE"
    <3>1. bytes = [i \in 1..Least(len - offset, ChunkSize) |-> BodyByte(cur, offset + i)]
      BY <2>2, <1>3, <1>5 DEF BodyLeft
    <3> QED BY <3>1, <2>1
  <2>3. CASE Responses[cur].kind # "BODY_FILE"
    <3>1. bytes = [i \in 1..(len - offset) |-> BodyByte(cur, offset + i)]
      BY <2>3, <1>3, <1>5 DEF BodyLeft
    <3>2. len - offset \in Nat /\ len - offset <= len - offset
      BY <1>1, <1>3, <1>4
    <3> QED BY <3>1, <3>2
  <2> QED BY <2>2, <2>3
<1>7. /\ bytes \in Seq(Byte) /\ Len(bytes) = n /\ DOMAIN bytes = 1..n /\ bytes # <<>>
      /\ \A i \in 1..n : bytes[i] = BodyByte(cur, offset + i)
  <2>1. \A i \in 1..n : BodyByte(cur, offset + i) \in Byte
    BY <1>1, <1>4, <1>6 DEF BodyByte, Byte
  <2>2. bytes \in [1..n -> Byte]
    BY <2>1, <1>6
  <2>3. bytes # <<>>
    BY <1>5 DEF BodyWrite
  <2> QED BY <2>2, <2>3, <1>6, FunctionSeq
<1>8. \A i \in 1..n : offset + i \in Nat /\ offset + i >= 1 /\ offset + i <= len
  BY <1>1, <1>3, <1>4, <1>6
<1>9. \A i \in DOMAIN bytes : Exists(bytes[i])
  BY <1>3, <1>4, <1>7, <1>8 DEF Exists, BodyByte
<1>10. \A i \in DOMAIN bytes : Succ(bytes[i]) = AfterBody(cur, offset + i)
  BY <1>7 DEF Succ, BodyByte
<1>11. ASSUME NEW i \in DOMAIN bytes, i > 1 PROVE bytes[i] = Succ(bytes[i - 1])
  <2>1. i \in 1..n /\ i - 1 \in DOMAIN bytes
    BY <1>6, <1>7, <1>11
  <2>2. Succ(bytes[i - 1]) = AfterBody(cur, offset + (i - 1))
    BY <2>1, <1>10
  <2>3. offset + (i - 1) < len /\ (offset + (i - 1)) + 1 = offset + i
    <3>1. offset + i <= len /\ i \in Nat /\ len \in Nat /\ offset \in Nat
      BY <2>1, <1>1, <1>3, <1>6, <1>8
    <3> QED BY <3>1
  <2>4. AfterBody(cur, offset + (i - 1)) = BodyByte(cur, offset + i)
    BY <2>3, <1>3 DEF AfterBody
  <2> QED BY <2>1, <2>2, <2>4, <1>7
<1>12. ASSUME disk = "ok", ~error PROVE After(wire) = bytes[1]
  <2>1. After(wire) = AfterBody(cur, offset)
    BY <1>1, <1>12 DEF IInv, PositionOK, Position
  <2>2. 1 \in 1..n
    BY <1>6, <1>7
  <2>3. offset < len
    BY <2>2, <1>1, <1>3, <1>8
  <2> QED BY <2>1, <2>2, <2>3, <1>3, <1>7 DEF AfterBody
<1>13. PICK k : Write(bytes, k) /\ offset' = offset + k
  BY <1>5 DEF BodyWrite
<1>14. /\ k \in 1..Len(bytes)
       /\ wire' \in Seq(Byte) /\ room' \in 0..SendBuf
       /\ WireOK' /\ InOrder'
       /\ disk = "ok" => After(wire') = Succ(bytes[k])
       /\ \A i \in DOMAIN wire : i \in DOMAIN wire' /\ wire'[i] = wire[i]
  <2>1. WireOK /\ InOrder /\ UNCHANGED world
    BY <1>2 DEF IInv, world
  <2> QED BY <2>1, <1>1, <1>7, <1>9, <1>11, <1>12, <1>13, WriteFacts, Zenon
<1>15. offset' \in Nat /\ offset' <= len
  BY <1>7, <1>8, <1>13, <1>14
<1>16. TypeOK'
  BY <1>1, <1>2, <1>3, <1>14, <1>15 DEF TypeOK
<1>17. ControlOK'
  BY <1>1, <1>2 DEF ControlOK, Writable
<1>18. BuffersOK'
  BY <1>1, <1>2 DEF BuffersOK
<1>19. PositionOK'
  <2>1. SUFFICES ASSUME disk = "ok" PROVE After(wire)' = Position'
    BY <1>1, <1>2 DEF PositionOK
  <2>2. After(wire') = AfterBody(cur, offset')
    BY <2>1, <1>7, <1>10, <1>13, <1>14
  <2>3. Position' = AfterBody(cur, offset')
    BY <1>1, <1>2 DEF Position, AfterBody, HeadByte, BodyByte
  <2> QED BY <2>2, <2>3 DEF After, Succ, AfterHead, AfterBody, HeadByte, BodyByte
<1>20. RemovedIsSent'
  BY <1>2, <1>14, RemovedKept DEF IInv
<1> QED BY <1>14, <1>16, <1>17, <1>18, <1>19, <1>20 DEF IInv

\* The byte before the first of a response is the last of the one before it.
LEMMA BeforeHead ==
  ASSUME NEW b \in Byte, Exists(b), NEW r \in DOMAIN Responses, Succ(b) = HeadByte(r + 1, 1)
  PROVE  b = LastByte(r)
<1>1. b = [resp |-> b.resp, part |-> b.part, at |-> b.at]
      /\ b.resp \in Nat /\ b.at \in Nat /\ b.part \in {"head", "body"}
  BY DEF Byte
<1>2. /\ b.resp \in DOMAIN Responses /\ r \in Nat
      /\ Responses[b.resp].head \in Nat \ {0} /\ Responses[b.resp].body \in Nat
  BY ResponseType, ResponsesAssumption, LenProperties DEF Exists
<1>3. CASE b.part = "head"
  <2>1. b.at >= 1 /\ b.at <= Responses[b.resp].head
    BY <1>3 DEF Exists
  <2>2. AfterHead(b.resp, b.at) = HeadByte(r + 1, 1)
    BY <1>3 DEF Succ
  <2>3. b.at = Responses[b.resp].head
    BY <2>1, <2>2, <1>1, <1>2 DEF AfterHead, HeadByte
  <2>4. AfterBody(b.resp, 0) = HeadByte(r + 1, 1)
    BY <2>2, <2>3, <1>1, <1>2 DEF AfterHead
  <2>5. Responses[b.resp].body = 0 /\ b.resp = r
    BY <2>4, <1>1, <1>2 DEF AfterBody, HeadByte, BodyByte
  <2> QED BY <2>3, <2>5, <1>1, <1>3 DEF LastByte, HeadByte
<1>4. CASE b.part = "body"
  <2>1. b.at >= 1 /\ b.at <= Responses[b.resp].body
    BY <1>4 DEF Exists
  <2>2. AfterBody(b.resp, b.at) = HeadByte(r + 1, 1)
    BY <1>4 DEF Succ
  <2>3. b.at = Responses[b.resp].body /\ b.resp = r
    BY <2>1, <2>2, <1>1, <1>2 DEF AfterBody, HeadByte, BodyByte
  <2>4. Responses[r].body > 0
    BY <2>1, <2>3, <1>1
  <2> QED BY <2>3, <2>4, <1>1, <1>4 DEF LastByte, BodyByte
<1> QED BY <1>1, <1>3, <1>4

\* A response is removed after its last byte.
LEMMA DoneStep ==
  ASSUME IInv, Done
  PROVE  IInv'
<1>1. /\ TypeOK /\ ControlOK /\ pc = "done" /\ cur <= queued /\ list = <<>> /\ status = "SEND_BODY"
  BY DEF IInv, ControlOK, TypeOK, Done
<1>2. /\ cur' = cur + 1 /\ status' = "SEND_RESPONSE_LINE" /\ offset' = 0
      /\ closed' = (closed \/ Responses[cur].close)
      /\ pc' \in {"idle", "turn"}
      /\ UNCHANGED <<queued, list, loops, error, wire, room, peer, disk>>
  BY DEF Done, socket, world
<1>3. cur \in DOMAIN Responses /\ cur \in Nat \ {0} /\ Responses[cur].body \in Nat
  BY <1>1, CurrentExists
<1>4. TypeOK'
  <2>1. cur' \in 1..(queued' + 1)
    BY <1>1, <1>2 DEF TypeOK
  <2>2. cur' <= Len(Responses) => offset' <= Responses[cur'].body
    <3>1. SUFFICES ASSUME cur' <= Len(Responses) PROVE Responses[cur'].body \in Nat
      BY <1>2
    <3>2. cur' \in DOMAIN Responses
      BY <3>1, <1>2, <1>3, ResponsesAssumption, LenProperties
    <3> QED BY <3>2, ResponseType
  <2>3. closed' \in BOOLEAN
    BY <1>1, <1>2, <1>3, ResponseType DEF TypeOK
  <2> QED BY <2>1, <2>2, <2>3, <1>1, <1>2 DEF TypeOK
<1>5. ControlOK'
  BY <1>1, <1>2 DEF ControlOK, Writable
<1>6. BuffersOK'
  BY <1>1, <1>2 DEF BuffersOK
<1>7. WireOK' /\ InOrder'
  BY <1>2 DEF IInv, WireOK, InOrder, Exists, Ordered, HeadByte, Succ, AfterHead, AfterBody, BodyByte
<1>8. ASSUME disk = "ok", ~error PROVE After(wire) = HeadByte(cur + 1, 1)
  <2>1. offset = Responses[cur].body /\ After(wire) = AfterBody(cur, offset)
    BY <1>1, <1>8 DEF IInv, PositionOK, Position
  <2> QED BY <2>1, <1>3 DEF AfterBody
<1>9. PositionOK'
  <2>1. Position' = HeadByte(cur + 1, 1)
    BY <1>2 DEF Position, HeadByte
  <2>2. After(wire)' = After(wire)
    BY <1>2 DEF After, Succ, AfterHead, AfterBody, HeadByte, BodyByte
  <2> QED BY <2>1, <2>2, <1>2, <1>8 DEF PositionOK
<1>10. RemovedIsSent'
  <2> SUFFICES ASSUME disk = "ok", ~error, NEW r \in 1..cur
               PROVE  \E i \in DOMAIN wire : wire[i] = LastByte(r)
    <3>1. 1..(cur' - 1) = 1..cur
      BY <1>2, <1>3
    <3> QED BY <3>1, <1>2 DEF RemovedIsSent, LastByte, HeadByte, BodyByte
  <2>1. CASE r < cur
    <3>1. r \in 1..(cur - 1)
      BY <2>1, <1>3
    <3> QED BY <3>1 DEF IInv, RemovedIsSent
  <2>2. CASE r = cur
    <3>1. After(wire) = HeadByte(cur + 1, 1)
      BY <1>8
    <3>2. wire # <<>>
      BY <3>1, <1>3 DEF After, HeadByte
    <3>3. Len(wire) \in DOMAIN wire /\ wire[Len(wire)] \in Byte
      BY <3>2, <1>1 DEF TypeOK
    <3>4. Succ(wire[Len(wire)]) = HeadByte(cur + 1, 1)
      BY <3>1, <3>2 DEF After
    <3>5. Exists(wire[Len(wire)])
      BY <3>3 DEF IInv, WireOK
    <3>6. wire[Len(wire)] = LastByte(cur)
      BY <3>3, <3>4, <3>5, <1>3, BeforeHead, Zenon
    <3> QED BY <2>2, <3>3, <3>6
  <2> QED BY <2>1, <2>2, <1>3
<1> QED BY <1>4, <1>5, <1>6, <1>7, <1>9, <1>10 DEF IInv
--------------------------------------------------------------------------------
\* Every step keeps the invariant.
LEMMA NextStep ==
  ASSUME IInv, [Next]_vars
  PROVE  IInv'
<1>1. CASE UNCHANGED vars
  <2>1. UNCHANGED <<cur, status, offset, list, wire>> /\ UNCHANGED <<pc, error, disk>>
    BY <1>1 DEF vars, socket, world
  <2>2. TypeOK' /\ ControlOK'
    BY <1>1 DEF IInv, TypeOK, ControlOK, Writable, vars, socket, world
  <2> QED BY <2>1, <2>2, Frame DEF IInv
<1>2. CASE Next
  BY <1>2, ControlStep, TurnStep, FlushWriteStep, FlushDeleteStep, BodyWriteStep, DoneStep
     DEF Next, Handler
<1> QED BY <1>1, <1>2

\* The invariant holds in every state of the write path (server_loop_write,
\* data_buffer_list_append, data_buffer_list_writeto_fd, http_body_writeto_fd).
THEOREM Invariance == Spec => []IInv
<1>1. Init => IInv
  <2> SUFFICES ASSUME Init PROVE IInv
    OBVIOUS
  <2>1. Len(Responses) \in Nat /\ DOMAIN Responses = 1..Len(Responses)
    BY ResponsesAssumption, LenProperties
  <2>2. 1 <= Len(Responses) => 0 <= Responses[1].body
    BY <2>1, ResponseType
  <2>3. TypeOK
    <3>1. queued \in 0..Len(Responses) /\ cur \in 1..(queued + 1) /\ room \in 0..SendBuf
      BY <2>1, SizesAssumption DEF Init
    <3>2. offset \in Nat /\ (cur <= Len(Responses) => offset <= Responses[cur].body)
      BY <2>2 DEF Init
    <3>3. wire \in Seq(Byte)
      BY DEF Init
    <3>4. /\ list \in Seq([data : Seq(Byte), rOffset : Nat])
          /\ \A j \in DOMAIN list : list[j].rOffset <= Len(list[j].data) /\ Len(list[j].data) <= BufSize
      BY DEF Init
    <3> QED BY <3>1, <3>2, <3>3, <3>4 DEF Init, TypeOK
  <2>4. ControlOK /\ BuffersOK /\ WireOK
    BY DEF Init, ControlOK, BuffersOK, WireOK
  <2>5. PositionOK
    BY DEF Init, PositionOK, Position, After
  <2>6. InOrder
    BY DEF Init, InOrder, Ordered
  <2>7. RemovedIsSent
    BY DEF Init, RemovedIsSent
  <2> QED BY <2>3, <2>4, <2>5, <2>6, <2>7 DEF IInv
<1>2. IInv /\ [Next]_vars => IInv'
  BY NextStep
<1> QED BY <1>1, <1>2, PTL DEF Spec

\* The client gets the bytes of the responses once and in order, whatever
\* their lengths, the sizes of buffers and chunks and the partial writes, while
\* files can be read (data_buffer_list_writeto_fd, http_body_writeto_fd).
THEOREM InOrderCorrect == Spec => []InOrder
<1>1. IInv => InOrder
  BY DEF IInv
<1> QED BY <1>1, Invariance, PTL

\* A response leaves pending_responses only after its last byte, unless the
\* socket or the file failed (server_loop_write).
THEOREM RemovedCorrect == Spec => []RemovedIsSent
<1>1. IInv => RemovedIsSent
  BY DEF IInv
<1> QED BY <1>1, Invariance, PTL

\* data_buffer_list_append never makes pending_writes circular.
THEOREM StraightCorrect == Spec => []ListStraight
<1>1. IInv => ListStraight
  BY DEF IInv, ControlOK, ListStraight
<1> QED BY <1>1, Invariance, PTL

\* No buffer holds more than data_buffer_new allocated or is read past what
\* data_buffer_list_append put in.
THEOREM TypeCorrect == Spec => []TypeOK
<1>1. IInv => TypeOK
  BY DEF IInv
<1> QED BY <1>1, Invariance, PTL
================================================================================

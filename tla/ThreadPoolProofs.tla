---------------------------- MODULE ThreadPoolProofs ---------------------------
(***************************************************************************)
(* Proofs about thread-pool.c as ThreadPool models it, for any number of   *)
(* thread structures, any limits of the pool and any number of items.      *)
(***************************************************************************)
EXTENDS ThreadPool, FiniteSetTheorems, SequenceTheorems, TLAPS

\* The places of a thread, of the manager and of the main thread.
TPC == {"free", "check", "fetch", "waiting", "woken", "busy", "exited"}
Managing == {"boot", "scale", "reap", "drain"}
MPC == Managing \cup {"flag", "ping", "stop", "join", "done"}
Main == {"run", "join", "delete", "again", "stopped", "fatal"}

TypeOK == /\ threads \in Seq(Thread)
          /\ stop \in [Thread -> BOOLEAN]
          /\ tpc \in [Thread -> TPC]
          /\ cancel \in [Thread -> BOOLEAN]
          /\ ready \in Nat
          /\ blocked \in Nat
          /\ mutex \in Thread \cup {None}
          /\ mpc \in MPC
          /\ rest \in Seq(Thread)
          /\ last \in Nat
          /\ main \in Main

\* The list holds every thread that has started and was not deleted, once.
Distinct(s) == \A i, j \in DOMAIN s : s[i] = s[j] => i = j
ListOK == /\ Distinct(threads)
          /\ \A t \in Thread : tpc[t] # "free" <=> t \in Listed

\* Up to the end of the drain no thread is cancelled, only a listed thread is
\* told to stop, and none of the last min_threads of the list ever is: new
\* threads are put before them, and the head is stopped only if it is none of
\* them.  A thread ends because it was told to.
StopOK == mpc \in Managing =>
            /\ \A t \in Thread : ~cancel[t]
            /\ \A t \in Thread : tpc[t] = "exited" => stop[t]
            /\ \A t \in Thread : stop[t] => t \in Listed
            /\ \A i \in DOMAIN threads :
                 stop[threads[i]] => i + MinThreads <= Len(threads)

\* The length of the list while the pool starts and while it is managed.
LengthOK == /\ mpc = "boot" => Len(threads) <= MinThreads
            /\ mpc \in {"scale", "reap", "drain"} =>
                 MinThreads <= Len(threads) /\ Len(threads) <= Cap

\* The manager stops the threads after the flag of the main thread, in the
\* order of the list, whose head is the next one, and ends with an empty list.
EndOK == /\ mpc \notin {"boot", "scale", "reap"} => main # "run"
         /\ mpc \notin Managing => ready = 0
         /\ mpc \in {"stop", "join"} => rest = threads
         /\ mpc = "join" => rest # <<>>
         /\ mpc = "done" => threads = <<>>
         /\ main \notin {"run", "join"} => mpc = "done"

\* The inductive invariant.
IInv == TypeOK /\ ListOK /\ StopOK /\ LengthOK /\ EndOK

\* The queue is cleared and deleted (server_stop_pools) when no thread of the
\* pool is left that could use it.
QueueUnused == main \notin {"run", "join"} => \A t \in Thread : ~Alive(t)

\* thread_pool_remove_thread unlinks one node: the nodes behind it move up.
LEMMA RemoveAtFacts ==
  ASSUME NEW s \in Seq(Thread), NEW k \in DOMAIN s
  PROVE  /\ RemoveAt(s, k) \in Seq(Thread)
         /\ Len(RemoveAt(s, k)) = Len(s) - 1
         /\ \A j \in 1..(Len(s) - 1) :
              RemoveAt(s, k)[j] = s[IF j < k THEN j ELSE j + 1]
<1> DEFINE a == SubSeq(s, 1, k - 1)
           b == SubSeq(s, k + 1, Len(s))
<1>1. k \in 1..Len(s) /\ Len(s) \in Nat
  OBVIOUS
<1>2. a \in Seq(Thread) /\ Len(a) = k - 1 /\ \A j \in 1..(k - 1) : a[j] = s[j]
  BY <1>1
<1>3. /\ b \in Seq(Thread)
      /\ Len(b) = Len(s) - k
      /\ \A j \in 1..(Len(s) - k) : b[j] = s[k + j]
  BY <1>1
<1>4. RemoveAt(s, k) = a \o b
  BY DEF RemoveAt
<1> HIDE DEF a, b
<1>5. /\ a \o b \in Seq(Thread)
      /\ Len(a \o b) = Len(s) - 1
  BY <1>1, <1>2, <1>3
<1>6. ASSUME NEW j \in 1..(Len(s) - 1)
      PROVE  (a \o b)[j] = s[IF j < k THEN j ELSE j + 1]
  <2>1. CASE j < k
    <3>1. j \in 1..Len(a)
      BY <1>1, <1>2, <2>1
    <3>2. (a \o b)[j] = a[j]
      BY <1>2, <1>3, <3>1, ConcatProperties
    <3> QED BY <1>1, <1>2, <2>1, <3>1, <3>2
  <2>2. CASE j >= k
    <3>1. /\ j \in 1..(Len(a) + Len(b)) /\ ~(j <= Len(a))
          /\ j - Len(a) = j - k + 1
      BY <1>1, <1>2, <1>3, <2>2
    <3>2. (a \o b)[j] = b[j - k + 1]
      <4>1. (a \o b)[j] = IF j <= Len(a) THEN a[j] ELSE b[j - Len(a)]
        BY <1>2, <1>3, <3>1, ConcatProperties, Zenon
      <4> QED BY <3>1, <4>1
    <3>3. j - k + 1 \in 1..(Len(s) - k) /\ k + (j - k + 1) = j + 1 /\ ~(j < k)
      BY <1>1, <2>2
    <3> QED BY <1>3, <3>2, <3>3
  <2>3. j < k \/ j >= k
    BY <1>1
  <2> QED BY <2>1, <2>2, <2>3
<1> QED BY <1>4, <1>5, <1>6

\* The list without a thread that was in it.
LEMMA RemoveFacts ==
  ASSUME threads \in Seq(Thread), Distinct(threads), NEW t \in Listed, RemoveThread(t)
  PROVE  /\ threads' \in Seq(Thread)
         /\ Distinct(threads')
         /\ Listed' = Listed \ {t}
         /\ \E k \in DOMAIN threads :
              /\ threads[k] = t
              /\ Len(threads') = Len(threads) - 1
              /\ \A j \in DOMAIN threads' :
                   threads'[j] = threads[IF j < k THEN j ELSE j + 1]
<1> DEFINE k == CHOOSE i \in DOMAIN threads : threads[i] = t
           at(j) == IF j < k THEN j ELSE j + 1
<1>1. k \in DOMAIN threads /\ threads[k] = t
  BY DEF Listed
<1>2. threads' = RemoveAt(threads, k)
  BY DEF RemoveThread
<1> HIDE DEF k
<1>3. /\ threads' \in Seq(Thread)
      /\ Len(threads') = Len(threads) - 1
      /\ \A j \in 1..(Len(threads) - 1) : threads'[j] = threads[at(j)]
  BY <1>1, <1>2, RemoveAtFacts
<1>4. DOMAIN threads' = 1..(Len(threads) - 1) /\ DOMAIN threads = 1..Len(threads)
      /\ Len(threads) \in Nat /\ k \in Nat
  BY <1>1, <1>3
<1>5. \A j \in DOMAIN threads' : at(j) \in DOMAIN threads /\ at(j) # k
  BY <1>1, <1>4
<1>6. \A i, j \in DOMAIN threads' : at(i) = at(j) => i = j
  BY <1>4
<1>7. Distinct(threads')
  <2> SUFFICES ASSUME NEW i \in DOMAIN threads', NEW j \in DOMAIN threads',
                      threads'[i] = threads'[j]
               PROVE  i = j
    BY DEF Distinct
  <2>1. threads[at(i)] = threads[at(j)]
    BY <1>3, <1>4
  <2>2. at(i) = at(j)
    BY <1>5, <2>1 DEF Distinct
  <2> QED BY <1>6, <2>2
<1>8. \A i \in DOMAIN threads : i # k => \E j \in DOMAIN threads' : i = at(j)
  <2> SUFFICES ASSUME NEW i \in DOMAIN threads, i # k
               PROVE  \E j \in DOMAIN threads' : i = at(j)
    OBVIOUS
  <2>1. CASE i < k
    <3>1. i \in DOMAIN threads' /\ i = at(i)
      BY <1>1, <1>4, <2>1
    <3> QED BY <3>1
  <2>2. CASE i > k
    <3>1. i - 1 \in DOMAIN threads' /\ i = at(i - 1)
      BY <1>1, <1>4, <2>2
    <3> QED BY <3>1
  <2> QED BY <1>4, <2>1, <2>2
<1>9. Listed' = Listed \ {t}
  <2>1. Listed' = {threads'[j] : j \in DOMAIN threads'}
    BY DEF Listed
  <2>2. ASSUME NEW u \in Listed' PROVE u \in Listed \ {t}
    <3>1. PICK j \in DOMAIN threads' : u = threads'[j]
      BY <2>1
    <3>2. u = threads[at(j)] /\ at(j) \in DOMAIN threads /\ at(j) # k
      BY <1>3, <1>4, <1>5, <3>1
    <3>3. u # t
      BY <1>1, <3>2 DEF Distinct
    <3> QED BY <3>2, <3>3 DEF Listed
  <2>3. ASSUME NEW u \in Listed, u # t PROVE u \in Listed'
    <3>1. PICK i \in DOMAIN threads : u = threads[i]
      BY DEF Listed
    <3>2. PICK j \in DOMAIN threads' : i = at(j)
      BY <1>1, <1>8, <2>3, <3>1
    <3>3. u = threads'[j]
      BY <1>3, <1>4, <3>1, <3>2
    <3> QED BY <2>1, <3>3
  <2> QED BY <2>2, <2>3
<1> QED BY <1>1, <1>3, <1>4, <1>7, <1>9

\* The list with a new thread as its head.
LEMMA AddFacts ==
  ASSUME threads \in Seq(Thread), Distinct(threads),
         NEW t \in Thread, t \notin Listed, threads' = <<t>> \o threads
  PROVE  /\ threads' \in Seq(Thread)
         /\ Distinct(threads')
         /\ Listed' = Listed \cup {t}
         /\ Len(threads') = Len(threads) + 1
         /\ \A j \in DOMAIN threads' :
              threads'[j] = IF j = 1 THEN t ELSE threads[j - 1]
<1>1. /\ threads' \in Seq(Thread)
      /\ Len(threads') = Len(threads) + 1
      /\ DOMAIN threads' = 1..(Len(threads) + 1)
      /\ DOMAIN threads = 1..Len(threads)
      /\ Len(threads) \in Nat
  OBVIOUS
<1>2. threads'[1] = t
  OBVIOUS
<1>3. \A j \in DOMAIN threads : threads'[j + 1] = threads[j]
  BY <1>1
<1>4. \A j \in DOMAIN threads' : j = 1 \/ (j - 1 \in DOMAIN threads /\ (j - 1) + 1 = j)
  BY <1>1
<1>5. \A j \in DOMAIN threads' : threads'[j] = IF j = 1 THEN t ELSE threads[j - 1]
  BY <1>2, <1>3, <1>4
<1>6. Listed' = Listed \cup {t}
  <2>1. Listed' = {threads'[j] : j \in DOMAIN threads'}
    BY DEF Listed
  <2>2. 1 \in DOMAIN threads' /\ \A j \in DOMAIN threads : j + 1 \in DOMAIN threads'
    BY <1>1
  <2> QED BY <1>2, <1>3, <1>4, <1>5, <2>1, <2>2 DEF Listed
<1>7. Distinct(threads')
  <2> SUFFICES ASSUME NEW i \in DOMAIN threads', NEW j \in DOMAIN threads',
                      threads'[i] = threads'[j]
               PROVE  i = j
    BY DEF Distinct
  <2>1. CASE i = 1 \/ j = 1
    BY <1>4, <1>5, <2>1 DEF Listed
  <2>2. CASE i # 1 /\ j # 1
    <3>1. i - 1 = j - 1
      BY <1>4, <1>5, <2>2 DEF Distinct
    <3> QED BY <1>1, <3>1
  <2> QED BY <2>1, <2>2
<1> QED BY <1>1, <1>5, <1>6, <1>7

\* A signal changes nothing but "waiting" to "woken".
LEMMA SignalFacts ==
  ASSUME NEW f \in [Thread -> TPC], NEW g \in Signal(f)
  PROVE  /\ g \in [Thread -> TPC]
         /\ \A t \in Thread : g[t] = f[t] \/ (f[t] = "waiting" /\ g[t] = "woken")
<1>1. CASE {t \in Thread : f[t] = "waiting"} = {}
  BY <1>1 DEF Signal
<1>2. CASE {t \in Thread : f[t] = "waiting"} # {}
  <2>1. PICK t \in Thread : f[t] = "waiting" /\ g = [f EXCEPT ![t] = "woken"]
    BY <1>2 DEF Signal
  <2> QED BY <2>1 DEF TPC
<1> QED BY <1>1, <1>2

\* What a step of a thread, of the event loop or of the queue may do: no list
\* and no flag changes, a thread ends only if it was told to stop or was
\* cancelled, and items become ready only while the event loop runs.
PoolQueue == AddItem \/ UnblockItem \/ RemoveItem
PoolThread == \E t \in Thread : ThreadStep(t) \/ SpuriousWake(t)
PoolStep == /\ UNCHANGED <<threads, stop, cancel, mpc, rest, last, main>>
            /\ tpc' \in [Thread -> TPC]
            /\ \A t \in Thread :
                 /\ tpc'[t] = "free" <=> tpc[t] = "free"
                 /\ tpc'[t] = "exited" => tpc[t] = "exited" \/ stop[t] \/ cancel[t]
            /\ ready' \in Nat
            /\ blocked' \in Nat
            /\ mutex' \in Thread \cup {None}
            /\ main # "run" => ready' <= ready

\* Steps of the queue and of the threads are of that form.
LEMMA PoolStepFacts ==
  ASSUME TypeOK, PoolQueue \/ PoolThread
  PROVE  PoolStep
<1> USE DEF TypeOK, PoolStep
<1>1. CASE AddItem
  <2>1. tpc' \in Signal(tpc)
    BY <1>1 DEF AddItem
  <2> QED BY <1>1, <2>1, SignalFacts DEF AddItem
<1>2. CASE UnblockItem
  <2>1. tpc' \in Signal(tpc)
    BY <1>2 DEF UnblockItem
  <2> QED BY <1>2, <2>1, SignalFacts DEF UnblockItem
<1>3. CASE RemoveItem
  BY <1>3 DEF RemoveItem
<1>4. ASSUME NEW t \in Thread, CheckStop(t) PROVE PoolStep
  BY <1>4 DEF CheckStop, qvars, TPC
<1>5. ASSUME NEW t \in Thread, Fetch(t) PROVE PoolStep
  BY <1>5 DEF Fetch, TakeOrNull, TPC
<1>6. ASSUME NEW t \in Thread, Wake(t) PROVE PoolStep
  BY <1>6 DEF Wake, TakeOrNull, TPC
<1>7. ASSUME NEW t \in Thread, SpuriousWake(t) PROVE PoolStep
  BY <1>7 DEF SpuriousWake, qvars, TPC
<1>8. ASSUME NEW t \in Thread, NEW b \in BOOLEAN, Return(t, b) PROVE PoolStep
  BY <1>8 DEF Return, TPC
<1>9. ASSUME NEW t \in Thread, Cancelled(t) PROVE PoolStep
  BY <1>9 DEF Cancelled, TPC
<1> QED
  BY <1>1, <1>2, <1>3, <1>4, <1>5, <1>6, <1>7, <1>8, <1>9
  DEF PoolQueue, PoolThread, ThreadStep

\* The types.
LEMMA TypeStep ==
  ASSUME TypeOK, ListOK, EndOK, [Next]_vars
  PROVE  TypeOK'
<1> USE DEF TypeOK
<1>1. ASSUME NEW t \in Listed, RemoveThread(t)
      PROVE  /\ threads' \in Seq(Thread)
             /\ tpc' \in [Thread -> TPC]
             /\ stop' \in [Thread -> BOOLEAN]
             /\ cancel' \in [Thread -> BOOLEAN]
  <2>1. threads' \in Seq(Thread)
    BY <1>1, RemoveFacts DEF ListOK
  <2> QED BY <1>1, <2>1 DEF RemoveThread, TPC
<1>2. ASSUME AddThread
      PROVE  threads' \in Seq(Thread) /\ tpc' \in [Thread -> TPC]
  <2>1. PICK t \in Thread : /\ tpc[t] = "free"
                            /\ tpc' = [tpc EXCEPT ![t] = "check"]
                            /\ threads' = <<t>> \o threads
    BY <1>2 DEF AddThread
  <2>2. t \notin Listed
    BY <2>1 DEF ListOK
  <2>3. threads' \in Seq(Thread)
    BY <2>1, <2>2, AddFacts DEF ListOK
  <2> QED BY <2>1, <2>3 DEF TPC
<1>3. ASSUME rest # <<>>
      PROVE  Head(rest) \in Thread /\ Tail(rest) \in Seq(Thread)
  BY <1>3
<1>4. CASE PoolQueue \/ PoolThread
  BY <1>4, PoolStepFacts DEF PoolStep
<1>5. CASE Boot
  BY <1>2, <1>5 DEF Boot, AddThread, qvars, MPC, Managing
<1>6. CASE Scale
  <2>1. threads' \in Seq(Thread) /\ tpc' \in [Thread -> TPC]
        /\ stop' \in [Thread -> BOOLEAN] /\ cancel' \in [Thread -> BOOLEAN]
    BY <1>2, <1>6 DEF Scale, AddThread
  <2>2. last' \in Nat
    BY <1>6 DEF Scale, Count
  <2>3. rest' \in Seq(Thread)
    BY <1>6, <2>1 DEF Scale
  <2> QED BY <1>6, <2>1, <2>2, <2>3 DEF Scale, qvars, MPC, Managing
<1>7. CASE Reap
  <2>1. Head(rest) \in Thread /\ rest' \in Seq(Thread)
    BY <1>3, <1>7 DEF Reap
  <2>2. CASE tpc[Head(rest)] = "exited"
    <3>1. Head(rest) \in Listed /\ RemoveThread(Head(rest))
      BY <1>7, <2>1, <2>2 DEF Reap, ListOK
    <3> QED BY <1>1, <1>7, <2>1, <3>1 DEF Reap, qvars
  <2>3. CASE tpc[Head(rest)] # "exited"
    BY <1>7, <2>1, <2>3 DEF Reap, qvars
  <2> QED BY <2>2, <2>3
<1>8. CASE ReapDone \/ LeaveLoop \/ DrainQueue \/ ManagerEnd
  BY <1>8 DEF ReapDone, LeaveLoop, DrainQueue, ManagerEnd, qvars, MPC, Managing
<1>9. CASE RaiseStop
  BY <1>9 DEF RaiseStop, qvars, MPC, Managing
<1>10. CASE PingQueue
  BY <1>10 DEF PingQueue, qvars, MPC, Managing, TPC
<1>11. CASE StopThread
  <2>1. Head(rest) \in Thread /\ Tail(rest) \in Seq(Thread)
    BY <1>3, <1>11 DEF StopThread
  <2>2. CASE tpc[Head(rest)] = "exited"
    <3>1. Head(rest) \in Listed /\ RemoveThread(Head(rest))
      BY <1>11, <2>1, <2>2 DEF StopThread, ListOK
    <3> QED BY <1>1, <1>11, <2>1, <2>2, <3>1 DEF StopThread, qvars
  <2>3. CASE tpc[Head(rest)] # "exited"
    BY <1>11, <2>1, <2>3 DEF StopThread, qvars, MPC
  <2> QED BY <2>2, <2>3
<1>12. CASE JoinThread
  <2>1. Head(rest) \in Thread /\ Tail(rest) \in Seq(Thread)
    BY <1>3, <1>12 DEF JoinThread, EndOK
  <2>2. Head(rest) \in Listed /\ RemoveThread(Head(rest))
    BY <1>12, <2>1 DEF JoinThread, ListOK
  <2> QED BY <1>1, <1>12, <2>1, <2>2 DEF JoinThread, qvars, MPC
<1>13. CASE PoolStop \/ MainStep
  BY <1>13 DEF PoolStop, MainStep, JoinManager, DeleteQueue, PoolStopAgain,
               qvars, Main
<1>14. CASE UNCHANGED vars
  BY <1>14 DEF vars
<1> QED
  BY <1>4, <1>5, <1>6, <1>7, <1>8, <1>9, <1>10, <1>11, <1>12, <1>13, <1>14
  DEF Next, Manager, PoolQueue, PoolThread

\* Deleting a thread that has ended keeps the list right.
LEMMA ListRemove ==
  ASSUME TypeOK, ListOK, NEW t \in Thread, tpc[t] = "exited", RemoveThread(t)
  PROVE  t \in Listed /\ ListOK'
<1>1. t \in Listed
  BY DEF ListOK
<1>2. Distinct(threads') /\ Listed' = Listed \ {t}
  BY <1>1, RemoveFacts DEF TypeOK, ListOK
<1>3. tpc' = [tpc EXCEPT ![t] = "free"]
  BY DEF RemoveThread
<1> QED BY <1>1, <1>2, <1>3 DEF ListOK, TypeOK

\* So does starting a thread whose structure is free.
LEMMA ListAdd ==
  ASSUME TypeOK, ListOK, AddThread
  PROVE  /\ ListOK'
         /\ \E t \in Thread :
              /\ t \notin Listed
              /\ tpc' = [tpc EXCEPT ![t] = "check"]
              /\ Listed' = Listed \cup {t}
              /\ Len(threads') = Len(threads) + 1
              /\ \A j \in DOMAIN threads' :
                   threads'[j] = IF j = 1 THEN t ELSE threads[j - 1]
<1>1. PICK t \in Thread : /\ tpc[t] = "free"
                          /\ tpc' = [tpc EXCEPT ![t] = "check"]
                          /\ threads' = <<t>> \o threads
  BY DEF AddThread
<1>2. t \notin Listed
  BY <1>1 DEF ListOK
<1>3. /\ Distinct(threads')
      /\ Listed' = Listed \cup {t}
      /\ Len(threads') = Len(threads) + 1
      /\ \A j \in DOMAIN threads' :
           threads'[j] = IF j = 1 THEN t ELSE threads[j - 1]
  BY <1>1, <1>2, AddFacts DEF TypeOK, ListOK
<1>4. ListOK'
  BY <1>1, <1>3 DEF ListOK, TypeOK
<1> QED BY <1>1, <1>2, <1>3, <1>4

\* What is not in the list is free.
LEMMA ListStep ==
  ASSUME TypeOK, ListOK, EndOK, [Next]_vars
  PROVE  ListOK'
<1>1. ASSUME threads' = threads,
             \A t \in Thread : tpc'[t] = "free" <=> tpc[t] = "free"
      PROVE  ListOK'
  <2>1. Listed' = Listed
    BY <1>1 DEF Listed
  <2> QED BY <1>1, <2>1 DEF ListOK
<1>2. CASE PoolQueue \/ PoolThread
  BY <1>1, <1>2, PoolStepFacts DEF PoolStep
<1>3. CASE Boot
  BY <1>1, <1>3, ListAdd DEF Boot
<1>4. CASE Scale
  BY <1>1, <1>4, ListAdd DEF Scale
<1>5. ASSUME Reap \/ StopThread \/ JoinThread
      PROVE  ListOK'
  <2>1. Head(rest) \in Thread
    BY <1>5 DEF Reap, StopThread, JoinThread, TypeOK, EndOK
  <2>2. CASE tpc[Head(rest)] = "exited"
    BY <1>5, <2>1, <2>2, ListRemove DEF Reap, StopThread, JoinThread
  <2>3. CASE tpc[Head(rest)] # "exited"
    BY <1>1, <1>5, <2>1, <2>3 DEF Reap, StopThread, JoinThread
  <2> QED BY <2>2, <2>3
<1>6. CASE ReapDone \/ LeaveLoop \/ DrainQueue \/ ManagerEnd \/ RaiseStop
  BY <1>1, <1>6 DEF ReapDone, LeaveLoop, DrainQueue, ManagerEnd, RaiseStop
<1>7. CASE PingQueue
  BY <1>1, <1>7 DEF PingQueue
<1>8. CASE PoolStop \/ MainStep
  BY <1>1, <1>8 DEF PoolStop, MainStep, JoinManager, DeleteQueue, PoolStopAgain
<1>9. CASE UNCHANGED vars
  BY <1>1, <1>9 DEF vars
<1> QED
  BY <1>2, <1>3, <1>4, <1>5, <1>6, <1>7, <1>8, <1>9
  DEF Next, Manager, PoolQueue, PoolThread

\* Only threads outside the last min_threads of the list are told to stop
\* while the pool is managed, and only those end.
LEMMA StopStep ==
  ASSUME TypeOK, ListOK, StopOK, LengthOK, EndOK, [Next]_vars
  PROVE  StopOK'
<1>1. ASSUME mpc' \in Managing => mpc \in Managing,
             UNCHANGED <<threads, stop, cancel>>,
             \A t \in Thread : tpc'[t] = "exited" => tpc[t] = "exited" \/ stop[t] \/ cancel[t]
      PROVE  StopOK'
  <2>1. Listed' = Listed
    BY <1>1 DEF Listed
  <2> QED BY <1>1, <2>1 DEF StopOK
<1>2. ASSUME mpc' \in Managing => mpc \in Managing, AddThread
      PROVE  StopOK'
  <2>1. PICK t \in Thread :
             /\ t \notin Listed
             /\ tpc' = [tpc EXCEPT ![t] = "check"]
             /\ Listed' = Listed \cup {t}
             /\ Len(threads') = Len(threads) + 1
             /\ \A j \in DOMAIN threads' :
                  threads'[j] = IF j = 1 THEN t ELSE threads[j - 1]
    BY <1>2, ListAdd
  <2>2. UNCHANGED <<stop, cancel>>
    BY <1>2 DEF AddThread
  <2> SUFFICES ASSUME mpc' \in Managing PROVE StopOK'
    BY DEF StopOK
  <2>3. mpc \in Managing
    BY <1>2
  <2>4. ~stop[t]
    BY <2>1, <2>3 DEF StopOK
  <2>5. ASSUME NEW j \in DOMAIN threads', stop'[threads'[j]]
        PROVE  j + MinThreads <= Len(threads')
    <3>1. j # 1 /\ threads'[j] = threads[j - 1] /\ stop[threads[j - 1]]
      BY <2>1, <2>2, <2>4, <2>5
    <3>2. j - 1 \in DOMAIN threads /\ j \in Nat /\ Len(threads) \in Nat
      BY <2>1, <2>5, <3>1, TypeStep DEF TypeOK
    <3>3. (j - 1) + MinThreads <= Len(threads)
      BY <2>3, <3>1, <3>2 DEF StopOK
    <3> QED BY <2>1, <3>2, <3>3, BoundAssumption
  <2> QED BY <2>1, <2>2, <2>3, <2>5 DEF StopOK, TypeOK
<1>3. CASE PoolQueue \/ PoolThread
  BY <1>1, <1>3, PoolStepFacts DEF PoolStep
<1>4. CASE Boot
  BY <1>1, <1>2, <1>4 DEF Boot, Managing
<1>5. CASE Scale
  <2>1. mpc \in Managing /\ mpc' \in Managing
    BY <1>5 DEF Scale, Managing
  <2>2. CASE Grows /\ AddThread
    BY <1>2, <2>1, <2>2
  <2>3. CASE ~Grows /\ ~Shrinks
    BY <1>1, <1>5, <2>1, <2>3 DEF Scale
  <2>4. CASE Shrinks /\ stop' = [stop EXCEPT ![Head(threads)] = TRUE]
                     /\ UNCHANGED <<threads, tpc, cancel>>
    <3>1. Len(threads) > MinThreads /\ MinThreads \in Nat /\ Len(threads) \in Nat
      BY <2>4, BoundAssumption DEF Shrinks, TypeOK
    <3>2. 1 \in DOMAIN threads /\ Head(threads) = threads[1]
      BY <3>1 DEF TypeOK
    <3>3. threads[1] \in Listed /\ threads[1] \in Thread
      BY <3>2 DEF Listed, TypeOK
    <3>4. Listed' = Listed
      BY <2>4 DEF Listed
    <3>5. ASSUME NEW j \in DOMAIN threads, stop'[threads[j]]
          PROVE  j + MinThreads <= Len(threads)
      <4>1. CASE j = 1
        BY <3>1, <4>1
      <4>2. CASE j # 1
        <5>1. threads[j] # threads[1] /\ threads[j] \in Thread
          BY <3>2, <4>2 DEF ListOK, Distinct, TypeOK
        <5>2. stop[threads[j]]
          BY <2>4, <3>2, <3>5, <5>1 DEF TypeOK
        <5> QED BY <2>1, <5>2 DEF StopOK
      <4> QED BY <4>1, <4>2
    <3>6. \A u \in Thread : stop'[u] <=> stop[u] \/ u = threads[1]
      BY <2>4, <3>2, <3>3 DEF TypeOK
    <3> QED BY <2>1, <2>4, <3>3, <3>4, <3>5, <3>6 DEF StopOK
  <2> QED BY <1>5, <2>2, <2>3, <2>4 DEF Scale
<1>6. CASE Reap
  <2>1. mpc \in Managing /\ mpc' \in Managing /\ Head(rest) \in Thread
    BY <1>6 DEF Reap, Managing, TypeOK
  <2>2. CASE tpc[Head(rest)] # "exited"
    BY <1>1, <1>6, <2>1, <2>2 DEF Reap
  <2>3. CASE tpc[Head(rest)] = "exited"
    <3> DEFINE t == Head(rest)
    <3>1. RemoveThread(t) /\ t \in Listed /\ stop[t]
      BY <1>6, <2>1, <2>3 DEF Reap, ListOK, StopOK
    <3>2. /\ Listed' = Listed \ {t}
          /\ \E k \in DOMAIN threads :
              /\ threads[k] = t
              /\ Len(threads') = Len(threads) - 1
              /\ \A j \in DOMAIN threads' :
                   threads'[j] = threads[IF j < k THEN j ELSE j + 1]
      BY <3>1, RemoveFacts DEF TypeOK, ListOK
    <3>3. PICK k \in DOMAIN threads :
              /\ threads[k] = t
              /\ Len(threads') = Len(threads) - 1
              /\ \A j \in DOMAIN threads' :
                   threads'[j] = threads[IF j < k THEN j ELSE j + 1]
      BY <3>2
    <3>4. threads' \in Seq(Thread)
      BY TypeStep DEF TypeOK
    <3>5. /\ stop' = [stop EXCEPT ![t] = FALSE]
          /\ cancel' = [cancel EXCEPT ![t] = FALSE]
          /\ tpc' = [tpc EXCEPT ![t] = "free"]
      BY <2>3, <3>1 DEF RemoveThread
    <3> HIDE DEF t
    <3>6. k + MinThreads <= Len(threads)
      BY <2>1, <3>1, <3>3 DEF StopOK
    <3>7. k \in Nat /\ Len(threads) \in Nat /\ MinThreads \in Nat
      BY BoundAssumption DEF TypeOK
    <3>8. ASSUME NEW j \in DOMAIN threads', stop'[threads'[j]]
          PROVE  j + MinThreads <= Len(threads')
      <4>1. j \in Nat /\ 1 <= j /\ j <= Len(threads) - 1
        BY <3>3, <3>4
      <4>2. CASE j < k
        BY <3>3, <3>6, <3>7, <4>1, <4>2
      <4>3. CASE ~(j < k)
        <5>1. threads'[j] = threads[j + 1] /\ j + 1 \in DOMAIN threads
          BY <3>3, <3>7, <4>1, <4>3 DEF TypeOK
        <5>2. stop[threads[j + 1]]
          BY <3>5, <3>8, <5>1 DEF TypeOK
        <5>3. (j + 1) + MinThreads <= Len(threads)
          BY <2>1, <5>1, <5>2 DEF StopOK
        <5> QED BY <3>3, <3>7, <4>1, <5>3
      <4> QED BY <4>2, <4>3
    <3>9. \A u \in Thread : stop'[u] => stop[u] /\ u # t
      BY <2>1, <3>5 DEF TypeOK, t
    <3> QED BY <2>1, <3>2, <3>5, <3>8, <3>9 DEF StopOK, TypeOK
  <2> QED BY <2>2, <2>3
<1>7. CASE ReapDone \/ LeaveLoop
  BY <1>1, <1>7 DEF ReapDone, LeaveLoop, Managing
<1>8. CASE DrainQueue \/ RaiseStop \/ PingQueue \/ StopThread \/ JoinThread \/ ManagerEnd
  BY <1>8 DEF DrainQueue, RaiseStop, PingQueue, StopThread, JoinThread, ManagerEnd,
              Managing, StopOK
<1>9. CASE PoolStop \/ MainStep
  BY <1>1, <1>9 DEF PoolStop, MainStep, JoinManager, DeleteQueue, PoolStopAgain
<1>10. CASE UNCHANGED vars
  BY <1>1, <1>10 DEF vars
<1> QED
  BY <1>3, <1>4, <1>5, <1>6, <1>7, <1>8, <1>9, <1>10
  DEF Next, Manager, PoolQueue, PoolThread

\* The pool starts with min_threads threads and grows up to max_threads; what
\* it reaps is never one of the last min_threads of the list.
LEMMA LengthStep ==
  ASSUME TypeOK, ListOK, StopOK, LengthOK, EndOK, [Next]_vars
  PROVE  LengthOK'
<1> USE BoundAssumption DEF LengthOK
<1>1. ASSUME threads' = threads, mpc' = mpc PROVE LengthOK'
  BY <1>1
<1>2. Len(threads) \in Nat /\ Cap \in Nat /\ MinThreads <= Cap
  BY DEF TypeOK, Cap
<1>3. CASE PoolQueue \/ PoolThread
  BY <1>1, <1>3, PoolStepFacts DEF PoolStep
<1>4. CASE Boot
  <2>1. CASE Len(threads) < MinThreads
    BY <1>2, <1>4, <2>1, ListAdd DEF Boot
  <2>2. CASE ~(Len(threads) < MinThreads)
    BY <1>2, <1>4, <2>2 DEF Boot
  <2> QED BY <2>1, <2>2
<1>5. CASE Scale
  <2>1. mpc = "scale" /\ mpc' = "reap"
    BY <1>5 DEF Scale
  <2>2. CASE Grows /\ AddThread
    BY <1>2, <2>1, <2>2, ListAdd DEF Grows
  <2>3. CASE threads' = threads
    BY <2>1, <2>3
  <2> QED BY <1>5, <2>2, <2>3 DEF Scale
<1>6. CASE Reap
  <2>1. mpc = "reap" /\ mpc' = "reap" /\ Head(rest) \in Thread
    BY <1>6 DEF Reap, TypeOK
  <2>2. CASE tpc[Head(rest)] # "exited"
    BY <1>1, <1>6, <2>1, <2>2 DEF Reap
  <2>3. CASE tpc[Head(rest)] = "exited"
    <3>1. /\ RemoveThread(Head(rest)) /\ Head(rest) \in Listed
          /\ stop[Head(rest)]
      BY <1>6, <2>1, <2>3 DEF Reap, ListOK, StopOK, Managing
    <3>2. PICK k \in DOMAIN threads : /\ threads[k] = Head(rest)
                                      /\ Len(threads') = Len(threads) - 1
      BY <3>1, RemoveFacts DEF TypeOK, ListOK
    <3>3. k + MinThreads <= Len(threads) /\ k \in Nat /\ 1 <= k
      BY <2>1, <3>1, <3>2 DEF StopOK, Managing, TypeOK
    <3> QED BY <1>2, <2>1, <3>2, <3>3
  <2> QED BY <2>2, <2>3
<1>7. CASE ReapDone \/ LeaveLoop
  BY <1>7 DEF ReapDone, LeaveLoop
<1>8. CASE DrainQueue \/ RaiseStop \/ PingQueue \/ StopThread \/ JoinThread \/ ManagerEnd
  BY <1>8 DEF DrainQueue, RaiseStop, PingQueue, StopThread, JoinThread, ManagerEnd
<1>9. CASE PoolStop \/ MainStep
  BY <1>1, <1>9 DEF PoolStop, MainStep, JoinManager, DeleteQueue, PoolStopAgain
<1>10. CASE UNCHANGED vars
  BY <1>1, <1>10 DEF vars
<1> QED
  BY <1>3, <1>4, <1>5, <1>6, <1>7, <1>8, <1>9, <1>10
  DEF Next, Manager, PoolQueue, PoolThread

\* The thread that is deleted at the end is the head of the list.
LEMMA RemoveHead ==
  ASSUME TypeOK, ListOK, threads # <<>>, RemoveThread(Head(threads))
  PROVE  threads' = Tail(threads)
<1>1. /\ Head(threads) = threads[1] /\ 1 \in DOMAIN threads
      /\ Len(threads) \in Nat /\ DOMAIN threads = 1..Len(threads)
  BY DEF TypeOK
<1>2. Head(threads) \in Listed
  BY <1>1 DEF Listed
<1>3. PICK k \in DOMAIN threads :
         /\ threads[k] = Head(threads)
         /\ Len(threads') = Len(threads) - 1
         /\ \A j \in DOMAIN threads' : threads'[j] = threads[IF j < k THEN j ELSE j + 1]
  BY <1>2, RemoveFacts DEF TypeOK, ListOK
<1>4. k = 1
  BY <1>1, <1>3 DEF ListOK, Distinct
<1>5. threads' \in Seq(Thread)
  BY <1>2, RemoveFacts DEF TypeOK, ListOK
<1>6. DOMAIN threads' = 1..(Len(threads) - 1)
  BY <1>3, <1>5
<1>7. \A j \in 1..(Len(threads) - 1) : threads'[j] = threads[j + 1]
  BY <1>1, <1>3, <1>4, <1>6
<1>8. /\ Tail(threads) \in Seq(Thread)
      /\ Len(Tail(threads)) = Len(threads) - 1
      /\ \A j \in 1..(Len(threads) - 1) : Tail(threads)[j] = threads[j + 1]
  BY <1>1, HeadTailProperties DEF TypeOK
<1> QED BY <1>3, <1>5, <1>7, <1>8, SeqEqual

\* The shutdown, in the order of its steps.
LEMMA EndStep ==
  ASSUME TypeOK, ListOK, EndOK, [Next]_vars
  PROVE  EndOK'
<1> USE DEF EndOK, Managing
<1>1. CASE PoolQueue \/ PoolThread
  <2>1. PoolStep
    BY <1>1, PoolStepFacts
  <2>2. mpc \notin Managing => ready' = 0
    BY <2>1 DEF PoolStep, TypeOK
  <2> QED BY <2>1, <2>2 DEF PoolStep
<1>2. CASE Boot \/ Scale \/ Reap \/ ReapDone \/ LeaveLoop
  BY <1>2 DEF Boot, Scale, Reap, ReapDone, LeaveLoop, qvars, Shutdown
<1>3. CASE DrainQueue
  <2>1. ready = 0
    BY <1>3 DEF DrainQueue, Count, TypeOK
  <2> QED BY <1>3, <2>1 DEF DrainQueue, qvars
<1>4. CASE RaiseStop \/ PingQueue \/ ManagerEnd
  BY <1>4 DEF RaiseStop, PingQueue, ManagerEnd, qvars
<1>5. CASE StopThread
  <2>1. rest = threads /\ threads # <<>>
    BY <1>5 DEF StopThread
  <2>2. CASE tpc[Head(rest)] = "exited"
    <3>1. threads' = Tail(threads) /\ rest' = Tail(threads)
      BY <1>5, <2>1, <2>2, RemoveHead DEF StopThread
    <3> QED BY <1>5, <2>2, <3>1 DEF StopThread, qvars
  <2>3. CASE tpc[Head(rest)] # "exited"
    BY <1>5, <2>1, <2>3 DEF StopThread, qvars
  <2> QED BY <2>2, <2>3
<1>6. CASE JoinThread
  <2>1. rest = threads /\ threads # <<>>
    BY <1>6 DEF JoinThread
  <2>2. threads' = Tail(threads) /\ rest' = Tail(threads)
    BY <1>6, <2>1, RemoveHead DEF JoinThread
  <2> QED BY <1>6, <2>2 DEF JoinThread, qvars
<1>7. CASE PoolStop \/ JoinManager \/ PoolStopAgain
  BY <1>7 DEF PoolStop, JoinManager, PoolStopAgain, qvars
<1>8. CASE DeleteQueue
  BY <1>8 DEF DeleteQueue
<1>9. CASE UNCHANGED vars
  BY <1>9 DEF vars
<1> QED
  BY <1>1, <1>2, <1>3, <1>4, <1>5, <1>6, <1>7, <1>8, <1>9
  DEF Next, Manager, MainStep, PoolQueue, PoolThread

\* The strengthened invariant holds in every reachable state.
LEMMA Inductive == Spec => []IInv
<1>1. Init => IInv
  <2> SUFFICES ASSUME Init PROVE IInv
    OBVIOUS
  <2>1. threads = <<>> /\ DOMAIN threads = {} /\ Listed = {} /\ Len(threads) = 0
    BY DEF Init, Listed
  <2> QED
    BY <2>1, BoundAssumption
    DEF Init, IInv, TypeOK, ListOK, Distinct, StopOK, LengthOK, EndOK, TPC, MPC,
        Managing, Main
<1>2. IInv /\ [Next]_vars => IInv'
  BY TypeStep, ListStep, StopStep, LengthStep, EndStep DEF IInv
<1> QED BY <1>1, <1>2, PTL DEF Spec

\* A list without repetitions has as many elements as places.
LEMMA DistinctSize ==
  ASSUME NEW s \in Seq(Thread), Distinct(s), NEW m \in Nat, NEW n \in Nat,
         m <= n, n <= Len(s)
  PROVE  /\ IsFiniteSet({s[i] : i \in (m + 1)..n})
         /\ Cardinality({s[i] : i \in (m + 1)..n}) = n - m
<1> DEFINE D == (m + 1)..n
           R == {s[i] : i \in D}
           f == [i \in D |-> s[i]]
<1>1. D \subseteq DOMAIN s
  OBVIOUS
<1>2. f \in Bijection(D, R)
  <2>1. f \in [D -> R]
    OBVIOUS
  <2>2. \A i, j \in D : f[i] = f[j] => i = j
    BY <1>1 DEF Distinct
  <2>3. \A r \in R : \E i \in D : f[i] = r
    OBVIOUS
  <2> QED BY <2>1, <2>2, <2>3 DEF Bijection, Injection, Surjection, IsInjective
<1>3. IsFiniteSet(D) /\ Cardinality(D) = n - m
  <2>1. m + 1 \in Int /\ n \in Int
    OBVIOUS
  <2>2. IsFiniteSet(D) /\ Cardinality(D) = IF m + 1 > n THEN 0 ELSE n - (m + 1) + 1
    BY <2>1, FS_Interval
  <2> QED BY <2>2
<1> HIDE DEF D, R, f
<1>4. IsFiniteSet(R) /\ Cardinality(R) = Cardinality(D)
  <2>1. ExistsBijection(D, R)
    BY <1>2 DEF ExistsBijection
  <2> QED BY <1>3, <2>1, FS_Bijection
<1> QED BY <1>3, <1>4 DEF R, D

\* The pool never has more than max_threads threads, and min_threads of them
\* have not been told to stop (thread_pool_loop): the last ones of the list.
THEOREM BoundsCorrect == Spec => []PoolBounds
<1>1. IInv => PoolBounds
  <2> SUFFICES ASSUME IInv, mpc \in {"scale", "reap", "drain"}
               PROVE  /\ Len(threads) <= Cap
                      /\ Cardinality({t \in Listed : ~stop[t]}) >= MinThreads
    BY DEF PoolBounds
  <2> DEFINE n == Len(threads)
             U == {t \in Listed : ~stop[t]}
             R == {threads[i] : i \in (n - MinThreads + 1)..n}
  <2>1. n \in Nat /\ MinThreads \in Nat /\ MinThreads <= n /\ n <= Cap
        /\ threads \in Seq(Thread) /\ Distinct(threads)
    BY BoundAssumption DEF IInv, TypeOK, ListOK, LengthOK
  <2>2. IsFiniteSet(R) /\ Cardinality(R) = MinThreads
    <3>1. n - MinThreads \in Nat /\ n - MinThreads <= n /\ n - (n - MinThreads) = MinThreads
      BY <2>1
    <3>2. n \in Nat /\ n <= Len(threads)
      BY <2>1
    <3>3. IsFiniteSet(R) /\ Cardinality(R) = n - (n - MinThreads)
      BY <2>1, <3>1, <3>2, DistinctSize, Zenon
    <3> QED BY <3>1, <3>3
  <2>3. IsFiniteSet(Listed)
    <3>1. IsFiniteSet({threads[i] : i \in (0 + 1)..n})
      <4>1. 0 \in Nat /\ n \in Nat /\ 0 <= n /\ n <= Len(threads)
        BY <2>1
      <4> QED BY <2>1, <4>1, DistinctSize, Zenon
    <3>2. Listed = {threads[i] : i \in (0 + 1)..n}
      BY <2>1 DEF Listed
    <3> QED BY <3>1, <3>2
  <2>4. R \subseteq U
    <3> SUFFICES ASSUME NEW i \in (n - MinThreads + 1)..n
                 PROVE  threads[i] \in U
      OBVIOUS
    <3>1. i \in DOMAIN threads /\ ~(i + MinThreads <= Len(threads))
      BY <2>1
    <3>2. ~stop[threads[i]]
      BY <3>1 DEF IInv, StopOK, Managing
    <3> QED BY <3>1, <3>2 DEF Listed
  <2>5. IsFiniteSet(U)
    BY <2>3, FS_Subset
  <2> HIDE DEF U, R, n
  <2>6. Cardinality(R) <= Cardinality(U)
    BY <2>4, <2>5, FS_Subset
  <2>7. Cardinality(U) \in Nat
    BY <2>5, FS_CardinalityType
  <2> QED BY <2>1, <2>2, <2>6, <2>7 DEF U, n
<1> QED BY <1>1, Inductive, PTL

\* A thread's structure is in the list, once, for as long as the thread runs
\* (thread_pool_add_thread, thread_pool_remove_thread, thread_delete).
THEOREM AliveCorrect == Spec => []AliveListed
<1>1. IInv => AliveListed
  <2> SUFFICES ASSUME IInv PROVE AliveListed
    OBVIOUS
  <2>1. \A t \in Thread : Alive(t) => t \in Listed
    BY DEF IInv, ListOK, Alive
  <2>2. Cardinality(Listed) = Len(threads)
    <3>1. threads \in Seq(Thread) /\ Len(threads) \in Nat /\ Distinct(threads)
      BY DEF IInv, TypeOK, ListOK
    <3>2. Cardinality({threads[i] : i \in (0 + 1)..Len(threads)}) = Len(threads) - 0
      <4>1. 0 \in Nat /\ 0 <= Len(threads) /\ Len(threads) <= Len(threads)
        BY <3>1
      <4> QED BY <3>1, <4>1, DistinctSize, Zenon
    <3>3. Listed = {threads[i] : i \in (0 + 1)..Len(threads)}
      BY <3>1 DEF Listed
    <3>4. Cardinality(Listed) = Len(threads) - 0
      BY <3>2, <3>3, Zenon
    <3> QED BY <3>1, <3>4
  <2> QED BY <2>1, <2>2 DEF AliveListed
<1> QED BY <1>1, Inductive, PTL

\* When the manager stops the threads, no item is left for them.
THEOREM AbandonedCorrect == Spec => []NothingAbandoned
<1>1. IInv => NothingAbandoned
  BY DEF IInv, EndOK, NothingAbandoned, Stopping, Managing
<1> QED BY <1>1, Inductive, PTL

\* server_stop_pools deletes the queue only after every thread has ended.
THEOREM UnusedCorrect == Spec => []QueueUnused
<1>1. IInv => QueueUnused
  <2> SUFFICES ASSUME IInv, main \notin {"run", "join"}, NEW t \in Thread
               PROVE  ~Alive(t)
    BY DEF QueueUnused
  <2>1. threads = <<>> /\ Listed = {}
    BY DEF IInv, EndOK, Listed
  <2> QED BY <2>1 DEF IInv, ListOK, Alive
<1> QED BY <1>1, Inductive, PTL
================================================================================

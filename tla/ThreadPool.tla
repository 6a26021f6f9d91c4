------------------------------- MODULE ThreadPool ------------------------------
(***************************************************************************)
(* thread-pool.c: the manager of a pool, which starts and stops the pool's *)
(* threads with the length of the queue, and the shutdown of the pool by   *)
(* server_stop_pools (server-state.c).                                     *)
(*                                                                         *)
(* Of the queue, the numbers of its ready and of its blocked items matter  *)
(* here, and who holds its mutex for good: a thread that is cancelled in   *)
(* pthread_cond_wait ends with the mutex locked.  The event loop and the   *)
(* pools stopped earlier no longer add items when the pool is stopped:     *)
(* true of READ and WORKER, not of WRITE, which is stopped before WORKER.  *)
(***************************************************************************)
EXTENDS Integers, Sequences, SequencesExt, FiniteSets

CONSTANTS Thread,       \* thread structures
          MinThreads,   \* pool->min_threads
          MaxThreads,   \* pool->max_threads as configured
          QueueFactor,  \* pool->queue_factor
          MaxItems,     \* bound on the items that exist at a time
          MayBlock,     \* the pool's handler may return an item blocked
          None          \* no thread

ASSUME ThreadAssumption == None \notin Thread
ASSUME BoundAssumption == /\ MinThreads \in Nat \ {0}
                          /\ MaxThreads \in Nat
                          /\ QueueFactor \in Nat \ {0}
                          /\ MaxItems \in Nat
ASSUME MayBlockAssumption == MayBlock \in BOOLEAN

VARIABLES threads,   \* pool->threads, its head first
          stop,      \* th->stop
          tpc,       \* where each thread is in its handler loop
          cancel,    \* pthread_cancel was called for the thread
          ready,     \* queued items that are not blocked
          blocked,   \* queued items that are blocked
          mutex,     \* the thread that ended with the queue's mutex locked
          mpc,       \* where the manager is
          rest,      \* the threads its current list walk has still to visit
          last,      \* last_queue_count
          main       \* where the main thread is

qvars == <<ready, blocked, mutex>>
vars == <<threads, stop, tpc, cancel, ready, blocked, mutex, mpc, rest, last, main>>

Listed == {threads[i] : i \in DOMAIN threads}

Alive(t) == tpc[t] \notin {"free", "exited"}

Count == ready + blocked

Busy == {t \in Thread : tpc[t] = "busy"}

\* pool->max_threads, which the manager raises if min_threads exceeds it.
Cap == IF MinThreads > MaxThreads THEN MinThreads ELSE MaxThreads

\* pool->shutdown, set by thread_pool_stop.
Shutdown == main # "run"

\* The manager has seen the queue empty and stops the threads.
Stopping == mpc \notin {"boot", "scale", "reap", "drain"}

\* pthread_cond_signal(q->cond)
Signal(f) == LET W == {t \in Thread : f[t] = "waiting"}
             IN IF W = {} THEN {f} ELSE {[f EXCEPT ![t] = "woken"] : t \in W}

Init == /\ threads = <<>>
        /\ stop = [t \in Thread |-> FALSE]
        /\ tpc = [t \in Thread |-> "free"]
        /\ cancel = [t \in Thread |-> FALSE]
        /\ ready = 0
        /\ blocked = 0
        /\ mutex = None
        /\ mpc = "boot"
        /\ rest = <<>>
        /\ last = 0
        /\ main = "run"
--------------------------------------------------------------------------------
(* The event loop and the queue. *)

\* Faulty variant: queue_add does not signal.
AddItem_Silent == /\ main = "run"
                  /\ Count + Cardinality(Busy) < MaxItems
                  /\ ready' = ready + 1
                  /\ UNCHANGED <<threads, stop, tpc, cancel, blocked, mutex, mpc, rest,
                                 last, main>>

AddItem == /\ main = "run"
           /\ Count + Cardinality(Busy) < MaxItems
           /\ ready' = ready + 1
           /\ tpc' \in Signal(tpc)
           /\ UNCHANGED <<threads, stop, cancel, blocked, mutex, mpc, rest, last, main>>

UnblockItem == /\ main = "run"
               /\ blocked > 0
               /\ ready' = ready + 1
               /\ blocked' = blocked - 1
               /\ tpc' \in Signal(tpc)
               /\ UNCHANGED <<threads, stop, cancel, mutex, mpc, rest, last, main>>

\* Items of closed connections are removed from the queue.
RemoveItem == /\ main = "run"
              /\ \/ ready > 0 /\ ready' = ready - 1 /\ UNCHANGED blocked
                 \/ blocked > 0 /\ blocked' = blocked - 1 /\ UNCHANGED ready
              /\ UNCHANGED <<threads, stop, tpc, cancel, mutex, mpc, rest, last, main>>
--------------------------------------------------------------------------------
(* A thread of the pool: the loop that every handler has. *)

\* while (th->stop == false)
CheckStop(t) ==
  /\ tpc[t] = "check"
  /\ tpc' = [tpc EXCEPT ![t] = IF stop[t] THEN "exited" ELSE "fetch"]
  /\ UNCHANGED <<threads, stop, cancel, qvars, mpc, rest, last, main>>

\* queue_fetchone after its wait: an item, or NULL and back to the loop.
TakeOrNull(t) ==
  /\ tpc' = [tpc EXCEPT ![t] = IF ready > 0 THEN "busy" ELSE "check"]
  /\ ready' = IF ready > 0 THEN ready - 1 ELSE ready
  /\ UNCHANGED blocked

Fetch(t) ==
  /\ tpc[t] = "fetch"
  /\ mutex = None
  /\ IF Count = 0
     THEN /\ tpc' = [tpc EXCEPT ![t] = "waiting"]
          /\ UNCHANGED <<ready, blocked>>
     ELSE TakeOrNull(t)
  /\ UNCHANGED <<threads, stop, cancel, mutex, mpc, rest, last, main>>

Wake(t) ==
  /\ tpc[t] = "woken"
  /\ mutex = None
  /\ TakeOrNull(t)
  /\ UNCHANGED <<threads, stop, cancel, mutex, mpc, rest, last, main>>

SpuriousWake(t) ==
  /\ tpc[t] = "waiting"
  /\ tpc' = [tpc EXCEPT ![t] = "woken"]
  /\ UNCHANGED <<threads, stop, cancel, qvars, mpc, rest, last, main>>

\* The handler is done with its item and returns it.
Return(t, b) ==
  /\ tpc[t] = "busy"
  /\ mutex = None
  /\ b => MayBlock
  /\ tpc' = [tpc EXCEPT ![t] = "check"]
  /\ blocked' = IF b THEN blocked + 1 ELSE blocked
  /\ UNCHANGED <<threads, stop, cancel, ready, mutex, mpc, rest, last, main>>

\* A cancellation takes effect: in pthread_cond_wait, which locks the mutex
\* again before the thread ends, or in a system call of the handler.
Cancelled(t) ==
  /\ cancel[t]
  /\ \/ /\ tpc[t] \in {"waiting", "woken"}
        /\ mutex = None
        /\ mutex' = t
     \/ /\ tpc[t] = "busy"
        /\ UNCHANGED mutex
  /\ tpc' = [tpc EXCEPT ![t] = "exited"]
  /\ UNCHANGED <<threads, stop, cancel, ready, blocked, mpc, rest, last, main>>
--------------------------------------------------------------------------------
(* The manager, thread_pool_loop. *)

\* thread_new and thread_pool_add_thread: the new thread becomes the head.
AddThread ==
  \E t \in Thread :
    /\ tpc[t] = "free"
    /\ tpc' = [tpc EXCEPT ![t] = "check"]
    /\ threads' = <<t>> \o threads
    /\ UNCHANGED <<stop, cancel>>

\* thread_pool_remove_thread and thread_delete.
RemoveThread(t) ==
  /\ threads' = RemoveAt(threads, CHOOSE i \in DOMAIN threads : threads[i] = t)
  /\ tpc' = [tpc EXCEPT ![t] = IF @ = "exited" THEN "free" ELSE @]
  /\ stop' = [stop EXCEPT ![t] = FALSE]
  /\ cancel' = [cancel EXCEPT ![t] = FALSE]

\* The initial threads.
Boot ==
  /\ mpc = "boot"
  /\ IF Len(threads) < MinThreads
     THEN AddThread /\ UNCHANGED mpc
     ELSE mpc' = "scale" /\ UNCHANGED <<threads, tpc, stop, cancel>>
  /\ UNCHANGED <<qvars, rest, last, main>>

Watermark == Len(threads) * QueueFactor

\* Faulty variant: off by one.
Grows_Equal == Count - last > Watermark /\ Len(threads) <= Cap

Grows == Count - last > Watermark /\ Len(threads) < Cap

\* Stops a thread when the queue has shrunk; nobody wakes that thread.
Shrinks == ~Grows /\ last - Count > Watermark /\ Len(threads) > MinThreads

\* A turn of the management loop begins: grow, shrink or neither.
Scale ==
  /\ mpc = "scale"
  /\ ~Shutdown
  /\ mutex = None
  /\ \/ Grows /\ AddThread
     \/ /\ Shrinks
        /\ stop' = [stop EXCEPT ![Head(threads)] = TRUE]
        /\ UNCHANGED <<threads, tpc, cancel>>
     \/ ~Grows /\ ~Shrinks /\ UNCHANGED <<threads, tpc, stop, cancel>>
  /\ last' = IF Grows \/ Shrinks THEN Count ELSE last
  /\ rest' = threads'
  /\ mpc' = "reap"
  /\ UNCHANGED <<qvars, main>>

\* Faulty variant: the structure of a thread that still runs is freed.
Reap_Any ==
  /\ mpc = "reap"
  /\ rest # <<>>
  /\ IF stop[Head(rest)]
     THEN RemoveThread(Head(rest))
     ELSE UNCHANGED <<threads, tpc, stop, cancel>>
  /\ rest' = Tail(rest)
  /\ UNCHANGED <<qvars, mpc, last, main>>

\* pthread_tryjoin_np on the next thread of the list.
Reap ==
  /\ mpc = "reap"
  /\ rest # <<>>
  /\ IF tpc[Head(rest)] = "exited"
     THEN RemoveThread(Head(rest))
     ELSE UNCHANGED <<threads, tpc, stop, cancel>>
  /\ rest' = Tail(rest)
  /\ UNCHANGED <<qvars, mpc, last, main>>

\* nanosleep and the next turn.
ReapDone ==
  /\ mpc = "reap"
  /\ rest = <<>>
  /\ mpc' = "scale"
  /\ UNCHANGED <<threads, tpc, stop, cancel, qvars, rest, last, main>>

\* while (pool->shutdown == false) ends.
LeaveLoop ==
  /\ mpc = "scale"
  /\ Shutdown
  /\ mpc' = "drain"
  /\ UNCHANGED <<threads, tpc, stop, cancel, qvars, rest, last, main>>

\* Faulty variant: the queue is looked at, not waited for.
DrainQueue_Once ==
  /\ mpc = "drain"
  /\ mutex = None
  /\ mpc' = "flag"
  /\ UNCHANGED <<threads, tpc, stop, cancel, qvars, rest, last, main>>

\* Wait until queue is empty.
DrainQueue ==
  /\ mpc = "drain"
  /\ mutex = None
  /\ Count = 0
  /\ mpc' = "flag"
  /\ UNCHANGED <<threads, tpc, stop, cancel, qvars, rest, last, main>>

\* Every thread of the list is told to stop.
RaiseStop ==
  /\ mpc = "flag"
  /\ stop' = [t \in Thread |-> stop[t] \/ t \in Listed]
  /\ mpc' = "ping"
  /\ UNCHANGED <<threads, tpc, cancel, qvars, rest, last, main>>

\* queue_ping
PingQueue ==
  /\ mpc = "ping"
  /\ mutex = None
  /\ tpc' = [t \in Thread |-> IF tpc[t] = "waiting" THEN "woken" ELSE tpc[t]]
  /\ mpc' = "stop"
  /\ rest' = threads
  /\ UNCHANGED <<threads, stop, cancel, qvars, last, main>>

\* thread_stop: thread_trystop waits until an absolute time long past, so it
\* succeeds only if the thread has ended; otherwise thread_kill cancels it.
StopThread ==
  /\ mpc = "stop"
  /\ rest # <<>>
  /\ IF tpc[Head(rest)] = "exited"
     THEN /\ RemoveThread(Head(rest))
          /\ rest' = Tail(rest)
          /\ UNCHANGED mpc
     ELSE /\ cancel' = [cancel EXCEPT ![Head(rest)] = TRUE]
          /\ mpc' = "join"
          /\ UNCHANGED <<threads, tpc, stop, rest>>
  /\ UNCHANGED <<qvars, last, main>>

\* pthread_join in thread_kill.
JoinThread ==
  /\ mpc = "join"
  /\ tpc[Head(rest)] = "exited"
  /\ RemoveThread(Head(rest))
  /\ rest' = Tail(rest)
  /\ mpc' = "stop"
  /\ UNCHANGED <<qvars, last, main>>

ManagerEnd ==
  /\ mpc = "stop"
  /\ rest = <<>>
  /\ mpc' = "done"
  /\ UNCHANGED <<threads, tpc, stop, cancel, qvars, rest, last, main>>
--------------------------------------------------------------------------------
(* The main thread, server_stop_pools. *)

\* The event loop has ended; thread_pool_stop sets the flag.
PoolStop == /\ main = "run"
            /\ main' = "join"
            /\ UNCHANGED <<threads, tpc, stop, cancel, qvars, mpc, rest, last>>

\* pthread_join of the manager.
JoinManager == /\ main = "join"
               /\ mpc = "done"
               /\ main' = "delete"
               /\ UNCHANGED <<threads, tpc, stop, cancel, qvars, mpc, rest, last>>

\* queue_delete, which locks the queue to clear it.
DeleteQueue == /\ main = "delete"
               /\ mutex = None
               /\ ready' = 0
               /\ blocked' = 0
               /\ main' = "again"
               /\ UNCHANGED <<threads, tpc, stop, cancel, mutex, mpc, rest, last>>

\* thread_pool_stop is called a second time and joins a thread that has been
\* joined: pthread_join fails, which is fatal unless errno, which it does not
\* set, happens to hold EINTR.
PoolStopAgain == /\ main = "again"
                 /\ main' \in {"stopped", "fatal"}
                 /\ UNCHANGED <<threads, tpc, stop, cancel, qvars, mpc, rest, last>>
--------------------------------------------------------------------------------
ThreadStep(t) == \/ CheckStop(t) \/ Fetch(t) \/ Wake(t) \/ Cancelled(t)
                 \/ \E b \in BOOLEAN : Return(t, b)

Manager == \/ Boot \/ Scale \/ Reap \/ ReapDone \/ LeaveLoop \/ DrainQueue
           \/ RaiseStop \/ PingQueue \/ StopThread \/ JoinThread \/ ManagerEnd

MainStep == JoinManager \/ DeleteQueue \/ PoolStopAgain

Next == \/ AddItem \/ UnblockItem \/ RemoveItem
        \/ \E t \in Thread : ThreadStep(t) \/ SpuriousWake(t)
        \/ Manager \/ PoolStop \/ MainStep

Spec == Init /\ [][Next]_vars

\* Threads, the manager and the main thread are scheduled; whether the server
\* is asked to stop is left open.
FairSpec == /\ Spec
            /\ \A t \in Thread : WF_vars(ThreadStep(t))
            /\ WF_vars(Manager)
            /\ WF_vars(MainStep)
--------------------------------------------------------------------------------
\* While the pool is managed it has at most max_threads threads, and at least
\* min_threads of them have not been told to stop: flags set for threads that
\* have not noticed yet never add up to too many (thread_pool_loop).
PoolBounds ==
  mpc \in {"scale", "reap", "drain"} =>
    /\ Len(threads) <= Cap
    /\ Cardinality({t \in Listed : ~stop[t]}) >= MinThreads

\* A thread uses its structure (th->stop, th->pool) and the queue until it
\* ends: while it runs, the structure is in the list, once, and is not freed
\* (thread_delete), and so none runs once the manager has emptied the list.
AliveListed == /\ \A t \in Thread : Alive(t) => t \in Listed
               /\ Cardinality(Listed) = Len(threads)

\* Once the manager has seen the queue empty and stops the threads, no item
\* is left that a thread should still process: nobody adds any more.
NothingAbandoned == Stopping => ready = 0

\* After shutdown the pool works off its queue: whatever threads were told
\* to stop before, the manager's wait ends unless an item stays blocked.
QueueDrains == Shutdown ~> (Stopping \/ blocked > 0)
================================================================================

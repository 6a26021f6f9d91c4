------------------------------- MODULE TaskQueue -------------------------------
(***************************************************************************)
(* queue.c: the queue between the event loop and the threads of a pool.    *)
(* Every call locks the queue's mutex, so a critical section is one step;  *)
(* calls that unlock and lock again (fetchone around the condition wait,   *)
(* return_item, pending_waitptr) are one step per critical section.        *)
(*                                                                         *)
(* The doubly linked list is the set of its elements with their order; the *)
(* token list is the set of the ids it holds, since a token's data is that *)
(* of its item.  Callers keep the contract of the event loop: it is the    *)
(* only thread that drains a connection, and nothing is added or unblocked *)
(* for a connection once its drain has begun.  For the READ queue that is  *)
(* so, because its only producer is the event loop itself.  Readers and    *)
(* workers do not keep it for WORKER and WRITE: what that leads to is      *)
(* shown by ServerLoop (NoUseAfterFree), and the facts about drains in     *)
(* this module are facts about READ.                                       *)
(***************************************************************************)
EXTENDS Integers, FiniteSets

CONSTANTS Thread,    \* the threads that fetch from the queue
          Item,      \* item ids
          Ptr,       \* connections
          None,      \* NULL
          MayBlock   \* whether the handler may return an item unfinished,
                     \* as server_loop_read and server_loop_write do

ASSUME ThreadAssumption == Thread # {}
ASSUME ItemAssumption == IsFiniteSet(Item)
ASSUME NoneAssumption == None \notin Item /\ None \notin Ptr
ASSUME MayBlockAssumption == MayBlock \in BOOLEAN

VARIABLES list,        \* q->list, as a set
          before,      \* q->list, its order
          count,       \* q->count
          processing,  \* q->processing, the qids of its tokens
          data,        \* item->data, None for an id not in use
          blocked,     \* item->blocked
          pc,          \* where each pool thread is
          held,        \* the item each pool thread works on
          mpc,         \* where the event loop is in the drain of a connection
          mptr,        \* the connection it drains
          mid,         \* the itemid it waits for
          closed,      \* connections whose drain has begun
          drained      \* connections whose drain has ended

qvars == <<list, before, count, data, blocked>>
tvars == <<processing, pc, held>>
mvars == <<mpc, mptr, mid, closed, drained>>
vars == <<list, before, count, processing, data, blocked, pc, held,
          mpc, mptr, mid, closed, drained>>

PC == {"fetch", "waiting", "woken", "holding", "releasing", "notify"}
MPC == {"idle", "scan", "check", "sleep"}

Ready == {i \in list : ~blocked[i]}

ItemsOf(p) == {i \in list : data[i] = p}

TokensOf(p) == {i \in processing : data[i] = p}

Waiters(f) == {t \in Thread : f[t] = "waiting"}

\* pthread_cond_signal(q->cond): one waiting thread wakes, if there is one.
Signal(f) == IF Waiters(f) = {}
             THEN {f}
             ELSE {[f EXCEPT ![t] = "woken"] : t \in Waiters(f)}

\* pthread_cond_broadcast(q->cond)
Broadcast(f) == [t \in Thread |-> IF f[t] = "waiting" THEN "woken" ELSE f[t]]

\* Faulty variants: the newest ready item first; blocked items not skipped.
FirstReady_Newest(i) == /\ i \in Ready
                        /\ \A j \in Ready : <<i, j>> \notin before
FirstReady_Blocked(i) == /\ i \in list
                         /\ \A j \in list : <<j, i>> \notin before

FirstReady(i) == /\ i \in Ready
                 /\ \A j \in Ready : <<j, i>> \notin before

\* DL_APPEND and the counter, common to new and returned items.
Append(i) == /\ list' = list \cup {i}
             /\ before' = before \cup (list \X {i})
             /\ count' = count + 1

\* Faulty variant: LL_DELETE on the doubly linked list, prev is not mended.
Unlink_Stale(S, n) == /\ list' = list \ S
                      /\ before' = before \cap ((list \ S) \X list)
                      /\ count' = count - n

\* DL_DELETE of the elements of S and one decrement of the counter by n.
Unlink(S, n) == /\ list' = list \ S
                /\ before' = before \cap ((list \ S) \X (list \ S))
                /\ count' = count - n

Freed(S) == [i \in Item |-> IF i \in S THEN None ELSE data[i]]
--------------------------------------------------------------------------------
Init == /\ list = {}
        /\ before = {}
        /\ count = 0
        /\ processing = {}
        /\ data = [i \in Item |-> None]
        /\ blocked = [i \in Item |-> FALSE]
        /\ pc = [t \in Thread |-> "fetch"]
        /\ held = [t \in Thread |-> None]
        /\ mpc = "idle"
        /\ mptr = None
        /\ mid = None
        /\ closed = {}
        /\ drained = {}

\* Faulty variant: queue_add does not signal.
Add_Silent(i, p) == /\ data[i] = None
                    /\ i # mid
                    /\ p \notin closed
                    /\ Append(i)
                    /\ data' = [data EXCEPT ![i] = p]
                    /\ blocked' = [blocked EXCEPT ![i] = FALSE]
                    /\ UNCHANGED <<tvars, mvars>>

\* queue_item_new2 and queue_add: a new item is not blocked, so one waiting
\* thread is signalled.  Ids are unique: one that the event loop still
\* remembers is not given out again.
Add(i, p) == /\ data[i] = None
             /\ i # mid
             /\ p \notin closed
             /\ Append(i)
             /\ data' = [data EXCEPT ![i] = p]
             /\ blocked' = [blocked EXCEPT ![i] = FALSE]
             /\ pc' \in Signal(pc)
             /\ UNCHANGED <<processing, held, mvars>>

\* queue_remove of an item that is in the list.
Remove(i) == /\ i \in list
             /\ Unlink({i}, 1)
             /\ data' = Freed({i})
             /\ UNCHANGED <<blocked, tvars, mvars>>

\* queue_unblock of an item found blocked.
Unblock(i) == /\ i \in list
              /\ blocked[i]
              /\ data[i] \notin closed
              /\ blocked' = [blocked EXCEPT ![i] = FALSE]
              /\ pc' \in Signal(pc)
              /\ UNCHANGED <<list, before, count, data, processing, held, mvars>>

\* queue_unblock_byptr: every item of p becomes ready, yet one signal is sent.
UnblockByPtr(p) == /\ p \notin closed
                   /\ ItemsOf(p) # {}
                   /\ blocked' = [i \in Item |->
                                    IF i \in ItemsOf(p) THEN FALSE ELSE blocked[i]]
                   /\ pc' \in Signal(pc)
                   /\ UNCHANGED <<list, before, count, data, processing, held, mvars>>

\* queue_ping
Ping == /\ Waiters(pc) # {}
        /\ pc' = Broadcast(pc)
        /\ UNCHANGED <<qvars, processing, held, mvars>>
--------------------------------------------------------------------------------
\* Faulty variant: no token is appended for the item.
Take_NoToken(t) == \E i \in list :
                     /\ FirstReady(i)
                     /\ Unlink({i}, 1)
                     /\ held' = [held EXCEPT ![t] = i]
                     /\ pc' = [pc EXCEPT ![t] = "holding"]
                     /\ UNCHANGED <<data, blocked, processing, mvars>>

\* The part of queue_fetchone after the condition wait, for a thread that
\* finds an item that is not blocked: unlink it and append a token for it.
Take(t) == \E i \in list :
             /\ FirstReady(i)
             /\ Unlink({i}, 1)
             /\ processing' = processing \cup {i}
             /\ held' = [held EXCEPT ![t] = i]
             /\ pc' = [pc EXCEPT ![t] = "holding"]
             /\ UNCHANGED <<data, blocked, mvars>>

\* queue_fetchone by a thread that does not have to wait.  When all the items
\* are blocked it returns NULL and the thread calls again: nothing changes.
FetchOne(t) == /\ pc[t] = "fetch"
               /\ count > 0
               /\ Take(t)

\* queue_fetchone on an empty queue: pthread_cond_wait.
FetchWait(t) == /\ pc[t] = "fetch"
                /\ count = 0
                /\ pc' = [pc EXCEPT ![t] = "waiting"]
                /\ UNCHANGED <<qvars, processing, held, mvars>>

\* The wait may end without a signal.
SpuriousWake(t) == /\ pc[t] = "waiting"
                   /\ pc' = [pc EXCEPT ![t] = "woken"]
                   /\ UNCHANGED <<qvars, processing, held, mvars>>

\* The wait has ended and the mutex is held again.  There is no loop: a
\* thread that finds nothing to take returns NULL and calls again.
FetchWake(t) == /\ pc[t] = "woken"
                /\ IF count > 0 /\ Ready # {}
                   THEN Take(t)
                   ELSE /\ pc' = [pc EXCEPT ![t] = "fetch"]
                        /\ UNCHANGED <<qvars, processing, held, mvars>>

\* The handler returns its item, blocked or finished; first critical section
\* of queue_return_item: QUEUE_PENDING_REMOVE.
ReturnRelease(t, b) == /\ pc[t] = "holding"
                       /\ b => MayBlock
                       /\ blocked' = [blocked EXCEPT ![held[t]] = b]
                       /\ processing' = processing \ {held[t]}
                       /\ pc' = [pc EXCEPT ![t] = "releasing"]
                       /\ UNCHANGED <<list, before, count, data, held, mvars>>

\* queue_return_item, finished: the item is freed.
ReturnFinish(t) == /\ pc[t] = "releasing"
                   /\ ~blocked[held[t]]
                   /\ data' = Freed({held[t]})
                   /\ held' = [held EXCEPT ![t] = None]
                   /\ pc' = [pc EXCEPT ![t] = "notify"]
                   /\ UNCHANGED <<list, before, count, blocked, processing, mvars>>

\* queue_return_item, not finished: queue_add, which signals nobody because
\* the item is blocked.
ReturnRequeue(t) == /\ pc[t] = "releasing"
                    /\ blocked[held[t]]
                    /\ Append(held[t])
                    /\ held' = [held EXCEPT ![t] = None]
                    /\ pc' = [pc EXCEPT ![t] = "notify"]
                    /\ UNCHANGED <<data, blocked, processing, mvars>>

\* Faulty variant: the broadcast goes to the wrong condition variable.
ReturnNotify_WrongCond(t) == /\ pc[t] = "notify"
                             /\ pc' = Broadcast([pc EXCEPT ![t] = "fetch"])
                             /\ UNCHANGED <<qvars, processing, held, mvars>>

\* Last critical section of queue_return_item: wake the event loop if it
\* sleeps on processing_cond.
ReturnNotify(t) == /\ pc[t] = "notify"
                   /\ pc' = [pc EXCEPT ![t] = "fetch"]
                   /\ mpc' = IF mpc = "sleep" THEN "check" ELSE mpc
                   /\ UNCHANGED <<qvars, processing, held, mptr, mid, closed, drained>>
--------------------------------------------------------------------------------
\* Faulty variants: the counter loses one whatever the number of matches; the
\* search stops at the first match.
RemoveByPtr_CountOne(p) == /\ mpc = "idle"
                           /\ p \notin closed
                           /\ Unlink(ItemsOf(p), 1)
                           /\ data' = Freed(ItemsOf(p))
                           /\ closed' = closed \cup {p}
                           /\ mpc' = "scan"
                           /\ mptr' = p
                           /\ UNCHANGED <<blocked, tvars, mid, drained>>
RemoveByPtr_First(p) == /\ mpc = "idle"
                        /\ p \notin closed
                        /\ \E i \in ItemsOf(p) : Unlink({i}, 1) /\ data' = Freed({i})
                        /\ closed' = closed \cup {p}
                        /\ mpc' = "scan"
                        /\ mptr' = p
                        /\ UNCHANGED <<blocked, tvars, mid, drained>>

\* queue_remove_byptr, the first half of the drain of p by the event loop.
RemoveByPtr(p) == /\ mpc = "idle"
                  /\ p \notin closed
                  /\ Unlink(ItemsOf(p), Cardinality(ItemsOf(p)))
                  /\ data' = Freed(ItemsOf(p))
                  /\ closed' = closed \cup {p}
                  /\ mpc' = "scan"
                  /\ mptr' = p
                  /\ UNCHANGED <<blocked, tvars, mid, drained>>

\* One turn of the loop of queue_pending_waitptr: look for a token of p.
PendingScan == /\ mpc = "scan"
               /\ IF TokensOf(mptr) = {}
                  THEN /\ mpc' = "idle"
                       /\ mid' = None
                       /\ drained' = drained \cup {mptr}
                  ELSE /\ mpc' = "check"
                       /\ mid' \in TokensOf(mptr)
                       /\ UNCHANGED drained
               /\ UNCHANGED <<qvars, tvars, mptr, closed>>

\* Faulty variant: queue_pending_waitptr waits for one token only.
PendingCheck_Once == /\ mpc = "check"
                     /\ IF mid \in processing
                        THEN mpc' = "sleep" /\ UNCHANGED drained
                        ELSE mpc' = "idle" /\ drained' = drained \cup {mptr}
                     /\ UNCHANGED <<qvars, tvars, mptr, mid, closed>>

\* QUEUE_HAS_PENDING in queue_pending_wait, before and after each wait.
PendingCheck == /\ mpc = "check"
                /\ mpc' = IF mid \in processing THEN "sleep" ELSE "scan"
                /\ UNCHANGED <<qvars, tvars, mptr, mid, closed, drained>>

PendingSpurious == /\ mpc = "sleep"
                   /\ mpc' = "check"
                   /\ UNCHANGED <<qvars, tvars, mptr, mid, closed, drained>>
--------------------------------------------------------------------------------
Producer == \/ \E i \in Item, p \in Ptr : Add(i, p)
            \/ \E i \in Item : Remove(i) \/ Unblock(i)
            \/ \E p \in Ptr : UnblockByPtr(p)
            \/ Ping

ThreadStep(t) == \/ FetchOne(t) \/ FetchWait(t) \/ FetchWake(t)
                 \/ \E b \in BOOLEAN : ReturnRelease(t, b)
                 \/ ReturnFinish(t) \/ ReturnRequeue(t) \/ ReturnNotify(t)

DrainStep == PendingScan \/ PendingCheck

Next == \/ Producer
        \/ \E t \in Thread : ThreadStep(t) \/ SpuriousWake(t)
        \/ \E p \in Ptr : RemoveByPtr(p)
        \/ DrainStep
        \/ PendingSpurious

Spec == Init /\ [][Next]_vars

\* Every thread of the pool and the draining event loop keep running, and the
\* mutex is eventually granted.  Nothing is assumed of the producers.
FairSpec == /\ Spec
            /\ \A t \in Thread : WF_vars(ThreadStep(t))
            /\ WF_vars(DrainStep)
--------------------------------------------------------------------------------
TypeOK == /\ list \subseteq Item
          /\ before \subseteq list \X list
          /\ count \in Int
          /\ processing \subseteq Item
          /\ data \in [Item -> Ptr \cup {None}]
          /\ blocked \in [Item -> BOOLEAN]
          /\ pc \in [Thread -> PC]
          /\ held \in [Thread -> Item \cup {None}]
          /\ mpc \in MPC
          /\ mptr \in Ptr \cup {None}
          /\ mid \in Item \cup {None}
          /\ closed \subseteq Ptr
          /\ drained \subseteq closed

\* q->count, which decides whether a fetching thread sleeps and when the pool
\* may stop, is the length of q->list whatever calls add to it and delete
\* from it (queue_add, queue_remove, queue_remove_byptr, queue_fetchone).
CountExact == count = Cardinality(list)

\* No item is processed by two threads, none is queued while it is processed,
\* and the tokens that queue_pending_waitptr looks at are exactly the items
\* being processed (queue_fetchone, queue_return_item).
ExclusiveHold ==
  /\ \A t, u \in Thread : t # u /\ held[t] # None => held[t] # held[u]
  /\ \A t \in Thread : held[t] \notin list
  /\ processing = {held[t] : t \in {u \in Thread : pc[u] = "holding"}}

\* A ready item never finds all the threads of the pool asleep, although
\* queue_unblock_byptr signals once for many items and queue_fetchone does
\* not test its condition again after the wait.
NoLostWakeup == Ready # {} => \E t \in Thread : pc[t] # "waiting"

\* Once queue_remove_byptr and queue_pending_waitptr have returned for a
\* connection, no thread processes an item of it: the event loop may free it.
DrainSafe == \A t \in Thread : pc[t] = "holding" => data[held[t]] \notin drained

\* What the queue still holds for a drained connection is blocked, and stays
\* so: no thread is handed a connection that the event loop has freed
\* (queue_remove_byptr, queue_return_item).
DrainedBlocked == \A p \in drained : \A i \in ItemsOf(p) : blocked[i]

\* A ready item is fetched, or removed, in the end: none is starved by items
\* that are returned and queued again (queue_fetchone, queue_add).
ReadyServed == \A i \in Item : i \in Ready ~> i \notin Ready

\* queue_pending_waitptr returns: the broadcast of queue_return_item comes
\* after the token is gone, so the event loop does not sleep through it.
DrainEnds == mpc # "idle" ~> mpc = "idle"
--------------------------------------------------------------------------------
\* The items a thread works on, and those between the first and the second
\* critical section of queue_return_item, as the abstract queue sees them.
AbsHeld == [t \in Thread |-> IF pc[t] = "holding" THEN held[t] ELSE None]
AbsLimbo == {held[t] : t \in {u \in Thread : pc[u] = "releasing"}}

WQ == INSTANCE WorkQueue WITH held <- AbsHeld, limbo <- AbsLimbo

\* queue.c implements the abstract work queue: with its counter, its tokens
\* and its two condition variables it does what WorkQueue does in one step.
ImplementsWorkQueue == WQ!Spec
================================================================================

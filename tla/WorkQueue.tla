------------------------------- MODULE WorkQueue -------------------------------
(***************************************************************************)
(* What the work queue of a thread pool promises to the rest of khttp,     *)
(* without its mutex, condition variables, counter or token list.  Items   *)
(* carry the pointer of the connection they concern.  A thread takes the   *)
(* oldest item that is not blocked, and gives it back either finished (it  *)
(* disappears) or blocked (it returns to the end of the list a moment      *)
(* later).  The event loop drains a connection: it removes the             *)
(* connection's items and then waits until no thread holds one.            *)
(***************************************************************************)
CONSTANTS Thread,   \* the threads of the pool
          Item,     \* identities of queue items
          Ptr,      \* the connections that items point to
          None      \* no item, no connection

VARIABLES list,     \* the items queued
          before,   \* the order of the queued items
          data,     \* data[i] is the connection of i, None when i is unused
          blocked,  \* blocked[i]: i waits for an event on its connection
          held,     \* held[t] is the item that t is processing
          limbo,    \* items given back blocked that are not queued again yet
          closed,   \* connections whose items the event loop has removed
          drained   \* connections the event loop has drained

vars == <<list, before, data, blocked, held, limbo, closed, drained>>

Ready == {i \in list : ~blocked[i]}

ItemsOf(p) == {i \in list : data[i] = p}

FirstReady(i) == /\ i \in Ready
                 /\ \A j \in Ready : <<j, i>> \notin before

Append(i) == /\ list' = list \cup {i}
             /\ before' = before \cup (list \X {i})

Discard(S) == /\ list' = list \ S
              /\ before' = before \cap ((list \ S) \X (list \ S))
              /\ data' = [i \in Item |-> IF i \in S THEN None ELSE data[i]]

Init == /\ list = {}
        /\ before = {}
        /\ data = [i \in Item |-> None]
        /\ blocked = [i \in Item |-> FALSE]
        /\ held = [t \in Thread |-> None]
        /\ limbo = {}
        /\ closed = {}
        /\ drained = {}

\* A producer queues a new item for an open connection.
Put(i, p) == /\ data[i] = None
             /\ p \notin closed
             /\ Append(i)
             /\ data' = [data EXCEPT ![i] = p]
             /\ blocked' = [blocked EXCEPT ![i] = FALSE]
             /\ UNCHANGED <<held, limbo, closed, drained>>

\* A queued item is withdrawn.
Drop(i) == /\ i \in list
           /\ Discard({i})
           /\ UNCHANGED <<blocked, held, limbo, closed, drained>>

\* The event a set of items waits for has happened.
Unblock(S) == /\ S \subseteq list
              /\ \A i \in S : data[i] \notin closed
              /\ blocked' = [i \in Item |-> IF i \in S THEN FALSE ELSE blocked[i]]
              /\ UNCHANGED <<list, before, data, held, limbo, closed, drained>>

\* A thread that holds nothing takes the oldest item that is not blocked.
Take(t) == /\ held[t] = None
           /\ \E i \in list :
                /\ FirstReady(i)
                /\ list' = list \ {i}
                /\ before' = before \cap ((list \ {i}) \X (list \ {i}))
                /\ held' = [held EXCEPT ![t] = i]
           /\ UNCHANGED <<data, blocked, limbo, closed, drained>>

\* A thread lets go of its item, to be queued again if it is blocked.
GiveBack(t, b) == /\ held[t] # None
                  /\ held' = [held EXCEPT ![t] = None]
                  /\ blocked' = [blocked EXCEPT ![held[t]] = b]
                  /\ limbo' = limbo \cup {held[t]}
                  /\ UNCHANGED <<list, before, data, closed, drained>>

\* A blocked item is queued again, behind all others.
Requeue(i) == /\ i \in limbo
              /\ blocked[i]
              /\ Append(i)
              /\ limbo' = limbo \ {i}
              /\ UNCHANGED <<data, blocked, held, closed, drained>>

\* A finished item ceases to exist.
Forget(i) == /\ i \in limbo
             /\ ~blocked[i]
             /\ data' = [data EXCEPT ![i] = None]
             /\ limbo' = limbo \ {i}
             /\ UNCHANGED <<list, before, blocked, held, closed, drained>>

\* The event loop removes everything queued for a connection ...
Close(p) == /\ p \notin closed
            /\ Discard(ItemsOf(p))
            /\ closed' = closed \cup {p}
            /\ UNCHANGED <<blocked, held, limbo, drained>>

\* ... and may rely on the connection being idle once it is drained.
Drain(p) == /\ p \in closed
            /\ \A t \in Thread : held[t] # None => data[held[t]] # p
            /\ drained' = drained \cup {p}
            /\ UNCHANGED <<list, before, data, blocked, held, limbo, closed>>

Next == \/ \E i \in Item, p \in Ptr : Put(i, p)
        \/ \E i \in Item : Drop(i) \/ Requeue(i) \/ Forget(i)
        \/ \E S \in SUBSET Item : Unblock(S)
        \/ \E t \in Thread : Take(t) \/ \E b \in BOOLEAN : GiveBack(t, b)
        \/ \E p \in Ptr : Close(p) \/ Drain(p)

Spec == Init /\ [][Next]_vars
================================================================================

---------------------------- MODULE TaskQueueProofs ----------------------------
(***************************************************************************)
(* Proofs about queue.c as TaskQueue models it, for any number of threads, *)
(* items and connections.                                                  *)
(***************************************************************************)
EXTENDS TaskQueue, FiniteSetTheorems, TLAPS

\* Which threads own an item, and that owned and queued items are allocated.
HoldOK == /\ \A t \in Thread : held[t] # None <=> pc[t] \in {"holding", "releasing"}
          /\ \A t \in Thread : held[t] # None => data[held[t]] # None
          /\ \A i \in list : data[i] # None

\* The drain in progress concerns a closed connection, and what is queued for
\* a closed connection came back blocked after its items were removed.
DrainOK == /\ mpc # "idle" => mptr \in closed
           /\ \A i \in list : data[i] \in closed => blocked[i]

\* The inductive invariant.
IInv == TypeOK /\ CountExact /\ HoldOK /\ ExclusiveHold /\ NoLostWakeup
               /\ DrainOK /\ DrainSafe

\* What a thread owns is an item id and the threads that hold nothing say None.
LEMMA HeldType ==
  ASSUME TypeOK, HoldOK, NEW t \in Thread, pc[t] \in {"holding", "releasing"}
  PROVE  held[t] \in Item /\ held[t] # None
BY DEF TypeOK, HoldOK

\* A signal changes nothing but "waiting" to "woken".
LEMMA SignalFacts ==
  ASSUME NEW f \in [Thread -> PC], NEW g \in Signal(f)
  PROVE  /\ g \in [Thread -> PC]
         /\ \A t \in Thread : g[t] = f[t] \/ (f[t] = "waiting" /\ g[t] = "woken")
         /\ \E t \in Thread : g[t] # "waiting"
<1>1. CASE Waiters(f) = {}
  <2>1. g = f
    BY <1>1 DEF Signal
  <2>2. PICK t \in Thread : TRUE
    BY ThreadAssumption
  <2>3. f[t] # "waiting"
    BY <1>1 DEF Waiters
  <2> QED BY <2>1, <2>3
<1>2. CASE Waiters(f) # {}
  <2>1. PICK t \in Waiters(f) : g = [f EXCEPT ![t] = "woken"]
    BY <1>2 DEF Signal
  <2>2. t \in Thread /\ f[t] = "waiting"
    BY DEF Waiters
  <2> QED BY <2>1, <2>2 DEF PC
<1> QED BY <1>1, <1>2

\* The type invariant holds in every reachable state, the deallocations and
\* the drain of a connection by the event loop included.
LEMMA TypeStep ==
  ASSUME TypeOK, HoldOK, DrainOK, [Next]_vars
  PROVE  TypeOK'
<1> USE DEF TypeOK, PC, MPC
<1>1. ASSUME NEW i \in Item, NEW p \in Ptr, Add(i, p) PROVE TypeOK'
  <2>1. pc' \in [Thread -> PC]
    BY <1>1, SignalFacts DEF Add
  <2> QED BY <1>1, <2>1 DEF Add, Append, mvars
<1>2. ASSUME NEW i \in Item, Remove(i) PROVE TypeOK'
  BY <1>2 DEF Remove, Unlink, Freed, tvars, mvars
<1>3. ASSUME NEW i \in Item, Unblock(i) PROVE TypeOK'
  <2>1. pc' \in [Thread -> PC]
    BY <1>3, SignalFacts DEF Unblock
  <2> QED BY <1>3, <2>1 DEF Unblock, mvars
<1>4. ASSUME NEW p \in Ptr, UnblockByPtr(p) PROVE TypeOK'
  <2>1. pc' \in [Thread -> PC]
    BY <1>4, SignalFacts DEF UnblockByPtr
  <2>2. blocked' \in [Item -> BOOLEAN]
    BY <1>4 DEF UnblockByPtr
  <2> QED BY <1>4, <2>1, <2>2 DEF UnblockByPtr, mvars
<1>5. CASE Ping
  BY <1>5 DEF Ping, Broadcast, qvars, mvars
<1>6. ASSUME NEW t \in Thread, Take(t) PROVE TypeOK'
  BY <1>6 DEF Take, FirstReady, Ready, Unlink, mvars
<1>7. ASSUME NEW t \in Thread, FetchWait(t) \/ SpuriousWake(t) PROVE TypeOK'
  BY <1>7 DEF FetchWait, SpuriousWake, qvars, mvars
<1>8. ASSUME NEW t \in Thread, FetchOne(t) \/ FetchWake(t) PROVE TypeOK'
  BY <1>6, <1>8 DEF FetchOne, FetchWake, qvars, mvars
<1>9. ASSUME NEW t \in Thread, NEW b \in BOOLEAN, ReturnRelease(t, b) PROVE TypeOK'
  BY <1>9, HeldType DEF ReturnRelease, mvars
<1>10. ASSUME NEW t \in Thread, ReturnFinish(t) PROVE TypeOK'
  BY <1>10 DEF ReturnFinish, Freed, mvars
<1>11. ASSUME NEW t \in Thread, ReturnRequeue(t) PROVE TypeOK'
  BY <1>11, HeldType DEF ReturnRequeue, Append, mvars
<1>12. ASSUME NEW t \in Thread, ReturnNotify(t) PROVE TypeOK'
  BY <1>12 DEF ReturnNotify, qvars
<1>13. ASSUME NEW p \in Ptr, RemoveByPtr(p) PROVE TypeOK'
  <2>1. Cardinality(ItemsOf(p)) \in Int
    BY ItemAssumption, FS_Subset, FS_CardinalityType DEF ItemsOf
  <2> QED BY <1>13, <2>1 DEF RemoveByPtr, Unlink, Freed, tvars
<1>14. CASE PendingScan
  BY <1>14 DEF PendingScan, TokensOf, DrainOK, qvars, tvars
<1>15. CASE PendingCheck \/ PendingSpurious
  BY <1>15 DEF PendingCheck, PendingSpurious, qvars, tvars
<1>16. CASE UNCHANGED vars
  BY <1>16 DEF vars
<1> QED
  BY <1>1, <1>2, <1>3, <1>4, <1>5, <1>7, <1>8, <1>9, <1>10, <1>11, <1>12,
     <1>13, <1>14, <1>15, <1>16
     DEF Next, Producer, ThreadStep, DrainStep

\* Appending and unlinking keep the counter equal to the length of the list.
LEMMA CountLemma ==
  ASSUME TypeOK, CountExact
  PROVE  /\ IsFiniteSet(list)
         /\ \A i \in Item \ list : Append(i) => CountExact'
         /\ \A i \in list : Unlink({i}, 1) => CountExact'
         /\ \A S \in SUBSET list : Unlink(S, Cardinality(S)) => CountExact'
<1>1. IsFiniteSet(list)
  BY ItemAssumption, FS_Subset DEF TypeOK
<1>2. ASSUME NEW i \in Item \ list, Append(i) PROVE CountExact'
  BY <1>1, <1>2, FS_AddElement DEF Append, CountExact
<1>3. ASSUME NEW i \in list, Unlink({i}, 1) PROVE CountExact'
  BY <1>1, <1>3, FS_RemoveElement DEF Unlink, CountExact
<1>4. ASSUME NEW S \in SUBSET list, Unlink(S, Cardinality(S)) PROVE CountExact'
  <2>1. list \cap S = S
    OBVIOUS
  <2>2. Cardinality(list \ S) = Cardinality(list) - Cardinality(list \cap S)
    BY <1>1, FS_Difference
  <2> QED BY <1>4, <2>1, <2>2 DEF Unlink, CountExact
<1> QED BY <1>1, <1>2, <1>3, <1>4

\* Every critical section of queue.c keeps q->count equal to the list's length.
LEMMA CountStep ==
  ASSUME TypeOK, CountExact, HoldOK, ExclusiveHold, [Next]_vars
  PROVE  CountExact'
<1>1. ASSUME NEW i \in Item, NEW p \in Ptr, Add(i, p) PROVE CountExact'
  BY <1>1, CountLemma DEF Add, HoldOK
<1>2. ASSUME NEW i \in Item, Remove(i) PROVE CountExact'
  BY <1>2, CountLemma DEF Remove
<1>3. ASSUME NEW i \in Item, Unblock(i) PROVE CountExact'
  BY <1>3 DEF Unblock, CountExact
<1>4. ASSUME NEW p \in Ptr, UnblockByPtr(p) PROVE CountExact'
  BY <1>4 DEF UnblockByPtr, CountExact
<1>5. CASE Ping
  BY <1>5 DEF Ping, qvars, CountExact
<1>6. ASSUME NEW t \in Thread, Take(t) PROVE CountExact'
  BY <1>6, CountLemma DEF Take
<1>7. ASSUME NEW t \in Thread, FetchWait(t) \/ SpuriousWake(t) PROVE CountExact'
  BY <1>7 DEF FetchWait, SpuriousWake, qvars, CountExact
<1>8. ASSUME NEW t \in Thread, FetchOne(t) \/ FetchWake(t) PROVE CountExact'
  BY <1>6, <1>8 DEF FetchOne, FetchWake, qvars, CountExact
<1>9. ASSUME NEW t \in Thread, NEW b \in BOOLEAN, ReturnRelease(t, b)
      PROVE  CountExact'
  BY <1>9 DEF ReturnRelease, CountExact
<1>10. ASSUME NEW t \in Thread, ReturnFinish(t) PROVE CountExact'
  BY <1>10 DEF ReturnFinish, CountExact
<1>11. ASSUME NEW t \in Thread, ReturnRequeue(t) PROVE CountExact'
  <2>1. held[t] \in Item \ list
    BY <1>11, HeldType DEF ReturnRequeue, ExclusiveHold
  <2> QED BY <1>11, <2>1, CountLemma DEF ReturnRequeue
<1>12. ASSUME NEW t \in Thread, ReturnNotify(t) PROVE CountExact'
  BY <1>12 DEF ReturnNotify, qvars, CountExact
<1>13. ASSUME NEW p \in Ptr, RemoveByPtr(p) PROVE CountExact'
  BY <1>13, CountLemma DEF RemoveByPtr, ItemsOf
<1>14. CASE PendingScan
  BY <1>14 DEF PendingScan, qvars, CountExact
<1>15. CASE PendingCheck \/ PendingSpurious
  BY <1>15 DEF PendingCheck, PendingSpurious, qvars, CountExact
<1>16. CASE UNCHANGED vars
  BY <1>16 DEF vars, CountExact
<1> QED
  BY <1>1, <1>2, <1>3, <1>4, <1>5, <1>7, <1>8, <1>9, <1>10, <1>11, <1>12,
     <1>13, <1>14, <1>15, <1>16
     DEF Next, Producer, ThreadStep, DrainStep

\* Every critical section keeps ownership and allocation of items consistent.
LEMMA HoldStep ==
  ASSUME TypeOK, HoldOK, ExclusiveHold, [Next]_vars
  PROVE  HoldOK'
<1> USE DEF TypeOK, HoldOK, PC
<1>1. ASSUME NEW i \in Item, NEW p \in Ptr, Add(i, p) PROVE HoldOK'
  BY <1>1, SignalFacts, NoneAssumption DEF Add, Append
<1>2. ASSUME NEW i \in Item, Remove(i) PROVE HoldOK'
  BY <1>2 DEF Remove, Unlink, Freed, ExclusiveHold, tvars
<1>3. ASSUME NEW i \in Item, Unblock(i) PROVE HoldOK'
  BY <1>3, SignalFacts DEF Unblock
<1>4. ASSUME NEW p \in Ptr, UnblockByPtr(p) PROVE HoldOK'
  BY <1>4, SignalFacts DEF UnblockByPtr
<1>5. CASE Ping
  BY <1>5 DEF Ping, Broadcast, qvars
<1>6. ASSUME NEW t \in Thread, Take(t) PROVE HoldOK'
  BY <1>6, NoneAssumption DEF Take, Unlink
<1>7. ASSUME NEW t \in Thread, FetchWait(t) \/ SpuriousWake(t) PROVE HoldOK'
  BY <1>7 DEF FetchWait, SpuriousWake, qvars
<1>8. ASSUME NEW t \in Thread, FetchOne(t) \/ FetchWake(t) PROVE HoldOK'
  BY <1>6, <1>8 DEF FetchOne, FetchWake, qvars
<1>9. ASSUME NEW t \in Thread, NEW b \in BOOLEAN, ReturnRelease(t, b)
      PROVE  HoldOK'
  BY <1>9 DEF ReturnRelease
<1>10. ASSUME NEW t \in Thread, ReturnFinish(t) PROVE HoldOK'
  BY <1>10 DEF ReturnFinish, Freed, ExclusiveHold
<1>11. ASSUME NEW t \in Thread, ReturnRequeue(t) PROVE HoldOK'
  BY <1>11 DEF ReturnRequeue, Append
<1>12. ASSUME NEW t \in Thread, ReturnNotify(t) PROVE HoldOK'
  BY <1>12 DEF ReturnNotify, qvars
<1>13. ASSUME NEW p \in Ptr, RemoveByPtr(p) PROVE HoldOK'
  BY <1>13 DEF RemoveByPtr, Unlink, Freed, ItemsOf, ExclusiveHold, tvars
<1>14. CASE PendingScan
  BY <1>14 DEF PendingScan, qvars, tvars
<1>15. CASE PendingCheck \/ PendingSpurious
  BY <1>15 DEF PendingCheck, PendingSpurious, qvars, tvars
<1>16. CASE UNCHANGED vars
  BY <1>16 DEF vars
<1> QED
  BY <1>1, <1>2, <1>3, <1>4, <1>5, <1>7, <1>8, <1>9, <1>10, <1>11, <1>12,
     <1>13, <1>14, <1>15, <1>16
     DEF Next, Producer, ThreadStep, DrainStep

\* Every critical section keeps items with one owner and tokens with holders.
LEMMA ExclusiveStep ==
  ASSUME TypeOK, HoldOK, ExclusiveHold, [Next]_vars
  PROVE  ExclusiveHold'
<1> USE DEF TypeOK, HoldOK, ExclusiveHold, PC
<1>1. ASSUME NEW i \in Item, NEW p \in Ptr, Add(i, p) PROVE ExclusiveHold'
  BY <1>1, SignalFacts, NoneAssumption DEF Add, Append, mvars
<1>2. ASSUME NEW i \in Item, Remove(i) PROVE ExclusiveHold'
  BY <1>2 DEF Remove, Unlink, tvars
<1>3. ASSUME NEW i \in Item, Unblock(i) PROVE ExclusiveHold'
  BY <1>3, SignalFacts DEF Unblock
<1>4. ASSUME NEW p \in Ptr, UnblockByPtr(p) PROVE ExclusiveHold'
  BY <1>4, SignalFacts DEF UnblockByPtr
<1>5. CASE Ping
  BY <1>5 DEF Ping, Broadcast, qvars
<1>6. ASSUME NEW t \in Thread, pc[t] \in {"fetch", "woken"}, Take(t)
      PROVE  ExclusiveHold'
  BY <1>6, NoneAssumption DEF Take, Unlink
<1>7. ASSUME NEW t \in Thread, FetchWait(t) \/ SpuriousWake(t)
      PROVE  ExclusiveHold'
  BY <1>7 DEF FetchWait, SpuriousWake, qvars
<1>8. ASSUME NEW t \in Thread, FetchOne(t) \/ FetchWake(t) PROVE ExclusiveHold'
  BY <1>6, <1>8 DEF FetchOne, FetchWake, qvars
<1>9. ASSUME NEW t \in Thread, NEW b \in BOOLEAN, ReturnRelease(t, b)
      PROVE  ExclusiveHold'
  BY <1>9 DEF ReturnRelease
<1>10. ASSUME NEW t \in Thread, ReturnFinish(t) PROVE ExclusiveHold'
  BY <1>10, NoneAssumption DEF ReturnFinish
<1>11. ASSUME NEW t \in Thread, ReturnRequeue(t) PROVE ExclusiveHold'
  BY <1>11, NoneAssumption DEF ReturnRequeue, Append
<1>12. ASSUME NEW t \in Thread, ReturnNotify(t) PROVE ExclusiveHold'
  BY <1>12 DEF ReturnNotify, qvars
<1>13. ASSUME NEW p \in Ptr, RemoveByPtr(p) PROVE ExclusiveHold'
  BY <1>13 DEF RemoveByPtr, Unlink, tvars
<1>14. CASE PendingScan
  BY <1>14 DEF PendingScan, qvars, tvars
<1>15. CASE PendingCheck \/ PendingSpurious
  BY <1>15 DEF PendingCheck, PendingSpurious, qvars, tvars
<1>16. CASE UNCHANGED vars
  BY <1>16 DEF vars
<1> QED
  BY <1>1, <1>2, <1>3, <1>4, <1>5, <1>7, <1>8, <1>9, <1>10, <1>11, <1>12,
     <1>13, <1>14, <1>15, <1>16
     DEF Next, Producer, ThreadStep, DrainStep

\* No critical section leaves a ready item with all threads asleep: one that
\* makes an item ready signals, and a thread sleeps only on an empty list.
LEMMA WakeStep ==
  ASSUME TypeOK, CountExact, HoldOK, NoLostWakeup, [Next]_vars
  PROVE  NoLostWakeup'
<1> USE DEF TypeOK, NoLostWakeup, Ready, PC
<1>1. ASSUME NEW i \in Item, NEW p \in Ptr, Add(i, p) PROVE NoLostWakeup'
  BY <1>1, SignalFacts DEF Add
<1>2. ASSUME NEW i \in Item, Remove(i) PROVE NoLostWakeup'
  BY <1>2 DEF Remove, Unlink, tvars
<1>3. ASSUME NEW i \in Item, Unblock(i) PROVE NoLostWakeup'
  BY <1>3, SignalFacts DEF Unblock
<1>4. ASSUME NEW p \in Ptr, UnblockByPtr(p) PROVE NoLostWakeup'
  BY <1>4, SignalFacts DEF UnblockByPtr
<1>5. CASE Ping
  BY <1>5 DEF Ping, Broadcast, Waiters
<1>6. ASSUME NEW t \in Thread, Take(t) PROVE NoLostWakeup'
  BY <1>6 DEF Take
<1>7. ASSUME NEW t \in Thread, FetchWait(t) PROVE NoLostWakeup'
  <2>1. list = {}
    BY <1>7, CountLemma, FS_EmptySet DEF FetchWait, CountExact
  <2> QED BY <1>7, <2>1 DEF FetchWait, qvars
<1>8. ASSUME NEW t \in Thread, SpuriousWake(t) PROVE NoLostWakeup'
  BY <1>8 DEF SpuriousWake
<1>9. ASSUME NEW t \in Thread, FetchOne(t) \/ FetchWake(t) PROVE NoLostWakeup'
  BY <1>6, <1>9 DEF FetchOne, FetchWake, qvars
<1>10. ASSUME NEW t \in Thread, NEW b \in BOOLEAN, ReturnRelease(t, b)
       PROVE  NoLostWakeup'
  BY <1>10 DEF ReturnRelease
<1>11. ASSUME NEW t \in Thread, ReturnFinish(t) \/ ReturnRequeue(t) \/ ReturnNotify(t)
       PROVE  NoLostWakeup'
  BY <1>11 DEF ReturnFinish, ReturnRequeue, ReturnNotify
<1>12. ASSUME NEW p \in Ptr, RemoveByPtr(p) PROVE NoLostWakeup'
  BY <1>12 DEF RemoveByPtr, Unlink, tvars
<1>13. CASE PendingScan \/ PendingCheck \/ PendingSpurious
  BY <1>13 DEF PendingScan, PendingCheck, PendingSpurious, qvars, tvars
<1>14. CASE UNCHANGED vars
  BY <1>14 DEF vars
<1> QED
  BY <1>1, <1>2, <1>3, <1>4, <1>5, <1>7, <1>8, <1>9, <1>10, <1>11, <1>12,
     <1>13, <1>14
     DEF Next, Producer, ThreadStep, DrainStep

\* No critical section hands out an item of a drained connection.
LEMMA DrainStepLemma ==
  ASSUME TypeOK, HoldOK, ExclusiveHold, DrainOK, DrainSafe, [Next]_vars
  PROVE  DrainOK' /\ DrainSafe'
<1> USE DEF TypeOK, HoldOK, DrainOK, DrainSafe, PC
<1>1. ASSUME NEW i \in Item, NEW p \in Ptr, Add(i, p) PROVE DrainOK' /\ DrainSafe'
  BY <1>1, SignalFacts DEF Add, Append, mvars
<1>2. ASSUME NEW i \in Item, Remove(i) PROVE DrainOK' /\ DrainSafe'
  BY <1>2 DEF Remove, Unlink, Freed, ExclusiveHold, tvars, mvars
<1>3. ASSUME NEW i \in Item, Unblock(i) PROVE DrainOK' /\ DrainSafe'
  BY <1>3, SignalFacts DEF Unblock, mvars
<1>4. ASSUME NEW p \in Ptr, UnblockByPtr(p) PROVE DrainOK' /\ DrainSafe'
  <2>1. ASSUME NEW i \in list, data[i] \in closed PROVE blocked'[i] = blocked[i]
    BY <1>4, <2>1 DEF UnblockByPtr, ItemsOf
  <2>2. DrainOK'
    BY <1>4, <2>1 DEF UnblockByPtr, mvars
  <2>3. DrainSafe'
    BY <1>4, SignalFacts DEF UnblockByPtr, mvars
  <2> QED BY <2>2, <2>3
<1>5. CASE Ping
  BY <1>5 DEF Ping, Broadcast, qvars, mvars
<1>6. ASSUME NEW t \in Thread, Take(t) PROVE DrainOK' /\ DrainSafe'
  BY <1>6 DEF Take, FirstReady, Ready, Unlink, mvars
<1>7. ASSUME NEW t \in Thread, FetchWait(t) \/ SpuriousWake(t)
      PROVE  DrainOK' /\ DrainSafe'
  BY <1>7 DEF FetchWait, SpuriousWake, qvars, mvars
<1>8. ASSUME NEW t \in Thread, FetchOne(t) \/ FetchWake(t)
      PROVE  DrainOK' /\ DrainSafe'
  BY <1>6, <1>8 DEF FetchOne, FetchWake, qvars, mvars
<1>9. ASSUME NEW t \in Thread, NEW b \in BOOLEAN, ReturnRelease(t, b)
      PROVE  DrainOK' /\ DrainSafe'
  BY <1>9 DEF ReturnRelease, ExclusiveHold, mvars
<1>10. ASSUME NEW t \in Thread, ReturnFinish(t) PROVE DrainOK' /\ DrainSafe'
  BY <1>10 DEF ReturnFinish, Freed, ExclusiveHold, mvars
<1>11. ASSUME NEW t \in Thread, ReturnRequeue(t) PROVE DrainOK' /\ DrainSafe'
  BY <1>11 DEF ReturnRequeue, Append, mvars
<1>12. ASSUME NEW t \in Thread, ReturnNotify(t) PROVE DrainOK' /\ DrainSafe'
  BY <1>12 DEF ReturnNotify, qvars
<1>13. ASSUME NEW p \in Ptr, RemoveByPtr(p) PROVE DrainOK' /\ DrainSafe'
  BY <1>13 DEF RemoveByPtr, Unlink, Freed, ItemsOf, ExclusiveHold, tvars
<1>14. CASE PendingScan
  BY <1>14 DEF PendingScan, TokensOf, ExclusiveHold, qvars, tvars
<1>15. CASE PendingCheck \/ PendingSpurious
  BY <1>15 DEF PendingCheck, PendingSpurious, qvars, tvars
<1>16. CASE UNCHANGED vars
  BY <1>16 DEF vars
<1> QED
  BY <1>1, <1>2, <1>3, <1>4, <1>5, <1>7, <1>8, <1>9, <1>10, <1>11, <1>12,
     <1>13, <1>14, <1>15, <1>16
     DEF Next, Producer, ThreadStep, DrainStep
--------------------------------------------------------------------------------
\* The inductive invariant holds in every reachable state of the queue.
THEOREM Invariance == Spec => []IInv
<1>1. Init => IInv
  BY FS_EmptySet, ThreadAssumption, NoneAssumption
     DEF Init, IInv, TypeOK, CountExact, HoldOK, ExclusiveHold, NoLostWakeup,
         DrainOK, DrainSafe, Ready, PC, MPC
<1>2. IInv /\ [Next]_vars => IInv'
  BY TypeStep, CountStep, HoldStep, ExclusiveStep, WakeStep, DrainStepLemma DEF IInv
<1> QED BY <1>1, <1>2, PTL DEF Spec

\* The queue's fields keep their types.
THEOREM TypeCorrect == Spec => []TypeOK
BY Invariance, PTL DEF IInv

\* q->count is the length of q->list after any calls in any order.
THEOREM CountCorrect == Spec => []CountExact
BY Invariance, PTL DEF IInv

\* No two threads process one item, and the tokens are the items processed.
THEOREM HoldCorrect == Spec => []ExclusiveHold
BY Invariance, PTL DEF IInv

\* A ready item never finds every thread of the pool asleep.
THEOREM WakeupCorrect == Spec => []NoLostWakeup
BY Invariance, PTL DEF IInv

\* After queue_pending_waitptr no thread processes an item of the connection.
THEOREM DrainCorrect == Spec => []DrainSafe
BY Invariance, PTL DEF IInv

\* The queue never holds a ready item of a drained connection, although
\* queue_return_item may put one back after queue_remove_byptr has run.
THEOREM DrainedBlockedCorrect == Spec => []DrainedBlocked
<1>1. IInv => DrainedBlocked
  BY DEF IInv, TypeOK, DrainOK, DrainedBlocked, ItemsOf
<1> QED BY <1>1, Invariance, PTL
--------------------------------------------------------------------------------
\* How a step looks through the refinement mapping: when no thread enters or
\* leaves the states in which it owns an item, the mapping does not change.
LEMMA MappingUnchanged ==
  ASSUME TypeOK, pc' \in [Thread -> PC], held' = held,
         \A t \in Thread : \A c \in {"holding", "releasing"} : pc'[t] = c <=> pc[t] = c
  PROVE  AbsHeld' = AbsHeld /\ AbsLimbo' = AbsLimbo
<1>1. AbsHeld' = AbsHeld
  BY DEF AbsHeld
<1>2. AbsLimbo' = AbsLimbo
  BY DEF AbsLimbo
<1> QED BY <1>1, <1>2

\* Taking an item is the abstract Take.
LEMMA TakeSimulation ==
  ASSUME IInv, NEW t \in Thread, pc[t] \in {"fetch", "woken"}, Take(t)
  PROVE  WQ!Take(t)
<1> USE DEF IInv, TypeOK, PC
<1>1. PICK i \in list : /\ FirstReady(i)
                        /\ Unlink({i}, 1)
                        /\ held' = [held EXCEPT ![t] = i]
                        /\ pc' = [pc EXCEPT ![t] = "holding"]
                        /\ UNCHANGED <<data, blocked, mvars>>
  BY DEF Take
<1>2. AbsHeld[t] = None /\ AbsHeld' = [AbsHeld EXCEPT ![t] = i]
  BY <1>1 DEF AbsHeld
<1>3. AbsLimbo' = AbsLimbo
  BY <1>1 DEF AbsLimbo
<1>4. WQ!FirstReady(i)
  BY <1>1 DEF FirstReady, Ready, WQ!FirstReady, WQ!Ready
<1> QED BY <1>1, <1>2, <1>3, <1>4 DEF WQ!Take, Unlink, mvars

\* Every step of queue.c is a step of the abstract queue or leaves it alone.
LEMMA StepSimulation ==
  ASSUME IInv, [Next]_vars
  PROVE  [WQ!Next]_WQ!vars
<1> USE DEF IInv, TypeOK, PC
<1>1. ASSUME NEW i \in Item, NEW p \in Ptr, Add(i, p) PROVE WQ!Put(i, p)
  <2>1. AbsHeld' = AbsHeld /\ AbsLimbo' = AbsLimbo
    BY <1>1, SignalFacts, MappingUnchanged DEF Add
  <2> QED BY <1>1, <2>1 DEF Add, Append, WQ!Put, WQ!Append, mvars
<1>2. ASSUME NEW i \in Item, Remove(i) PROVE WQ!Drop(i)
  <2>1. AbsHeld' = AbsHeld /\ AbsLimbo' = AbsLimbo
    BY <1>2, MappingUnchanged DEF Remove, tvars
  <2> QED BY <1>2, <2>1 DEF Remove, Unlink, Freed, WQ!Drop, WQ!Discard, mvars
<1>3. ASSUME NEW i \in Item, Unblock(i) PROVE WQ!Unblock({i})
  <2>1. AbsHeld' = AbsHeld /\ AbsLimbo' = AbsLimbo
    BY <1>3, SignalFacts, MappingUnchanged DEF Unblock
  <2>2. blocked' = [j \in Item |-> IF j \in {i} THEN FALSE ELSE blocked[j]]
    BY <1>3 DEF Unblock
  <2> QED BY <1>3, <2>1, <2>2 DEF Unblock, WQ!Unblock, mvars
<1>4. ASSUME NEW p \in Ptr, UnblockByPtr(p) PROVE WQ!Unblock(ItemsOf(p))
  <2>1. AbsHeld' = AbsHeld /\ AbsLimbo' = AbsLimbo
    BY <1>4, SignalFacts, MappingUnchanged DEF UnblockByPtr
  <2>2. \A i \in ItemsOf(p) : data[i] \notin closed
    BY <1>4 DEF UnblockByPtr, ItemsOf
  <2>3. ItemsOf(p) \subseteq list
    BY DEF ItemsOf
  <2> QED BY <1>4, <2>1, <2>2, <2>3 DEF UnblockByPtr, WQ!Unblock, mvars
<1>5. CASE Ping
  <2>1. AbsHeld' = AbsHeld /\ AbsLimbo' = AbsLimbo
    BY <1>5, MappingUnchanged DEF Ping, Broadcast
  <2> QED BY <1>5, <2>1 DEF Ping, WQ!vars, qvars, mvars
<1>6. ASSUME NEW t \in Thread, FetchWait(t) \/ SpuriousWake(t)
      PROVE  UNCHANGED WQ!vars
  <2>1. AbsHeld' = AbsHeld /\ AbsLimbo' = AbsLimbo
    BY <1>6, MappingUnchanged DEF FetchWait, SpuriousWake
  <2> QED BY <1>6, <2>1 DEF FetchWait, SpuriousWake, WQ!vars, qvars, mvars
<1>7. ASSUME NEW t \in Thread, FetchOne(t) PROVE WQ!Take(t)
  BY <1>7, TakeSimulation DEF FetchOne
<1>8. ASSUME NEW t \in Thread, FetchWake(t)
      PROVE  WQ!Take(t) \/ UNCHANGED WQ!vars
  <2>1. CASE Take(t)
    BY <1>8, <2>1, TakeSimulation DEF FetchWake
  <2>2. CASE ~Take(t)
    <3>1. AbsHeld' = AbsHeld /\ AbsLimbo' = AbsLimbo
      BY <1>8, <2>2, MappingUnchanged DEF FetchWake
    <3> QED BY <1>8, <2>2, <3>1 DEF FetchWake, WQ!vars, qvars, mvars
  <2> QED BY <2>1, <2>2
<1>9. ASSUME NEW t \in Thread, NEW b \in BOOLEAN, ReturnRelease(t, b)
      PROVE  WQ!GiveBack(t, b)
  <2>1. AbsHeld[t] = held[t] /\ held[t] # None
    BY <1>9, HeldType DEF AbsHeld, ReturnRelease
  <2>2. AbsHeld' = [AbsHeld EXCEPT ![t] = None]
    BY <1>9 DEF AbsHeld, ReturnRelease
  <2>3. AbsLimbo' = AbsLimbo \cup {held[t]}
    BY <1>9 DEF AbsLimbo, ReturnRelease
  <2> QED BY <1>9, <2>1, <2>2, <2>3 DEF ReturnRelease, WQ!GiveBack, mvars
<1>10. ASSUME NEW t \in Thread, pc[t] = "releasing", pc' = [pc EXCEPT ![t] = "notify"],
              held' = [held EXCEPT ![t] = None]
       PROVE  /\ held[t] \in AbsLimbo
              /\ AbsHeld' = AbsHeld
              /\ AbsLimbo' = AbsLimbo \ {held[t]}
  <2>1. AbsHeld' = AbsHeld
    BY <1>10 DEF AbsHeld
  <2>2. AbsLimbo' = AbsLimbo \ {held[t]}
    BY <1>10, HeldType DEF AbsLimbo, ExclusiveHold
  <2> QED BY <1>10, <2>1, <2>2 DEF AbsLimbo
<1>11. ASSUME NEW t \in Thread, ReturnFinish(t) PROVE WQ!Forget(held[t])
  <2>1. data' = [data EXCEPT ![held[t]] = None]
    BY <1>11, HeldType DEF ReturnFinish, Freed
  <2> QED BY <1>10, <1>11, <2>1 DEF ReturnFinish, WQ!Forget, mvars
<1>12. ASSUME NEW t \in Thread, ReturnRequeue(t) PROVE WQ!Requeue(held[t])
  BY <1>10, <1>12 DEF ReturnRequeue, Append, WQ!Requeue, WQ!Append, mvars
<1>13. ASSUME NEW t \in Thread, ReturnNotify(t) PROVE UNCHANGED WQ!vars
  <2>1. AbsHeld' = AbsHeld /\ AbsLimbo' = AbsLimbo
    BY <1>13, MappingUnchanged DEF ReturnNotify
  <2> QED BY <1>13, <2>1 DEF ReturnNotify, WQ!vars, qvars
<1>14. ASSUME NEW p \in Ptr, RemoveByPtr(p) PROVE WQ!Close(p)
  <2>1. AbsHeld' = AbsHeld /\ AbsLimbo' = AbsLimbo
    BY <1>14, MappingUnchanged DEF RemoveByPtr, tvars
  <2> QED BY <1>14, <2>1
          DEF RemoveByPtr, Unlink, Freed, ItemsOf, WQ!Close, WQ!Discard, WQ!ItemsOf
<1>15. CASE PendingScan
  <2>1. AbsHeld' = AbsHeld /\ AbsLimbo' = AbsLimbo
    BY <1>15, MappingUnchanged DEF PendingScan, tvars
  <2>2. CASE TokensOf(mptr) = {}
    <3>1. \A t \in Thread : AbsHeld[t] # None => data[AbsHeld[t]] # mptr
      BY <2>2 DEF TokensOf, AbsHeld, ExclusiveHold
    <3>2. WQ!Drain(mptr)
      BY <1>15, <2>1, <2>2, <3>1 DEF PendingScan, DrainOK, WQ!Drain, qvars
    <3> QED BY <1>15, <3>2 DEF PendingScan, DrainOK, WQ!Next
  <2>3. CASE TokensOf(mptr) # {}
    BY <1>15, <2>1, <2>3 DEF PendingScan, WQ!vars, qvars
  <2> QED BY <2>2, <2>3
<1>16. CASE PendingCheck \/ PendingSpurious
  <2>1. AbsHeld' = AbsHeld /\ AbsLimbo' = AbsLimbo
    BY <1>16, MappingUnchanged DEF PendingCheck, PendingSpurious, tvars
  <2> QED BY <1>16, <2>1 DEF PendingCheck, PendingSpurious, WQ!vars, qvars
<1>17. CASE UNCHANGED vars
  BY <1>17 DEF vars, WQ!vars, AbsHeld, AbsLimbo
<1>18. ASSUME NEW t \in Thread, pc[t] = "releasing" PROVE held[t] \in Item
  BY <1>18, HeldType
<1>19. \A p \in Ptr : ItemsOf(p) \in SUBSET Item
  BY DEF ItemsOf
<1>20. CASE Producer
  BY <1>1, <1>2, <1>3, <1>4, <1>5, <1>19, <1>20 DEF Producer, WQ!Next
<1>21. ASSUME NEW t \in Thread, ThreadStep(t) \/ SpuriousWake(t)
       PROVE  [WQ!Next]_WQ!vars
  BY <1>6, <1>7, <1>8, <1>9, <1>11, <1>12, <1>13, <1>18, <1>21
     DEF ThreadStep, ReturnFinish, ReturnRequeue, WQ!Next
<1> QED
  BY <1>14, <1>15, <1>16, <1>17, <1>20, <1>21 DEF Next, DrainStep, WQ!Next

\* queue.c implements the abstract work queue.
THEOREM Refinement == Spec => ImplementsWorkQueue
<1>1. Init => WQ!Init
  BY DEF Init, WQ!Init, AbsHeld, AbsLimbo
<1>2. IInv /\ [Next]_vars => [WQ!Next]_WQ!vars
  BY StepSimulation
<1> QED BY <1>1, <1>2, Invariance, PTL DEF Spec, WQ!Spec, ImplementsWorkQueue
================================================================================

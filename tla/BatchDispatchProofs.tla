------------------------ MODULE BatchDispatchProofs ------------------------
(***************************************************************************)
(* The bounds of the dispatch loop, for every window, graph and number of  *)
(* runs, whichever calls fail.  Neither bound is inductive: they say       *)
(* nothing about the loop's counter.  LoopInv ties batches_since_wait to   *)
(* the device: it is the number of batches added since mark, and it has    *)
(* not reached the window when the loop goes round without a boundary.     *)
(* DrainInv then says how far back of mark the last wait lies that         *)
(* succeeded, and QueueInv what the queue holds when the loop begins.      *)
(***************************************************************************)
EXTENDS BatchDispatch, FiniteSetTheorems, TLAPS

InLoop == pc \in {"add", "event", "flush", "wait"}

LoopInv ==
  /\ offset < batches
  /\ pc = "add" => offset >= 0
  /\ base <= mark
  /\ InLoop => batches_since_wait = added - mark
  /\ InLoop => added - base = IF offset = -1 THEN batches ELSE offset
  /\ Window > 0 => added - mark <= Window
  /\ pc = "add" /\ Window > 0 => batches_since_wait < Window
  /\ pc = "event" => batches_since_wait >= Window /\ Window > 0
  /\ pc = "flush" /\ boundary_event = 0 /\ Window > 0 => batches_since_wait < Window
  /\ pc = "flush" /\ boundary_event # 0 =>
       boundary_event = added /\ batches_since_wait >= Window /\ Window > 0
  /\ pc = "wait" => boundary_event = added /\ batches_since_wait >= Window /\ Window > 0

(* The batches added between the last wait that succeeded and mark.        *)
Unheeded == Window * unheeded

(* Where the last successful wait of this Dispatch was, or where it began. *)
Drained == mark - Unheeded

DrainInv ==
  Window > 0 =>
    /\ base <= Drained
    /\ Drained > base => finished >= Drained

(* What the failures since the last successful wait may leave behind.      *)
Credit == missed * (2 * Window - 1)

QueueInv ==
  Window > 0 /\ batches >= Window =>
    /\ InLoop /\ mark = base => mark - finished <= Credit + Window - 1
    /\ InLoop /\ mark > base => mark - finished <= Credit
    /\ pc = "idle" => added - finished <= Credit + Window - 1

IInv == TypeOK /\ LoopInv /\ DrainInv /\ QueueInv

USE WindowAssumption, BatchesAssumption, DrainsAssumption, DispatchesAssumption

(* One more failure is one window, or two, more.                           *)
LEMMA Grow ==
  ASSUME NEW n \in Nat, NEW k \in Int
  PROVE  /\ (n + 1) * k = n * k + k
         /\ (1 + n) * k = n * k + k
         /\ k * (n + 1) = k * n + k
         /\ k * (1 + n) = k * n + k
         /\ n * k \in Int /\ k * n \in Int
         /\ 0 * k = 0 /\ k * 0 = 0
         /\ k >= 0 => n * k >= 0 /\ k * n >= 0
  OBVIOUS

(* The types of the two products.                                          *)
LEMMA Products ==
  ASSUME TypeOK, Window > 0
  PROVE  Unheeded \in Nat /\ Credit \in Nat
<1>1. unheeded \in Nat /\ missed \in Nat /\ Window \in Int /\ 2 * Window - 1 \in Int
  BY DEF TypeOK
<1>2. Unheeded \in Int /\ Unheeded >= 0
  BY <1>1, Grow DEF Unheeded
<1> DEFINE k == 2 * Window - 1
<1>3. k \in Int /\ k >= 0
  OBVIOUS
<1>4. missed * k \in Int /\ missed * k >= 0
  <2> HIDE DEF k
  <2> QED
    BY <1>1, <1>3, Grow
<1>5. QED
  BY <1>2, <1>4 DEF Credit

(* The initial states have the types, and no batch is on the queue.        *)
LEMMA InitIInv == Init => IInv
<1> SUFFICES ASSUME Init PROVE IInv
  OBVIOUS
<1>1. TypeOK /\ LoopInv
  BY DEF Init, TypeOK, LoopInv, InLoop
<1>2. Unheeded = 0
  BY Grow DEF Init, Unheeded
<1>3. Credit = 0
  <2> DEFINE k == 2 * Window - 1
  <2>1. k \in Int
    OBVIOUS
  <2>2. 0 * k = 0
    BY <2>1
  <2>3. QED
    BY <2>2 DEF Init, Credit
<1>4. QED
  BY <1>1, <1>2, <1>3 DEF IInv, DrainInv, QueueInv, Drained, InLoop, Init

(* Every statement of the loop, every error, returned or not, and every    *)
(* batch the GPU finishes keeps the loop's counter and the device in step. *)
LEMMA StepLoopInv == TypeOK /\ LoopInv /\ [Next]_vars => TypeOK' /\ LoopInv'
<1> SUFFICES ASSUME TypeOK, LoopInv, [Next]_vars PROVE TypeOK' /\ LoopInv'
  OBVIOUS
<1> USE DEF TypeOK, LoopInv, InLoop, Goto, options, loop, device, history
<1>1. CASE Dispatch
  BY <1>1 DEF Dispatch
<1>2. CASE AddToQueue
  <2>1. added' = added + 1 /\ batches_since_wait' = batches_since_wait + 1
    BY <1>2 DEF AddToQueue
  <2>2. offset' \in -1..batches /\ (offset' = IF offset + 1 = batches THEN -1 ELSE offset + 1)
    BY <1>2 DEF AddToQueue
  <2>3. CASE WaitForBoundary(batches_since_wait + 1)
    BY <1>2, <2>1, <2>2, <2>3 DEF AddToQueue, WaitForBoundary
  <2>4. CASE ~WaitForBoundary(batches_since_wait + 1)
    BY <1>2, <2>1, <2>2, <2>4 DEF AddToQueue, WaitForBoundary
  <2>5. QED
    BY <2>3, <2>4
<1>3. CASE AddToQueueFails
  BY <1>3 DEF AddToQueueFails, RETURN_IF_ERROR
<1>4. CASE EnqueueEvent
  BY <1>4 DEF EnqueueEvent
<1>5. CASE EnqueueEventFails
  BY <1>5 DEF EnqueueEventFails, RETURN_IF_ERROR
<1>6. CASE ClFlush
  BY <1>6 DEF ClFlush, LoopOrReturn
<1>7. CASE Wait
  BY <1>7 DEF Wait, LeaveWait, LoopOrReturn
<1>8. CASE WaitFails
  BY <1>8 DEF WaitFails, LeaveWait, LoopOrReturn
<1>9. CASE FinishBatch
  BY <1>9 DEF FinishBatch
<1>10. CASE UNCHANGED vars
  BY <1>10 DEF vars
<1>11. QED
  BY <1>1, <1>2, <1>3, <1>4, <1>5, <1>6, <1>7, <1>8, <1>9, <1>10 DEF Next

(* A wait that succeeds moves Drained up to mark, one that fails leaves it *)
(* where it was: mark moves one window and so does Unheeded.               *)
LEMMA StepDrainInv == IInv /\ [Next]_vars => DrainInv'
<1> SUFFICES ASSUME IInv, [Next]_vars, Window > 0
             PROVE  base' <= Drained' /\ (Drained' > base' => finished' >= Drained')
  BY DEF DrainInv
<1>1. TypeOK /\ LoopInv /\ base <= Drained /\ (Drained > base => finished >= Drained)
  BY DEF IInv, DrainInv
<1>2. Unheeded \in Nat
  BY <1>1, Products
<1>3. unheeded' = unheeded => Unheeded' = Unheeded
  BY DEF Unheeded
<1>4. unheeded' = 0 => Unheeded' = 0
  BY Grow DEF Unheeded
<1>5. unheeded' = unheeded + 1 => Unheeded' = Unheeded + Window
  BY <1>1, Grow DEF Unheeded, TypeOK
<1>6. ASSUME UNCHANGED <<base, mark, unheeded>>, finished' >= finished, finished' \in Nat
      PROVE  base' <= Drained' /\ (Drained' > base' => finished' >= Drained')
  BY <1>1, <1>2, <1>3, <1>6 DEF Drained, TypeOK
<1> USE DEF TypeOK, LoopInv, InLoop, Goto, options, loop, device, history
<1>7. CASE Dispatch
  BY <1>1, <1>4, <1>7 DEF Dispatch, Drained
<1>8. CASE AddToQueue
  BY <1>1, <1>6, <1>8 DEF AddToQueue
<1>9. CASE AddToQueueFails
  BY <1>1, <1>6, <1>9 DEF AddToQueueFails, RETURN_IF_ERROR
<1>10. CASE EnqueueEvent
  BY <1>1, <1>6, <1>10 DEF EnqueueEvent
<1>11. CASE EnqueueEventFails
  BY <1>1, <1>6, <1>11 DEF EnqueueEventFails, RETURN_IF_ERROR
<1>12. CASE ClFlush
  BY <1>1, <1>6, <1>12 DEF ClFlush
<1>13. CASE Wait
  BY <1>1, <1>4, <1>13 DEF Wait, LeaveWait, Drained
<1>14. CASE WaitFails
  <2>1. Unheeded' = Unheeded + Window
    BY <1>5, <1>14 DEF WaitFails
  <2>2. mark' = added /\ added - mark = Window /\ base' = base /\ finished' = finished
    BY <1>1, <1>14 DEF WaitFails, LeaveWait
  <2>3. Drained' = Drained
    BY <1>1, <1>2, <2>1, <2>2 DEF Drained
  <2>4. QED
    BY <1>1, <2>2, <2>3
<1>15. CASE FinishBatch
  BY <1>1, <1>6, <1>15 DEF FinishBatch
<1>16. CASE UNCHANGED vars
  BY <1>1, <1>6, <1>16 DEF vars
<1>17. QED
  BY <1>7, <1>8, <1>9, <1>10, <1>11, <1>12, <1>13, <1>14, <1>15, <1>16 DEF Next

(* A graph of at least window batches has a boundary, so what a Dispatch   *)
(* leaves behind when it returns is less than a window, and the next one   *)
(* has waited before it adds more than a window to it.                     *)
LEMMA StepQueueInv == IInv /\ [Next]_vars => QueueInv'
<1> SUFFICES ASSUME IInv, [Next]_vars, Window > 0, batches' >= Window PROVE QueueInv'
  BY DEF QueueInv
<1> DEFINE k == 2 * Window - 1
<1>1. TypeOK /\ LoopInv /\ QueueInv
  BY DEF IInv
<1>2. batches' = batches
  BY DEF Next, vars, Dispatch, AddToQueue, AddToQueueFails, EnqueueEvent, EnqueueEventFails,
         RETURN_IF_ERROR, ClFlush, Wait, WaitFails, LeaveWait, FinishBatch, options
<1>3. Credit \in Nat /\ k \in Nat
  BY <1>1, Products
<1>4. missed' = missed => Credit' = Credit
  BY DEF Credit
<1>5. missed' = 0 => Credit' = 0
  BY <1>3, Grow DEF Credit
<1>6. missed' = missed + 1 => Credit' = Credit + k
  BY <1>1, <1>3, Grow DEF Credit, TypeOK
<1>7. /\ InLoop /\ mark = base => mark - finished <= Credit + Window - 1
      /\ InLoop /\ mark > base => mark - finished <= Credit
      /\ pc = "idle" => added - finished <= Credit + Window - 1
  BY <1>1, <1>2 DEF QueueInv
<1> USE <1>2, <1>3 DEF TypeOK, LoopInv, InLoop, QueueInv, Goto, options, loop, device, history
<1> HIDE DEF k
<1>8. k = 2 * Window - 1
  BY DEF k
<1>9. CASE Dispatch
  BY <1>1, <1>4, <1>7, <1>9 DEF Dispatch
<1>10. CASE AddToQueue
  <2>1. /\ UNCHANGED <<finished, base, mark, missed>>
        /\ pc = "add" /\ pc' \in {"event", "flush"}
    BY <1>10 DEF AddToQueue
  <2>2. QED
    BY <1>1, <1>4, <1>7, <2>1
<1>11. ASSUME InLoop, pc' = "idle", missed' = missed + 1, UNCHANGED <<added, finished>>
       PROVE  QueueInv'
  <2>1. added - finished <= Credit + k
    BY <1>1, <1>7, <1>8, <1>11
  <2>2. QED
    BY <1>1, <1>6, <1>11, <2>1
<1>12. CASE AddToQueueFails
  BY <1>11, <1>12 DEF AddToQueueFails, RETURN_IF_ERROR
<1>13. CASE EnqueueEvent
  BY <1>1, <1>4, <1>7, <1>13 DEF EnqueueEvent
<1>14. CASE EnqueueEventFails
  BY <1>11, <1>14 DEF EnqueueEventFails, RETURN_IF_ERROR
<1>15. CASE ClFlush
  <2>1. UNCHANGED <<added, finished, base, mark, missed, offset>> /\ pc = "flush"
    BY <1>15 DEF ClFlush
  <2>2. CASE pc' = "idle"
    <3>1. boundary_event = 0 /\ offset = -1
      BY <1>15, <2>2 DEF ClFlush, LoopOrReturn
    <3>2. mark > base /\ added - mark <= Window - 1
      BY <1>1, <2>1, <3>1
    <3>3. QED
      BY <1>1, <1>4, <1>7, <2>1, <2>2, <3>2
  <2>3. CASE pc' # "idle"
    BY <1>1, <1>4, <1>7, <2>1, <2>3
  <2>4. QED
    BY <2>2, <2>3
<1>16. CASE Wait
  <2>1. /\ mark' = added /\ finished' = finished /\ added' = added /\ base' = base
        /\ finished >= added /\ missed' = 0
    BY <1>1, <1>16 DEF Wait, LeaveWait
  <2>2. QED
    BY <1>1, <1>5, <2>1
<1>17. CASE WaitFails
  <2>1. /\ mark' = added /\ finished' = finished /\ added' = added /\ base' = base
        /\ missed' = missed + 1 /\ pc = "wait" /\ added - mark = Window
    BY <1>1, <1>17 DEF WaitFails, LeaveWait
  <2>2. added - finished <= Credit + k
    BY <1>1, <1>7, <1>8, <2>1
  <2>3. mark' > base'
    BY <1>1, <2>1
  <2>4. QED
    BY <1>1, <1>6, <2>1, <2>2, <2>3
<1>18. CASE FinishBatch
  BY <1>1, <1>4, <1>7, <1>18 DEF FinishBatch
<1>19. CASE UNCHANGED vars
  BY <1>1, <1>4, <1>7, <1>19 DEF vars
<1>20. QED
  BY <1>9, <1>10, <1>12, <1>13, <1>14, <1>15, <1>16, <1>17, <1>18, <1>19 DEF Next

(* The inductive invariant as a whole.                                     *)
LEMMA StepIInv == IInv /\ [Next]_vars => IInv'
  BY StepLoopInv, StepDrainInv, StepQueueInv DEF IInv

(* Unfinished batches of this Dispatch lie above Drained.                  *)
LEMMA IInvImpliesBound == IInv => DispatchWithinWindow
<1> SUFFICES ASSUME IInv, Window > 0
             PROVE  Cardinality(UnfinishedHere) <= Window * (1 + unheeded)
  BY DEF DispatchWithinWindow
<1>1. /\ added \in Nat /\ mark \in Nat /\ base \in Nat /\ finished \in Nat
      /\ mark <= added /\ unheeded \in Nat
  BY DEF IInv, TypeOK
<1>2. Unheeded \in Nat /\ Drained \in Int
  BY <1>1, Products DEF IInv, Drained
<1> DEFINE low == Drained + 1
<1>3. UnfinishedHere \subseteq low..added
  BY <1>1, <1>2 DEF UnfinishedHere, IInv, DrainInv
<1>4. low \in Int /\ added \in Int
  BY <1>1, <1>2
<1>5. /\ IsFiniteSet(low..added)
      /\ Cardinality(low..added) = IF low > added THEN 0 ELSE added - low + 1
  <2> HIDE DEF low
  <2> QED
    BY <1>4, FS_Interval
<1>6. Cardinality(UnfinishedHere) <= Cardinality(low..added)
  BY <1>3, <1>5, FS_Subset
<1>7. Cardinality(UnfinishedHere) \in Nat
  BY <1>3, <1>5, FS_Subset, FS_CardinalityType
<1>8. added - Drained <= Window + Unheeded
  BY <1>1, <1>2 DEF IInv, LoopInv, Drained
<1>9. Window * (1 + unheeded) = Window + Unheeded
  BY <1>1, <1>2, Grow DEF Unheeded
<1>10. Cardinality(low..added) <= Window + Unheeded
  BY <1>1, <1>2, <1>5, <1>8
<1>11. QED
  <2> DEFINE here == Cardinality(UnfinishedHere)
  <2> DEFINE range == Cardinality(low..added)
  <2>1. here \in Nat /\ here <= range /\ range <= Window + Unheeded /\ range \in Int
    BY <1>4, <1>5, <1>6, <1>7, <1>10
  <2> HIDE DEF here, range
  <2>2. here <= Window + Unheeded
    BY <1>2, <2>1
  <2>3. here <= Window * (1 + unheeded)
    BY <1>9, <2>2, Zenon
  <2>4. QED
    BY <2>3 DEF here

(* Inside the loop at most a window comes on top of what lay before mark.  *)
LEMMA IInvImpliesQueueBound == IInv => QueueWithinTwoWindows
<1> SUFFICES ASSUME IInv, Window > 0, batches >= Window
             PROVE  added - finished <= (1 + missed) * (2 * Window - 1)
  BY DEF QueueWithinTwoWindows
<1> DEFINE k == 2 * Window - 1
<1>1. TypeOK /\ LoopInv /\ QueueInv /\ Credit \in Nat /\ k \in Int
  BY Products DEF IInv
<1>2. (1 + missed) * k = Credit + k
  <2>1. missed \in Nat
    BY <1>1 DEF TypeOK
  <2>2. (1 + missed) * k = missed * k + k
    <3> HIDE DEF k
    <3> QED
      BY <1>1, <2>1, Grow
  <2>3. QED
    BY <2>2 DEF Credit
<1>3. added - finished <= Credit + k
  BY <1>1 DEF TypeOK, LoopInv, QueueInv, InLoop
<1>4. QED
  BY <1>2, <1>3

(* Type correctness of Dispatch for every window and graph.                *)
THEOREM TypeCorrect == Spec => []TypeOK
<1>1. IInv => TypeOK
  BY DEF IInv
<1>2. QED
  BY InitIInv, StepIInv, <1>1, PTL DEF Spec

(* The promise of the patch: with a positive window a Dispatch never has   *)
(* more than window batches of its own unfinished, and one window more for *)
(* each wait that has failed since the last that did not.                  *)
THEOREM DispatchBounded == Spec => []DispatchWithinWindow
  BY InitIInv, StepIInv, IInvImpliesBound, PTL DEF Spec

(* Over all calls of Dispatch the queue of graphs of at least window       *)
(* batches holds less than two windows, times one more than the failures   *)
(* since the last successful wait.                                         *)
THEOREM QueueBoundedAcross == Spec => []QueueWithinTwoWindows
  BY InitIInv, StepIInv, IInvImpliesQueueBound, PTL DEF Spec

(* The bound as a strict one: where the next batch is added, there is room *)
(* for it in the window.                                                   *)
LEMMA RoomToAdd ==
  ASSUME IInv, pc = "add", Window > 0
  PROVE  Cardinality({i \in UnfinishedHere : i > mark}) < Window
<1> DEFINE Since == {i \in UnfinishedHere : i > mark}
<1>1. added \in Nat /\ mark \in Nat /\ base \in Nat /\ finished \in Nat /\ mark <= added
  BY DEF IInv, TypeOK
<1>2. Since \subseteq (mark + 1)..added
  BY <1>1 DEF UnfinishedHere
<1> DEFINE low == mark + 1
<1>3. low \in Int /\ added \in Int
  BY <1>1
<1>4. /\ IsFiniteSet(low..added)
      /\ Cardinality(low..added) = IF low > added THEN 0 ELSE added - low + 1
  <2> HIDE DEF low
  <2> QED
    BY <1>3, FS_Interval
<1>5. Cardinality(Since) <= Cardinality(low..added)
  BY <1>2, <1>4, FS_Subset
<1>6. Cardinality(Since) \in Nat
  BY <1>2, <1>4, FS_Subset, FS_CardinalityType
<1>7. added - mark < Window
  BY DEF IInv, LoopInv, InLoop
<1>8. QED
  BY <1>1, <1>4, <1>5, <1>6, <1>7

(* A step of the loop, of the caller or of the GPU is a step of the        *)
(* abstract queue or leaves its account alone.                             *)
LEMMA StepRefines ==
  ASSUME Window > 0, IInv, [Next]_vars
  PROVE  [Bound!Next]_(Bound!vars)
<1> DEFINE Since == {i \in UnfinishedHere : i > mark}
<1>0. TypeOK /\ LoopInv
  BY DEF IInv
<1> USE <1>0 DEF TypeOK, LoopInv, InLoop, Goto, options, loop, device, history
<1>1. ASSUME Pending' = Pending, errors' = errors
      PROVE  UNCHANGED Bound!vars
  BY <1>1 DEF Bound!vars, PendingBar, ErrorsBar
<1>2. CASE Dispatch
  <2>1. errors' = errors /\ UnfinishedHere' = {} /\ status' = "ok" /\ drains' = drains
    BY <1>2 DEF Dispatch, UnfinishedHere
  <2>2. drains => Since = {}
    BY <1>2 DEF Dispatch, UnfinishedHere
  <2>3. Pending' = Pending
    BY <2>1, <2>2 DEF Pending
  <2>4. QED
    BY <1>1, <2>1, <2>3
<1>3. CASE AddToQueue
  <2>1. errors' = errors /\ status' = status /\ drains' = drains
    BY <1>3 DEF AddToQueue
  <2>2. CASE ~(drains /\ status = "ok")
    BY <1>1, <2>1, <2>2 DEF Pending
  <2>3. CASE drains /\ status = "ok"
    <3>1. Since' = Since \cup {added + 1}
      BY <1>3 DEF AddToQueue, UnfinishedHere
    <3>2. added + 1 \notin Since
      BY DEF UnfinishedHere
    <3>3. Cardinality(Since) < Window
      BY <1>3, RoomToAdd DEF AddToQueue
    <3>4. Pending = Since /\ Pending' = Since'
      BY <2>1, <2>3 DEF Pending
    <3>5. Bound!Submit("delegate")
      <4>1. PendingBar["delegate"] = Pending /\ PendingBar'["delegate"] = Pending'
        BY DEF PendingBar
      <4>2. PendingBar' = [PendingBar EXCEPT !["delegate"] = @ \cup {added + 1}]
        BY <3>1, <3>4 DEF PendingBar
      <4>3. UNCHANGED ErrorsBar
        BY <2>1 DEF ErrorsBar
      <4>4. added + 1 \in PendingBar'["delegate"] /\ added + 1 \notin PendingBar["delegate"]
        BY <3>1, <3>2, <3>4, <4>1
      <4>5. Cardinality(PendingBar["delegate"]) < Window
        BY <3>3, <3>4, <4>1
      <4>6. \E i \in PendingBar'["delegate"] :
              /\ i \notin PendingBar["delegate"]
              /\ PendingBar' = [PendingBar EXCEPT !["delegate"] = @ \cup {i}]
        BY <4>2, <4>4
      <4>7. Bound!Cardinality(PendingBar["delegate"]) = Cardinality(PendingBar["delegate"])
        BY DEF Bound!Cardinality, Cardinality
      <4>8. QED
        BY <4>3, <4>5, <4>6, <4>7, Zenon DEF Bound!Submit
    <3>6. QED
      BY <3>5 DEF Bound!Next
  <2>4. QED
    BY <2>2, <2>3
<1>4. ASSUME NEW from, NEW operation, RETURN_IF_ERROR(from, operation)
      PROVE  Bound!Next
  <2>1. errors' = errors + 1 /\ Pending' = {}
    BY <1>4 DEF RETURN_IF_ERROR, Pending
  <2>2. Bound!Fail("delegate")
    BY <2>1 DEF Bound!Fail, PendingBar, ErrorsBar
  <2>3. QED
    BY <2>2 DEF Bound!Next
<1>5. CASE AddToQueueFails
  BY <1>4, <1>5 DEF AddToQueueFails
<1>6. CASE EnqueueEvent
  BY <1>1, <1>6 DEF EnqueueEvent, Pending, UnfinishedHere
<1>7. CASE EnqueueEventFails
  BY <1>4, <1>7 DEF EnqueueEventFails
<1>8. CASE ClFlush
  BY <1>1, <1>8 DEF ClFlush, Pending, UnfinishedHere
<1>9. CASE Wait
  BY <1>1, <1>9 DEF Wait, LeaveWait, Pending, UnfinishedHere
<1>10. CASE WaitFails
  <2>1. errors' = errors + 1 /\ Pending' = {}
    BY <1>10 DEF WaitFails, LeaveWait, Pending, UnfinishedHere
  <2>2. Bound!Fail("delegate")
    BY <2>1 DEF Bound!Fail, PendingBar, ErrorsBar
  <2>3. QED
    BY <2>2 DEF Bound!Next
<1>11. CASE FinishBatch
  <2>1. errors' = errors /\ status' = status /\ drains' = drains
    BY <1>11 DEF FinishBatch
  <2>2. Since' = Since \ {finished + 1}
    BY <1>11 DEF FinishBatch, UnfinishedHere
  <2>3. CASE Pending' = Pending
    BY <1>1, <2>1, <2>3
  <2>4. CASE Pending' # Pending
    <3>1. Pending = Since /\ Pending' = Pending \ {finished + 1}
      BY <2>1, <2>2, <2>4 DEF Pending
    <3>2. finished + 1 \in Pending
      BY <2>4, <3>1
    <3>3. Bound!Complete("delegate")
      BY <2>1, <3>1, <3>2 DEF Bound!Complete, PendingBar, ErrorsBar
    <3>4. QED
      BY <3>3 DEF Bound!Next
  <2>5. QED
    BY <2>3, <2>4
<1>12. CASE UNCHANGED vars
  BY <1>1, <1>12 DEF vars, Pending, UnfinishedHere
<1>13. QED
  BY <1>2, <1>3, <1>5, <1>6, <1>7, <1>8, <1>9, <1>10, <1>11, <1>12 DEF Next

(* With a positive window the dispatch loop implements BoundedQueue for a  *)
(* caller that reads the outputs of a run before starting the next.        *)
THEOREM DispatchImplementsBoundedQueue ==
  ASSUME Window > 0
  PROVE  Spec => ImplementsBoundedQueue
<1>1. Init => Bound!Init
  BY DEF Init, Bound!Init, PendingBar, ErrorsBar, Pending, UnfinishedHere
<1>2. IInv /\ [Next]_vars => [Bound!Next]_(Bound!vars)
  BY StepRefines
<1>3. QED
  BY InitIInv, StepIInv, <1>1, <1>2, PTL DEF Spec, Bound!Spec, ImplementsBoundedQueue
=============================================================================

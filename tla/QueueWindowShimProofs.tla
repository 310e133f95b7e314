----------------------- MODULE QueueWindowShimProofs -----------------------
(***************************************************************************)
(* The table and the bound of the prototype, for any number of threads,    *)
(* queues and slots and any window: a slot counts exactly if it has a      *)
(* queue, no queue ever has two slots, and what a queue holds of a session *)
(* is bounded, whichever queue loses its slot to another and wherever a    *)
(* reset comes.                                                            *)
(***************************************************************************)
EXTENDS QueueWindowShim, Integers, FiniteSetTheorems, WellFoundedInduction, TLAPS

(* A set of slots has a first one.                                         *)
LEMMA FirstSlot ==
  ASSUME NEW S, S \subseteq 1..Slots, S # {}
  PROVE  First(S) \in S
<1>1. S \subseteq Nat
  BY SlotAssumption
<1>2. PICK x \in S : \A y \in S : <<y, x>> \notin OpToRel(<, Nat)
  BY <1>1, NatLessThanWellFounded, WFMin
<1>3. \A y \in S : ~(y < x)
  BY <1>1, <1>2, Zenon DEF OpToRel
<1>4. \A y \in S : x <= y
  BY <1>1, <1>3
<1>5. QED
  BY <1>4 DEF First

(* The slot that counts for a queue is its own if it has one.              *)
LEMMA SelectedSlot ==
  ASSUME NEW q, DOMAIN g_queue_counters = 1..Slots
  PROVE  /\ Select(q) \in 1..Slots
         /\ (\E i \in 1..Slots : g_queue_counters[i].queue = q)
              => g_queue_counters[Select(q)].queue = q
<1> DEFINE slotsOf(x) == {i \in 1..Slots : g_queue_counters[i].queue = x}
<1>1. \A x : slotsOf(x) \subseteq 1..Slots
  OBVIOUS
<1>2. Select(q) = IF slotsOf(q) # {} THEN First(slotsOf(q))
                  ELSE IF slotsOf(NoQueue) # {} THEN First(slotsOf(NoQueue)) ELSE 1
  BY DEF Select
<1>3. 1 \in 1..Slots
  BY SlotAssumption
<1>4. \A x : slotsOf(x) # {} => First(slotsOf(x)) \in slotsOf(x)
  <2> SUFFICES ASSUME NEW x, slotsOf(x) # {} PROVE First(slotsOf(x)) \in slotsOf(x)
    OBVIOUS
  <2> HIDE DEF slotsOf
  <2> QED
    BY <1>1, FirstSlot
<1>5. Select(q) \in 1..Slots
  BY <1>2, <1>3, <1>4
<1>6. ASSUME slotsOf(q) # {} PROVE g_queue_counters[Select(q)].queue = q
  BY <1>2, <1>4, <1>6
<1>7. QED
  BY <1>5, <1>6

Counter == [queue : Queues \cup {NoQueue}, dispatches : Nat]
Local == [queue : Queues \cup {NoQueue}, wait : BOOLEAN, session : Nat]
Kernel == [thread : Threads, session : Nat]

(* The part of the type that is about the table. *)
TableOK ==
  /\ g_queue_counters \in [1..Slots -> Counter]
  /\ \A i \in 1..Slots :
       (g_queue_counters[i].queue = NoQueue) <=> (g_queue_counters[i].dispatches = 0)
  /\ \A i, j \in 1..Slots :
       g_queue_counters[i].queue = g_queue_counters[j].queue
         => i = j \/ g_queue_counters[i].queue = NoQueue

(* The part about the threads and what they know of their calls. *)
CallsOK ==
  /\ pc \in [Threads -> {"idle", "count", "enqueue", "wait"}]
  /\ call \in [Threads -> Local]
  /\ \A t \in Threads : pc[t] # "idle" => call[t].queue \in Queues

(* The type is that of the table, that of the calls, and the rest.         *)
LEMMA Parts ==
  TypeOK <=>
    /\ g_window_size \in Windows /\ resolved \in BOOLEAN
    /\ TableOK /\ CallsOK
    /\ g_inference_enabled \in BOOLEAN /\ resetting \in BOOLEAN
    /\ submitted \in [Queues -> Seq(Kernel)]
    /\ calls \in 0..MaxCalls /\ controls \in 0..MaxControls
    /\ session \in Nat \ {0} /\ lost \in [Queues -> Nat]
  BY DEF TypeOK, TableOK, CallsOK, Counter, Local, Kernel

(* A dispatch is counted in one slot, which becomes the queue's. *)
LEMMA CountKeepsTable ==
  ASSUME TypeOK, NEW t \in Threads, Count(t)
  PROVE  TableOK'
<1> DEFINE q == call[t].queue
           slot == Select(q)
           owner == g_queue_counters[slot].queue
           n == IF owner = q THEN g_queue_counters[slot].dispatches + 1 ELSE 1
           counter == [queue |-> q, dispatches |-> n]
<1>1. TableOK /\ CallsOK
  BY Parts
<1>2. q \in Queues /\ q # NoQueue
  BY <1>1, QueueAssumption DEF Count, Goto, CallsOK
<1>3. /\ slot \in 1..Slots
      /\ (\E i \in 1..Slots : g_queue_counters[i].queue = q) => owner = q
  BY <1>1, SelectedSlot DEF TableOK
<1>4. n \in Nat \ {0}
  <2>1. g_queue_counters[slot].dispatches \in Nat
    BY <1>1, <1>3 DEF TableOK, Counter
  <2>2. QED
    BY <2>1
<1>5. g_queue_counters' = [g_queue_counters EXCEPT ![slot] = counter]
  BY DEF Count
<1>6. counter \in Counter /\ counter.queue = q /\ counter.dispatches = n
  BY <1>2, <1>4 DEF Counter
<1> HIDE DEF q, slot, owner, n, counter
<1>7. /\ g_queue_counters' \in [1..Slots -> Counter]
      /\ g_queue_counters'[slot] = counter
      /\ \A i \in 1..Slots : i # slot => g_queue_counters'[i] = g_queue_counters[i]
  BY <1>1, <1>3, <1>5, <1>6 DEF TableOK
<1>8. \A i \in 1..Slots : i # slot => g_queue_counters[i].queue # q
  BY <1>1, <1>2, <1>3 DEF TableOK, owner
<1>9. \A i \in 1..Slots :
        (g_queue_counters'[i].queue = NoQueue) <=> (g_queue_counters'[i].dispatches = 0)
  BY <1>1, <1>2, <1>4, <1>6, <1>7 DEF TableOK
<1>10. \A i, j \in 1..Slots :
         g_queue_counters'[i].queue = g_queue_counters'[j].queue
           => i = j \/ g_queue_counters'[i].queue = NoQueue
  BY <1>1, <1>6, <1>7, <1>8 DEF TableOK
<1>11. QED
  BY <1>7, <1>9, <1>10 DEF TableOK

(* The step of a thread keeps its call well typed. *)
LEMMA CallTypes ==
  ASSUME TypeOK, NEW t \in Threads,
         EnterCall(t) \/ Count(t) \/ Enqueue(t) \/ EnqueueFails(t) \/ Wait(t) \/ WaitFails(t)
  PROVE  CallsOK'
<1>1. CallsOK /\ session \in Nat
  BY Parts
<1>2. ASSUME NEW from, Return(t, from) PROVE CallsOK'
  <2>1. NoCall \in Local
    BY DEF NoCall, Local
  <2>2. pc' = [pc EXCEPT ![t] = "idle"] /\ call' = [call EXCEPT ![t] = NoCall]
    BY <1>2 DEF Return, Goto
  <2>3. QED
    BY <1>1, <2>1, <2>2 DEF CallsOK
<1>3. CASE EnterCall(t)
  <2>1. PICK q \in Queues : call' = [call EXCEPT ![t].queue = q]
    BY <1>3 DEF EnterCall
  <2>2. call' = [call EXCEPT ![t] = [call[t] EXCEPT !.queue = q]]
    BY <1>1, <2>1 DEF CallsOK
  <2>3. [call[t] EXCEPT !.queue = q] \in Local /\ [call[t] EXCEPT !.queue = q].queue = q
    BY <1>1 DEF CallsOK, Local
  <2>4. PICK to \in {"count", "enqueue"} : pc' = [pc EXCEPT ![t] = to]
    BY <1>3 DEF EnterCall, Goto
  <2>5. QED
    BY <1>1, <2>2, <2>3, <2>4 DEF CallsOK
<1>4. CASE Count(t)
  <2>1. PICK b \in BOOLEAN : call' = [call EXCEPT ![t].wait = b, ![t].session = session]
    BY <1>4 DEF Count
  <2>2. call' = [call EXCEPT ![t] = [call[t] EXCEPT !.wait = b, !.session = session]]
    BY <1>1, <2>1 DEF CallsOK
  <2> DEFINE l == [call[t] EXCEPT !.wait = b, !.session = session]
  <2>3. l \in Local /\ l.queue = call[t].queue
    BY <1>1 DEF CallsOK, Local
  <2>4. pc[t] = "count" /\ pc' = [pc EXCEPT ![t] = "enqueue"]
    BY <1>4 DEF Count, Goto
  <2>5. call' = [call EXCEPT ![t] = l]
    BY <2>2
  <2> HIDE DEF l
  <2>6. QED
    BY <1>1, <2>3, <2>4, <2>5 DEF CallsOK
<1>5. CASE Enqueue(t)
  <2>1. CASE Goto(t, "enqueue", "wait") /\ UNCHANGED call
    BY <1>1, <2>1 DEF Goto, CallsOK
  <2>2. QED
    BY <1>2, <1>5, <2>1 DEF Enqueue
<1>6. CASE EnqueueFails(t) \/ Wait(t) \/ WaitFails(t)
  BY <1>2, <1>6 DEF EnqueueFails, Wait, WaitFails
<1>7. QED
  BY <1>3, <1>4, <1>5, <1>6

LEMMA InitTypeOK == Init => TypeOK
<1> SUFFICES ASSUME Init PROVE TypeOK
  OBVIOUS
<1>1. NoCounter \in Counter /\ NoCounter.queue = NoQueue /\ NoCounter.dispatches = 0
  BY DEF NoCounter, Counter
<1>2. TableOK
  BY <1>1 DEF Init, TableOK
<1>3. NoCall \in Local
  BY DEF NoCall, Local
<1>4. CallsOK
  BY <1>3 DEF Init, CallsOK
<1>5. resolved \in BOOLEAN
  BY DEF Init
<1>6. submitted \in [Queues -> Seq(Kernel)]
  BY DEF Init
<1>7. calls \in 0..MaxCalls /\ controls \in 0..MaxControls
  BY BoundAssumption DEF Init
<1>8. g_window_size \in Windows /\ g_inference_enabled \in BOOLEAN /\ resetting \in BOOLEAN
  BY DEF Init
<1>9. session \in Nat \ {0}
  BY DEF Init
<1>10. lost \in [Queues -> Nat]
  BY DEF Init
<1>11. QED
  BY <1>2, <1>4, <1>5, <1>6, <1>7, <1>8, <1>9, <1>10, Parts

(* Every step keeps the types and gives no queue a second slot.            *)
LEMMA StepTypeOK == TypeOK /\ [Next]_vars => TypeOK'
<1> SUFFICES ASSUME TypeOK, [Next]_vars PROVE TypeOK'
  OBVIOUS
<1> USE DEF config
<1>1. /\ g_window_size \in Windows /\ resolved \in BOOLEAN /\ TableOK /\ CallsOK
      /\ g_inference_enabled \in BOOLEAN /\ resetting \in BOOLEAN
      /\ submitted \in [Queues -> Seq(Kernel)]
      /\ calls \in 0..MaxCalls /\ controls \in 0..MaxControls
      /\ session \in Nat \ {0} /\ lost \in [Queues -> Nat]
  BY Parts
<1>2. ASSUME UNCHANGED config, TableOK', CallsOK',
             g_inference_enabled' \in BOOLEAN /\ resetting' \in BOOLEAN,
             submitted' \in [Queues -> Seq(Kernel)],
             calls' \in 0..MaxCalls /\ controls' \in 0..MaxControls,
             session' \in Nat \ {0} /\ lost' \in [Queues -> Nat]
      PROVE  TypeOK'
  BY <1>1, <1>2, Parts DEF TypeOK, TableOK, CallsOK, Counter, Local, Kernel
<1>3. UNCHANGED g_queue_counters => TableOK'
  BY <1>1 DEF TableOK
<1>4. UNCHANGED <<pc, call>> => CallsOK'
  BY <1>1 DEF CallsOK
<1>5. ASSUME NEW t \in Threads, LoseBoundary(t) PROVE lost' \in [Queues -> Nat]
  <2>1. lost' = lost \/ \E q : lost' = [lost EXCEPT ![q] = @ + 1]
    BY <1>5 DEF LoseBoundary
  <2>2. QED
    BY <1>1, <2>1
<1>6. ASSUME NEW t \in Threads,
             EnterCall(t) \/ Count(t) \/ Enqueue(t) \/ EnqueueFails(t) \/ Wait(t) \/ WaitFails(t)
      PROVE  TypeOK'
  <2>1. CallsOK'
    BY <1>6, CallTypes
  <2>2. CASE EnterCall(t)
    BY <1>1, <1>2, <1>3, <2>1, <2>2, BoundAssumption DEF EnterCall
  <2>3. CASE Count(t)
    <3>1. lost' \in [Queues -> Nat]
      BY <1>1, <2>3 DEF Count
    <3>2. QED
      BY <1>1, <1>2, <2>1, <2>3, <3>1, CountKeepsTable DEF Count
  <2>4. CASE Enqueue(t)
    <3> DEFINE k == [thread |-> t, session |-> call[t].session]
    <3>1. k \in Kernel
      BY <1>1 DEF CallsOK, Local, Kernel
    <3>2. PICK q \in Queues : submitted' = [submitted EXCEPT ![q] = Append(submitted[q], k)]
      <4>1. call[t].queue \in Queues
        BY <1>1, <2>4 DEF Enqueue, Return, Goto, CallsOK
      <4>2. QED
        BY <2>4, <4>1 DEF Enqueue, Submit
    <3> HIDE DEF k
    <3>3. Append(submitted[q], k) \in Seq(Kernel)
      BY <1>1, <3>1
    <3>4. submitted' \in [Queues -> Seq(Kernel)]
      BY <1>1, <3>2, <3>3
    <3>5. lost' \in [Queues -> Nat]
      BY <1>1, <1>5, <2>4 DEF Enqueue
    <3>6. QED
      BY <1>1, <1>2, <1>3, <2>1, <2>4, <3>4, <3>5 DEF Enqueue
  <2>5. CASE EnqueueFails(t) \/ WaitFails(t)
    BY <1>1, <1>2, <1>3, <1>5, <2>1, <2>5 DEF EnqueueFails, WaitFails
  <2>6. CASE Wait(t)
    BY <1>1, <1>2, <1>3, <2>1, <2>6 DEF Wait
  <2>7. QED
    BY <1>6, <2>2, <2>3, <2>4, <2>5, <2>6
<1>7. CASE SetInferenceEnabled \/ Reset
  <2>1. controls' \in 0..MaxControls
    BY <1>1, <1>7, BoundAssumption DEF SetInferenceEnabled, Reset
  <2>2. /\ UNCHANGED <<config, g_queue_counters, pc, call, submitted, calls, session, lost>>
        /\ g_inference_enabled' \in BOOLEAN /\ resetting' \in BOOLEAN
    BY <1>1, <1>7 DEF SetInferenceEnabled, Reset
  <2>3. QED
    BY <1>1, <1>2, <1>3, <1>4, <2>1, <2>2
<1>8. CASE ClearTable
  <2>1. NoCounter \in Counter /\ NoCounter.queue = NoQueue /\ NoCounter.dispatches = 0
    BY DEF NoCounter, Counter
  <2>2. TableOK'
    BY <1>8, <2>1 DEF ClearTable, TableOK
  <2>3. session' \in Nat \ {0}
    BY <1>1, <1>8 DEF ClearTable
  <2>4. lost' \in [Queues -> Nat]
    BY <1>8 DEF ClearTable
  <2>5. QED
    BY <1>1, <1>2, <1>4, <1>8, <2>2, <2>3, <2>4 DEF ClearTable
<1>9. ASSUME NEW q \in Queues, FinishKernel(q) PROVE TypeOK'
  <2>1. submitted' \in [Queues -> Seq(Kernel)]
    BY <1>1, <1>9 DEF FinishKernel
  <2>2. QED
    BY <1>1, <1>2, <1>3, <1>4, <1>9, <2>1 DEF FinishKernel
<1>10. CASE UNCHANGED vars
  BY <1>1, <1>2, <1>3, <1>4, <1>10 DEF vars
<1>11. QED
  BY <1>6, <1>7, <1>8, <1>9, <1>10 DEF Next

(* The table stays a table: a slot counts exactly if it has a queue, and   *)
(* no queue has two slots, so a queue's dispatches are never counted in    *)
(* two places, though slots change hands and are cleared between the count *)
(* and the enqueue of a call.                                              *)
THEOREM TypeCorrect == Spec => []TypeOK
  BY InitTypeOK, StepTypeOK, PTL DEF Spec

----------------------------------------------------------------------------
(* Arithmetic: products by a window, and the remainder that counts towards *)
(* one.                                                                    *)

(* One window more.                                                        *)
LEMMA Grow ==
  ASSUME NEW x \in Int, NEW w \in Nat
  PROVE  x * w \in Int /\ (x + 1) * w = x * w + w
  OBVIOUS

(* More windows are at least as much work.                                 *)
LEMMA Mono ==
  ASSUME NEW x \in Int, NEW y \in Int, NEW w \in Nat, x <= y
  PROVE  x * w <= y * w
  OBVIOUS

(* A count is windows and a remainder.                                     *)
LEMMA DivMod ==
  ASSUME NEW n \in Nat, NEW w \in Nat \ {0}
  PROVE  \E d \in Int : n = d * w + (n % w) /\ (n % w) \in 0..(w - 1)
<1>1. (n \div w) \in Int /\ n = (n \div w) * w + (n % w) /\ (n % w) \in 0..(w - 1)
  OBVIOUS
<1>2. QED
  BY <1>1

(* The remainder after one more dispatch: it grows, or a boundary is       *)
(* reached.                                                                *)
LEMMA NextRemainder ==
  ASSUME NEW n \in Nat, NEW w \in Nat \ {0}
  PROVE  (n + 1) % w = IF n % w = w - 1 THEN 0 ELSE (n % w) + 1
<1>1. PICK d \in Int : n = d * w + (n % w) /\ (n % w) \in 0..(w - 1)
  BY DivMod
<1>2. PICK e \in Int : n + 1 = e * w + ((n + 1) % w) /\ ((n + 1) % w) \in 0..(w - 1)
  <2>1. n + 1 \in Nat
    OBVIOUS
  <2>2. QED
    BY <2>1, DivMod
<1>3. PICK r \in 0..(w - 1), s \in 0..(w - 1), x \in Int, y \in Int :
        /\ r = n % w /\ s = (n + 1) % w /\ x = d * w /\ y = e * w
        /\ n = x + r /\ n + 1 = y + s
  BY <1>1, <1>2, Grow
<1>4. (d + 1) * w = x + w /\ (e + 1) * w = y + w /\ (d + 2) * w = x + w + w
  <2>1. (d + 1 + 1) * w = (d + 1) * w + w
    BY Grow
  <2>2. d + 1 + 1 = d + 2
    OBVIOUS
  <2>3. QED
    BY <1>3, <2>1, <2>2, Grow
<1>5. ~(e < d)
  <2>1. SUFFICES ASSUME e + 1 <= d PROVE FALSE
    OBVIOUS
  <2>2. (e + 1) * w <= d * w
    BY <2>1, Mono
  <2>3. y + w <= x
    BY <2>2, <1>3, <1>4
  <2>4. QED
    BY <2>3, <1>3
<1>6. ~(e > d + 1)
  <2>1. SUFFICES ASSUME d + 2 <= e PROVE FALSE
    OBVIOUS
  <2>2. (d + 2) * w <= e * w
    BY <2>1, Mono
  <2>3. x + w + w <= y
    BY <2>2, <1>3, <1>4
  <2>4. QED
    BY <2>3, <1>3
<1>7. y = x \/ y = x + w
  <2>1. e = d \/ e = d + 1
    BY <1>5, <1>6
  <2>2. QED
    BY <2>1, <1>3, <1>4
<1>8. s = IF r = w - 1 THEN 0 ELSE r + 1
  <2>1. CASE y = x
    <3>1. s = r + 1
      BY <2>1, <1>3
    <3>2. QED
      BY <3>1, <1>3
  <2>2. CASE y = x + w
    <3>1. s = r + 1 - w
      BY <2>2, <1>3
    <3>2. QED
      BY <3>1, <1>3
  <2>3. QED
    BY <1>7, <2>1, <2>2
<1>9. QED
  BY <1>3, <1>8

----------------------------------------------------------------------------
(* The bound.  Three sets of threads say what a queue may still be owed:   *)
(* those whose counted dispatch the driver has not seen yet, those whose   *)
(* call is a boundary, and those of the latter that have put their kernel  *)
(* on the queue.  All are of this session.                                 *)

Underway(q) ==
  {t \in Threads : pc[t] = "enqueue" /\ call[t].queue = q /\ call[t].session = session}
AtBoundary(q) ==
  {t \in Threads : /\ pc[t] \in {"enqueue", "wait"} /\ call[t].wait
                   /\ call[t].queue = q /\ call[t].session = session}
Waiting(q) ==
  {t \in Threads : pc[t] = "wait" /\ call[t].queue = q /\ call[t].session = session}

(* The counted kernels of q that no kernel of the threads in S follows:    *)
(* what is left on the queue when all of them have been waited for.        *)
Behind(q, S) ==
  {i \in Counted(q) : \A j \in DOMAIN submitted[q] : submitted[q][j].thread \in S => j < i}

(* How far q has counted towards its next boundary. *)
Towards(q, p) ==
  \/ /\ \A i \in 1..Slots : g_queue_counters[i].queue # q
     /\ p = 0
  \/ \E i \in 1..Slots :
       /\ g_queue_counters[i].queue = q
       /\ p = g_queue_counters[i].dispatches % g_window_size

(* Whichever boundaries are waited for next, what is behind them is paid   *)
(* for by the boundaries left; and a thread that has counted towards a     *)
(* boundary since the last one is not in a boundary call.                  *)
Paid(q, p) ==
  /\ p # 0 => \E t \in Threads : t \notin AtBoundary(q)
  /\ \A S \in SUBSET Waiting(q) :
       Cardinality(Behind(q, S)) + Cardinality(Underway(q)) <=
         (Cardinality(AtBoundary(q)) - Cardinality(S) + lost[q]) * g_window_size
           + p + Cardinality(Threads) - 1

(* Calls and kernels are of this session or an earlier one, and a call is  *)
(* of none before it is counted.                                           *)
SessionsPass ==
  /\ \A t \in Threads : call[t].session <= session
  /\ \A t \in Threads : pc[t] \in {"idle", "count"} => call[t].session = 0
  /\ \A t \in Threads : pc[t] = "wait" => call[t].wait
  /\ \A q \in Queues : \A i \in DOMAIN submitted[q] : submitted[q][i].session <= session

EveryQueuePaid ==
  g_window_size # 0 =>
    \A q \in Queues, p \in 0..(g_window_size - 1) : Towards(q, p) => Paid(q, p)

OwedInv == SessionsPass /\ EveryQueuePaid

----------------------------------------------------------------------------
(* The sets the bound counts are finite. *)

(* Sets of threads are finite and no larger than all of them.              *)
LEMMA ThreadSets ==
  /\ Cardinality(Threads) \in Nat /\ Cardinality(Threads) >= 1
  /\ \A S \in SUBSET Threads :
       IsFiniteSet(S) /\ Cardinality(S) \in Nat /\ Cardinality(S) <= Cardinality(Threads)
<1>1. Cardinality(Threads) \in Nat /\ Cardinality(Threads) # 0
  BY ThreadAssumption, FS_CardinalityType, FS_EmptySet
<1>2. Cardinality(Threads) >= 1
  BY <1>1
<1>3. ASSUME NEW S \in SUBSET Threads
      PROVE  IsFiniteSet(S) /\ Cardinality(S) \in Nat /\ Cardinality(S) <= Cardinality(Threads)
  BY <1>3, ThreadAssumption, FS_Subset, FS_CardinalityType
<1>4. QED
  BY <1>1, <1>2, <1>3

(* One element more, one element less. *)
LEMMA OneMore ==
  ASSUME NEW S, NEW x, IsFiniteSet(S), x \notin S
  PROVE  IsFiniteSet(S \cup {x}) /\ Cardinality(S \cup {x}) = Cardinality(S) + 1
  BY FS_AddElement

(* Taking one away.                                                        *)
LEMMA OneLess ==
  ASSUME NEW S, NEW x, IsFiniteSet(S), x \in S
  PROVE  IsFiniteSet(S \ {x}) /\ Cardinality(S \ {x}) = Cardinality(S) - 1
  BY FS_RemoveElement

(* Sets of places on a queue are finite.                                   *)
LEMMA Indices ==
  ASSUME NEW n \in Nat, NEW S \in SUBSET (1..n)
  PROVE  IsFiniteSet(S) /\ Cardinality(S) \in Nat
<1>1. IsFiniteSet(1..n)
  BY FS_Interval
<1>2. QED
  BY <1>1, FS_Subset, FS_CardinalityType

(* So is what lies behind some boundaries.                                 *)
LEMMA BehindFinite ==
  ASSUME NEW q \in Queues, submitted[q] \in Seq(Kernel), NEW S
  PROVE  IsFiniteSet(Behind(q, S)) /\ Cardinality(Behind(q, S)) \in Nat
<1>1. Len(submitted[q]) \in Nat /\ DOMAIN submitted[q] = 1..Len(submitted[q])
  OBVIOUS
<1>2. Behind(q, S) \in SUBSET (1..Len(submitted[q]))
  BY <1>1 DEF Behind, Counted
<1>3. QED
  BY <1>1, <1>2, Indices

(* A window is a number.                                                   *)
LEMMA WindowSize == TypeOK => g_window_size \in Nat
<1>1. Windows \subseteq Nat
  BY ONLY WindowAssumption
<1>2. TypeOK => g_window_size \in Windows
  BY DEF TypeOK
<1>3. QED
  BY ONLY <1>1, <1>2

(* A queue counts towards its next boundary, and only one way. *)
LEMMA SomeProgress ==
  ASSUME TypeOK, g_window_size # 0, NEW q \in Queues
  PROVE  \E p \in 0..(g_window_size - 1) : Towards(q, p)
<1>1. g_window_size \in Nat \ {0}
  BY WindowSize
<1>2. CASE \A i \in 1..Slots : g_queue_counters[i].queue # q
  BY <1>1, <1>2 DEF Towards
<1>3. CASE \E i \in 1..Slots : g_queue_counters[i].queue = q
  <2>1. PICK i \in 1..Slots : g_queue_counters[i].queue = q
    BY <1>3
  <2>2. g_queue_counters[i].dispatches \in Nat
    BY Parts DEF TableOK, Counter
  <2>3. g_queue_counters[i].dispatches % g_window_size \in 0..(g_window_size - 1)
    BY <1>1, <2>2, DivMod
  <2>4. QED
    BY <2>1, <2>3 DEF Towards
<1>4. QED
  BY <1>2, <1>3

(* Two sets of threads that agree on all but one. *)
LEMMA SameButOne ==
  ASSUME NEW t \in Threads, NEW A \in SUBSET Threads, NEW B \in SUBSET Threads,
         \A u \in Threads \ {t} : u \in B <=> u \in A
  PROVE  /\ t \in B => B = A \cup {t}
         /\ t \notin B => B = A \ {t}
         /\ (t \in A <=> t \in B) => B = A
  OBVIOUS

(* What other threads owe stays as it is when t takes a step. *)
LEMMA OthersStay ==
  ASSUME NEW t \in Threads, TypeOK, session' = session,
         \A u \in Threads \ {t} : pc'[u] = pc[u] /\ call'[u] = call[u], NEW q
  PROVE  \A u \in Threads \ {t} :
           /\ u \in Underway(q)' <=> u \in Underway(q)
           /\ u \in AtBoundary(q)' <=> u \in AtBoundary(q)
           /\ u \in Waiting(q)' <=> u \in Waiting(q)
  BY DEF Underway, AtBoundary, Waiting

(* A queue none of whose sets, boundaries and counts change stays paid. *)
LEMMA StaysPaid ==
  ASSUME NEW q \in Queues, NEW p, Paid(q, p), g_window_size' = g_window_size,
         lost'[q] = lost[q], \A S \in SUBSET Waiting(q) : Behind(q, S)' = Behind(q, S),
         Underway(q)' = Underway(q), AtBoundary(q)' = AtBoundary(q), Waiting(q)' = Waiting(q)
  PROVE  Paid(q, p)'
  BY DEF Paid

----------------------------------------------------------------------------
(* Sessions. *)

(* Only a reset opens a session, and a call keeps the one it was counted   *)
(* in.                                                                     *)
LEMMA StepSessions ==
  ASSUME TypeOK, TypeOK', SessionsPass, [Next]_vars
  PROVE  SessionsPass'
<1> USE DEF config
<1>1. /\ session \in Nat \ {0} /\ TableOK /\ CallsOK /\ submitted \in [Queues -> Seq(Kernel)]
      /\ \A t \in Threads : call[t].session \in Nat
  BY Parts DEF CallsOK, Local
<1>2. \A q \in Queues : \A i \in DOMAIN submitted[q] : submitted[q][i].session \in Nat
  <2>1. SUFFICES ASSUME NEW q \in Queues, NEW i \in DOMAIN submitted[q]
                 PROVE  submitted[q][i].session \in Nat
    OBVIOUS
  <2>2. submitted[q] \in Seq(Kernel)
    BY <1>1
  <2>3. submitted[q][i] \in Kernel
    BY <2>1, <2>2
  <2>4. QED
    BY <2>3 DEF Kernel
<1>3. ASSUME NEW t \in Threads, NEW from, Return(t, from), session' = session,
             \A q \in Queues : \A i \in DOMAIN submitted'[q] : submitted'[q][i].session <= session
      PROVE  SessionsPass'
  <2>1. pc' = [pc EXCEPT ![t] = "idle"] /\ call' = [call EXCEPT ![t] = NoCall]
    BY <1>3 DEF Return, Goto
  <2>2. /\ pc'[t] = "idle" /\ call'[t].session = 0
        /\ \A u \in Threads \ {t} : pc'[u] = pc[u] /\ call'[u] = call[u]
    BY <1>1, <2>1 DEF CallsOK, NoCall
  <2>3. QED
    BY <1>1, <1>3, <2>2, SMTT(30) DEF SessionsPass
<1>4. ASSUME NEW t \in Threads, EnterCall(t) PROVE SessionsPass'
  <2>1. PICK q \in Queues : call' = [call EXCEPT ![t].queue = q]
    BY <1>4 DEF EnterCall
  <2>2. call' = [call EXCEPT ![t] = [call[t] EXCEPT !.queue = q]]
    BY <1>1, <2>1 DEF CallsOK
  <2>3. call'[t].session = call[t].session
    BY <1>1, <2>2 DEF CallsOK, Local
  <2>4. pc[t] = "idle" /\ pc'[t] \in {"count", "enqueue"}
    BY <1>1, <1>4 DEF EnterCall, Goto, CallsOK
  <2>5. \A u \in Threads \ {t} : pc'[u] = pc[u] /\ call'[u] = call[u]
    BY <1>1, <1>4, <2>2 DEF EnterCall, Goto, CallsOK
  <2>6. UNCHANGED <<session, submitted>>
    BY <1>4 DEF EnterCall
  <2>7. QED
    BY <1>1, <2>3, <2>4, <2>5, <2>6 DEF SessionsPass
<1>5. ASSUME NEW t \in Threads, Count(t) PROVE SessionsPass'
  <2>1. PICK b : call' = [call EXCEPT ![t].wait = b, ![t].session = session]
    BY <1>5 DEF Count
  <2>2. call' = [call EXCEPT ![t] = [call[t] EXCEPT !.wait = b, !.session = session]]
    BY <1>1, <2>1 DEF CallsOK
  <2>3. call'[t].session = session
    BY <1>1, <2>2 DEF CallsOK, Local
  <2>4. pc'[t] = "enqueue" /\ \A u \in Threads \ {t} : pc'[u] = pc[u] /\ call'[u] = call[u]
    BY <1>1, <1>5, <2>2 DEF Count, Goto, CallsOK
  <2>5. UNCHANGED <<session, submitted>>
    BY <1>5 DEF Count
  <2>6. QED
    BY <1>1, <2>3, <2>4, <2>5 DEF SessionsPass
<1>6. ASSUME NEW t \in Threads, Enqueue(t) PROVE SessionsPass'
  <2>1. pc[t] = "enqueue" /\ call[t].queue \in Queues /\ session' = session
    BY <1>1, <1>6 DEF Enqueue, Return, Goto, CallsOK
  <2>2. \A q \in Queues : \A i \in DOMAIN submitted'[q] : submitted'[q][i].session <= session
    <3>1. SUFFICES ASSUME NEW q \in Queues, NEW i \in DOMAIN submitted'[q]
                   PROVE  submitted'[q][i].session <= session
      OBVIOUS
    <3> DEFINE k == [thread |-> t, session |-> call[t].session]
    <3>2. k.session <= session /\ k \in Kernel
      BY <1>1 DEF SessionsPass, Kernel
    <3>3. submitted' = [submitted EXCEPT ![call[t].queue] = Append(@, k)]
      BY <1>6 DEF Enqueue, Submit
    <3> HIDE DEF k
    <3>4. CASE q = call[t].queue
      <4>1. submitted'[q] = Append(submitted[q], k) /\ submitted[q] \in Seq(Kernel)
        BY <1>1, <3>3, <3>4
      <4>2. \/ i \in DOMAIN submitted[q] /\ submitted'[q][i] = submitted[q][i]
            \/ submitted'[q][i] = k
        BY <3>1, <3>2, <4>1
      <4>3. QED
        BY <3>2, <4>2 DEF SessionsPass
    <3>5. CASE q # call[t].queue
      BY <1>1, <3>1, <3>3, <3>5 DEF SessionsPass
    <3>6. QED
      BY <3>4, <3>5
  <2>3. CASE Return(t, "enqueue")
    BY <1>3, <2>1, <2>2, <2>3
  <2>4. CASE call[t].wait /\ Goto(t, "enqueue", "wait") /\ UNCHANGED call
    <3>1. pc'[t] = "wait" /\ \A u \in Threads \ {t} : pc'[u] = pc[u]
      BY <1>1, <2>4 DEF Goto, CallsOK
    <3>2. QED
      BY <1>1, <2>1, <2>2, <2>4, <3>1 DEF SessionsPass
  <2>5. QED
    BY <1>6, <2>3, <2>4 DEF Enqueue
<1>7. ASSUME NEW t \in Threads, EnqueueFails(t) \/ Wait(t) \/ WaitFails(t) PROVE SessionsPass'
  <2>1. session' = session /\ submitted' = submitted
    BY <1>7 DEF EnqueueFails, Wait, WaitFails
  <2>2. \A q \in Queues : \A i \in DOMAIN submitted'[q] : submitted'[q][i].session <= session
    BY <2>1 DEF SessionsPass
  <2>3. QED
    BY <1>3, <1>7, <2>1, <2>2 DEF EnqueueFails, Wait, WaitFails
<1>8. CASE SetInferenceEnabled \/ Reset \/ UNCHANGED vars
  BY <1>8 DEF SetInferenceEnabled, Reset, vars, SessionsPass
<1>9. CASE ClearTable
  <2>1. session' = session + 1 /\ UNCHANGED <<pc, call, submitted>>
    BY <1>9 DEF ClearTable
  <2>2. QED
    BY <1>1, <1>2, <2>1 DEF SessionsPass
<1>10. ASSUME NEW q \in Queues, FinishKernel(q) PROVE SessionsPass'
  <2>1. ASSUME NEW r \in Queues, NEW i \in DOMAIN submitted'[r]
        PROVE  submitted'[r][i].session <= session
    <3>1. CASE r = q
      <4>1. /\ submitted[q] \in Seq(Kernel) /\ submitted[q] # <<>>
            /\ submitted'[r] = Tail(submitted[q])
        BY <1>1, <1>10, <3>1 DEF FinishKernel
      <4>2. i + 1 \in DOMAIN submitted[q] /\ submitted'[r][i] = submitted[q][i + 1]
        BY <2>1, <4>1
      <4>3. QED
        BY <4>2 DEF SessionsPass
    <3>2. CASE r # q
      BY <1>1, <1>10, <2>1, <3>2 DEF FinishKernel, SessionsPass
    <3>3. QED
      BY <3>1, <3>2
  <2>2. UNCHANGED <<pc, call, session>>
    BY <1>10 DEF FinishKernel
  <2>3. QED
    BY <2>1, <2>2 DEF SessionsPass
<1>11. QED
  BY <1>4, <1>5, <1>6, <1>7, <1>8, <1>9, <1>10 DEF Next

(* Nothing on a queue is nothing owed. *)
LEMMA NothingOwed ==
  ASSUME NEW w \in Nat
  PROVE  Cardinality({}) + Cardinality({}) <=
           (Cardinality({}) - Cardinality({}) + 0) * w + 0 + Cardinality(Threads) - 1
<1>1. Cardinality({}) = 0 /\ 0 * w = 0
  BY FS_EmptySet
<1>2. (Cardinality({}) - Cardinality({}) + 0) * w = 0
  <2>1. Cardinality({}) - Cardinality({}) + 0 = 0
    BY <1>1
  <2>2. QED
    BY <1>1, <2>1
<1>3. QED
  BY <1>1, <1>2, ThreadSets

----------------------------------------------------------------------------
(* What the steps of a thread do to the queue of its call. *)

(* Counting moves the queue one dispatch on; the call is a boundary if     *)
(* that completes the window.  A queue that loses its slot starts again    *)
(* and has a boundary less to come.                                        *)
LEMMA CountFacts ==
  ASSUME TypeOK, TypeOK', NEW t \in Threads, Count(t), g_window_size # 0,
         NEW q \in Queues, call[t].queue = q
  PROVE  \E n \in Nat :
           /\ Towards(q, n % g_window_size)
           /\ \A p : Towards(q, p)' <=> p = (n + 1) % g_window_size
           /\ call'[t].wait = ((n + 1) % g_window_size = 0)
           /\ call'[t].queue = q /\ call'[t].session = session
           /\ lost'[q] = lost[q]
           /\ \A o \in Queues \ {q} :
                \/ lost'[o] = lost[o] /\ \A p : Towards(o, p)' <=> Towards(o, p)
                \/ lost'[o] = lost[o] + 1 /\ \A p : Towards(o, p)' <=> p = 0
<1> USE DEF config
<1> DEFINE slot == Select(q)
           owner == g_queue_counters[slot].queue
           k == IF owner = q THEN g_queue_counters[slot].dispatches + 1 ELSE 1
           counter == [queue |-> q, dispatches |-> k]
<1>1. TableOK /\ CallsOK /\ TableOK' /\ lost \in [Queues -> Nat]
  BY Parts DEF TypeOK, TableOK, Counter
<1>2. q # NoQueue
  BY QueueAssumption
<1>3. /\ slot \in 1..Slots
      /\ (\E i \in 1..Slots : g_queue_counters[i].queue = q) => owner = q
  BY <1>1, SelectedSlot DEF TableOK
<1>4. /\ g_queue_counters' = [g_queue_counters EXCEPT ![slot] = counter]
      /\ call' = [call EXCEPT ![t].wait = (k % g_window_size = 0), ![t].session = session]
      /\ lost' = IF owner \in Queues \ {q} THEN [lost EXCEPT ![owner] = @ + 1] ELSE lost
      /\ g_window_size' = g_window_size
  BY DEF Count
<1>5. call'[t] = [call[t] EXCEPT !.wait = (k % g_window_size = 0), !.session = session]
  BY <1>1, <1>4 DEF CallsOK
<1>6. /\ call'[t].wait = (k % g_window_size = 0)
      /\ call'[t].queue = q /\ call'[t].session = session
  BY <1>1, <1>5 DEF CallsOK, Local
<1>7. counter.queue = q /\ counter.dispatches = k
  OBVIOUS
<1>8. \E n \in Nat : k = n + 1 /\ Towards(q, n % g_window_size)
  <2>1. CASE owner = q
    <3>1. g_queue_counters[slot].dispatches \in Nat
      BY <1>1, <1>3 DEF TableOK, Counter
    <3>2. QED
      BY <2>1, <3>1, <1>3 DEF Towards
  <2>2. CASE owner # q
    <3>1. k = 0 + 1
      BY <2>2
    <3>2. 0 % g_window_size = 0
      BY WindowSize
    <3>3. \A i \in 1..Slots : g_queue_counters[i].queue # q
      BY <1>3, <2>2
    <3>4. Towards(q, 0 % g_window_size)
      BY <3>2, <3>3 DEF Towards
    <3>5. QED
      BY <3>1, <3>4
  <2>3. QED
    BY <2>1, <2>2
<1>9. PICK n \in Nat : k = n + 1 /\ Towards(q, n % g_window_size)
  BY <1>8
<1> HIDE DEF k, slot, counter
<1>10. /\ g_queue_counters'[slot] = counter
       /\ \A i \in 1..Slots : i # slot => g_queue_counters'[i] = g_queue_counters[i]
  BY <1>1, <1>3, <1>4 DEF TableOK
<1>11. \A i \in 1..Slots : g_queue_counters'[i].queue = q => i = slot
  BY <1>1, <1>2, <1>3, <1>7, <1>10 DEF TableOK
<1>12. \A p : Towards(q, p)' <=> p = (n + 1) % g_window_size
  <2>1. g_queue_counters'[slot].queue = q /\ g_queue_counters'[slot].dispatches = n + 1
    BY <1>7, <1>9, <1>10
  <2>2. QED
    BY <1>3, <1>4, <1>11, <2>1, Zenon DEF Towards
<1>13. lost'[q] = lost[q]
  BY <1>1, <1>2, <1>4
<1>14. ASSUME NEW o \in Queues \ {q}
       PROVE  \/ lost'[o] = lost[o] /\ \A p : Towards(o, p)' <=> Towards(o, p)
              \/ lost'[o] = lost[o] + 1 /\ \A p : Towards(o, p)' <=> p = 0
  <2>1. CASE owner = o
    <3>1. \A i \in 1..Slots : g_queue_counters[i].queue = o => i = slot
      BY <1>1, <1>3, <1>14, <2>1, QueueAssumption DEF TableOK
    <3>2. \A i \in 1..Slots : g_queue_counters'[i].queue # o
      BY <1>7, <1>10, <1>14, <3>1
    <3>3. \A p : Towards(o, p)' <=> p = 0
      BY <3>2 DEF Towards
    <3>4. lost'[o] = lost[o] + 1
      BY <1>1, <1>4, <1>14, <2>1
    <3>5. QED
      BY <3>3, <3>4
  <2>2. CASE owner # o
    <3>1. \A i \in 1..Slots : /\ g_queue_counters'[i].queue = o <=> g_queue_counters[i].queue = o
                              /\ g_queue_counters[i].queue = o
                                   => g_queue_counters'[i] = g_queue_counters[i]
      BY <1>7, <1>10, <1>14, <2>2
    <3>2. \A p : Towards(o, p)' <=> Towards(o, p)
      BY <1>4, <3>1 DEF Towards
    <3>3. lost'[o] = lost[o]
      BY <1>1, <1>4, <1>14, <2>2
    <3>4. QED
      BY <3>2, <3>3
  <2>3. QED
    BY <2>1, <2>2
<1>15. QED
  BY <1>6, <1>9, <1>12, <1>13, <1>14

(* Counting: the dispatch is paid for by the distance to the next          *)
(* boundary, or makes its own call the boundary.                           *)
LEMMA CountPays ==
  ASSUME TypeOK, TypeOK', EveryQueuePaid, NEW t \in Threads, Count(t), g_window_size # 0,
         NEW q \in Queues, call[t].queue = q,
         NEW p \in 0..(g_window_size - 1), Towards(q, p)'
  PROVE  Paid(q, p)'
<1> USE DEF config
<1> DEFINE T == Cardinality(Threads)
<1>1. CallsOK /\ CallsOK' /\ submitted \in [Queues -> Seq(Kernel)] /\ lost \in [Queues -> Nat]
  BY Parts DEF TypeOK, CallsOK, Local
<1>2. /\ pc[t] = "count" /\ pc'[t] = "enqueue"
      /\ UNCHANGED <<g_window_size, session, submitted>>
      /\ \A u \in Threads \ {t} : pc'[u] = pc[u] /\ call'[u] = call[u]
  BY <1>1 DEF Count, Goto, CallsOK
<1>3. PICK n \in Nat :
        /\ Towards(q, n % g_window_size)
        /\ p = (n + 1) % g_window_size
        /\ call'[t].wait = ((n + 1) % g_window_size = 0)
        /\ call'[t].queue = q /\ call'[t].session = session
        /\ lost'[q] = lost[q]
  <2>1. PICK n \in Nat :
          /\ Towards(q, n % g_window_size)
          /\ \A r : Towards(q, r)' <=> r = (n + 1) % g_window_size
          /\ call'[t].wait = ((n + 1) % g_window_size = 0)
          /\ call'[t].queue = q /\ call'[t].session = session
          /\ lost'[q] = lost[q]
    BY CountFacts, ZenonT(30)
  <2>2. p = (n + 1) % g_window_size
    BY <2>1
  <2>3. QED
    BY <2>1, <2>2
<1>4. g_window_size \in Nat \ {0}
  BY WindowSize
<1>5. PICK r \in 0..(g_window_size - 1) : r = n % g_window_size /\ Paid(q, r)
  BY <1>2, <1>3, <1>4, DivMod DEF EveryQueuePaid
<1>6. p = IF r = g_window_size - 1 THEN 0 ELSE r + 1
  BY <1>3, <1>4, <1>5, NextRemainder
<1>7. /\ t \notin Underway(q) /\ t \notin AtBoundary(q)
      /\ t \notin Waiting(q) /\ t \notin Waiting(q)' /\ t \in Underway(q)'
      /\ t \in AtBoundary(q)' <=> p = 0
  BY <1>2, <1>3 DEF Underway, AtBoundary, Waiting
<1>8. /\ Underway(q) \subseteq Threads /\ AtBoundary(q) \subseteq Threads
      /\ Waiting(q) \subseteq Threads
      /\ Underway(q)' \subseteq Threads /\ AtBoundary(q)' \subseteq Threads
      /\ Waiting(q)' \subseteq Threads
  BY DEF Underway, AtBoundary, Waiting
<1>9. /\ Underway(q)' = Underway(q) \cup {t} /\ Waiting(q)' = Waiting(q)
      /\ AtBoundary(q)' = IF p = 0 THEN AtBoundary(q) \cup {t} ELSE AtBoundary(q)
  <2>1. \A v \in Threads \ {t} :
           /\ v \in Underway(q)' <=> v \in Underway(q)
           /\ v \in AtBoundary(q)' <=> v \in AtBoundary(q)
           /\ v \in Waiting(q)' <=> v \in Waiting(q)
    BY <1>2, OthersStay
  <2>2. Underway(q)' = Underway(q) \cup {t}
    BY <1>7, <1>8, <2>1, SameButOne
  <2>3. Waiting(q)' = Waiting(q)
    BY <1>7, <1>8, <2>1, SameButOne
  <2>4. AtBoundary(q)' = IF p = 0 THEN AtBoundary(q) \cup {t} ELSE AtBoundary(q)
    BY <1>7, <1>8, <2>1, SameButOne
  <2>5. QED
    BY <2>2, <2>3, <2>4
<1>10. PICK a \in Nat, u \in Nat, c \in Nat :
         /\ a = Cardinality(AtBoundary(q)) /\ u = Cardinality(Underway(q)) /\ c = T
  BY <1>8, ThreadSets
<1>11. /\ Cardinality(Underway(q)') = u + 1
       /\ Cardinality(AtBoundary(q)') = IF p = 0 THEN a + 1 ELSE a
  <2>1. IsFiniteSet(Underway(q)) /\ IsFiniteSet(AtBoundary(q))
    BY <1>8, ThreadSets
  <2>2. QED
    BY <1>7, <1>9, <1>10, <2>1, OneMore
<1>12. ASSUME NEW S \in SUBSET Waiting(q)
       PROVE  Cardinality(Behind(q, S)') + (u + 1) <=
                (Cardinality(AtBoundary(q)') - Cardinality(S) + lost'[q]) * g_window_size
                  + p + c - 1
  <2>1. Behind(q, S)' = Behind(q, S)
    BY <1>2 DEF Behind, Counted
  <2>2. PICK b \in Nat, s \in Nat, l \in Nat :
          b = Cardinality(Behind(q, S)) /\ s = Cardinality(S) /\ l = lost[q]
    BY <1>1, <1>2, <1>8, <1>12, ThreadSets, BehindFinite
  <2>3. b + u <= (a - s + l) * g_window_size + r + c - 1
    BY <1>5, <1>10, <1>12, <2>2 DEF Paid
  <2>4. PICK x \in Int : x = (a - s + l) * g_window_size
    BY <1>4, Grow
  <2>5. ((a - s + l) + 1) * g_window_size = x + g_window_size
    BY <1>4, <2>4, Grow
  <2>6. CASE p = 0
    <3>1. r = g_window_size - 1
      BY <1>5, <1>6, <2>6
    <3>2. (a + 1) - s + l = (a - s + l) + 1
      OBVIOUS
    <3>3. b + (u + 1) <= ((a + 1) - s + l) * g_window_size + p + c - 1
      BY <1>4, <2>3, <2>4, <2>5, <2>6, <3>1, <3>2
    <3>4. QED
      BY <1>3, <1>11, <2>1, <2>2, <2>6, <3>3
  <2>7. CASE p # 0
    <3>1. p = r + 1
      BY <1>6, <2>7
    <3>2. b + (u + 1) <= (a - s + l) * g_window_size + p + c - 1
      BY <1>4, <2>3, <2>4, <3>1
    <3>3. QED
      BY <1>3, <1>11, <2>1, <2>2, <2>7, <3>2
  <2>8. QED
    BY <2>6, <2>7
<1>13. p # 0 => \E v \in Threads : v \notin AtBoundary(q)'
  BY <1>7
<1>14. \A S \in SUBSET Waiting(q)' :
         Cardinality(Behind(q, S)') + Cardinality(Underway(q)') <=
           (Cardinality(AtBoundary(q)') - Cardinality(S) + lost'[q]) * g_window_size'
             + p + Cardinality(Threads) - 1
  BY <1>2, <1>9, <1>10, <1>11, <1>12
<1>15. QED
  BY <1>13, <1>14 DEF Paid

(* A call that returns without having waited gives up its boundary: there  *)
(* is one call less at a boundary, and one lost boundary more.             *)
LEMMA GivesUp ==
  ASSUME TypeOK, SessionsPass, NEW t \in Threads, NEW from \in {"enqueue", "wait"},
         Return(t, from), LoseBoundary(t), session' = session,
         NEW q \in Queues, call[t].queue = q, call[t].session = session
  PROVE  /\ AtBoundary(q)' \subseteq AtBoundary(q)
         /\ Cardinality(AtBoundary(q)') + lost'[q] = Cardinality(AtBoundary(q)) + lost[q]
         /\ Underway(q)' = Underway(q) \ {t} /\ Waiting(q)' = Waiting(q) \ {t}
         /\ lost'[q] \in Nat
<1>1. CallsOK /\ lost \in [Queues -> Nat]
  BY Parts
<1>2. /\ pc[t] = from /\ pc'[t] = "idle"
      /\ \A u \in Threads \ {t} : pc'[u] = pc[u] /\ call'[u] = call[u]
  BY <1>1 DEF Return, Goto, CallsOK
<1>3. /\ t \notin Underway(q)' /\ t \notin AtBoundary(q)' /\ t \notin Waiting(q)'
      /\ t \in AtBoundary(q) <=> call[t].wait
  BY <1>2 DEF Underway, AtBoundary, Waiting
<1>4. /\ Underway(q) \subseteq Threads /\ AtBoundary(q) \subseteq Threads
      /\ Waiting(q) \subseteq Threads
      /\ Underway(q)' \subseteq Threads /\ AtBoundary(q)' \subseteq Threads
      /\ Waiting(q)' \subseteq Threads
  BY DEF Underway, AtBoundary, Waiting
<1>5. \A u \in Threads \ {t} :
        /\ u \in Underway(q)' <=> u \in Underway(q)
        /\ u \in AtBoundary(q)' <=> u \in AtBoundary(q)
        /\ u \in Waiting(q)' <=> u \in Waiting(q)
  BY <1>2, OthersStay
<1>6. Underway(q)' = Underway(q) \ {t}
  BY <1>3, <1>4, <1>5, SameButOne
<1>7. Waiting(q)' = Waiting(q) \ {t}
  BY <1>3, <1>4, <1>5, SameButOne
<1>8. AtBoundary(q)' = AtBoundary(q) \ {t}
  BY <1>3, <1>4, <1>5, SameButOne
<1>9. IsFiniteSet(AtBoundary(q)) /\ Cardinality(AtBoundary(q)) \in Nat
  BY <1>4, ThreadSets
<1>10. CASE call[t].wait
  <2>1. lost'[q] = lost[q] + 1
    BY <1>1, <1>10 DEF LoseBoundary
  <2>2. Cardinality(AtBoundary(q)') = Cardinality(AtBoundary(q)) - 1
    BY <1>3, <1>8, <1>9, <1>10, OneLess
  <2>3. QED
    BY <1>1, <1>6, <1>7, <1>8, <1>9, <2>1, <2>2
<1>11. CASE ~call[t].wait
  <2>1. lost'[q] = lost[q]
    BY <1>11 DEF LoseBoundary
  <2>2. AtBoundary(q)' = AtBoundary(q)
    BY <1>3, <1>8, <1>11
  <2>3. QED
    BY <1>1, <1>6, <1>7, <2>1, <2>2
<1>12. QED
  BY <1>10, <1>11

(* A boundary that was refused or whose wait failed is lost, which pays    *)
(* for its window.                                                         *)
LEMMA RefusedPays ==
  ASSUME TypeOK, SessionsPass, NEW t \in Threads, EnqueueFails(t) \/ WaitFails(t),
         NEW q \in Queues, call[t].queue = q, call[t].session = session,
         NEW p \in 0..(g_window_size - 1), Paid(q, p)
  PROVE  Paid(q, p)'
<1> USE DEF config
<1>1. PICK from \in {"enqueue", "wait"} : Return(t, from)
  BY DEF EnqueueFails, WaitFails
<1>2. LoseBoundary(t) /\ UNCHANGED <<g_window_size, session, submitted>>
  BY DEF EnqueueFails, WaitFails
<1>3. /\ AtBoundary(q)' \subseteq AtBoundary(q)
      /\ Cardinality(AtBoundary(q)') + lost'[q] = Cardinality(AtBoundary(q)) + lost[q]
      /\ Underway(q)' = Underway(q) \ {t} /\ Waiting(q)' = Waiting(q) \ {t}
      /\ lost'[q] \in Nat /\ lost[q] \in Nat
  BY <1>1, <1>2, GivesUp, Parts
<1>4. /\ Underway(q) \subseteq Threads /\ AtBoundary(q) \subseteq Threads
      /\ Waiting(q) \subseteq Threads /\ AtBoundary(q)' \subseteq Threads
  BY DEF Underway, AtBoundary, Waiting
<1>5. Cardinality(Underway(q)') <= Cardinality(Underway(q))
  BY <1>3, <1>4, ThreadSets, FS_Subset
<1>6. ASSUME NEW S \in SUBSET Waiting(q)'
      PROVE  Cardinality(Behind(q, S)') + Cardinality(Underway(q)') <=
               (Cardinality(AtBoundary(q)') - Cardinality(S) + lost'[q]) * g_window_size
                 + p + Cardinality(Threads) - 1
  <2>1. S \in SUBSET Waiting(q) /\ Behind(q, S)' = Behind(q, S)
    BY <1>2, <1>3, <1>6 DEF Behind, Counted
  <2>2. Cardinality(Behind(q, S)) + Cardinality(Underway(q)) <=
          (Cardinality(AtBoundary(q)) - Cardinality(S) + lost[q]) * g_window_size
            + p + Cardinality(Threads) - 1
    BY <2>1 DEF Paid
  <2>3. Cardinality(S) \in Nat /\ Cardinality(AtBoundary(q)) \in Nat
        /\ Cardinality(AtBoundary(q)') \in Nat /\ Cardinality(Behind(q, S)) \in Nat
        /\ Cardinality(Underway(q)) \in Nat /\ Cardinality(Underway(q)') \in Nat
    <3>1. submitted[q] \in Seq(Kernel)
      BY Parts
    <3>2. Underway(q)' \subseteq Threads
      BY <1>3, <1>4
    <3>3. QED
      BY <1>4, <2>1, <3>1, <3>2, ThreadSets, BehindFinite
  <2>4. Cardinality(AtBoundary(q)') - Cardinality(S) + lost'[q]
          = Cardinality(AtBoundary(q)) - Cardinality(S) + lost[q]
    BY <1>3, <2>3
  <2>5. PICK x \in Int :
          x = (Cardinality(AtBoundary(q)) - Cardinality(S) + lost[q]) * g_window_size
    BY <1>3, <2>3, WindowSize, Grow
  <2>6. QED
    BY <1>5, <2>1, <2>2, <2>3, <2>4, <2>5, ThreadSets
<1>7. p # 0 => \E v \in Threads : v \notin AtBoundary(q)'
  BY <1>3 DEF Paid
<1>8. QED
  BY <1>2, <1>6, <1>7 DEF Paid

(* What is behind the kernel that was waited for is all the queue holds    *)
(* once the wait is over, and that has been paid for by the other          *)
(* boundaries.                                                             *)
LEMMA WaitPays ==
  ASSUME TypeOK, SessionsPass, NEW t \in Threads, Wait(t),
         NEW q \in Queues, call[t].queue = q, call[t].session = session,
         NEW p \in 0..(g_window_size - 1), Paid(q, p)
  PROVE  Paid(q, p)'
<1> USE DEF config
<1>1. CallsOK /\ submitted[q] \in Seq(Kernel) /\ lost[q] \in Nat
  BY Parts
<1>2. /\ pc[t] = "wait" /\ pc'[t] = "idle"
      /\ UNCHANGED <<g_window_size, session, submitted, lost>>
      /\ \A u \in Threads \ {t} : pc'[u] = pc[u] /\ call'[u] = call[u]
  BY <1>1 DEF Wait, Return, Goto, CallsOK
<1>3. \A j \in DOMAIN submitted[q] : submitted[q][j].thread # t
  BY DEF Wait, Range
<1>4. /\ t \in AtBoundary(q) /\ t \in Waiting(q) /\ t \notin Underway(q)
      /\ t \notin Underway(q)' /\ t \notin AtBoundary(q)' /\ t \notin Waiting(q)'
  BY <1>2 DEF Underway, AtBoundary, Waiting, SessionsPass
<1>5. /\ Underway(q) \subseteq Threads /\ AtBoundary(q) \subseteq Threads
      /\ Waiting(q) \subseteq Threads
      /\ Underway(q)' \subseteq Threads /\ AtBoundary(q)' \subseteq Threads
      /\ Waiting(q)' \subseteq Threads
  BY DEF Underway, AtBoundary, Waiting
<1>6. \A u \in Threads \ {t} :
        /\ u \in Underway(q)' <=> u \in Underway(q)
        /\ u \in AtBoundary(q)' <=> u \in AtBoundary(q)
        /\ u \in Waiting(q)' <=> u \in Waiting(q)
  BY <1>2, OthersStay
<1>7. Underway(q)' = Underway(q)
  BY <1>4, <1>5, <1>6, SameButOne
<1>8. Waiting(q)' = Waiting(q) \ {t}
  BY <1>4, <1>5, <1>6, SameButOne
<1>9. AtBoundary(q)' = AtBoundary(q) \ {t}
  BY <1>4, <1>5, <1>6, SameButOne
<1>10. /\ Cardinality(AtBoundary(q)) \in Nat
       /\ Cardinality(AtBoundary(q)') = Cardinality(AtBoundary(q)) - 1
  BY <1>4, <1>5, <1>9, ThreadSets, OneLess
<1>11. ASSUME NEW S \in SUBSET Waiting(q)'
       PROVE  Cardinality(Behind(q, S)') + Cardinality(Underway(q)') <=
                (Cardinality(AtBoundary(q)') - Cardinality(S) + lost'[q]) * g_window_size
                  + p + Cardinality(Threads) - 1
  <2>1. S \cup {t} \in SUBSET Waiting(q) /\ t \notin S
    BY <1>4, <1>8, <1>11
  <2>2. Cardinality(Behind(q, S \cup {t})) + Cardinality(Underway(q)) <=
          (Cardinality(AtBoundary(q)) - Cardinality(S \cup {t}) + lost[q]) * g_window_size
            + p + Cardinality(Threads) - 1
    BY <2>1 DEF Paid
  <2>3. Behind(q, S)' = Behind(q, S \cup {t})
    BY <1>2, <1>3 DEF Behind, Counted
  <2>4. Cardinality(S \cup {t}) = Cardinality(S) + 1 /\ Cardinality(S) \in Nat
    BY <1>5, <2>1, ThreadSets, OneMore
  <2>5. Cardinality(AtBoundary(q)') - Cardinality(S) + lost'[q]
          = Cardinality(AtBoundary(q)) - Cardinality(S \cup {t}) + lost[q]
    BY <1>1, <1>2, <1>10, <2>4
  <2>6. QED
    BY <1>7, <2>2, <2>3, <2>5
<1>12. p # 0 => \E v \in Threads : v \notin AtBoundary(q)'
  BY <1>4
<1>13. QED
  BY <1>2, <1>11, <1>12 DEF Paid

(* The kernel is behind every boundary already on the queue; what it adds  *)
(* there, the call was owed.  Nothing is behind a boundary of its own.     *)
LEMMA EnqueuePays ==
  ASSUME TypeOK, SessionsPass, NEW t \in Threads, Enqueue(t),
         NEW q \in Queues, call[t].queue = q, call[t].session = session,
         NEW p \in 0..(g_window_size - 1), Paid(q, p)
  PROVE  Paid(q, p)'
<1> USE DEF config
<1> DEFINE k == [thread |-> t, session |-> call[t].session]
           n == Len(submitted[q]) + 1
<1>1. /\ CallsOK /\ submitted \in [Queues -> Seq(Kernel)] /\ lost[q] \in Nat
      /\ submitted[q] \in Seq(Kernel) /\ k \in Kernel
  BY Parts DEF CallsOK, Local, Kernel
<1>2. /\ pc[t] = "enqueue" /\ UNCHANGED <<g_window_size, session>>
      /\ submitted' = [submitted EXCEPT ![q] = Append(@, k)]
  BY DEF Enqueue, Submit, Return, Goto
<1>3. submitted'[q] = Append(submitted[q], k) /\ k.thread = t /\ k.session = session
  BY <1>1, <1>2
<1> HIDE DEF k
<1>4. /\ n \in Nat /\ n \notin DOMAIN submitted[q]
      /\ DOMAIN submitted'[q] = DOMAIN submitted[q] \cup {n}
      /\ \A i \in DOMAIN submitted[q] : submitted'[q][i] = submitted[q][i] /\ i < n
      /\ submitted'[q][n] = k
  BY <1>1, <1>3
<1> HIDE DEF n
<1>5. ASSUME NEW S
      PROVE  /\ Behind(q, S)' \subseteq Behind(q, S) \cup {n}
             /\ t \in S => Behind(q, S)' = {}
  <2>1. Counted(q)' \subseteq Counted(q) \cup {n}
    BY <1>2, <1>4 DEF Counted
  <2>2. Behind(q, S)' \subseteq Behind(q, S) \cup {n}
    BY <1>4, <2>1 DEF Behind
  <2>3. ASSUME t \in S, NEW i \in Behind(q, S)' PROVE FALSE
    <3>1. i \in DOMAIN submitted'[q] /\ n < i
      BY <1>3, <1>4, <2>3 DEF Behind, Counted
    <3>2. i < n \/ i = n
      BY <1>4, <3>1
    <3>3. i \in Nat
      BY <1>1, <1>4, <3>1
    <3>4. QED
      BY <1>4, <3>1, <3>2, <3>3
  <2>4. QED
    BY <2>2, <2>3
<1>6. ASSUME NEW S
      PROVE  /\ Cardinality(Behind(q, S)) \in Nat
             /\ Cardinality(Behind(q, S)') \in Nat
             /\ Cardinality(Behind(q, S)') <= Cardinality(Behind(q, S)) + 1
             /\ t \in S => Cardinality(Behind(q, S)') = 0
  <2>1. IsFiniteSet(Behind(q, S)) /\ Cardinality(Behind(q, S)) \in Nat
    BY <1>1, BehindFinite
  <2>2. n \notin Behind(q, S)
    BY <1>4 DEF Behind, Counted
  <2>3. /\ IsFiniteSet(Behind(q, S) \cup {n})
        /\ Cardinality(Behind(q, S) \cup {n}) = Cardinality(Behind(q, S)) + 1
    BY <2>1, <2>2, OneMore
  <2>4. /\ Cardinality(Behind(q, S)') \in Nat
        /\ Cardinality(Behind(q, S)') <= Cardinality(Behind(q, S) \cup {n})
    BY <1>5, <2>3, FS_Subset, FS_CardinalityType
  <2>5. QED
    BY <1>5, <2>1, <2>3, <2>4, FS_EmptySet
<1>7. /\ AtBoundary(q)' \subseteq AtBoundary(q)
      /\ Cardinality(AtBoundary(q)') + lost'[q] = Cardinality(AtBoundary(q)) + lost[q]
      /\ Underway(q)' = Underway(q) \ {t}
      /\ Waiting(q)' \subseteq Waiting(q) \cup {t}
      /\ Waiting(q)' \subseteq AtBoundary(q)'
      /\ lost'[q] \in Nat
  <2>1. CASE Return(t, "enqueue") /\ LoseBoundary(t)
    <3>1. /\ AtBoundary(q)' \subseteq AtBoundary(q)
          /\ Cardinality(AtBoundary(q)') + lost'[q] = Cardinality(AtBoundary(q)) + lost[q]
          /\ Underway(q)' = Underway(q) \ {t} /\ Waiting(q)' = Waiting(q) \ {t}
          /\ lost'[q] \in Nat
      BY <1>2, <2>1, GivesUp
    <3>2. \A u \in Threads \ {t} : pc'[u] = pc[u] /\ call'[u] = call[u]
      BY <1>1, <2>1 DEF Return, Goto, CallsOK
    <3>3. Waiting(q)' \subseteq AtBoundary(q)'
      BY <1>2, <3>1, <3>2 DEF Waiting, AtBoundary, SessionsPass
    <3>4. QED
      BY <3>1, <3>3
  <2>2. CASE call[t].wait /\ Goto(t, "enqueue", "wait") /\ UNCHANGED <<call, lost>>
    <3>1. pc'[t] = "wait" /\ \A u \in Threads \ {t} : pc'[u] = pc[u]
      BY <1>1, <2>2 DEF Goto, CallsOK
    <3>2. Underway(q)' = Underway(q) \ {t}
      BY <1>2, <2>2, <3>1 DEF Underway
    <3>3. AtBoundary(q)' = AtBoundary(q)
      BY <1>2, <2>2, <3>1 DEF AtBoundary
    <3>4. Waiting(q)' \subseteq Waiting(q) \cup {t} /\ Waiting(q)' \subseteq AtBoundary(q)'
      BY <1>2, <2>2, <3>1 DEF Waiting, AtBoundary, SessionsPass
    <3>5. QED
      BY <1>1, <2>2, <3>2, <3>3, <3>4
  <2>3. QED
    BY <2>1, <2>2 DEF Enqueue
<1>8. /\ Underway(q) \subseteq Threads /\ AtBoundary(q) \subseteq Threads
      /\ Waiting(q) \subseteq Threads /\ AtBoundary(q)' \subseteq Threads
      /\ t \in Underway(q)
  BY <1>2 DEF Underway, AtBoundary, Waiting
<1>9. /\ Cardinality(Underway(q)) \in Nat /\ Cardinality(Underway(q)) <= Cardinality(Threads)
      /\ Cardinality(Underway(q)') = Cardinality(Underway(q)) - 1
      /\ Cardinality(AtBoundary(q)) \in Nat /\ Cardinality(AtBoundary(q)') \in Nat
      /\ IsFiniteSet(AtBoundary(q)')
  BY <1>7, <1>8, ThreadSets, OneLess
<1>10. ASSUME NEW S \in SUBSET Waiting(q)'
       PROVE  Cardinality(Behind(q, S)') + Cardinality(Underway(q)') <=
                (Cardinality(AtBoundary(q)') - Cardinality(S) + lost'[q]) * g_window_size
                  + p + Cardinality(Threads) - 1
  <2>1. Cardinality(S) \in Nat /\ Cardinality(S) <= Cardinality(AtBoundary(q)')
    BY <1>7, <1>9, <1>10, FS_Subset, FS_CardinalityType
  <2>2. Cardinality(AtBoundary(q)') - Cardinality(S) + lost'[q]
          = Cardinality(AtBoundary(q)) - Cardinality(S) + lost[q]
    <3>1. /\ Cardinality(AtBoundary(q)') + lost'[q] = Cardinality(AtBoundary(q)) + lost[q]
          /\ lost'[q] \in Nat /\ lost[q] \in Nat
      BY <1>1, <1>7
    <3>2. QED
      BY <1>9, <2>1, <3>1
  <2>3. PICK a \in Nat, x \in Int :
          /\ a = Cardinality(AtBoundary(q)) - Cardinality(S) + lost[q]
          /\ x = a * g_window_size
    <3>1. Cardinality(AtBoundary(q)) - Cardinality(S) + lost[q] \in Nat
      BY <1>1, <1>7, <1>9, <2>1, <2>2, SMTT(30)
    <3>2. QED
      BY <3>1, WindowSize, Grow
  <2>4. x >= 0
    <3>1. 0 * g_window_size <= a * g_window_size /\ 0 * g_window_size = 0
      BY <2>3, WindowSize, Mono
    <3>2. QED
      BY <2>3, <3>1
  <2>5. CASE t \in S
    BY <1>6, <1>9, <2>2, <2>3, <2>4, <2>5, ThreadSets
  <2>6. CASE t \notin S
    <3>1. S \in SUBSET Waiting(q)
      BY <1>7, <1>10, <2>6
    <3>2. Cardinality(Behind(q, S)) + Cardinality(Underway(q)) <=
            x + p + Cardinality(Threads) - 1
      BY <2>3, <3>1 DEF Paid
    <3>3. QED
      BY <1>6, <1>9, <2>2, <2>3, <3>2, ThreadSets
  <2>7. QED
    BY <2>5, <2>6
<1>11. p # 0 => \E v \in Threads : v \notin AtBoundary(q)'
  BY <1>7 DEF Paid
<1>12. QED
  BY <1>2, <1>10, <1>11 DEF Paid

(* The GPU takes the oldest kernel: what is behind a boundary moves up.    *)
LEMMA FinishPays ==
  ASSUME TypeOK, NEW q \in Queues, FinishKernel(q),
         NEW p \in 0..(g_window_size - 1), Paid(q, p)
  PROVE  Paid(q, p)'
<1> USE DEF config
<1>1. /\ submitted[q] \in Seq(Kernel) /\ submitted[q] # <<>>
      /\ submitted'[q] = Tail(submitted[q])
      /\ UNCHANGED <<g_window_size, session, pc, call, lost>>
  BY Parts DEF FinishKernel
<1>2. \A i \in DOMAIN submitted'[q] :
        i \in Nat /\ i + 1 \in DOMAIN submitted[q] /\ submitted'[q][i] = submitted[q][i + 1]
  BY <1>1
<1>3. \A j \in DOMAIN submitted[q] : j = 1 \/ (j \in Nat /\ j - 1 \in DOMAIN submitted'[q])
  BY <1>1
<1>4. ASSUME NEW S, NEW i \in Behind(q, S)' PROVE i + 1 \in Behind(q, S)
  <2>1. i \in DOMAIN submitted'[q] /\ submitted'[q][i].session = session
    BY <1>1 DEF Behind, Counted
  <2>2. i + 1 \in Counted(q) /\ i \in Nat /\ i >= 1
    BY <1>1, <1>2, <2>1 DEF Counted
  <2>3. ASSUME NEW j \in DOMAIN submitted[q], submitted[q][j].thread \in S PROVE j < i + 1
    <3>1. CASE j = 1
      BY <2>2, <3>1
    <3>2. CASE j \in Nat /\ j - 1 \in DOMAIN submitted'[q]
      <4>1. submitted'[q][j - 1] = submitted[q][j]
        BY <1>2, <3>2
      <4>2. j - 1 < i
        BY <2>3, <3>2, <4>1 DEF Behind
      <4>3. QED
        BY <2>2, <3>2, <4>2
    <3>3. QED
      BY <1>3, <3>1, <3>2
  <2>4. QED
    BY <2>2, <2>3 DEF Behind
<1>5. ASSUME NEW S
      PROVE  /\ Cardinality(Behind(q, S)) \in Nat /\ Cardinality(Behind(q, S)') \in Nat
             /\ Cardinality(Behind(q, S)') <= Cardinality(Behind(q, S))
  <2> DEFINE f == [i \in Behind(q, S)' |-> i + 1]
  <2>1. IsFiniteSet(Behind(q, S)) /\ Cardinality(Behind(q, S)) \in Nat
    BY <1>1, BehindFinite
  <2>2. \A i \in Behind(q, S)' : i \in Nat
    BY <1>2 DEF Behind, Counted
  <2>3. f \in Injection(Behind(q, S)', Behind(q, S))
    BY <1>4, <2>2 DEF Injection, IsInjective
  <2> HIDE DEF f
  <2>4. /\ IsFiniteSet(Behind(q, S)')
        /\ Cardinality(Behind(q, S)') <= Cardinality(Behind(q, S))
    BY <2>1, <2>3, FS_Injection
  <2>5. QED
    BY <2>1, <2>4, FS_CardinalityType
<1>6. /\ Underway(q)' = Underway(q) /\ AtBoundary(q)' = AtBoundary(q)
      /\ Waiting(q)' = Waiting(q)
  BY <1>1 DEF Underway, AtBoundary, Waiting
<1>7. /\ Underway(q) \subseteq Threads /\ AtBoundary(q) \subseteq Threads
      /\ Waiting(q) \subseteq Threads
  BY DEF Underway, AtBoundary, Waiting
<1>8. ASSUME NEW S \in SUBSET Waiting(q)'
      PROVE  Cardinality(Behind(q, S)') + Cardinality(Underway(q)') <=
               (Cardinality(AtBoundary(q)') - Cardinality(S) + lost'[q]) * g_window_size
                 + p + Cardinality(Threads) - 1
  <2>1. S \in SUBSET Waiting(q)
    BY <1>6, <1>8
  <2>2. Cardinality(Behind(q, S)) + Cardinality(Underway(q)) <=
          (Cardinality(AtBoundary(q)) - Cardinality(S) + lost[q]) * g_window_size
            + p + Cardinality(Threads) - 1
    BY <2>1 DEF Paid
  <2>3. /\ Cardinality(Underway(q)) \in Nat /\ Cardinality(AtBoundary(q)) \in Nat
        /\ Cardinality(S) \in Nat /\ lost[q] \in Nat
    BY <1>7, <2>1, ThreadSets, Parts
  <2>4. PICK x \in Int :
          x = (Cardinality(AtBoundary(q)) - Cardinality(S) + lost[q]) * g_window_size
    BY <2>3, WindowSize, Grow
  <2>5. QED
    BY <1>1, <1>5, <1>6, <2>2, <2>3, <2>4, ThreadSets, SMTT(30)
<1>9. p # 0 => \E v \in Threads : v \notin AtBoundary(q)'
  BY <1>6 DEF Paid
<1>10. QED
  BY <1>1, <1>8, <1>9 DEF Paid

----------------------------------------------------------------------------
(* Every queue stays paid. *)

(* A call of another queue, or of an earlier session, is in none of the    *)
(* sets of q.                                                              *)
Elsewhere(t, q) ==
  ~(pc[t] \in {"enqueue", "wait"} /\ call[t].queue = q /\ call[t].session = session)

(* A thread whose call is of another queue or session is in none of the    *)
(* sets of this one.                                                       *)
LEMMA ElsewhereStays ==
  ASSUME TypeOK, NEW t \in Threads, NEW q \in Queues, session' = session,
         \A u \in Threads \ {t} : pc'[u] = pc[u] /\ call'[u] = call[u],
         Elsewhere(t, q), Elsewhere(t, q)'
  PROVE  /\ Underway(q)' = Underway(q) /\ AtBoundary(q)' = AtBoundary(q)
         /\ Waiting(q)' = Waiting(q) /\ t \notin Waiting(q)
<1>1. /\ t \notin Underway(q) /\ t \notin AtBoundary(q) /\ t \notin Waiting(q)
      /\ t \notin Underway(q)' /\ t \notin AtBoundary(q)' /\ t \notin Waiting(q)'
  BY DEF Elsewhere, Underway, AtBoundary, Waiting
<1>2. /\ Underway(q) \subseteq Threads /\ AtBoundary(q) \subseteq Threads
      /\ Waiting(q) \subseteq Threads
      /\ Underway(q)' \subseteq Threads /\ AtBoundary(q)' \subseteq Threads
      /\ Waiting(q)' \subseteq Threads
  BY DEF Underway, AtBoundary, Waiting
<1>3. \A u \in Threads \ {t} :
        /\ u \in Underway(q)' <=> u \in Underway(q)
        /\ u \in AtBoundary(q)' <=> u \in AtBoundary(q)
        /\ u \in Waiting(q)' <=> u \in Waiting(q)
  BY OthersStay
<1>4. Underway(q)' = Underway(q)
  BY <1>1, <1>2, <1>3, SameButOne
<1>5. AtBoundary(q)' = AtBoundary(q)
  BY <1>1, <1>2, <1>3, SameButOne
<1>6. Waiting(q)' = Waiting(q)
  BY <1>1, <1>2, <1>3, SameButOne
<1>7. QED
  BY <1>1, <1>4, <1>5, <1>6

(* A queue whose slot was taken over: what it had counted is less than the *)
(* window that the lost boundary grants.                                   *)
LEMMA EvictedPays ==
  ASSUME TypeOK, NEW q \in Queues, NEW p \in 0..(g_window_size - 1), Paid(q, p),
         g_window_size' = g_window_size, lost'[q] = lost[q] + 1,
         \A S \in SUBSET Waiting(q) : Behind(q, S)' = Behind(q, S),
         Underway(q)' = Underway(q), AtBoundary(q)' = AtBoundary(q), Waiting(q)' = Waiting(q)
  PROVE  Paid(q, 0)'
<1>1. ASSUME NEW S \in SUBSET Waiting(q)
      PROVE  Cardinality(Behind(q, S)) + Cardinality(Underway(q)) <=
               (Cardinality(AtBoundary(q)) - Cardinality(S) + (lost[q] + 1)) * g_window_size
                 + 0 + Cardinality(Threads) - 1
  <2>1. /\ Underway(q) \subseteq Threads /\ AtBoundary(q) \subseteq Threads
        /\ S \subseteq Threads
    BY DEF Underway, AtBoundary, Waiting
  <2>2. submitted[q] \in Seq(Kernel) /\ lost[q] \in Nat
    BY Parts
  <2>3. PICK b \in Nat, u \in Nat, a \in Nat, s \in Nat, l \in Nat, c \in Nat :
          /\ b = Cardinality(Behind(q, S)) /\ u = Cardinality(Underway(q))
          /\ a = Cardinality(AtBoundary(q)) /\ s = Cardinality(S)
          /\ l = lost[q] /\ c = Cardinality(Threads)
    BY <2>1, <2>2, ThreadSets, BehindFinite
  <2>4. b + u <= (a - s + l) * g_window_size + p + c - 1
    BY <2>3 DEF Paid
  <2>5. PICK x \in Int : x = (a - s + l) * g_window_size
    BY WindowSize, Grow
  <2>6. ((a - s + l) + 1) * g_window_size = x + g_window_size
    BY <2>5, WindowSize, Grow
  <2>7. a - s + (l + 1) = (a - s + l) + 1
    OBVIOUS
  <2>8. b + u <= (a - s + (l + 1)) * g_window_size + 0 + c - 1
    BY <2>4, <2>5, <2>6, <2>7, WindowSize
  <2>9. QED
    BY <2>3, <2>8
<1>2. QED
  BY <1>1 DEF Paid

(* Nothing about q changes but the submitted kernels of earlier sessions.  *)
LEMMA ThreadPays ==
  ASSUME TypeOK, TypeOK', SessionsPass, SessionsPass', NEW t \in Threads,
         EnterCall(t) \/ Enqueue(t) \/ EnqueueFails(t) \/ Wait(t) \/ WaitFails(t),
         NEW q \in Queues, NEW p \in 0..(g_window_size - 1), Paid(q, p)
  PROVE  Paid(q, p)'
<1> USE DEF config
<1>1. /\ CallsOK /\ submitted \in [Queues -> Seq(Kernel)] /\ session \in Nat \ {0}
      /\ lost \in [Queues -> Nat]
  BY Parts
<1>2. g_window_size' = g_window_size /\ session' = session
  BY DEF EnterCall, Enqueue, EnqueueFails, Wait, WaitFails
<1>3. ASSUME \A u \in Threads \ {t} : pc'[u] = pc[u] /\ call'[u] = call[u],
             Elsewhere(t, q), Elsewhere(t, q)', lost'[q] = lost[q],
             submitted'[q] = submitted[q]
      PROVE  Paid(q, p)'
  <2>1. \A S : Behind(q, S)' = Behind(q, S)
    BY <1>2, <1>3 DEF Behind, Counted
  <2>2. QED
    BY <1>2, <1>3, <2>1, ElsewhereStays, StaysPaid
<1>4. ASSUME NEW from, Return(t, from)
      PROVE  /\ \A u \in Threads \ {t} : pc'[u] = pc[u] /\ call'[u] = call[u]
             /\ Elsewhere(t, q)'
  BY <1>1, <1>4 DEF Return, Goto, CallsOK, Elsewhere
<1>5. CASE EnterCall(t)
  <2>1. PICK r \in Queues : call' = [call EXCEPT ![t].queue = r]
    BY <1>5 DEF EnterCall
  <2>2. call' = [call EXCEPT ![t] = [call[t] EXCEPT !.queue = r]]
    BY <1>1, <2>1 DEF CallsOK
  <2>3. call'[t].session = call[t].session
    BY <1>1, <2>2 DEF CallsOK, Local
  <2>4. pc[t] = "idle" /\ \A u \in Threads \ {t} : pc'[u] = pc[u] /\ call'[u] = call[u]
    BY <1>1, <1>5, <2>2 DEF EnterCall, Goto, CallsOK
  <2>5. Elsewhere(t, q) /\ Elsewhere(t, q)'
    BY <1>1, <1>2, <2>3, <2>4 DEF SessionsPass, Elsewhere
  <2>6. QED
    BY <1>3, <1>5, <2>4, <2>5 DEF EnterCall
<1>6. CASE ~Elsewhere(t, q)
  <2>1. /\ pc[t] \in {"enqueue", "wait"}
        /\ call[t].queue = q /\ call[t].session = session
    BY <1>6 DEF Elsewhere
  <2>2. ~EnterCall(t)
    BY <2>1 DEF EnterCall, Goto
  <2>3. QED
    BY <2>1, <2>2, EnqueuePays, RefusedPays, WaitPays
<1>7. CASE Elsewhere(t, q) /\ (EnqueueFails(t) \/ Wait(t) \/ WaitFails(t))
  <2>1. pc[t] \in {"enqueue", "wait"}
    BY <1>7 DEF EnqueueFails, Wait, WaitFails, Return, Goto
  <2>2. ~(call[t].queue = q /\ call[t].session = session)
    BY <1>7, <2>1 DEF Elsewhere
  <2>3. lost'[q] = lost[q] /\ submitted'[q] = submitted[q]
    BY <1>1, <1>7, <2>2 DEF EnqueueFails, Wait, WaitFails, LoseBoundary
  <2>4. QED
    BY <1>3, <1>4, <1>7, <2>3 DEF EnqueueFails, Wait, WaitFails
<1>8. CASE Elsewhere(t, q) /\ Enqueue(t)
  <2> DEFINE k == [thread |-> t, session |-> call[t].session]
  <2>1. pc[t] = "enqueue" /\ submitted' = [submitted EXCEPT ![call[t].queue] = Append(@, k)]
    BY <1>8 DEF Enqueue, Submit, Return, Goto
  <2>2. ~(call[t].queue = q /\ call[t].session = session)
    BY <1>8, <2>1 DEF Elsewhere
  <2>3. /\ \A u \in Threads \ {t} : pc'[u] = pc[u] /\ call'[u] = call[u]
        /\ Elsewhere(t, q)'
    <3>1. CASE Return(t, "enqueue")
      BY <1>4, <3>1
    <3>2. CASE Goto(t, "enqueue", "wait") /\ UNCHANGED call
      BY <1>1, <1>2, <2>2, <3>2 DEF Goto, CallsOK, Elsewhere
    <3>3. QED
      BY <1>8, <3>1, <3>2 DEF Enqueue
  <2>4. lost'[q] = lost[q]
    BY <1>1, <1>8, <2>2 DEF Enqueue, LoseBoundary
  <2>5. CASE call[t].queue # q
    <3>1. submitted'[q] = submitted[q]
      BY <1>1, <2>1, <2>5
    <3>2. QED
      BY <1>3, <1>8, <2>3, <2>4, <3>1
  <2>6. CASE call[t].queue = q /\ call[t].session # session
    <3>1. k \in Kernel /\ k.thread = t /\ k.session # session
      BY <1>1, <2>6 DEF CallsOK, Local, Kernel
    <3>2. submitted'[q] = Append(submitted[q], k) /\ submitted[q] \in Seq(Kernel)
      BY <1>1, <2>1, <2>6
    <3> HIDE DEF k
    <3>3. PICK n \in Nat :
            /\ n \notin DOMAIN submitted[q]
            /\ DOMAIN submitted'[q] = DOMAIN submitted[q] \cup {n}
            /\ \A i \in DOMAIN submitted[q] : submitted'[q][i] = submitted[q][i]
            /\ submitted'[q][n] = k
      <4>1. /\ Len(submitted[q]) + 1 \in Nat
            /\ Len(submitted[q]) + 1 \notin DOMAIN submitted[q]
            /\ DOMAIN submitted'[q] = DOMAIN submitted[q] \cup {Len(submitted[q]) + 1}
            /\ \A i \in DOMAIN submitted[q] : submitted'[q][i] = submitted[q][i]
            /\ submitted'[q][Len(submitted[q]) + 1] = k
        BY <3>1, <3>2
      <4>2. QED
        BY <4>1
    <3>4. Counted(q)' = Counted(q)
      BY <1>2, <3>1, <3>3 DEF Counted
    <3>5. ASSUME NEW S \in SUBSET Waiting(q) PROVE Behind(q, S)' = Behind(q, S)
      <4>1. t \notin S
        BY <1>8, <3>5 DEF Waiting, Elsewhere
      <4>2. QED
        BY <3>1, <3>3, <3>4, <4>1 DEF Behind, Counted
    <3>6. /\ Underway(q)' = Underway(q) /\ AtBoundary(q)' = AtBoundary(q)
          /\ Waiting(q)' = Waiting(q)
      BY <1>2, <1>8, <2>3, ElsewhereStays
    <3>7. QED
      BY <1>2, <2>4, <3>5, <3>6, StaysPaid
  <2>7. QED
    BY <2>2, <2>5, <2>6
<1>9. QED
  BY <1>5, <1>6, <1>7, <1>8

(* Counting keeps every queue paid, the one that loses its slot included.  *)
LEMMA CountKeepsPaid ==
  ASSUME TypeOK, TypeOK', SessionsPass, EveryQueuePaid, NEW t \in Threads, Count(t),
         g_window_size # 0,
         NEW q \in Queues, NEW p \in 0..(g_window_size - 1), Towards(q, p)'
  PROVE  Paid(q, p)'
<1> USE DEF config
<1>1. CallsOK
  BY Parts
<1>2. PICK r \in Queues : call[t].queue = r
  BY <1>1 DEF Count, Goto, CallsOK
<1>3. CASE q = r
  BY <1>2, <1>3, CountPays
<1>4. CASE q # r
  <2>1. PICK n \in Nat :
          /\ call'[t].queue = r
          /\ \A o \in Queues \ {r} :
               \/ lost'[o] = lost[o] /\ \A x : Towards(o, x)' <=> Towards(o, x)
               \/ lost'[o] = lost[o] + 1 /\ \A x : Towards(o, x)' <=> x = 0
    BY <1>2, CountFacts
  <2>2. /\ UNCHANGED <<g_window_size, session, submitted>>
        /\ \A u \in Threads \ {t} : pc'[u] = pc[u] /\ call'[u] = call[u]
    BY <1>1 DEF Count, Goto, CallsOK
  <2>3. Elsewhere(t, q) /\ Elsewhere(t, q)'
    BY <1>2, <1>4, <2>1 DEF Elsewhere
  <2>4. /\ Underway(q)' = Underway(q) /\ AtBoundary(q)' = AtBoundary(q)
        /\ Waiting(q)' = Waiting(q)
    BY <2>2, <2>3, ElsewhereStays
  <2>5. \A S : Behind(q, S)' = Behind(q, S)
    BY <2>2 DEF Behind, Counted
  <2>6. CASE lost'[q] = lost[q] /\ \A x : Towards(q, x)' <=> Towards(q, x)
    <3>1. Paid(q, p)
      BY <2>6 DEF EveryQueuePaid
    <3>2. QED
      BY <2>2, <2>4, <2>5, <2>6, <3>1, StaysPaid
  <2>7. CASE lost'[q] = lost[q] + 1 /\ \A x : Towards(q, x)' <=> x = 0
    <3>1. p = 0
      BY <2>7
    <3>2. PICK x \in 0..(g_window_size - 1) : Paid(q, x)
      BY SomeProgress DEF EveryQueuePaid
    <3>3. QED
      BY <2>2, <2>4, <2>5, <2>7, <3>1, <3>2, EvictedPays
  <2>8. QED
    BY <1>4, <2>1, <2>6, <2>7
<1>5. QED
  BY <1>3, <1>4

(* Every step keeps every queue paid.                                      *)
LEMMA StepPaid ==
  ASSUME TypeOK, TypeOK', SessionsPass, SessionsPass', EveryQueuePaid, [Next]_vars
  PROVE  EveryQueuePaid'
<1> USE DEF config
<1>1. g_window_size' = g_window_size
  BY DEF Next, vars, EnterCall, Count, Enqueue, EnqueueFails, Wait, WaitFails,
         SetInferenceEnabled, Reset, ClearTable, FinishKernel
<1>2. SUFFICES ASSUME g_window_size # 0, NEW q \in Queues,
                      NEW p \in 0..(g_window_size - 1), Towards(q, p)'
               PROVE  Paid(q, p)'
  BY <1>1 DEF EveryQueuePaid
<1>3. ASSUME g_queue_counters' = g_queue_counters PROVE Paid(q, p)
  BY <1>1, <1>2, <1>3 DEF Towards, EveryQueuePaid
<1>4. ASSUME UNCHANGED <<pc, call, session>>, submitted'[q] = submitted[q], lost'[q] = lost[q],
             g_queue_counters' = g_queue_counters
      PROVE  Paid(q, p)'
  <2>1. \A S : Behind(q, S)' = Behind(q, S)
    BY <1>4 DEF Behind, Counted
  <2>2. /\ Underway(q)' = Underway(q) /\ AtBoundary(q)' = AtBoundary(q)
        /\ Waiting(q)' = Waiting(q)
    BY <1>4 DEF Underway, AtBoundary, Waiting
  <2>3. QED
    BY <1>1, <1>3, <1>4, <2>1, <2>2, StaysPaid
<1>5. ASSUME NEW t \in Threads, Count(t) PROVE Paid(q, p)'
  BY <1>2, <1>5, CountKeepsPaid
<1>6. ASSUME NEW t \in Threads,
             EnterCall(t) \/ Enqueue(t) \/ EnqueueFails(t) \/ Wait(t) \/ WaitFails(t)
      PROVE  Paid(q, p)'
  <2>1. g_queue_counters' = g_queue_counters
    BY <1>6 DEF EnterCall, Enqueue, EnqueueFails, Wait, WaitFails
  <2>2. QED
    BY <1>3, <1>6, <2>1, ThreadPays
<1>7. CASE SetInferenceEnabled \/ Reset \/ UNCHANGED vars
  BY <1>4, <1>7 DEF SetInferenceEnabled, Reset, vars
<1>8. CASE ClearTable
  <2>1. /\ session' = session + 1 /\ UNCHANGED <<call, submitted>>
        /\ lost'[q] = 0
        /\ \A i \in 1..Slots : g_queue_counters'[i].queue = NoQueue
    BY <1>8 DEF ClearTable, NoCounter
  <2>2. /\ \A t \in Threads : call[t].session \in Nat /\ call[t].session <= session
        /\ session \in Nat
    BY Parts DEF CallsOK, Local, SessionsPass
  <2>3. ASSUME NEW i \in DOMAIN submitted[q] PROVE submitted[q][i].session # session + 1
    <3>1. submitted[q] \in Seq(Kernel)
      BY Parts
    <3>2. submitted[q][i] \in Kernel
      BY <2>3, <3>1
    <3>3. submitted[q][i].session \in Nat /\ submitted[q][i].session <= session
      BY <2>3, <3>2 DEF Kernel, SessionsPass
    <3>4. QED
      BY <2>2, <3>3
  <2>4. p = 0
    <3>1. \A i \in 1..Slots : g_queue_counters'[i].queue # q
      BY <2>1, QueueAssumption
    <3>2. QED
      BY <1>2, <3>1 DEF Towards
  <2>5. /\ Underway(q)' = {} /\ AtBoundary(q)' = {} /\ Waiting(q)' = {}
        /\ \A S : Behind(q, S)' = {}
    <3>1. \A t \in Threads : call'[t].session # session'
      BY <2>1, <2>2
    <3>2. \A i \in DOMAIN submitted'[q] : submitted'[q][i].session # session'
      BY <2>1, <2>3
    <3>3. QED
      BY <3>1, <3>2 DEF Underway, AtBoundary, Waiting, Behind, Counted
  <2>6. QED
    BY <1>1, <2>1, <2>4, <2>5, NothingOwed, WindowSize DEF Paid
<1>9. ASSUME NEW r \in Queues, FinishKernel(r) PROVE Paid(q, p)'
  <2>1. CASE q = r
    BY <1>3, <1>9, <2>1, FinishPays DEF FinishKernel
  <2>2. CASE q # r
    <3>1. submitted'[q] = submitted[q]
      BY <1>9, <2>2, Parts DEF FinishKernel
    <3>2. QED
      BY <1>4, <1>9, <3>1 DEF FinishKernel
  <2>3. QED
    BY <2>1, <2>2
<1>10. QED
  BY <1>5, <1>6, <1>7, <1>8, <1>9 DEF Next

LEMMA InitOwed == Init => OwedInv
<1> SUFFICES ASSUME Init PROVE OwedInv
  OBVIOUS
<1>1. TypeOK
  BY InitTypeOK
<1>2. /\ \A t \in Threads : call[t].session = 0 /\ pc[t] = "idle"
      /\ \A q \in Queues : submitted[q] = <<>> /\ lost[q] = 0
      /\ session = 1
      /\ \A i \in 1..Slots : g_queue_counters[i].queue = NoQueue
  BY DEF Init, NoCall, NoCounter
<1>3. \A q \in Queues : DOMAIN submitted[q] = {}
  BY <1>2
<1>4. SessionsPass
  BY <1>2, <1>3 DEF SessionsPass
<1>5. ASSUME NEW q \in Queues PROVE Paid(q, 0)
  <2>1. Underway(q) = {} /\ AtBoundary(q) = {} /\ Waiting(q) = {}
    BY <1>2 DEF Underway, AtBoundary, Waiting
  <2>2. \A S : Behind(q, S) = {}
    BY <1>3 DEF Behind, Counted
  <2>3. QED
    BY <1>1, <1>2, <2>1, <2>2, NothingOwed, WindowSize DEF Paid
<1>6. \A q \in Queues : \A p : Towards(q, p) => p = 0
  BY <1>2, QueueAssumption DEF Towards
<1>7. QED
  BY <1>4, <1>5, <1>6 DEF OwedInv, EveryQueuePaid

(* A queue holds at most what is behind no boundary at all, and not every  *)
(* thread is at a boundary while one has counted towards the next.         *)
LEMMA OwedIsBounded == TypeOK /\ OwedInv => QueueBounded
<1> SUFFICES ASSUME TypeOK, OwedInv, NEW q \in Queues, g_window_size # 0
             PROVE  Cardinality(Counted(q)) <=
                      (Cardinality(Threads) + lost[q]) * g_window_size
                        + Cardinality(Threads) - 1
  BY DEF QueueBounded
<1>1. PICK p \in 0..(g_window_size - 1) : Paid(q, p)
  BY SomeProgress DEF OwedInv, EveryQueuePaid
<1>2. Behind(q, {}) = Counted(q)
  BY DEF Behind
<1>3. AtBoundary(q) \subseteq Threads /\ Underway(q) \subseteq Threads
  BY DEF AtBoundary, Underway
<1>4. submitted[q] \in Seq(Kernel) /\ lost[q] \in Nat
  BY Parts
<1>5. PICK b \in Nat, u \in Nat, a \in Nat, l \in Nat, c \in Nat, w \in Nat :
        /\ b = Cardinality(Counted(q)) /\ u = Cardinality(Underway(q))
        /\ a = Cardinality(AtBoundary(q)) /\ l = lost[q] /\ c = Cardinality(Threads)
        /\ w = g_window_size /\ a <= c
  BY <1>2, <1>3, <1>4, ThreadSets, BehindFinite, WindowSize
<1>6. b + u <= (a + l) * w + p + c - 1
  <2>1. {} \in SUBSET Waiting(q) /\ Cardinality({}) = 0 /\ a - 0 + l = a + l
    BY FS_EmptySet
  <2>2. b + u <= (a - Cardinality({}) + l) * w + p + c - 1
    BY <1>1, <1>2, <1>5, <2>1 DEF Paid
  <2>3. QED
    BY <2>1, <2>2
<1>7. PICK x \in Int : x = (a + l) * w /\ ((a + l) + 1) * w = x + w
  BY <1>5, Grow
<1>8. CASE a < c
  <2>1. ((a + l) + 1) * w <= (c + l) * w
    BY <1>5, <1>8, Mono
  <2>2. PICK y \in Int : y = (c + l) * w
    BY Grow
  <2>3. b <= (c + l) * w + c - 1
    BY <1>1, <1>5, <1>6, <1>7, <2>1, <2>2
  <2>4. QED
    BY <1>5, <2>3
<1>9. CASE a = c
  <2>1. AtBoundary(q) = Threads
    BY <1>3, <1>5, <1>9, ThreadAssumption, FS_Subset
  <2>2. p = 0
    BY <1>1, <2>1 DEF Paid
  <2>3. b <= (c + l) * w + c - 1
    BY <1>5, <1>6, <1>7, <1>9, <2>2
  <2>4. QED
    BY <1>5, <2>3
<1>10. QED
  BY <1>5, <1>8, <1>9

(* However many threads share a queue, however they are interleaved and    *)
(* wherever a reset comes, what the queue holds of this session is at most *)
(* a window for every thread and every lost boundary and a straggler for   *)
(* every other thread.                                                     *)
THEOREM BoundHolds == Spec => []QueueBounded
<1>1. TypeOK /\ OwedInv /\ [Next]_vars => TypeOK' /\ OwedInv'
  BY StepTypeOK, StepSessions, StepPaid DEF OwedInv
<1>2. QED
  BY InitTypeOK, InitOwed, OwedIsBounded, <1>1, PTL DEF Spec
=============================================================================

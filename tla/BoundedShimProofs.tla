------------------------- MODULE BoundedShimProofs -------------------------
(***************************************************************************)
(* The shim's promises, for any number of threads, calls and controllers,  *)
(* any driver and any faults.                                              *)
(*                                                                         *)
(* SuccessMeansFinished speaks of calls that returned; what carries it,    *)
(* WaitedOut, speaks of the call in progress between wait and return.  The *)
(* statistics agree by what each process may still do to them              *)
(* (CountersInv).  The refinement of BoundedQueue rests on the numbering   *)
(* of kernels (QueueInv).                                                  *)
(***************************************************************************)
EXTENDS BoundedShim, FiniteSetTheorems, TLAPS

USE ProcAssumption, ControlAssumption, EventAssumption, DurationAssumption,
    VendorAssumption, ErrorAssumption, BoundAssumption

(* Appending the record of the returning call keeps the histories well     *)
(* typed, and leaves every earlier record in place.                        *)
LEMMA ReturnTypes ==
  ASSUME TypeOK, NEW t \in Threads, NEW from, NEW s \in Statuses, Return(t, from, s)
  PROVE  /\ pc' \in [Procs -> Pcs]
         /\ call' \in [Threads -> Locals]
         /\ returned' \in [Threads -> Seq(Record)]
         /\ returned' = [returned EXCEPT ![t] = Append(returned[t],
              [status |-> s, should_wait |-> call[t].should_wait,
               boundary |-> call[t].boundary])]
<1>1. pc' \in [Procs -> Pcs]
  BY DEF Return, Goto, TypeOK, Pcs
<1>2. NoCall \in Locals
  BY DEF NoCall, Locals, Statuses
<1>3. call' \in [Threads -> Locals]
  BY <1>2 DEF Return, TypeOK, Locals
<1> DEFINE r == [status |-> s, should_wait |-> call[t].should_wait,
                 boundary |-> call[t].boundary]
<1>4. returned' = [returned EXCEPT ![t] = Append(returned[t], r)]
  BY DEF Return
<1>5. r \in Record
  BY DEF TypeOK, Locals, Record
<1>6. returned \in [Threads -> Seq(Record)]
  BY DEF TypeOK
<1>7. Append(returned[t], r) \in Seq(Record)
  <2> HIDE DEF r
  <2> QED
    BY <1>5, <1>6
<1>8. returned' \in [Threads -> Seq(Record)]
  <2> HIDE DEF r
  <2> QED
    BY <1>4, <1>6, <1>7
<1>9. QED
  BY <1>1, <1>3, <1>4, <1>8

(* A kernel is named by its thread and the number of the call.             *)
LEMMA IdType ==
  ASSUME TypeOK, NEW t \in Threads
  PROVE  Id(t) \in Threads \X (Nat \ {0})
<1>1. returned[t] \in Seq(Record)
  BY DEF TypeOK
<1>2. Len(returned[t]) \in Nat
  BY <1>1
<1>3. QED
  BY <1>2 DEF Id

LEMMA InitTypeOK == Init => TypeOK
<1> SUFFICES ASSUME Init PROVE TypeOK
  OBVIOUS
<1> USE DEF Init
<1>1. NoCall \in Locals
  BY DEF NoCall, Locals, Statuses
<1>2. call \in [Threads -> Locals]
  BY <1>1
<1>3. control \in [Controllers -> Operations]
  BY DEF NoControl, Operations
<1>4. returned \in [Threads -> Seq(Record)]
  OBVIOUS
<1>5. pc \in [Procs -> Pcs]
  BY DEF Pcs
<1>6. QED
  BY <1>2, <1>3, <1>4, <1>5 DEF TypeOK

(* The step of a thread through its call.                                  *)
LEMMA CallTypes == ASSUME TypeOK, NEW t \in Threads, EnterCall(t) \/ CallStep(t) PROVE TypeOK'
<1> USE DEF globals, counters, driver, history, statistics
<1>1. t \in Procs
  BY DEF Procs
<1>2. ASSUME NEW from, NEW to \in Pcs, Goto(t, from, to) PROVE pc' \in [Procs -> Pcs]
  BY <1>2 DEF Goto, TypeOK
<1>3. \A p : AfterOnce(p) \in Pcs
  BY DEF AfterOnce, Pcs
<1>4. CASE EnterCall(t)
  <2>1. pc' \in [Procs -> Pcs]
    BY <1>2, <1>4 DEF EnterCall, Pcs
  <2>2. call' \in [Threads -> Locals]
    <3>1. PICK b \in EventArgs : call' = [call EXCEPT ![t].boundary = b]
      BY <1>4 DEF EnterCall
    <3>2. b \in BOOLEAN
      BY EventAssumption
    <3>3. call \in [Threads -> Locals]
      BY DEF TypeOK
    <3>4. [call[t] EXCEPT !.boundary = b] \in Locals
      BY <3>2, <3>3 DEF Locals
    <3>5. QED
      BY ONLY <3>1, <3>3, <3>4
  <2>3. QED
    BY <1>4, <2>1, <2>2 DEF EnterCall, TypeOK
<1>5. CASE OnceBegin(t)
  <2>1. pc' \in [Procs -> Pcs]
    BY <1>2, <1>5 DEF OnceBegin, Pcs
  <2>2. QED
    BY <1>5, <2>1 DEF OnceBegin, TypeOK
<1>6. CASE InitializeShim(t)
  <2>1. pc' \in [Procs -> Pcs]
    BY <1>2, <1>3, <1>6 DEF InitializeShim
  <2>2. QED
    BY <1>6, <2>1 DEF InitializeShim, TypeOK
<1>7. CASE OncePass(t)
  <2>1. pc' \in [Procs -> Pcs]
    BY <1>2, <1>3, <1>7 DEF OncePass
  <2>2. QED
    BY <1>7, <2>1 DEF OncePass, TypeOK
<1>8. CASE GateUnresolved(t)
  <2>1. Return(t, "gate", "INVALID_OPERATION") /\ "INVALID_OPERATION" \in Statuses
    BY <1>8 DEF GateUnresolved, Statuses
  <2>2. pc' \in [Procs -> Pcs] /\ call' \in [Threads -> Locals]
        /\ returned' \in [Threads -> Seq(Record)]
    BY <2>1, ReturnTypes
  <2>3. QED
    BY <1>8, <2>2 DEF GateUnresolved, TypeOK
<1>9. CASE Gate(t)
  <2>1. pc' \in [Procs -> Pcs]
    BY <1>2, <1>9 DEF Gate, Pcs
  <2>2. call' \in [Threads -> Locals]
    <3> DEFINE seen == IF g_inference_enabled THEN {} ELSE active
               new == [call[t] EXCEPT !.should_wait = g_inference_enabled, !.unseen = seen]
    <3>1. seen \in SUBSET Controllers /\ g_inference_enabled \in BOOLEAN
      BY DEF TypeOK
    <3>2. call[t] \in Locals
      BY DEF TypeOK
    <3>3. call' = [call EXCEPT ![t].should_wait = g_inference_enabled, ![t].unseen = seen]
      BY <1>9 DEF Gate
    <3>4. call' = [call EXCEPT ![t] = new]
      <4> HIDE DEF seen
      <4> QED
        BY <3>3 DEF TypeOK
    <3>5. new \in Locals
      <4> HIDE DEF seen
      <4> QED
        BY <3>1, <3>2 DEF Locals
    <3> HIDE DEF new
    <3>6. QED
      BY <3>4, <3>5 DEF TypeOK
  <2>3. QED
    BY <1>9, <2>1, <2>2 DEF Gate, TypeOK
<1>10. CASE Count(t)
  <2>1. pc' \in [Procs -> Pcs]
    BY <1>2, <1>10 DEF Count, Pcs
  <2>2. QED
    BY <1>10, <2>1 DEF Count, TypeOK
<1>11. CASE Enqueue(t)
  <2>1. /\ queue' \subseteq Threads \X (Nat \ {0})
        /\ events' \subseteq Threads \X (Nat \ {0})
        /\ accepted' \subseteq Threads \X (Nat \ {0})
        /\ refused' = refused /\ erred' = erred
    BY <1>11, IdType DEF Enqueue, TypeOK
  <2>2. unrecorded' \in Nat
    BY <1>11 DEF Enqueue, TypeOK
  <2>3. CASE Goto(t, "enqueue", "wait") /\ UNCHANGED <<call, returned>>
    <3>1. pc' \in [Procs -> Pcs]
      BY <1>2, <2>3 DEF Pcs
    <3>2. QED
      BY <1>11, <2>1, <2>2, <2>3, <3>1 DEF Enqueue, TypeOK
  <2>4. ASSUME NEW s \in Statuses, Return(t, "enqueue", s) PROVE TypeOK'
    <3>1. pc' \in [Procs -> Pcs] /\ call' \in [Threads -> Locals]
          /\ returned' \in [Threads -> Seq(Record)]
      BY <2>4, ReturnTypes
    <3>2. QED
      BY <1>11, <2>1, <2>2, <3>1 DEF Enqueue, TypeOK
  <2>5. "SUCCESS" \in Statuses /\ "INVALID_OPERATION" \in Statuses
    BY DEF Statuses
  <2>6. \/ Return(t, "enqueue", "SUCCESS")
        \/ Return(t, "enqueue", "INVALID_OPERATION")
        \/ Goto(t, "enqueue", "wait") /\ UNCHANGED <<call, returned>>
    BY <1>11 DEF Enqueue
  <2>7. QED
    BY <2>3, <2>4, <2>5, <2>6
<1>12. CASE EnqueueFails(t)
  <2>1. PICK s \in Statuses : Return(t, "enqueue", s)
    BY <1>12 DEF EnqueueFails, Statuses
  <2>2. pc' \in [Procs -> Pcs] /\ call' \in [Threads -> Locals]
        /\ returned' \in [Threads -> Seq(Record)]
    BY <2>1, ReturnTypes
  <2>3. erred' \subseteq Threads \X (Nat \ {0})
    BY <1>12, IdType DEF EnqueueFails, TypeOK
  <2>4. QED
    BY <1>12, <2>2, <2>3 DEF EnqueueFails, TypeOK
<1>13. CASE Wait(t)
  <2>1. PICK s \in {"SUCCESS"} \cup Errors, d \in Durations, measured \in BOOLEAN :
          /\ call' = [call EXCEPT ![t].status = s,
                                  ![t].duration = IF measured THEN d ELSE 0]
          /\ Goto(t, "wait", IF measured THEN "recordCount" ELSE "release")
          /\ unrecorded' = IF measured THEN unrecorded ELSE unrecorded + 1
          /\ erred' = IF s = "SUCCESS" THEN erred ELSE erred \cup {Id(t)}
    BY <1>13 DEF Wait
  <2>2. pc' \in [Procs -> Pcs]
    BY <1>2, <2>1 DEF Pcs
  <2>3. s \in Statuses /\ (IF measured THEN d ELSE 0) \in Nat
    BY DEF Statuses
  <2>4. call' \in [Threads -> Locals]
    <3> DEFINE d1 == IF measured THEN d ELSE 0
    <3>1. call' = [call EXCEPT ![t].status = s, ![t].duration = d1]
      BY <2>1
    <3>2. d1 \in Nat /\ call[t] \in Locals
      BY <2>3 DEF TypeOK
    <3> HIDE DEF d1
    <3>3. [call[t] EXCEPT !.status = s, !.duration = d1] \in Locals
      BY <2>3, <3>2 DEF Locals
    <3>4. call' = [call EXCEPT ![t] = [call[t] EXCEPT !.status = s, !.duration = d1]]
      BY <3>1 DEF TypeOK
    <3>5. QED
      BY <3>3, <3>4 DEF TypeOK
  <2>5. unrecorded' \in Nat
    BY <2>1 DEF TypeOK
  <2>6. UNCHANGED <<globals, counters, control, controls, queue, events, refused, accepted,
                  returned, active, torn, recorded>>
    BY <1>13 DEF Wait
  <2>7. erred' \subseteq Threads \X (Nat \ {0})
    BY <2>1, IdType DEF TypeOK
  <2>8. QED
    BY <2>2, <2>4, <2>5, <2>6, <2>7 DEF TypeOK
<1>14. CASE RecordCount(t)
  <2>1. pc' \in [Procs -> Pcs]
    BY <1>2, <1>14 DEF RecordCount, Pcs
  <2>2. QED
    BY <1>14, <2>1 DEF RecordCount, TypeOK
<1>15. CASE RecordTotal(t)
  <2>1. pc' \in [Procs -> Pcs]
    BY <1>2, <1>15 DEF RecordTotal, Pcs
  <2>2. call[t].duration \in Nat
    BY DEF TypeOK, Locals
  <2>3. g_total_wait_ns' \in Nat /\ recorded' \subseteq Nat
    <3> DEFINE d == call[t].duration
    <3>1. g_total_wait_ns' = g_total_wait_ns + d /\ recorded' = recorded \cup {d}
      BY <1>15 DEF RecordTotal
    <3>2. d \in Nat /\ g_total_wait_ns \in Nat /\ recorded \subseteq Nat
      BY <2>2 DEF TypeOK
    <3> HIDE DEF d
    <3>3. QED
      BY <3>1, <3>2
  <2>4. UNCHANGED <<globals, g_dispatch_count, g_wait_count, g_max_wait_ns, call,
                    control, controls, driver, returned, active, torn, unrecorded>>
    BY <1>15 DEF RecordTotal
  <2>5. QED
    BY <2>1, <2>3, <2>4 DEF TypeOK
<1>16. CASE LoadMax(t) \/ SwapMaxFails(t)
  <2>1. PICK from : CompareMax(t, from)
    BY <1>16 DEF LoadMax, SwapMaxFails
  <2>2. pc' \in [Procs -> Pcs]
    BY <1>2, <2>1 DEF CompareMax, Pcs
  <2>3. call' \in [Threads -> Locals]
    <3>1. call' = [call EXCEPT ![t].previous_max = g_max_wait_ns]
      BY <2>1 DEF CompareMax
    <3>2. g_max_wait_ns \in Nat /\ call \in [Threads -> Locals]
      BY DEF TypeOK
    <3>3. QED
      BY <3>1, <3>2 DEF Locals
  <2>4. QED
    BY <2>1, <2>2, <2>3 DEF CompareMax, TypeOK
<1>17. CASE SwapMax(t)
  <2>1. pc' \in [Procs -> Pcs]
    BY <1>2, <1>17 DEF SwapMax, Pcs
  <2>2. call[t].duration \in Nat
    BY DEF TypeOK, Locals
  <2>3. QED
    BY <1>17, <2>1, <2>2 DEF SwapMax, TypeOK
<1>18. CASE Release(t)
  <2>1. PICK s \in Statuses : Return(t, "release", s)
    BY <1>18 DEF Release, TypeOK, Statuses, Locals
  <2>2. pc' \in [Procs -> Pcs] /\ call' \in [Threads -> Locals]
        /\ returned' \in [Threads -> Seq(Record)]
    BY <2>1, ReturnTypes
  <2>3. /\ events' \subseteq events
        /\ refused' \subseteq Threads \X (Nat \ {0})
        /\ erred' \subseteq Threads \X (Nat \ {0})
    BY <1>18, IdType DEF Release, TypeOK
  <2>4. QED
    BY <1>18, <2>2, <2>3 DEF Release, TypeOK
<1>19. QED
  BY <1>4, <1>5, <1>6, <1>7, <1>8, <1>9, <1>10, <1>11, <1>12, <1>13, <1>14, <1>15,
     <1>16, <1>17, <1>18 DEF CallStep, Once

(* The step of a controller through its operation.                         *)
LEMMA ControlTypes ==
  ASSUME TypeOK, NEW c \in Controllers, StartControl(c) \/ ControlStep(c)
  PROVE  TypeOK'
<1> USE DEF globals, counters, driver, history, statistics
<1>1. c \in Procs
  BY DEF Procs
<1>2. ASSUME NEW from, NEW to \in Pcs, Goto(c, from, to) PROVE pc' \in [Procs -> Pcs]
  BY <1>2 DEF Goto, TypeOK
<1>3. \A p : AfterOnce(p) \in Pcs
  BY DEF AfterOnce, Pcs
<1>4. CASE StartControl(c)
  <2>1. pc' \in [Procs -> Pcs]
    BY <1>2, <1>4 DEF StartControl, Pcs
  <2>2. control' \in [Controllers -> Operations]
    <3>1. PICK o \in ControlOps : control' = [control EXCEPT ![c].op = o]
      BY <1>4 DEF StartControl
    <3>2. o \in {"begin", "end", "reset"}
      BY ControlAssumption
    <3>3. control \in [Controllers -> Operations]
      BY DEF TypeOK
    <3>4. [control[c] EXCEPT !.op = o] \in Operations
      BY <3>2, <3>3 DEF Operations
    <3>5. QED
      BY ONLY <3>1, <3>3, <3>4
  <2>3. controls' \in Nat /\ active' \subseteq Controllers
    <3>1. /\ controls' = controls + 1
          /\ \E o \in ControlOps : active' = IF o = "begin" THEN active ELSE active \ {c}
      BY <1>4 DEF StartControl
    <3>2. controls \in Nat /\ active \subseteq Controllers
      BY DEF TypeOK
    <3>3. QED
      BY ONLY <3>1, <3>2
  <2>4. UNCHANGED <<globals, counters, call, driver, returned, statistics>>
    BY <1>4 DEF StartControl
  <2>5. QED
    BY <2>1, <2>2, <2>3, <2>4 DEF TypeOK
<1>5. CASE OnceBegin(c)
  <2>1. pc' \in [Procs -> Pcs]
    BY <1>2, <1>5 DEF OnceBegin, Pcs
  <2>2. QED
    BY <1>5, <2>1 DEF OnceBegin, TypeOK
<1>6. CASE InitializeShim(c)
  <2>1. pc' \in [Procs -> Pcs]
    BY <1>2, <1>3, <1>6 DEF InitializeShim
  <2>2. QED
    BY <1>6, <2>1 DEF InitializeShim, TypeOK
<1>7. CASE OncePass(c)
  <2>1. pc' \in [Procs -> Pcs]
    BY <1>2, <1>3, <1>7 DEF OncePass
  <2>2. QED
    BY <1>7, <2>1 DEF OncePass, TypeOK
<1>8. NoControl \in Operations
  BY DEF NoControl, Operations
<1>9. CASE SetInferenceEnabled(c)
  <2>1. pc' \in [Procs -> Pcs]
    BY <1>2, <1>9 DEF SetInferenceEnabled, EndControl, Pcs
  <2>2. control' \in [Controllers -> Operations]
    BY <1>8, <1>9 DEF SetInferenceEnabled, EndControl, TypeOK
  <2>3. QED
    BY <1>9, <2>1, <2>2 DEF SetInferenceEnabled, TypeOK
<1>10. CASE ResetStore(c)
  <2>1. control[c] \in Operations
    BY DEF TypeOK
  <2>2. pc' \in [Procs -> Pcs]
    BY <1>2, <1>10 DEF ResetStore, EndControl, Pcs
  <2>3. control' \in [Controllers -> Operations]
    <3>1. CASE control[c].stage < 5
      <4>1. control' = [control EXCEPT ![c].stage = control[c].stage + 1]
        BY <1>10, <3>1 DEF ResetStore
      <4>2. control[c].stage + 1 \in 1..5
        BY <2>1, <3>1 DEF Operations
      <4>3. QED
        BY <2>1, <4>1, <4>2 DEF TypeOK, Operations
    <3>2. CASE ~(control[c].stage < 5)
      BY <1>8, <1>10, <3>2 DEF ResetStore, EndControl, TypeOK
    <3>3. QED
      BY <3>1, <3>2
  <2>4. g_inference_enabled' \in BOOLEAN /\ torn' \in BOOLEAN
    BY <1>10 DEF ResetStore, TypeOK
  <2>5. unrecorded' \in Nat /\ recorded' \subseteq Nat
    BY <1>10 DEF ResetStore, TypeOK
  <2>6. /\ g_dispatch_count' \in Nat /\ g_wait_count' \in Nat
        /\ g_total_wait_ns' \in Nat /\ g_max_wait_ns' \in Nat
    BY <1>10 DEF ResetStore, TypeOK
  <2>7. UNCHANGED <<g_init_once, symbols, call, controls, driver, returned, active>>
    BY <1>10 DEF ResetStore
  <2>8. QED
    BY <2>2, <2>3, <2>4, <2>5, <2>6, <2>7 DEF TypeOK
<1>11. QED
  BY <1>4, <1>5, <1>6, <1>7, <1>9, <1>10 DEF ControlStep, Once

(* Every step keeps the types.                                             *)
LEMMA StepTypeOK == TypeOK /\ [Next]_vars => TypeOK'
<1> SUFFICES ASSUME TypeOK, [Next]_vars PROVE TypeOK'
  OBVIOUS
<1>1. ASSUME NEW k \in queue, FinishKernel(k) PROVE TypeOK'
  BY <1>1 DEF FinishKernel, TypeOK, globals, counters, history, statistics
<1>2. CASE UNCHANGED vars
  BY <1>2 DEF vars, TypeOK, globals, counters, driver, history, statistics
<1>3. QED
  BY <1>1, <1>2, CallTypes, ControlTypes DEF Next

(* Type correctness of the shim, for every driver and every interleaving.  *)
THEOREM TypeCorrect == Spec => []TypeOK
  BY InitTypeOK, StepTypeOK, PTL DEF Spec
----------------------------------------------------------------------------
(* SuccessMeansFinished speaks of calls that returned.  It is not inductive *)
(* alone: the call that is about to return has to have waited.              *)

AfterWait == {"recordCount", "recordTotal", "loadMax", "swapMax", "release"}

(* A call past its wait that is going to report success left no kernel. *)
WaitedOut ==
  \A t \in Threads :
    pc[t] \in AfterWait /\ call[t].status = "SUCCESS" => Id(t) \notin queue

IInv == TypeOK /\ WaitedOut /\ SuccessMeansFinished

(* A step that returns from no call and submits no kernel. *)
LEMMA QuietStep ==
  ASSUME IInv, UNCHANGED returned, queue' \subseteq queue,
         \A t \in Threads :
           pc'[t] \in AfterWait /\ call'[t].status = "SUCCESS"
             => \/ pc[t] \in AfterWait /\ call[t].status = "SUCCESS"
                \/ Id(t) \notin queue
  PROVE  WaitedOut' /\ SuccessMeansFinished'
<1>1. WaitedOut'
  BY DEF IInv, WaitedOut, Id
<1>2. SuccessMeansFinished'
  BY DEF IInv, SuccessMeansFinished
<1>3. QED
  BY <1>1, <1>2

(* The return of a call appends one record and touches no other one. *)
LEMMA AppendedRecord ==
  ASSUME TypeOK, NEW u \in Threads, NEW r \in Record,
         returned' = [returned EXCEPT ![u] = Append(returned[u], r)]
  PROVE  /\ \A t \in Threads : t # u => returned'[t] = returned[t]
         /\ Len(returned[u]) \in Nat
         /\ Len(returned'[u]) = Len(returned[u]) + 1
         /\ \A n \in 1..Len(returned[u]) : returned'[u][n] = returned[u][n]
         /\ returned'[u][Len(returned[u]) + 1] = r
<1>1. returned \in [Threads -> Seq(Record)]
  BY DEF TypeOK
<1>2. returned'[u] = Append(returned[u], r) /\ \A t \in Threads : t # u => returned'[t] = returned[t]
  BY <1>1
<1>3. returned[u] \in Seq(Record)
  BY <1>1
<1>4. QED
  BY <1>2, <1>3

(* A call of u returns s, perhaps having just submitted its kernel. *)
LEMMA ReturnStep ==
  ASSUME IInv, NEW u \in Threads, NEW from, NEW s \in Statuses, Return(u, from, s),
         queue' \subseteq queue \cup {Id(u)},
         call[u].should_wait /\ s = "SUCCESS" => Id(u) \notin queue'
  PROVE  WaitedOut' /\ SuccessMeansFinished'
<1> DEFINE r == [status |-> s, should_wait |-> call[u].should_wait,
                 boundary |-> call[u].boundary]
<1>1. TypeOK
  BY DEF IInv
<1>2. u \in Procs /\ pc'[u] = "idle" /\ \A t \in Threads : t # u => pc'[t] = pc[t]
  BY <1>1 DEF Return, Goto, TypeOK, Procs
<1>3. \A t \in Threads : t # u => call'[t] = call[t]
  BY <1>1 DEF Return, TypeOK
<1>4. r \in Record
  BY <1>1 DEF TypeOK, Locals, Record
<1>5. returned' = [returned EXCEPT ![u] = Append(returned[u], r)]
  BY DEF Return
<1>6. /\ \A t \in Threads : t # u => returned'[t] = returned[t]
      /\ Len(returned[u]) \in Nat
      /\ Len(returned'[u]) = Len(returned[u]) + 1
      /\ \A n \in 1..Len(returned[u]) : returned'[u][n] = returned[u][n]
      /\ returned'[u][Len(returned[u]) + 1] = r
  <2> HIDE DEF r
  <2> QED
    BY <1>1, <1>4, <1>5, AppendedRecord
<1>7. WaitedOut'
  <2> SUFFICES ASSUME NEW t \in Threads, pc'[t] \in AfterWait, call'[t].status = "SUCCESS"
               PROVE  Id(t)' \notin queue'
    BY DEF WaitedOut
  <2>1. t # u
    BY <1>2 DEF AfterWait
  <2>2. Id(t)' = Id(t) /\ Id(t) # Id(u)
    BY <1>6, <2>1 DEF Id
  <2>3. Id(t) \notin queue
    BY <1>2, <1>3, <2>1 DEF IInv, WaitedOut
  <2>4. QED
    BY <2>2, <2>3
<1>8. SuccessMeansFinished'
  <2> SUFFICES ASSUME NEW t \in Threads, NEW n \in 1..Len(returned'[t]),
                      returned'[t][n].should_wait, returned'[t][n].status = "SUCCESS"
               PROVE  <<t, n>> \notin queue'
    BY DEF SuccessMeansFinished
  <2>1. CASE t = u /\ n = Len(returned[u]) + 1
    <3>1. call[u].should_wait /\ s = "SUCCESS"
      BY <1>6, <2>1
    <3>2. QED
      BY <2>1, <3>1 DEF Id
  <2>2. CASE ~(t = u /\ n = Len(returned[u]) + 1)
    <3>1. n \in 1..Len(returned[t]) /\ returned'[t][n] = returned[t][n]
      BY <1>6, <2>2
    <3>2. <<t, n>> \notin queue
      BY <3>1 DEF IInv, SuccessMeansFinished
    <3>3. <<t, n>> # Id(u)
      BY <2>2 DEF Id
    <3>4. QED
      BY <3>2, <3>3
  <2>3. QED
    BY <2>1, <2>2
<1>9. QED
  BY <1>7, <1>8

(* A kernel joins the queue and its call goes on to wait for it. *)
LEMMA SubmitStep ==
  ASSUME IInv, NEW u \in Threads, Goto(u, "enqueue", "wait"),
         UNCHANGED <<call, returned>>, queue' = queue \cup {Id(u)}
  PROVE  WaitedOut' /\ SuccessMeansFinished'
<1>1. pc'[u] = "wait" /\ \A t \in Threads : t # u => pc'[t] = pc[t]
  BY DEF IInv, Goto, TypeOK, Procs
<1>2. returned[u] \in Seq(Record)
  BY DEF IInv, TypeOK
<1>3. WaitedOut'
  <2> SUFFICES ASSUME NEW t \in Threads, pc'[t] \in AfterWait, call'[t].status = "SUCCESS"
               PROVE  Id(t)' \notin queue'
    BY DEF WaitedOut
  <2>1. t # u
    BY <1>1 DEF AfterWait
  <2>2. Id(t)' = Id(t) /\ Id(t) # Id(u) /\ Id(t) \notin queue
    BY <1>1, <2>1 DEF IInv, WaitedOut, Id
  <2>3. QED
    BY <2>2
<1>4. SuccessMeansFinished'
  <2> SUFFICES ASSUME NEW t \in Threads, NEW n \in 1..Len(returned[t]),
                      returned[t][n].should_wait, returned[t][n].status = "SUCCESS"
               PROVE  <<t, n>> \notin queue'
    BY DEF SuccessMeansFinished
  <2>1. <<t, n>> \notin queue
    BY DEF IInv, SuccessMeansFinished
  <2>2. <<t, n>> # Id(u)
    BY <1>2 DEF Id
  <2>3. QED
    BY <2>1, <2>2
<1>5. QED
  BY <1>3, <1>4

(* Every action of a thread preserves the two facts about successes. *)
LEMMA CallKeepsSuccess ==
  ASSUME IInv, NEW u \in Threads, EnterCall(u) \/ CallStep(u)
  PROVE  WaitedOut' /\ SuccessMeansFinished'
<1> USE DEF globals, counters, driver, history, statistics
<1>1. TypeOK /\ u \in Procs
  BY DEF IInv, Procs
<1>2. ASSUME NEW from, NEW to, Goto(u, from, to), to \notin AfterWait,
             UNCHANGED <<returned, queue>>,
             \A t \in Threads : t # u => call'[t] = call[t]
      PROVE  WaitedOut' /\ SuccessMeansFinished'
  <2>1. pc'[u] = to /\ \A t \in Threads : t # u => pc'[t] = pc[t]
    BY <1>1, <1>2 DEF Goto, TypeOK
  <2>2. QED
    BY <1>2, <2>1, QuietStep
<1>3. ASSUME NEW from \in AfterWait, NEW to, Goto(u, from, to), UNCHANGED <<returned, queue>>,
             \A t \in Threads : t # u => call'[t] = call[t],
             call'[u].status = call[u].status
      PROVE  WaitedOut' /\ SuccessMeansFinished'
  <2>1. pc[u] \in AfterWait /\ \A t \in Threads : t # u => pc'[t] = pc[t]
    BY <1>1, <1>3 DEF Goto, TypeOK
  <2>2. QED
    BY <1>3, <2>1, QuietStep
<1>4. CASE EnterCall(u)
  <2>1. \A t \in Threads : t # u => call'[t] = call[t]
    BY <1>1, <1>4 DEF EnterCall, TypeOK
  <2>2. QED
    BY <1>2, <1>4, <2>1 DEF EnterCall, AfterWait
<1>5. CASE Once(u)
  <2>1. AfterOnce(u) = "gate" /\ UNCHANGED <<call, returned, queue>>
    BY <1>5 DEF Once, OnceBegin, InitializeShim, OncePass, AfterOnce
  <2>2. \/ Goto(u, "once", "init")
        \/ Goto(u, "init", AfterOnce(u))
        \/ Goto(u, "once", AfterOnce(u))
    BY <1>5 DEF Once, OnceBegin, InitializeShim, OncePass
  <2>3. "init" \notin AfterWait /\ "gate" \notin AfterWait
    BY DEF AfterWait
  <2>4. QED
    BY <1>2, <2>1, <2>2, <2>3
<1>6. CASE GateUnresolved(u)
  <2>1. Return(u, "gate", "INVALID_OPERATION") /\ queue' = queue
    BY <1>6 DEF GateUnresolved
  <2>2. QED
    BY <2>1, ReturnStep DEF Statuses
<1>7. CASE Gate(u)
  <2>1. \A t \in Threads : t # u => call'[t] = call[t]
    BY <1>1, <1>7 DEF Gate, TypeOK
  <2>2. QED
    BY <1>2, <1>7, <2>1 DEF Gate, AfterWait
<1>8. CASE Count(u)
  BY <1>2, <1>8 DEF Count, AfterWait
<1>9. CASE Enqueue(u)
  <2>1. queue' = queue \cup {Id(u)}
    BY <1>9 DEF Enqueue
  <2>2. CASE ~call[u].should_wait /\ Return(u, "enqueue", "SUCCESS")
    BY <2>1, <2>2, ReturnStep DEF Statuses
  <2>3. CASE Return(u, "enqueue", "INVALID_OPERATION")
    BY <2>1, <2>3, ReturnStep DEF Statuses
  <2>4. CASE Goto(u, "enqueue", "wait") /\ UNCHANGED <<call, returned>>
    BY <2>1, <2>4, SubmitStep
  <2>5. QED
    BY <1>9, <2>2, <2>3, <2>4 DEF Enqueue
<1>10. CASE EnqueueFails(u)
  <2>1. PICK s \in Errors : Return(u, "enqueue", s)
    BY <1>10 DEF EnqueueFails
  <2>2. s \in Statuses /\ s # "SUCCESS" /\ queue' = queue
    BY <1>10 DEF EnqueueFails, Statuses
  <2>3. QED
    BY <2>1, <2>2, ReturnStep
<1>11. CASE Wait(u)
  <2>1. PICK s \in {"SUCCESS"} \cup Errors, d \in Durations, measured \in BOOLEAN :
          /\ s = "SUCCESS" => Id(u) \notin queue
          /\ call' = [call EXCEPT ![u].status = s,
                                  ![u].duration = IF measured THEN d ELSE 0]
          /\ Goto(u, "wait", IF measured THEN "recordCount" ELSE "release")
    BY <1>11 DEF Wait
  <2>2. \A t \in Threads : t # u => pc'[t] = pc[t] /\ call'[t] = call[t]
    BY <1>1, <2>1 DEF Goto, TypeOK
  <2>3. call'[u].status = s
    <3> DEFINE d1 == IF measured THEN d ELSE 0
    <3>1. call' = [call EXCEPT ![u].status = s, ![u].duration = d1]
      BY <2>1
    <3> HIDE DEF d1
    <3>2. call' = [call EXCEPT ![u] = [call[u] EXCEPT !.status = s, !.duration = d1]]
      BY <1>1, <3>1 DEF TypeOK
    <3>3. QED
      BY <1>1, <3>2 DEF TypeOK, Locals
  <2>4. UNCHANGED <<returned, queue>>
    BY <1>11 DEF Wait
  <2>5. QED
    BY <2>1, <2>2, <2>3, <2>4, QuietStep
<1>12. CASE RecordCount(u)
  BY <1>3, <1>12 DEF RecordCount, AfterWait
<1>13. CASE RecordTotal(u)
  BY <1>3, <1>13 DEF RecordTotal, AfterWait
<1>14. CASE LoadMax(u) \/ SwapMaxFails(u)
  <2>1. PICK from \in {"loadMax", "swapMax"} : CompareMax(u, from)
    BY <1>14 DEF LoadMax, SwapMaxFails
  <2>2. /\ \A t \in Threads : t # u => call'[t] = call[t]
        /\ call'[u].status = call[u].status
    BY <1>1, <2>1 DEF CompareMax, TypeOK, Locals
  <2>3. QED
    BY <1>3, <2>1, <2>2 DEF CompareMax, AfterWait
<1>15. CASE SwapMax(u)
  BY <1>3, <1>15 DEF SwapMax, AfterWait
<1>16. CASE Release(u)
  <2>1. PICK s \in {call[u].status} \cup Errors : Return(u, "release", s)
    BY <1>16 DEF Release
  <2>2. s \in Statuses
    BY <1>1 DEF TypeOK, Locals, Statuses
  <2>3. pc[u] = "release" /\ queue' = queue
    BY <1>16, <2>1 DEF Release, Return, Goto
  <2>4. s = "SUCCESS" => Id(u) \notin queue'
    BY <2>1, <2>3 DEF IInv, WaitedOut, AfterWait
  <2>5. QED
    BY <2>1, <2>2, <2>3, <2>4, ReturnStep
<1>17. QED
  BY <1>4, <1>5, <1>6, <1>7, <1>8, <1>9, <1>10, <1>11, <1>12, <1>13, <1>14, <1>15,
     <1>16 DEF CallStep

(* Every step keeps what a call knows after its wait.                      *)
LEMMA StepIInv == IInv /\ [Next]_vars => IInv'
<1> SUFFICES ASSUME IInv, [Next]_vars PROVE IInv'
  OBVIOUS
<1> USE DEF globals, counters, driver, history, statistics
<1>1. TypeOK'
  BY StepTypeOK DEF IInv
<1>2. ASSUME NEW c \in Controllers, StartControl(c) \/ ControlStep(c)
      PROVE  WaitedOut' /\ SuccessMeansFinished'
  <2>1. UNCHANGED <<call, returned, queue>>
    BY <1>2 DEF StartControl, ControlStep, Once, OnceBegin, InitializeShim, OncePass,
                SetInferenceEnabled, ResetStore
  <2>2. PICK to : pc' = [pc EXCEPT ![c] = to]
    BY <1>2 DEF StartControl, ControlStep, Once, OnceBegin, InitializeShim, OncePass,
                SetInferenceEnabled, ResetStore, EndControl, Goto
  <2>3. \A t \in Threads : pc'[t] = pc[t]
    BY <2>2, ProcAssumption DEF IInv, TypeOK, Procs
  <2>4. QED
    BY <2>1, <2>3, QuietStep
<1>3. ASSUME NEW k \in queue, FinishKernel(k) PROVE WaitedOut' /\ SuccessMeansFinished'
  BY <1>3, QuietStep DEF FinishKernel
<1>4. ASSUME UNCHANGED vars PROVE WaitedOut' /\ SuccessMeansFinished'
  <2>1. UNCHANGED <<pc, call, returned, queue>>
    BY <1>4 DEF vars
  <2>2. QED
    BY <2>1, QuietStep
<1>5. ASSUME NEW t \in Threads, EnterCall(t) \/ CallStep(t)
      PROVE  WaitedOut' /\ SuccessMeansFinished'
  BY <1>5, CallKeepsSuccess
<1>6. WaitedOut' /\ SuccessMeansFinished'
  BY <1>2, <1>3, <1>4, <1>5 DEF Next
<1>7. QED
  BY <1>1, <1>6 DEF IInv

LEMMA InitIInv == Init => IInv
<1> SUFFICES ASSUME Init PROVE IInv
  OBVIOUS
<1>1. TypeOK
  BY InitTypeOK
<1>2. WaitedOut /\ SuccessMeansFinished
  BY DEF Init, WaitedOut, AfterWait, SuccessMeansFinished
<1>3. QED
  BY <1>1, <1>2 DEF IInv

(* A call that saw inference enabled and reports success has left nothing  *)
(* on the queue, for any number of threads and controllers, whichever      *)
(* driver calls fail and whenever resets come.                             *)
THEOREM SuccessWaitsOut == Spec => []SuccessMeansFinished
<1>1. IInv => SuccessMeansFinished
  BY DEF IInv
<1>2. QED
  BY <1>1, InitIInv, StepIInv, PTL DEF Spec
----------------------------------------------------------------------------
(* The statistics.  A step of a thread touches them in one of ten ways.    *)

(* Counted calls whose wait is not recorded yet. *)
Outstanding == {t \in Counting : pc[t] \in {"enqueue", "wait", "recordCount"}}

Counted == {"count", "enqueue", "wait", "recordCount", "recordTotal", "loadMax",
            "swapMax", "release"}

(* A call is counted from the gate on or not at all. *)
GateDecides ==
  \A t \in Threads :
    /\ call[t].should_wait => pc[t] \in Counted
    /\ pc[t] \in Counted \ {"enqueue"} => call[t].should_wait

(* The exchange loop holds a recorded duration, and exchanges only for a   *)
(* larger one than it read.                                                *)
LoopHoldsRecorded ==
  \A t \in Threads :
    /\ pc[t] \in {"loadMax", "swapMax"} => call[t].duration \in recorded
    /\ pc[t] = "swapMax" => call[t].duration > call[t].previous_max

StagesOfStores == \A c \in Controllers : control[c].stage > 1 => pc[c] = "store"

(* A reset nothing overlapped meets calls at most at their first addition, *)
(* which would overlap it, and what it has cleared stays clear.            *)
ResetFindsNobody ==
  ~torn => \A c \in Resetting :
    /\ unrecorded = 0 /\ recorded = {}
    /\ \A t \in Counting : pc[t] = "count"
    /\ control[c].stage > 2 => g_dispatch_count = 0
    /\ control[c].stage > 3 => g_wait_count = 0

CountersInv ==
  /\ TypeOK
  /\ GateDecides
  /\ LoopHoldsRecorded
  /\ StagesOfStores
  /\ ResetFindsNobody
  /\ IsFiniteSet(Outstanding)
  /\ CountsAgree
  /\ MaxWaitIsExact

Uncounted(u) ==
  /\ ~call[u].should_wait /\ ~call'[u].should_wait
  /\ pc'[u] \notin Counted \ {"enqueue"}
  /\ UNCHANGED <<counters, statistics>>

Admitted(u) ==
  /\ ~call[u].should_wait /\ call'[u].should_wait
  /\ pc'[u] = "count"
  /\ UNCHANGED <<counters, statistics>>

Unrecorded(u) ==
  /\ call[u].should_wait /\ pc[u] \in {"enqueue", "wait"}
  /\ \/ pc'[u] = "idle" /\ ~call'[u].should_wait
     \/ pc'[u] = "release" /\ call'[u].should_wait
  /\ unrecorded' = unrecorded + 1
  /\ UNCHANGED <<counters, torn, recorded>>

Awaits(u) ==
  /\ call[u].should_wait /\ call'[u].should_wait
  /\ pc[u] \in {"enqueue", "wait"} /\ pc'[u] \in {"wait", "recordCount"}
  /\ UNCHANGED <<counters, statistics>>

Leaves(u) ==
  /\ call[u].should_wait /\ pc[u] = "release"
  /\ ~call'[u].should_wait /\ pc'[u] = "idle"
  /\ UNCHANGED <<counters, statistics>>

(* A step of a thread moves that thread alone.                             *)
LEMMA OneThreadMoves ==
  ASSUME TypeOK, NEW u \in Threads, EnterCall(u) \/ CallStep(u)
  PROVE  /\ \A t \in Threads : t # u => pc'[t] = pc[t] /\ call'[t] = call[t]
         /\ \A c \in Controllers : pc'[c] = pc[c]
         /\ control' = control
<1> USE DEF globals, counters, driver, history, statistics
<1>1. control' = control
  BY DEF EnterCall, CallStep, Once, OnceBegin, InitializeShim, OncePass, GateUnresolved,
         Gate, Count, Enqueue, EnqueueFails, Wait, RecordCount, RecordTotal, LoadMax,
         SwapMax, SwapMaxFails, CompareMax, Release
<1>2. \E from, to : Goto(u, from, to)
  BY DEF EnterCall, CallStep, Once, OnceBegin, InitializeShim, OncePass, GateUnresolved,
         Gate, Count, Enqueue, EnqueueFails, Wait, RecordCount, RecordTotal, LoadMax,
         SwapMax, SwapMaxFails, CompareMax, Release, Return
<1>3. \A p \in Procs : p # u => pc'[p] = pc[p]
  BY <1>2 DEF Goto, TypeOK
<1>4. \A t \in Threads : t # u => call'[t] = call[t]
  <2>1. CASE Wait(u)
    <3>1. PICK s \in {"SUCCESS"} \cup Errors, d \in Durations, measured \in BOOLEAN :
            call' = [call EXCEPT ![u].status = s, ![u].duration = IF measured THEN d ELSE 0]
      BY <2>1 DEF Wait
    <3>2. QED
      BY <3>1 DEF TypeOK
  <2>2. CASE EnterCall(u) \/ Gate(u) \/ LoadMax(u) \/ SwapMaxFails(u)
    BY <2>2 DEF EnterCall, Gate, LoadMax, SwapMaxFails, CompareMax, TypeOK
  <2>3. CASE Once(u) \/ Count(u) \/ RecordCount(u) \/ RecordTotal(u) \/ SwapMax(u)
    BY <2>3 DEF Once, OnceBegin, InitializeShim, OncePass, Count, RecordCount, RecordTotal,
                SwapMax
  <2>4. CASE GateUnresolved(u) \/ Enqueue(u) \/ EnqueueFails(u) \/ Release(u)
    BY <2>4 DEF GateUnresolved, Enqueue, EnqueueFails, Release, Return, TypeOK
  <2>5. QED
    BY <2>1, <2>2, <2>3, <2>4 DEF CallStep
<1>5. QED
  BY <1>1, <1>3, <1>4, ProcAssumption DEF Procs

(* What a step of a thread does to the statistics.                         *)
LEMMA StatisticsSteps ==
  ASSUME TypeOK, GateDecides, NEW u \in Threads, EnterCall(u) \/ CallStep(u)
  PROVE  \/ Uncounted(u) \/ Admitted(u) \/ Count(u) \/ Unrecorded(u) \/ Awaits(u)
         \/ RecordCount(u) \/ RecordTotal(u) \/ LoadMax(u) \/ SwapMaxFails(u) \/ SwapMax(u)
         \/ Leaves(u)
<1> USE DEF globals, counters, driver, history, statistics
<1>1. u \in Procs /\ call[u].should_wait \in BOOLEAN /\ call[u] \in Locals
  BY DEF Procs, TypeOK, Locals
<1>2. ASSUME NEW from, NEW to, Goto(u, from, to) PROVE pc[u] = from /\ pc'[u] = to
  BY <1>1, <1>2 DEF Goto, TypeOK
<1>3. ASSUME NEW from, NEW s, Return(u, from, s)
      PROVE  pc[u] = from /\ pc'[u] = "idle" /\ ~call'[u].should_wait
  BY <1>1, <1>3 DEF Return, Goto, TypeOK, NoCall
<1>4. CASE EnterCall(u)
  <2>1. pc[u] = "idle" /\ pc'[u] = "once"
    BY <1>2, <1>4 DEF EnterCall
  <2>2. call'[u].should_wait = call[u].should_wait
    BY <1>1, <1>4 DEF EnterCall, TypeOK, Locals
  <2>3. QED
    BY <1>4, <2>1, <2>2 DEF EnterCall, GateDecides, Counted, Uncounted
<1>5. CASE Once(u)
  <2>1. pc[u] \in {"once", "init"} /\ pc'[u] \in {"init", "gate"}
    BY <1>2, <1>5 DEF Once, OnceBegin, InitializeShim, OncePass, AfterOnce
  <2>2. QED
    BY <1>5, <2>1 DEF Once, OnceBegin, InitializeShim, OncePass, GateDecides, Counted,
                      Uncounted
<1>6. CASE GateUnresolved(u)
  <2>1. pc[u] = "gate" /\ pc'[u] = "idle" /\ ~call'[u].should_wait
    BY <1>3, <1>6 DEF GateUnresolved
  <2>2. QED
    BY <1>6, <2>1 DEF GateUnresolved, GateDecides, Counted, Uncounted
<1>7. CASE Gate(u)
  <2>1. pc[u] = "gate" /\ pc'[u] = IF g_inference_enabled THEN "count" ELSE "enqueue"
    BY <1>2, <1>7 DEF Gate
  <2>2. call'[u].should_wait = g_inference_enabled
    BY <1>1, <1>7 DEF Gate, TypeOK, Locals
  <2>3. QED
    BY <1>7, <2>1, <2>2 DEF Gate, GateDecides, Counted, Uncounted, Admitted, TypeOK
<1>8. CASE Enqueue(u)
  <2>1. CASE ~call[u].should_wait /\ Return(u, "enqueue", "SUCCESS") /\ UNCHANGED unrecorded
    BY <1>3, <1>8, <2>1 DEF Enqueue, Uncounted, Counted
  <2>2. CASE /\ call[u].should_wait /\ Return(u, "enqueue", "INVALID_OPERATION")
             /\ unrecorded' = unrecorded + 1
    BY <1>3, <1>8, <2>2 DEF Enqueue, Unrecorded
  <2>3. CASE /\ call[u].should_wait /\ Goto(u, "enqueue", "wait")
             /\ UNCHANGED <<call, returned, unrecorded>>
    BY <1>2, <1>8, <2>3 DEF Enqueue, Awaits
  <2>4. QED
    BY <1>8, <2>1, <2>2, <2>3 DEF Enqueue
<1>9. CASE EnqueueFails(u)
  <2>1. pc[u] = "enqueue" /\ pc'[u] = "idle" /\ ~call'[u].should_wait
    BY <1>3, <1>9 DEF EnqueueFails
  <2>2. QED
    BY <1>1, <1>9, <2>1 DEF EnqueueFails, Uncounted, Unrecorded, Counted
<1>10. CASE Wait(u)
  <2>1. PICK s \in {"SUCCESS"} \cup Errors, d \in Durations, measured \in BOOLEAN :
          /\ call' = [call EXCEPT ![u].status = s,
                                  ![u].duration = IF measured THEN d ELSE 0]
          /\ Goto(u, "wait", IF measured THEN "recordCount" ELSE "release")
          /\ unrecorded' = IF measured THEN unrecorded ELSE unrecorded + 1
    BY <1>10 DEF Wait
  <2>2. call[u].should_wait /\ call'[u].should_wait
    <3> DEFINE d1 == IF measured THEN d ELSE 0
    <3>1. call' = [call EXCEPT ![u].status = s, ![u].duration = d1]
      BY <2>1
    <3> HIDE DEF d1
    <3>2. call' = [call EXCEPT ![u] = [call[u] EXCEPT !.status = s, !.duration = d1]]
      BY <3>1 DEF TypeOK
    <3>3. call'[u].should_wait = call[u].should_wait
      BY <1>1, <3>2 DEF TypeOK, Locals
    <3>4. pc[u] = "wait"
      BY <1>2, <2>1
    <3>5. QED
      BY <3>3, <3>4 DEF GateDecides, Counted
  <2>3. pc[u] = "wait" /\ pc'[u] = IF measured THEN "recordCount" ELSE "release"
    BY <1>2, <2>1
  <2>4. UNCHANGED <<counters, torn, recorded>>
    BY <1>10 DEF Wait
  <2>5. QED
    BY <2>1, <2>2, <2>3, <2>4 DEF Awaits, Unrecorded
<1>11. CASE Release(u)
  <2>1. pc[u] = "release" /\ pc'[u] = "idle" /\ ~call'[u].should_wait
    BY <1>3, <1>11 DEF Release
  <2>2. QED
    BY <1>11, <2>1 DEF Release, GateDecides, Counted, Leaves
<1>12. QED
  BY <1>4, <1>5, <1>6, <1>7, <1>8, <1>9, <1>10, <1>11 DEF CallStep

(* What a step of u does to the rest of the statistics' state: the other   *)
(* calls stay where they are and no reset moves.                           *)
LEMMA CallKeepsGate ==
  ASSUME CountersInv, NEW u \in Threads, EnterCall(u) \/ CallStep(u)
  PROVE  GateDecides' /\ LoopHoldsRecorded' /\ StagesOfStores'
<1> USE DEF statistics, counters, history, driver, globals
<1>1. TypeOK /\ GateDecides /\ LoopHoldsRecorded
  BY DEF CountersInv
<1>2. /\ \A t \in Threads : t # u => pc'[t] = pc[t] /\ call'[t] = call[t]
      /\ \A c \in Controllers : pc'[c] = pc[c]
      /\ control' = control
  BY <1>1, OneThreadMoves
<1>3. StagesOfStores'
  BY <1>2 DEF CountersInv, StagesOfStores
<1> SUFFICES GateDecides' /\ LoopHoldsRecorded'
  BY <1>3
<1>4. u \in Procs /\ call[u] \in Locals
  BY <1>1 DEF Procs, TypeOK
<1>5. ASSUME NEW from, NEW to, Goto(u, from, to) PROVE pc[u] = from /\ pc'[u] = to
  BY <1>1, <1>4, <1>5 DEF Goto, TypeOK
<1>6. ASSUME recorded \subseteq recorded',
             call'[u].should_wait => pc'[u] \in Counted,
             pc'[u] \in Counted \ {"enqueue"} => call'[u].should_wait,
             pc'[u] \in {"loadMax", "swapMax"} => call'[u].duration \in recorded',
             pc'[u] = "swapMax" => call'[u].duration > call'[u].previous_max
      PROVE  GateDecides' /\ LoopHoldsRecorded'
  BY <1>1, <1>2, <1>6 DEF GateDecides, LoopHoldsRecorded
<1>7. CASE Uncounted(u) \/ Admitted(u) \/ Unrecorded(u) \/ Awaits(u) \/ Leaves(u)
  <2>1. pc'[u] \notin {"loadMax", "swapMax"} /\ recorded' = recorded
    BY <1>7 DEF Uncounted, Admitted, Unrecorded, Awaits, Leaves, Counted
  <2>2. /\ call'[u].should_wait => pc'[u] \in Counted
        /\ pc'[u] \in Counted \ {"enqueue"} => call'[u].should_wait
    BY <1>7 DEF Uncounted, Admitted, Unrecorded, Awaits, Leaves, Counted
  <2>3. QED
    BY <1>6, <2>1, <2>2
<1>8. CASE Count(u) \/ RecordCount(u) \/ SwapMax(u)
  <2>1. /\ pc[u] \in {"count", "recordCount", "swapMax"}
        /\ pc'[u] \in {"enqueue", "recordTotal", "release"}
        /\ call' = call /\ recorded' = recorded
    BY <1>5, <1>8 DEF Count, RecordCount, SwapMax
  <2>2. QED
    BY <1>1, <1>6, <2>1 DEF GateDecides, Counted
<1>9. CASE RecordTotal(u)
  <2>1. /\ pc[u] = "recordTotal" /\ pc'[u] = "loadMax"
        /\ call' = call /\ recorded' = recorded \cup {call[u].duration}
    BY <1>5, <1>9 DEF RecordTotal
  <2>2. QED
    BY <1>1, <1>6, <2>1 DEF GateDecides, Counted
<1>10. CASE LoadMax(u) \/ SwapMaxFails(u)
  <2>1. PICK from \in {"loadMax", "swapMax"} : CompareMax(u, from)
    BY <1>10 DEF LoadMax, SwapMaxFails
  <2>2. /\ pc[u] \in {"loadMax", "swapMax"}
        /\ pc'[u] = IF call[u].duration > g_max_wait_ns THEN "swapMax" ELSE "release"
        /\ recorded' = recorded
    BY <1>5, <2>1 DEF CompareMax
  <2>3. /\ call'[u].should_wait = call[u].should_wait
        /\ call'[u].duration = call[u].duration
        /\ call'[u].previous_max = g_max_wait_ns
    BY <1>1, <1>4, <2>1 DEF CompareMax, TypeOK, Locals
  <2>4. call[u].should_wait /\ call[u].duration \in recorded
    BY <1>1, <2>2 DEF GateDecides, LoopHoldsRecorded, Counted
  <2>5. QED
    BY <1>6, <2>2, <2>3, <2>4 DEF Counted
<1>11. QED
  BY <1>1, <1>7, <1>8, <1>9, <1>10, StatisticsSteps

(* One thread enters or leaves the calls on their way as the counts        *)
(* change.                                                                 *)
LEMMA CallKeepsCounts ==
  ASSUME CountersInv, NEW u \in Threads, EnterCall(u) \/ CallStep(u)
  PROVE  IsFiniteSet(Outstanding)' /\ CountsAgree'
<1> USE DEF statistics, counters, history, driver, globals
<1>1. TypeOK /\ GateDecides /\ IsFiniteSet(Outstanding)
  BY DEF CountersInv
<1>2. /\ \A t \in Threads : t # u => pc'[t] = pc[t] /\ call'[t] = call[t]
      /\ \A c \in Controllers : pc'[c] = pc[c]
      /\ control' = control
  BY <1>1, OneThreadMoves
<1>3. Resetting' = Resetting
  BY <1>2 DEF Resetting
<1>4. /\ g_dispatch_count \in Nat /\ g_wait_count \in Nat /\ unrecorded \in Nat
      /\ Cardinality(Outstanding) \in Nat
  BY <1>1, FS_CardinalityType DEF TypeOK
<1>5. ~torn /\ Resetting = {} =>
        g_dispatch_count = g_wait_count + unrecorded + Cardinality(Outstanding)
  BY DEF CountersInv, CountsAgree, Outstanding
<1>6. ASSUME IsFiniteSet(Outstanding)',
             ~torn' /\ Resetting' = {} =>
               g_dispatch_count' = g_wait_count' + unrecorded' + Cardinality(Outstanding)'
      PROVE  IsFiniteSet(Outstanding)' /\ CountsAgree'
  BY <1>6 DEF CountsAgree, Outstanding
<1>7. u \in Procs
  BY DEF Procs
<1>8. ASSUME NEW from, NEW to, Goto(u, from, to) PROVE pc[u] = from /\ pc'[u] = to
  BY <1>1, <1>7, <1>8 DEF Goto, TypeOK
<1>9. /\ u \in Outstanding <=> call[u].should_wait /\ pc[u] \in {"enqueue", "wait", "recordCount"}
      /\ u \in Outstanding' <=> call'[u].should_wait /\ pc'[u] \in {"enqueue", "wait", "recordCount"}
      /\ \A t : t # u => (t \in Outstanding' <=> t \in Outstanding)
  BY <1>2 DEF Outstanding, Counting
<1>10. CASE Uncounted(u) \/ Admitted(u) \/ Awaits(u) \/ Leaves(u)
  <2>1. u \in Outstanding' <=> u \in Outstanding
    BY <1>9, <1>10 DEF Uncounted, Admitted, Awaits, Leaves
  <2>2. Outstanding' = Outstanding
    <3>1. \A t : t \in Outstanding' <=> t \in Outstanding
      BY <1>9, <2>1
    <3>2. QED
      BY <3>1
  <2>3. UNCHANGED <<counters, statistics>>
    BY <1>10 DEF Uncounted, Admitted, Awaits, Leaves
  <2>4. QED
    BY <1>1, <1>3, <1>5, <1>6, <2>2, <2>3
<1>11. CASE Count(u)
  <2>1. pc[u] = "count" /\ pc'[u] = "enqueue" /\ call' = call
    BY <1>8, <1>11 DEF Count
  <2>2. u \notin Outstanding /\ Outstanding' = Outstanding \cup {u}
    BY <1>1, <1>9, <2>1 DEF GateDecides, Counted
  <2>3. IsFiniteSet(Outstanding)' /\ Cardinality(Outstanding)' = Cardinality(Outstanding) + 1
    BY <1>1, <2>2, FS_AddElement
  <2>4. g_dispatch_count' = g_dispatch_count + 1 /\ UNCHANGED <<g_wait_count, unrecorded>>
        /\ torn' = (torn \/ Resetting # {})
    BY <1>11 DEF Count
  <2>5. ASSUME ~torn', Resetting' = {}
        PROVE  g_dispatch_count' = g_wait_count' + unrecorded' + Cardinality(Outstanding)'
    <3>1. g_dispatch_count = g_wait_count + unrecorded + Cardinality(Outstanding)
      BY <1>3, <1>5, <2>4, <2>5
    <3>2. QED
      BY <1>4, <2>3, <2>4, <3>1
  <2>6. QED
    BY <1>6, <2>3, <2>5
<1>12. CASE Unrecorded(u) \/ RecordCount(u)
  <2>1. /\ pc[u] \in {"enqueue", "wait", "recordCount"}
        /\ pc'[u] \in {"idle", "release", "recordTotal"}
    BY <1>8, <1>12 DEF Unrecorded, RecordCount
  <2>2. call[u].should_wait
    BY <1>1, <1>8, <1>12 DEF Unrecorded, RecordCount, GateDecides, Counted
  <2>3. u \in Outstanding /\ Outstanding' = Outstanding \ {u}
    BY <1>9, <2>1, <2>2
  <2>4. IsFiniteSet(Outstanding)' /\ Cardinality(Outstanding)' = Cardinality(Outstanding) - 1
    BY <1>1, <2>3, FS_RemoveElement
  <2>5. g_dispatch_count' = g_dispatch_count /\ torn' = torn
        /\ \/ g_wait_count' = g_wait_count + 1 /\ unrecorded' = unrecorded
           \/ g_wait_count' = g_wait_count /\ unrecorded' = unrecorded + 1
    BY <1>12 DEF Unrecorded, RecordCount
  <2>6. ASSUME ~torn', Resetting' = {}
        PROVE  g_dispatch_count' = g_wait_count' + unrecorded' + Cardinality(Outstanding)'
    <3>1. g_dispatch_count = g_wait_count + unrecorded + Cardinality(Outstanding)
      BY <1>3, <1>5, <2>5, <2>6
    <3>2. QED
      BY <1>4, <2>4, <2>5, <3>1
  <2>7. QED
    BY <1>6, <2>4, <2>6
<1>13. CASE RecordTotal(u) \/ LoadMax(u) \/ SwapMaxFails(u) \/ SwapMax(u)
  <2>1. /\ pc[u] \in {"recordTotal", "loadMax", "swapMax"}
        /\ pc'[u] \in {"loadMax", "swapMax", "release"}
    BY <1>8, <1>13 DEF RecordTotal, LoadMax, SwapMaxFails, SwapMax, CompareMax
  <2>2. Outstanding' = Outstanding
    <3>1. \A t : t \in Outstanding' <=> t \in Outstanding
      BY <1>9, <2>1
    <3>2. QED
      BY <3>1
  <2>3. UNCHANGED <<g_dispatch_count, g_wait_count, unrecorded, torn>>
    BY <1>13 DEF RecordTotal, LoadMax, SwapMaxFails, SwapMax, CompareMax
  <2>4. QED
    BY <1>1, <1>3, <1>5, <1>6, <2>2, <2>3
<1>14. QED
  BY <1>1, <1>10, <1>11, <1>12, <1>13, StatisticsSteps

(* A duration is in the maximum or held by its thread until the exchange   *)
(* succeeds.                                                               *)
LEMMA CallKeepsMax ==
  ASSUME CountersInv, NEW u \in Threads, EnterCall(u) \/ CallStep(u)
  PROVE  MaxWaitIsExact'
<1> USE DEF statistics, counters, history, driver, globals
<1>1. TypeOK /\ GateDecides /\ LoopHoldsRecorded /\ MaxWaitIsExact
  BY DEF CountersInv
<1>2. /\ \A t \in Threads : t # u => pc'[t] = pc[t] /\ call'[t] = call[t]
      /\ \A c \in Controllers : pc'[c] = pc[c]
      /\ control' = control
  BY <1>1, OneThreadMoves
<1>3. SUFFICES ASSUME ~torn', Resetting' = {}
               PROVE  /\ g_max_wait_ns' \in recorded' \cup {0}
                      /\ \A d \in recorded' :
                           \/ d <= g_max_wait_ns'
                           \/ \E t \in Threads : pc'[t] \in {"loadMax", "swapMax"}
                                                 /\ call'[t].duration = d
  BY DEF MaxWaitIsExact
<1>4. ~torn /\ Resetting = {}
  <2>1. Resetting' = Resetting
    BY <1>2 DEF Resetting
  <2>2. torn' \in {torn, torn \/ Resetting # {}}
    BY <1>1, StatisticsSteps DEF Uncounted, Admitted, Count, Unrecorded, Awaits, RecordCount,
       RecordTotal, LoadMax, SwapMaxFails, CompareMax, SwapMax, Leaves
  <2>3. QED
    BY <1>3, <2>1, <2>2
<1>5. /\ g_max_wait_ns \in recorded \cup {0}
      /\ \A d \in recorded :
           \/ d <= g_max_wait_ns
           \/ \E t \in Threads : pc[t] \in {"loadMax", "swapMax"} /\ call[t].duration = d
  BY <1>1, <1>4 DEF MaxWaitIsExact
<1>6. u \in Procs /\ call[u] \in Locals /\ g_max_wait_ns \in Nat /\ recorded \subseteq Nat
      /\ call[u].duration \in Nat
  BY <1>1 DEF Procs, TypeOK, Locals
<1>7. ASSUME NEW from, NEW to, Goto(u, from, to) PROVE pc[u] = from /\ pc'[u] = to
  BY <1>1, <1>6, <1>7 DEF Goto, TypeOK
<1>8. CASE \/ Uncounted(u) \/ Admitted(u) \/ Count(u) \/ Unrecorded(u) \/ Awaits(u)
           \/ RecordCount(u) \/ Leaves(u)
  <2>1. pc[u] \notin {"loadMax", "swapMax"}
    BY <1>1, <1>7, <1>8 DEF Uncounted, Admitted, Count, Unrecorded, Awaits, RecordCount, Leaves,
       GateDecides, Counted
  <2>2. UNCHANGED <<g_max_wait_ns, recorded>>
    BY <1>8 DEF Uncounted, Admitted, Count, Unrecorded, Awaits, RecordCount, Leaves
  <2>3. QED
    BY <1>2, <1>5, <2>1, <2>2
<1>9. CASE RecordTotal(u)
  <2>1. /\ pc[u] = "recordTotal" /\ pc'[u] = "loadMax" /\ call' = call
        /\ recorded' = recorded \cup {call[u].duration}
        /\ g_max_wait_ns' = g_max_wait_ns
    BY <1>7, <1>9 DEF RecordTotal
  <2>2. QED
    BY <1>2, <1>5, <2>1
<1>10. CASE LoadMax(u) \/ SwapMaxFails(u)
  <2>1. PICK from \in {"loadMax", "swapMax"} : CompareMax(u, from)
    BY <1>10 DEF LoadMax, SwapMaxFails
  <2>2. /\ pc'[u] = IF call[u].duration > g_max_wait_ns THEN "swapMax" ELSE "release"
        /\ recorded' = recorded /\ g_max_wait_ns' = g_max_wait_ns
        /\ call'[u].duration = call[u].duration
    BY <1>1, <1>6, <1>7, <2>1 DEF CompareMax, TypeOK, Locals
  <2>3. call[u].duration <= g_max_wait_ns \/ pc'[u] = "swapMax"
    BY <1>6, <2>2
  <2>4. QED
    BY <1>2, <1>5, <2>2, <2>3
<1>11. CASE SwapMax(u)
  <2>1. /\ pc[u] = "swapMax" /\ g_max_wait_ns = call[u].previous_max
        /\ recorded' = recorded /\ g_max_wait_ns' = call[u].duration
    BY <1>7, <1>11 DEF SwapMax
  <2>2. call[u].duration \in recorded /\ call[u].duration > g_max_wait_ns
    BY <1>1, <2>1 DEF LoopHoldsRecorded
  <2>3. ASSUME NEW d \in recorded
        PROVE  \/ d <= call[u].duration
               \/ \E t \in Threads : pc'[t] \in {"loadMax", "swapMax"} /\ call'[t].duration = d
    <3>1. d \in Nat
      BY <1>6
    <3>2. CASE d <= g_max_wait_ns
      BY <1>6, <2>2, <3>1, <3>2
    <3>3. CASE \E t \in Threads : pc[t] \in {"loadMax", "swapMax"} /\ call[t].duration = d
      <4>1. PICK t \in Threads : pc[t] \in {"loadMax", "swapMax"} /\ call[t].duration = d
        BY <3>3
      <4>2. CASE t = u
        BY <3>1, <4>1, <4>2
      <4>3. CASE t # u
        BY <1>2, <4>1, <4>3
      <4>4. QED
        BY <4>2, <4>3
    <3>4. QED
      BY <1>5, <3>2, <3>3
  <2>4. QED
    BY <2>1, <2>2, <2>3
<1>12. QED
  BY <1>1, <1>8, <1>9, <1>10, <1>11, StatisticsSteps

(* A counted call meets a reset only before its first addition, which      *)
(* tears the reset.                                                        *)
LEMMA CallKeepsResets ==
  ASSUME CountersInv, NEW u \in Threads, EnterCall(u) \/ CallStep(u)
  PROVE  ResetFindsNobody'
<1> USE DEF statistics, counters, history, driver, globals
<1>1. TypeOK /\ GateDecides /\ ResetFindsNobody
  BY DEF CountersInv
<1>2. /\ \A t \in Threads : t # u => pc'[t] = pc[t] /\ call'[t] = call[t]
      /\ \A c \in Controllers : pc'[c] = pc[c]
      /\ control' = control
  BY <1>1, OneThreadMoves
<1>3. SUFFICES ASSUME ~torn', NEW c \in Resetting'
               PROVE  /\ unrecorded' = 0 /\ recorded' = {}
                      /\ \A t \in Counting' : pc'[t] = "count"
                      /\ control'[c].stage > 2 => g_dispatch_count' = 0
                      /\ control'[c].stage > 3 => g_wait_count' = 0
  BY DEF ResetFindsNobody
<1>4. c \in Resetting
  BY <1>2, <1>3 DEF Resetting
<1>5. u \in Procs
  BY DEF Procs
<1>6. ASSUME NEW from, NEW to, Goto(u, from, to) PROVE pc[u] = from /\ pc'[u] = to
  BY <1>1, <1>5, <1>6 DEF Goto, TypeOK
<1>7. ~Count(u)
  BY <1>3, <1>4 DEF Count
<1>8. ~torn
  BY <1>1, <1>3, <1>7, StatisticsSteps DEF Uncounted, Admitted, Unrecorded, Awaits, RecordCount,
     RecordTotal, LoadMax, SwapMaxFails, CompareMax, SwapMax, Leaves
<1>9. /\ unrecorded = 0 /\ recorded = {}
      /\ \A t \in Counting : pc[t] = "count"
      /\ control[c].stage > 2 => g_dispatch_count = 0
      /\ control[c].stage > 3 => g_wait_count = 0
  BY <1>1, <1>4, <1>8 DEF ResetFindsNobody
<1>10. call[u].should_wait => pc[u] = "count"
  BY <1>1, <1>9 DEF Counting, GateDecides, Counted
<1>11. ~(Unrecorded(u) \/ Awaits(u) \/ Leaves(u))
  BY <1>10 DEF Unrecorded, Awaits, Leaves
<1>12. ~(RecordCount(u) \/ RecordTotal(u) \/ LoadMax(u) \/ SwapMaxFails(u) \/ SwapMax(u))
  BY <1>1, <1>6, <1>10 DEF RecordCount, RecordTotal, LoadMax, SwapMaxFails, SwapMax, CompareMax,
     GateDecides, Counted
<1>13. Uncounted(u) \/ Admitted(u)
  BY <1>1, <1>7, <1>11, <1>12, StatisticsSteps
<1>14. \A t \in Counting' : pc'[t] = "count"
  BY <1>2, <1>9, <1>13 DEF Counting, Uncounted, Admitted
<1>15. QED
  BY <1>2, <1>9, <1>13, <1>14 DEF Uncounted, Admitted

(* A step that moves no thread and touches no statistic. *)
LEMMA ThreadsRest ==
  ASSUME CountersInv, UNCHANGED <<counters, statistics, call>>,
         \A t \in Threads : pc'[t] = pc[t],
         Resetting' = Resetting, \A c \in Resetting : control'[c] = control[c]
  PROVE  /\ GateDecides' /\ LoopHoldsRecorded' /\ ResetFindsNobody'
         /\ IsFiniteSet(Outstanding)' /\ CountsAgree' /\ MaxWaitIsExact'
<1> USE DEF CountersInv, counters, statistics
<1>1. Counting' = Counting /\ Outstanding' = Outstanding
  BY DEF Counting, Outstanding
<1>2. GateDecides' /\ LoopHoldsRecorded'
  BY DEF GateDecides, LoopHoldsRecorded
<1>3. ResetFindsNobody'
  BY <1>1 DEF ResetFindsNobody, Counting
<1>4. IsFiniteSet(Outstanding)' /\ CountsAgree'
  BY <1>1 DEF CountsAgree, Outstanding
<1>5. MaxWaitIsExact'
  BY DEF MaxWaitIsExact
<1>6. QED
  BY <1>2, <1>3, <1>4, <1>5

(* Begin, end and the five stores of a reset.                              *)
LEMMA ControlKeepsCounters ==
  ASSUME CountersInv, NEW c \in Controllers, StartControl(c) \/ ControlStep(c)
  PROVE  CountersInv'
<1> USE DEF globals, counters, driver, history, statistics
<1>1. TypeOK /\ StagesOfStores /\ GateDecides /\ TypeOK'
  BY ControlTypes DEF CountersInv
<1>2. c \in Procs /\ control[c] \in Operations /\ UNCHANGED call
  BY <1>1 DEF Procs, TypeOK, StartControl, ControlStep, Once, OnceBegin, InitializeShim, OncePass,
     SetInferenceEnabled, ResetStore
<1>3. ASSUME NEW from, NEW to, Goto(c, from, to)
      PROVE  /\ pc[c] = from /\ pc'[c] = to
             /\ \A p \in Procs : p # c => pc'[p] = pc[p]
  BY <1>1, <1>2, <1>3 DEF Goto, TypeOK
<1>4. \E from, to : Goto(c, from, to)
  BY DEF StartControl, ControlStep, Once, OnceBegin, InitializeShim, OncePass,
         SetInferenceEnabled, ResetStore, EndControl
<1>5. /\ \A t \in Threads : pc'[t] = pc[t]
      /\ \A d \in Controllers : d # c => pc'[d] = pc[d]
  BY <1>3, <1>4, ProcAssumption DEF Procs
<1>6. \A d \in Controllers : d # c => control'[d] = control[d]
  BY <1>1 DEF TypeOK, StartControl, ControlStep, Once, OnceBegin, InitializeShim, OncePass,
     SetInferenceEnabled, ResetStore, EndControl
<1>7. CASE StartControl(c) \/ Once(c) \/ SetInferenceEnabled(c)
  <2>1. pc[c] # "store" /\ UNCHANGED <<counters, statistics>>
    BY <1>3, <1>7 DEF StartControl, Once, OnceBegin, InitializeShim, OncePass,
       SetInferenceEnabled, EndControl
  <2>2. ~(control[c].stage > 1)
    BY <1>1, <2>1 DEF StagesOfStores
  <2>3. ~(control'[c].stage > 1)
    <3>1. CASE StartControl(c)
      BY <1>1, <1>2, <2>2, <3>1 DEF StartControl, TypeOK, Operations
    <3>2. CASE Once(c)
      BY <2>2, <3>2 DEF Once, OnceBegin, InitializeShim, OncePass
    <3>3. CASE SetInferenceEnabled(c)
      BY <1>1, <1>2, <3>3 DEF SetInferenceEnabled, EndControl, TypeOK, NoControl
    <3>4. QED
      BY <1>7, <3>1, <3>2, <3>3
  <2>4. Resetting' = Resetting /\ \A d \in Resetting : control'[d] = control[d]
    BY <1>5, <1>6, <2>2, <2>3 DEF Resetting
  <2>5. StagesOfStores'
    BY <1>1, <1>5, <1>6, <2>3 DEF StagesOfStores
  <2>6. /\ GateDecides' /\ LoopHoldsRecorded' /\ ResetFindsNobody'
        /\ IsFiniteSet(Outstanding)' /\ CountsAgree' /\ MaxWaitIsExact'
    BY <1>2, <1>5, <2>1, <2>4, ThreadsRest
  <2>7. QED
    BY <1>1, <2>5, <2>6 DEF CountersInv
<1>8. CASE ResetStore(c)
  <2>1. pc[c] = "store" /\ control[c].stage \in 1..5
    BY <1>2, <1>3, <1>8 DEF ResetStore, EndControl, Operations
  <2>2. IF control[c].stage < 5
        THEN pc'[c] = "store" /\ control'[c].stage = control[c].stage + 1
        ELSE pc'[c] = "idle" /\ control'[c].stage = 1
    <3>1. CASE control[c].stage < 5
      BY <1>1, <1>2, <1>3, <1>8, <3>1 DEF ResetStore, TypeOK, Operations
    <3>2. CASE ~(control[c].stage < 5)
      BY <1>1, <1>2, <1>3, <1>8, <3>2 DEF ResetStore, EndControl, TypeOK, NoControl
    <3>3. QED
      BY <3>1, <3>2
  <2>3. /\ g_dispatch_count' = IF control[c].stage = 2 THEN 0 ELSE g_dispatch_count
        /\ g_wait_count' = IF control[c].stage = 3 THEN 0 ELSE g_wait_count
        /\ g_max_wait_ns' = IF control[c].stage = 5 THEN 0 ELSE g_max_wait_ns
        /\ IF control[c].stage = 1 /\ Counting = {} /\ Resetting = {}
           THEN torn' = FALSE /\ unrecorded' = 0 /\ recorded' = {}
           ELSE torn' = (torn \/ Counting # {}) /\ UNCHANGED <<unrecorded, recorded>>
    BY <1>8 DEF ResetStore
  <2>4. Counting' = Counting /\ Outstanding' = Outstanding
    BY <1>2, <1>5 DEF Counting, Outstanding
  <2>5. GateDecides' /\ LoopHoldsRecorded'
    <3>1. GateDecides'
      BY <1>1, <1>2, <1>5 DEF GateDecides
    <3>2. recorded' = recorded \/ Counting = {}
      BY <2>3
    <3>3. ASSUME NEW t \in Threads, pc[t] \in {"loadMax", "swapMax"} PROVE Counting # {}
      BY <1>1, <3>3 DEF GateDecides, Counted, Counting
    <3>4. LoopHoldsRecorded'
      BY <1>2, <1>5, <3>2, <3>3 DEF CountersInv, LoopHoldsRecorded
    <3>5. QED
      BY <3>1, <3>4
  <2>6. StagesOfStores'
    BY <1>1, <1>5, <1>6, <2>2 DEF StagesOfStores
  <2>7. IsFiniteSet(Outstanding)'
    BY <2>4 DEF CountersInv
  <2>8. CASE torn'
    BY <1>1, <2>5, <2>6, <2>7, <2>8 DEF CountersInv, ResetFindsNobody, CountsAgree, MaxWaitIsExact
  <2>9. CASE control[c].stage = 1 /\ Counting = {} /\ Resetting = {}
    <3>1. Resetting' = {c} /\ control'[c].stage = 2
      BY <1>5, <1>6, <2>2, <2>9 DEF Resetting
    <3>2. unrecorded' = 0 /\ recorded' = {}
      BY <2>3, <2>9
    <3>3. ResetFindsNobody'
      BY <2>4, <2>9, <3>1, <3>2 DEF ResetFindsNobody
    <3>4. CountsAgree' /\ MaxWaitIsExact'
      BY <3>1 DEF CountsAgree, MaxWaitIsExact
    <3>5. QED
      BY <1>1, <2>5, <2>6, <2>7, <3>3, <3>4 DEF CountersInv
  <2>10. CASE ~torn' /\ ~(control[c].stage = 1 /\ Counting = {} /\ Resetting = {})
    <3>1. ~torn /\ Counting = {} /\ UNCHANGED <<unrecorded, recorded>>
      BY <1>1, <2>3, <2>10 DEF TypeOK
    <3>2. control[c].stage > 1 => c \in Resetting
      BY <2>1 DEF Resetting
    <3>3. PICK e \in Controllers : e \in Resetting
      BY <2>1, <2>10, <3>1, <3>2 DEF Resetting
    <3>4. \A d \in Resetting :
            /\ unrecorded = 0 /\ recorded = {}
            /\ control[d].stage > 2 => g_dispatch_count = 0
            /\ control[d].stage > 3 => g_wait_count = 0
      BY <3>1 DEF CountersInv, ResetFindsNobody
    <3>5. unrecorded' = 0 /\ recorded' = {}
      BY <3>1, <3>3, <3>4
    <3>6. /\ control'[c].stage > 2 => g_dispatch_count' = 0
          /\ control'[c].stage > 3 => g_wait_count' = 0
      BY <2>1, <2>2, <2>3, <3>2, <3>4
    <3>7. ASSUME NEW d \in Resetting', d # c
          PROVE  /\ control'[d].stage > 2 => g_dispatch_count' = 0
                 /\ control'[d].stage > 3 => g_wait_count' = 0
      <4>1. d \in Resetting /\ control'[d] = control[d]
        BY <1>5, <1>6, <3>7 DEF Resetting
      <4>2. QED
        BY <2>3, <3>4, <4>1
    <3>8. ResetFindsNobody'
      BY <2>4, <3>1, <3>5, <3>6, <3>7 DEF ResetFindsNobody
    <3>9. ASSUME Resetting' = {}
          PROVE  g_dispatch_count' = 0 /\ g_wait_count' = 0 /\ g_max_wait_ns' = 0
      <4>1. control[c].stage = 5
        BY <2>1, <2>2, <3>9 DEF Resetting
      <4>2. QED
        BY <2>3, <3>2, <3>4, <4>1
    <3>10. Outstanding = {} /\ Cardinality(Outstanding') = 0
      BY <2>4, <3>1, FS_EmptySet DEF Outstanding
    <3>11. CountsAgree'
      BY <3>5, <3>9, <3>10 DEF CountsAgree, Outstanding
    <3>12. MaxWaitIsExact'
      BY <3>5, <3>9 DEF MaxWaitIsExact
    <3>13. QED
      BY <1>1, <2>5, <2>6, <2>7, <3>8, <3>11, <3>12 DEF CountersInv
  <2>11. QED
    BY <2>8, <2>9, <2>10
<1>9. QED
  BY <1>7, <1>8 DEF ControlStep

(* Every step keeps the statistics.                                        *)
LEMMA StepCounters == CountersInv /\ [Next]_vars => CountersInv'
<1> SUFFICES ASSUME CountersInv, [Next]_vars PROVE CountersInv'
  OBVIOUS
<1>1. TypeOK'
  BY StepTypeOK DEF CountersInv
<1>2. ASSUME NEW u \in Threads, EnterCall(u) \/ CallStep(u) PROVE CountersInv'
  BY <1>1, <1>2, CallKeepsGate, CallKeepsCounts, CallKeepsMax, CallKeepsResets DEF CountersInv
<1>3. ASSUME UNCHANGED <<counters, statistics, pc, call, control>> PROVE CountersInv'
  <2>1. Resetting' = Resetting /\ StagesOfStores'
    BY <1>3 DEF CountersInv, Resetting, StagesOfStores
  <2>2. QED
    BY <1>1, <1>3, <2>1, ThreadsRest DEF CountersInv
<1>4. ASSUME NEW k \in queue, FinishKernel(k) PROVE CountersInv'
  BY <1>3, <1>4 DEF FinishKernel, history
<1>5. CASE UNCHANGED vars
  BY <1>3, <1>5 DEF vars, history
<1>6. QED
  BY <1>2, <1>4, <1>5, ControlKeepsCounters DEF Next

LEMMA InitCounters == Init => CountersInv
<1> SUFFICES ASSUME Init PROVE CountersInv
  OBVIOUS
<1>1. TypeOK
  BY InitTypeOK
<1>2. \A t \in Threads : ~call[t].should_wait /\ pc[t] = "idle"
  BY DEF Init, NoCall, Procs
<1>3. \A c \in Controllers : control[c].stage = 1
  BY DEF Init, NoControl
<1>4. Outstanding = {} /\ IsFiniteSet(Outstanding) /\ Cardinality(Outstanding) = 0
  BY <1>2, FS_EmptySet DEF Outstanding, Counting
<1>5. GateDecides /\ LoopHoldsRecorded /\ StagesOfStores
  BY <1>2, <1>3 DEF GateDecides, LoopHoldsRecorded, StagesOfStores, Counted
<1>6. ResetFindsNobody
  BY <1>3 DEF ResetFindsNobody, Resetting
<1>7. CountsAgree /\ MaxWaitIsExact
  BY <1>4 DEF Init, CountsAgree, MaxWaitIsExact, Outstanding
<1>8. QED
  BY <1>1, <1>4, <1>5, <1>6, <1>7 DEF CountersInv

(* Matching counts at rest mean that every counted call recorded its wait, *)
(* for any number of threads, calls, controllers and resets.               *)
THEOREM CountsStayInStep == Spec => []CountsAgree
<1>1. CountersInv => CountsAgree
  BY DEF CountersInv
<1>2. QED
  BY <1>1, InitCounters, StepCounters, PTL DEF Spec

(* The compare-and-exchange loop loses no maximum, however many threads    *)
(* race in it.                                                             *)
THEOREM NoMaximumLost == Spec => []MaxWaitIsExact
<1>1. CountersInv => MaxWaitIsExact
  BY DEF CountersInv
<1>2. QED
  BY <1>1, InitCounters, StepCounters, PTL DEF Spec

----------------------------------------------------------------------------
(* The bounded queue.  Of a thread's kernels only the one it is waiting    *)
(* for can be under the bound: those that returned success have finished,  *)
(* and no other unfinished kernel is that of a call still going on.        *)

AfterEnqueue == {"wait"} \cup AfterWait

KernelsAreNumbered ==
  \A t \in Threads : \A n \in Nat :
    <<t, n>> \in queue /\ n > Len(returned[t])
      => n = Len(returned[t]) + 1 /\ pc[t] \in AfterEnqueue /\ call[t].should_wait

QueueInv == IInv /\ KernelsAreNumbered

(* What the abstract queue holds for a thread. *)
PendingIsOwn == \A t \in Threads : PendingOf(t) = queue \cap {Id(t)}

(* The one kernel of a thread under the bound is that of its call.         *)
LEMMA OwnKernelPending == QueueInv => PendingIsOwn
<1> SUFFICES ASSUME QueueInv, NEW t \in Threads PROVE PendingOf(t) = queue \cap {Id(t)}
  BY DEF PendingIsOwn
<1>1. queue \subseteq Threads \X (Nat \ {0}) /\ Len(returned[t]) \in Nat
  <2>1. returned[t] \in Seq(Record)
    BY DEF QueueInv, IInv, TypeOK
  <2>2. QED
    BY <2>1 DEF QueueInv, IInv, TypeOK
<1>2. ASSUME Id(t) \in queue PROVE Id(t) \in PendingOf(t)
  <2>1. call[t].should_wait
    BY <1>1, <1>2 DEF QueueInv, KernelsAreNumbered, Id
  <2>2. QED
    BY <1>2, <2>1 DEF PendingOf, Id
<1>3. ASSUME NEW k \in PendingOf(t), k # Id(t) PROVE FALSE
  <2>1. PICK n \in Nat \ {0} : k = <<t, n>>
    BY <1>1 DEF PendingOf
  <2>2. k \in queue /\ returned[t][n].should_wait /\ returned[t][n].status = "SUCCESS"
    BY <1>3, <2>1 DEF PendingOf
  <2>3. n \notin 1..Len(returned[t])
    BY <2>1, <2>2 DEF QueueInv, IInv, SuccessMeansFinished
  <2>4. n > Len(returned[t])
    BY <1>1, <2>1, <2>3
  <2>5. n = Len(returned[t]) + 1
    BY <2>1, <2>2, <2>4 DEF QueueInv, KernelsAreNumbered
  <2>6. QED
    BY <1>3, <2>1, <2>5 DEF Id
<1>4. PendingOf(t) \subseteq queue
  BY DEF PendingOf
<1>5. QED
  BY <1>2, <1>3, <1>4

(* Every step of a thread leaves the queue alone, submits a kernel it will *)
(* wait for, or returns.                                                   *)
Rests(u) ==
  /\ UNCHANGED <<returned, queue>>
  /\ pc[u] \in AfterEnqueue =>
       pc'[u] \in AfterEnqueue /\ call'[u].should_wait = call[u].should_wait

Submits(u) ==
  /\ Goto(u, "enqueue", "wait") /\ call[u].should_wait
  /\ UNCHANGED <<call, returned>> /\ queue' = queue \cup {Id(u)}

Returns(u, s) ==
  /\ \E from \in {"gate", "enqueue", "release"} : Return(u, from, s)
  /\ queue' = queue \/ (pc[u] = "enqueue" /\ queue' = queue \cup {Id(u)})
  /\ pc[u] = "enqueue" \/ s # "SUCCESS" \/ Id(u) \notin queue

(* What a step of a thread does to the queue: nothing, a submission, or a  *)
(* return.                                                                 *)
LEMMA QueueSteps ==
  ASSUME IInv, NEW u \in Threads, EnterCall(u) \/ CallStep(u)
  PROVE  Rests(u) \/ Submits(u) \/ \E s \in Statuses : Returns(u, s)
<1> USE DEF globals, counters, driver, history, statistics
<1>1. TypeOK /\ u \in Procs
  BY DEF IInv, Procs
<1>2. ASSUME NEW from, NEW to, Goto(u, from, to), from \notin AfterEnqueue,
             UNCHANGED <<returned, queue>>
      PROVE  Rests(u)
  BY <1>2 DEF Goto, Rests
<1>3. ASSUME NEW from, NEW to \in AfterEnqueue, Goto(u, from, to),
             UNCHANGED <<returned, queue>>, call'[u].should_wait = call[u].should_wait
      PROVE  Rests(u)
  BY <1>1, <1>3 DEF Goto, Rests, TypeOK
<1>4. CASE EnterCall(u) \/ Gate(u) \/ Count(u)
  BY <1>2, <1>4 DEF EnterCall, Gate, Count, AfterEnqueue, AfterWait
<1>5. CASE Once(u)
  <2>1. \/ Goto(u, "once", "init")
        \/ Goto(u, "init", AfterOnce(u))
        \/ Goto(u, "once", AfterOnce(u))
    BY <1>5 DEF Once, OnceBegin, InitializeShim, OncePass
  <2>2. UNCHANGED <<returned, queue>>
    BY <1>5 DEF Once, OnceBegin, InitializeShim, OncePass
  <2>3. QED
    BY <1>2, <2>1, <2>2 DEF AfterEnqueue, AfterWait
<1>6. CASE GateUnresolved(u) \/ EnqueueFails(u)
  <2>1. PICK from \in {"gate", "enqueue"}, s \in {"INVALID_OPERATION", "FAILED"} :
          Return(u, from, s)
    BY <1>6 DEF GateUnresolved, EnqueueFails
  <2>2. queue' = queue
    BY <1>6 DEF GateUnresolved, EnqueueFails
  <2>3. s # "SUCCESS" /\ s \in Statuses /\ from \in {"gate", "enqueue", "release"}
    BY DEF Statuses
  <2>4. Returns(u, s)
    BY <2>1, <2>2, <2>3, Zenon DEF Returns
  <2>5. QED
    BY <2>3, <2>4
<1>7. CASE Enqueue(u)
  <2>1. queue' = queue \cup {Id(u)} /\ pc[u] = "enqueue"
    BY <1>7 DEF Enqueue, Return, Goto
  <2>2. CASE \E s \in Statuses : Return(u, "enqueue", s)
    BY <2>1, <2>2 DEF Returns
  <2>3. CASE call[u].should_wait /\ Goto(u, "enqueue", "wait") /\ UNCHANGED <<call, returned>>
    BY <2>1, <2>3 DEF Submits
  <2>4. QED
    BY <1>7, <2>2, <2>3 DEF Enqueue, Statuses
<1>8. CASE Wait(u)
  <2>1. PICK s \in {"SUCCESS"} \cup Errors, d \in Durations, measured \in BOOLEAN :
          /\ call' = [call EXCEPT ![u].status = s,
                                  ![u].duration = IF measured THEN d ELSE 0]
          /\ Goto(u, "wait", IF measured THEN "recordCount" ELSE "release")
    BY <1>8 DEF Wait
  <2>2. call'[u].should_wait = call[u].should_wait
    <3> DEFINE d1 == IF measured THEN d ELSE 0
    <3>1. call' = [call EXCEPT ![u].status = s, ![u].duration = d1]
      BY <2>1
    <3> HIDE DEF d1
    <3>2. call' = [call EXCEPT ![u] = [call[u] EXCEPT !.status = s, !.duration = d1]]
      BY <1>1, <3>1 DEF TypeOK
    <3>3. QED
      BY <1>1, <3>2 DEF TypeOK, Locals
  <2>3. UNCHANGED <<returned, queue>>
    BY <1>8 DEF Wait
  <2>4. QED
    BY <1>3, <2>1, <2>2, <2>3 DEF AfterEnqueue, AfterWait
<1>9. CASE RecordCount(u) \/ RecordTotal(u) \/ SwapMax(u)
  BY <1>3, <1>9 DEF RecordCount, RecordTotal, SwapMax, AfterEnqueue, AfterWait
<1>10. CASE LoadMax(u) \/ SwapMaxFails(u)
  <2>1. PICK from \in {"loadMax", "swapMax"} : CompareMax(u, from)
    BY <1>10 DEF LoadMax, SwapMaxFails
  <2>2. call'[u].should_wait = call[u].should_wait
    BY <1>1, <2>1 DEF CompareMax, TypeOK, Locals
  <2>3. QED
    BY <1>3, <2>1, <2>2 DEF CompareMax, AfterEnqueue, AfterWait
<1>11. CASE Release(u)
  <2>1. PICK s \in {call[u].status} \cup Errors : Return(u, "release", s)
    BY <1>11 DEF Release
  <2>2. s \in Statuses
    BY <1>1 DEF TypeOK, Locals, Statuses
  <2>3. pc[u] = "release" /\ queue' = queue
    BY <1>11, <2>1 DEF Release, Return, Goto
  <2>4. s = "SUCCESS" => Id(u) \notin queue
    BY <2>1, <2>3 DEF IInv, WaitedOut, AfterWait
  <2>5. Returns(u, s)
    <3>1. "release" \in {"gate", "enqueue", "release"}
      OBVIOUS
    <3>2. s # "SUCCESS" \/ Id(u) \notin queue
      BY <2>4
    <3>3. QED
      BY <2>1, <2>3, <3>1, <3>2, Zenon DEF Returns
  <2>6. QED
    BY <2>2, <2>5
<1>12. QED
  BY <1>4, <1>5, <1>6, <1>7, <1>8, <1>9, <1>10, <1>11 DEF CallStep

(* A step of no thread, and a kernel that finishes. *)
LEMMA OthersRest ==
  ASSUME TypeOK,
         \/ \E c \in Controllers : StartControl(c) \/ ControlStep(c)
         \/ \E k \in queue : FinishKernel(k)
         \/ UNCHANGED vars
  PROVE  /\ UNCHANGED <<call, returned>> /\ \A t \in Threads : pc'[t] = pc[t]
         /\ queue' = queue \/ \E k \in queue : queue' = queue \ {k}
<1> USE DEF globals, counters, driver, history, statistics
<1>1. ASSUME NEW c \in Controllers, StartControl(c) \/ ControlStep(c)
      PROVE  UNCHANGED <<call, returned, queue>> /\ \A t \in Threads : pc'[t] = pc[t]
  <2>1. UNCHANGED <<call, returned, queue>>
    BY <1>1 DEF StartControl, ControlStep, Once, OnceBegin, InitializeShim, OncePass,
                SetInferenceEnabled, ResetStore
  <2>2. PICK to : pc' = [pc EXCEPT ![c] = to]
    BY <1>1 DEF StartControl, ControlStep, Once, OnceBegin, InitializeShim, OncePass,
                SetInferenceEnabled, ResetStore, EndControl, Goto
  <2>3. \A t \in Threads : pc'[t] = pc[t]
    BY <2>2, ProcAssumption DEF TypeOK, Procs
  <2>4. QED
    BY <2>1, <2>3
<1>2. QED
  BY <1>1 DEF FinishKernel, vars

(* Every step keeps the numbering of the kernels.                          *)
LEMMA StepNumbered ==
  ASSUME QueueInv, [Next]_vars
  PROVE  KernelsAreNumbered'
<1>1. TypeOK /\ IInv
  BY DEF QueueInv, IInv
<1>2. \A t \in Threads : Len(returned[t]) \in Nat
  <2>1. \A t \in Threads : returned[t] \in Seq(Record)
    BY <1>1 DEF TypeOK
  <2>2. QED
    BY <2>1
<1>3. ASSUME UNCHANGED returned, queue' \subseteq queue,
             \A t \in Threads : pc[t] \in AfterEnqueue =>
               pc'[t] \in AfterEnqueue /\ call'[t].should_wait = call[t].should_wait
      PROVE  KernelsAreNumbered'
  BY <1>3 DEF QueueInv, KernelsAreNumbered
<1>4. ASSUME NEW u \in Threads, EnterCall(u) \/ CallStep(u) PROVE KernelsAreNumbered'
  <2>1. \A t \in Threads : t # u => pc'[t] = pc[t] /\ call'[t] = call[t]
    BY <1>1, <1>4, OneThreadMoves
  <2>2. CASE Rests(u)
    BY <1>3, <2>1, <2>2 DEF Rests
  <2>3. CASE Submits(u)
    <3>1. pc'[u] = "wait"
      BY <1>1, <2>3 DEF Submits, Goto, TypeOK, Procs
    <3>2. ASSUME NEW t \in Threads, NEW n \in Nat, <<t, n>> \in queue', n > Len(returned[t])
          PROVE  n = Len(returned[t]) + 1 /\ pc'[t] \in AfterEnqueue /\ call'[t].should_wait
      <4>1. CASE <<t, n>> = Id(u)
        BY <2>3, <3>1, <4>1 DEF Submits, Id, AfterEnqueue
      <4>2. CASE <<t, n>> \in queue
        <5>1. n = Len(returned[t]) + 1 /\ pc[t] \in AfterEnqueue /\ call[t].should_wait
          BY <3>2, <4>2 DEF QueueInv, KernelsAreNumbered
        <5>2. t # u
          BY <2>3, <5>1 DEF Submits, Goto, AfterEnqueue, AfterWait
        <5>3. QED
          BY <2>1, <5>1, <5>2
      <4>3. QED
        BY <2>3, <3>2, <4>1, <4>2 DEF Submits
    <3>3. QED
      BY <2>3, <3>2 DEF Submits, KernelsAreNumbered
  <2>4. ASSUME NEW s \in Statuses, Returns(u, s) PROVE KernelsAreNumbered'
    <3>1. /\ \A t \in Threads : t # u => returned'[t] = returned[t]
          /\ Len(returned'[u]) = Len(returned[u]) + 1
      <4> DEFINE r == [status |-> s, should_wait |-> call[u].should_wait,
                       boundary |-> call[u].boundary]
      <4>1. r \in Record
        BY <1>1 DEF TypeOK, Locals, Record
      <4>2. returned' = [returned EXCEPT ![u] = Append(returned[u], r)]
        BY <2>4 DEF Returns, Return
      <4> HIDE DEF r
      <4>3. QED
        BY <1>1, <4>1, <4>2, AppendedRecord
    <3>2. ASSUME NEW t \in Threads, NEW n \in Nat, <<t, n>> \in queue', n > Len(returned'[t])
          PROVE  n = Len(returned'[t]) + 1 /\ pc'[t] \in AfterEnqueue /\ call'[t].should_wait
      <4>1. <<t, n>> \in queue \/ <<t, n>> = Id(u)
        BY <2>4, <3>2 DEF Returns
      <4>2. CASE t = u
        <5>1. n > Len(returned[u]) + 1
          BY <3>1, <3>2, <4>2
        <5>2. <<t, n>> # Id(u)
          BY <1>2, <5>1 DEF Id
        <5>3. n = Len(returned[u]) + 1
          BY <1>2, <4>1, <4>2, <5>1, <5>2 DEF QueueInv, KernelsAreNumbered
        <5>4. QED
          BY <1>2, <5>1, <5>3
      <4>3. CASE t # u
        <5>1. <<t, n>> \in queue /\ n > Len(returned[t])
          BY <3>1, <3>2, <4>1, <4>3 DEF Id
        <5>2. QED
          BY <2>1, <3>1, <4>3, <5>1 DEF QueueInv, KernelsAreNumbered
      <4>4. QED
        BY <4>2, <4>3
    <3>3. QED
      BY <3>2 DEF KernelsAreNumbered
  <2>5. QED
    BY <1>1, <1>4, <2>2, <2>3, <2>4, QueueSteps
<1>5. CASE \/ \E c \in Controllers : StartControl(c) \/ ControlStep(c)
           \/ \E k \in queue : FinishKernel(k)
           \/ UNCHANGED vars
  <2>1. /\ UNCHANGED <<call, returned>> /\ \A t \in Threads : pc'[t] = pc[t]
        /\ queue' = queue \/ \E k \in queue : queue' = queue \ {k}
    BY <1>1, <1>5, OthersRest
  <2>2. QED
    BY <1>3, <2>1
<1>6. QED
  BY <1>4, <1>5 DEF Next

LEMMA InitQueueInv == Init => QueueInv
  BY InitIInv DEF Init, QueueInv, KernelsAreNumbered

(* What the abstract variables stand for, and what a step does to them.    *)
PendingBar == [t \in Threads |-> PendingOf(t)]
ErrorsBar == [t \in Threads |-> ErrorsOf(t)]

(* Nothing changes for the abstract queue if nothing is pending or failed  *)
(* anew.                                                                   *)
LEMMA StutterRefines ==
  ASSUME \A t \in Threads : PendingOf(t)' = PendingOf(t) /\ ErrorsOf(t)' = ErrorsOf(t)
  PROVE  UNCHANGED (Bound!vars)
  BY DEF Bound!vars

(* A call that returns an error is one error more. *)
LEMMA ReturnCounts ==
  ASSUME TypeOK, NEW u \in Threads, NEW s \in Statuses, Returns(u, s)
  PROVE  /\ \A t \in Threads : t # u => returned'[t] = returned[t] /\ ErrorsOf(t)' = ErrorsOf(t)
         /\ ErrorsOf(u)' = IF s = "SUCCESS" THEN ErrorsOf(u) ELSE ErrorsOf(u) + 1
<1> DEFINE r == [status |-> s, should_wait |-> call[u].should_wait,
                 boundary |-> call[u].boundary]
           n == Len(returned[u]) + 1
           E == {i \in 1..Len(returned[u]) : returned[u][i].status # "SUCCESS"}
<1>1. r \in Record /\ r.status = s
  BY DEF TypeOK, Locals, Record
<1>2. returned' = [returned EXCEPT ![u] = Append(returned[u], r)]
  BY DEF Returns, Return
<1> HIDE DEF r
<1>3. /\ \A t \in Threads : t # u => returned'[t] = returned[t]
      /\ Len(returned[u]) \in Nat
      /\ Len(returned'[u]) = Len(returned[u]) + 1
      /\ \A i \in 1..Len(returned[u]) : returned'[u][i] = returned[u][i]
      /\ returned'[u][Len(returned[u]) + 1] = r
  BY <1>1, <1>2, AppendedRecord
<1>4. IsFiniteSet(E) /\ n \notin E
  <2>1. IsFiniteSet(1..Len(returned[u]))
    <3>1. 1 \in Int /\ Len(returned[u]) \in Int
      BY <1>3
    <3>2. QED
      BY <3>1, FS_Interval, Zenon
  <2>2. IsFiniteSet(E)
    BY <2>1, FS_Subset
  <2>3. QED
    BY <1>3, <2>2
<1>5. {i \in 1..Len(returned'[u]) : returned'[u][i].status # "SUCCESS"}
        = IF s = "SUCCESS" THEN E ELSE E \cup {n}
  BY <1>1, <1>3
<1> HIDE DEF E, n
<1>6. Cardinality(E \cup {n}) = Cardinality(E) + 1
  BY <1>4, FS_AddElement
<1>7. ErrorsOf(u) = Cardinality(E)
  BY DEF ErrorsOf, E
<1>8. ErrorsOf(u)' = Cardinality(IF s = "SUCCESS" THEN E ELSE E \cup {n})
  BY <1>5 DEF ErrorsOf
<1>9. \A t \in Threads : t # u => ErrorsOf(t)' = ErrorsOf(t)
  BY <1>3 DEF ErrorsOf
<1>10. QED
  BY <1>3, <1>6, <1>7, <1>8, <1>9

(* The step of a thread is a submission, a failure or a stutter. *)
LEMMA CallRefines ==
  ASSUME QueueInv, QueueInv', PendingIsOwn, PendingIsOwn',
         NEW u \in Threads, EnterCall(u) \/ CallStep(u)
  PROVE  Bound!Next \/ UNCHANGED (Bound!vars)
<1>1. TypeOK /\ IInv /\ Len(returned[u]) \in Nat /\ Id(u) = <<u, Len(returned[u]) + 1>>
  <2>1. TypeOK /\ IInv
    BY DEF QueueInv, IInv
  <2>2. returned[u] \in Seq(Record)
    BY <2>1 DEF TypeOK
  <2>3. QED
    BY <2>1, <2>2 DEF Id
<1>2. \A t \in Threads : /\ PendingOf(t) = queue \cap {Id(t)}
                         /\ PendingOf(t)' = queue' \cap {Id(t)'}
  BY DEF PendingIsOwn
<1>3. pc[u] \notin AfterEnqueue => Id(u) \notin queue
  BY <1>1 DEF QueueInv, KernelsAreNumbered
<1>4. CASE Rests(u)
  <2>1. \A t \in Threads : Id(t)' = Id(t) /\ ErrorsOf(t)' = ErrorsOf(t)
    BY <1>4 DEF Rests, Id, ErrorsOf
  <2>2. \A t \in Threads : PendingOf(t)' = PendingOf(t)
    BY <1>2, <1>4, <2>1 DEF Rests
  <2>3. QED
    BY <2>1, <2>2, StutterRefines
<1>5. CASE Submits(u)
  <2>1. \A t \in Threads : Id(t)' = Id(t) /\ ErrorsOf(t)' = ErrorsOf(t)
    BY <1>5 DEF Submits, Id, ErrorsOf
  <2>2. PendingOf(u) = {} /\ PendingOf(u)' = {Id(u)}
    <3>1. Id(u) \notin queue
      BY <1>3, <1>5 DEF Submits, Goto, AfterEnqueue, AfterWait
    <3>2. QED
      BY <1>2, <1>5, <2>1, <3>1 DEF Submits
  <2>3. \A t \in Threads : t # u => PendingOf(t)' = PendingOf(t)
    <3>1. \A t \in Threads : t # u => Id(t) # Id(u)
      BY DEF Id
    <3>2. queue' = queue \cup {Id(u)}
      BY <1>5 DEF Submits
    <3>3. \A t \in Threads : t # u => queue' \cap {Id(t)} = queue \cap {Id(t)}
      BY <3>1, <3>2
    <3>4. QED
      BY <1>2, <2>1, <3>3
  <2>4. PendingBar' = [PendingBar EXCEPT ![u] = @ \cup {Id(u)}]
    BY <2>2, <2>3 DEF PendingBar
  <2>5. PendingBar[u] = {} /\ Id(u) \in PendingBar'[u]
    BY <2>2 DEF PendingBar
  <2>6. UNCHANGED ErrorsBar
    BY <2>1 DEF ErrorsBar
  <2>7. Bound!Cardinality(PendingBar[u]) < 1
    <3>1. Bound!Cardinality(PendingBar[u]) = Cardinality(PendingBar[u])
      BY DEF Bound!Cardinality, Cardinality
    <3>2. QED
      BY <2>5, <3>1, FS_EmptySet
  <2>8. \E i \in PendingBar'[u] :
          /\ i \notin PendingBar[u]
          /\ PendingBar' = [PendingBar EXCEPT ![u] = @ \cup {i}]
    BY <2>4, <2>5
  <2>9. Bound!Submit(u)
    BY <2>6, <2>7, <2>8, Zenon DEF Bound!Submit, PendingBar, ErrorsBar
  <2>10. QED
    BY <2>9 DEF Bound!Next
<1>6. ASSUME NEW s \in Statuses, Returns(u, s) PROVE Bound!Next \/ UNCHANGED (Bound!vars)
  <2>1. /\ \A t \in Threads : t # u => returned'[t] = returned[t] /\ ErrorsOf(t)' = ErrorsOf(t)
        /\ ErrorsOf(u)' = IF s = "SUCCESS" THEN ErrorsOf(u) ELSE ErrorsOf(u) + 1
    BY <1>1, <1>6, ReturnCounts
  <2>2. pc'[u] = "idle"
    BY <1>1, <1>6 DEF Returns, Return, Goto, TypeOK, Procs
  <2>3. PendingOf(u)' = {}
    <3>1. returned'[u] \in Seq(Record)
      BY DEF QueueInv, IInv, TypeOK
    <3>2. Len(returned'[u]) \in Nat /\ Id(u)' = <<u, Len(returned'[u]) + 1>>
      BY <3>1 DEF Id
    <3>3. Id(u)' \notin queue'
      BY <2>2, <3>2 DEF QueueInv, KernelsAreNumbered, AfterEnqueue, AfterWait
    <3>4. QED
      BY <1>2, <3>3
  <2>4. \A t \in Threads : t # u => PendingOf(t)' = PendingOf(t)
    <3>1. \A t \in Threads : t # u => Id(t)' = Id(t) /\ Id(t) # Id(u)
      BY <2>1 DEF Id
    <3>2. queue' = queue \/ queue' = queue \cup {Id(u)}
      BY <1>6 DEF Returns
    <3>3. \A t \in Threads : t # u => queue' \cap {Id(t)} = queue \cap {Id(t)}
      BY <3>1, <3>2
    <3>4. \A t \in Threads : /\ PendingOf(t) = queue \cap {Id(t)}
                             /\ PendingOf(t)' = queue' \cap {Id(t)'}
      BY <1>2
    <3>5. QED
      BY ONLY <3>1, <3>3, <3>4
  <2>5. CASE s = "SUCCESS"
    <3>1. Id(u) \notin queue
      BY <1>3, <1>6, <2>5 DEF Returns, AfterEnqueue, AfterWait
    <3>2. PendingOf(u) = {}
      BY <1>2, <3>1
    <3>3. \A t \in Threads : PendingOf(t)' = PendingOf(t)
      BY <2>3, <2>4, <3>2
    <3>4. \A t \in Threads : ErrorsOf(t)' = ErrorsOf(t)
      BY <2>1, <2>5
    <3>5. QED
      BY <3>3, <3>4, StutterRefines
  <2>6. CASE s # "SUCCESS"
    <3>1. PendingBar' = [PendingBar EXCEPT ![u] = {}]
      BY <2>3, <2>4 DEF PendingBar
    <3>2. ErrorsBar' = [ErrorsBar EXCEPT ![u] = @ + 1]
      BY <2>1, <2>6 DEF ErrorsBar
    <3>3. Bound!Fail(u)
      BY <3>1, <3>2, Zenon DEF Bound!Fail, PendingBar, ErrorsBar
    <3>4. QED
      BY <3>3 DEF Bound!Next
  <2>7. QED
    BY <2>5, <2>6
<1>7. QED
  BY <1>1, <1>4, <1>5, <1>6, QueueSteps

(* Every step of the shim is a step of the bounded queue or a stutter.     *)
LEMMA StepRefines ==
  ASSUME QueueInv, QueueInv', PendingIsOwn, PendingIsOwn', [Next]_vars
  PROVE  [Bound!Next]_(Bound!vars)
<1>1. CASE \E u \in Threads : EnterCall(u) \/ CallStep(u)
  BY <1>1, CallRefines
<1>2. CASE \/ \E c \in Controllers : StartControl(c) \/ ControlStep(c)
           \/ \E k \in queue : FinishKernel(k)
           \/ UNCHANGED vars
  <2>1. /\ UNCHANGED <<call, returned>>
        /\ queue' = queue \/ \E k \in queue : queue' = queue \ {k}
    BY <1>2, OthersRest DEF QueueInv, IInv
  <2>2. \A t \in Threads : /\ Id(t)' = Id(t) /\ ErrorsOf(t)' = ErrorsOf(t)
                           /\ PendingOf(t) = queue \cap {Id(t)}
                           /\ PendingOf(t)' = queue' \cap {Id(t)}
    <3>1. \A t \in Threads : Id(t)' = Id(t) /\ ErrorsOf(t)' = ErrorsOf(t)
      BY <2>1 DEF Id, ErrorsOf
    <3>2. QED
      BY <3>1 DEF PendingIsOwn
  <2>3. CASE \A t \in Threads : PendingOf(t)' = PendingOf(t)
    BY <2>2, <2>3, StutterRefines
  <2>4. CASE \E t \in Threads : PendingOf(t)' # PendingOf(t)
    <3>1. PICK u \in Threads : PendingOf(u)' # PendingOf(u)
      BY <2>4
    <3>2. Id(u) \in queue /\ queue' = queue \ {Id(u)}
      BY <2>1, <2>2, <3>1
    <3>3. Id(u) \in PendingOf(u) /\ PendingOf(u)' = PendingOf(u) \ {Id(u)}
      BY <2>2, <3>2
    <3>4. \A t \in Threads : t # u => PendingOf(t)' = PendingOf(t)
      <4>1. \A t \in Threads : t # u => Id(t) # Id(u)
        BY DEF Id
      <4>2. \A t \in Threads : t # u => queue' \cap {Id(t)} = queue \cap {Id(t)}
        BY <3>2, <4>1
      <4>3. QED
        BY ONLY <2>2, <4>2
    <3>5. PendingBar' = [PendingBar EXCEPT ![u] = @ \ {Id(u)}] /\ Id(u) \in PendingBar[u]
      BY <3>3, <3>4 DEF PendingBar
    <3>6. UNCHANGED ErrorsBar
      BY <2>2 DEF ErrorsBar
    <3>7. Bound!Complete(u)
      BY <3>5, <3>6, Zenon DEF Bound!Complete, PendingBar, ErrorsBar
    <3>8. QED
      BY <3>7 DEF Bound!Next
  <2>5. QED
    BY <2>3, <2>4
<1>3. QED
  BY <1>1, <1>2 DEF Next

(* The shim implements the bounded queue with a window of one, for any     *)
(* number of threads and controllers, any driver and any failures: a       *)
(* gated kernel joins a thread's account only when it is empty, and leaves *)
(* it by finishing or with an error that the thread is told of.            *)
THEOREM ShimImplementsBoundedQueue == Spec => ImplementsBoundedQueue
<1>1. Init => Bound!Init
  <2>1. SUFFICES ASSUME Init PROVE Bound!Init
    OBVIOUS
  <2>2. \A t \in Threads : PendingOf(t) = {} /\ ErrorsOf(t) = 0
    <3>1. \A t \in Threads : returned[t] = <<>> /\ queue = {}
      BY <2>1 DEF Init
    <3>2. \A t \in Threads : {n \in 1..Len(returned[t]) : returned[t][n].status # "SUCCESS"} = {}
      BY <3>1
    <3>3. QED
      BY <3>1, <3>2, FS_EmptySet DEF PendingOf, ErrorsOf
  <2>3. QED
    BY <2>2 DEF Bound!Init
<1>2. QueueInv /\ [Next]_vars => QueueInv'
  BY StepIInv, StepNumbered DEF QueueInv
<1>3. QueueInv /\ QueueInv' /\ PendingIsOwn /\ PendingIsOwn' /\ [Next]_vars
        => [Bound!Next]_(Bound!vars)
  BY StepRefines
<1>4. QED
  BY <1>1, <1>2, <1>3, InitQueueInv, OwnKernelPending, PTL
     DEF Spec, Bound!Spec, ImplementsBoundedQueue
=============================================================================

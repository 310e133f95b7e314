----------------------- MODULE BoundedShimEventProofs -----------------------
(***************************************************************************)
(* Who owns an event, and what CL_INVALID_OPERATION means, for any number  *)
(* of threads, calls and controllers, any driver and any faults.  The      *)
(* three properties speak of calls that returned; what carries them is     *)
(* what holds of the initialisation (OnceInv) and of a call that waits     *)
(* (EventInv).                                                             *)
(***************************************************************************)
EXTENDS BoundedShimProofs

(* A call that knows of an error has it from the driver. *)
AnswersAreRecorded == \A t \in Threads : call[t].status # "SUCCESS" => Id(t) \in erred

(* The steps of the others: controllers and the GPU touch no call and no event. *)
LEMMA OthersKeepCalls ==
  ASSUME TypeOK, [\E c \in Controllers : StartControl(c) \/ ControlStep(c)]_vars
                 \/ \E k \in queue : FinishKernel(k)
  PROVE  /\ UNCHANGED <<call, returned, events, refused, accepted, erred>>
         /\ \A t \in Threads : pc'[t] = pc[t]
<1> USE DEF globals, counters, driver, history, statistics
<1>1. CASE \E c \in Controllers : StartControl(c) \/ ControlStep(c)
  <2>1. PICK c \in Controllers : StartControl(c) \/ ControlStep(c)
    BY <1>1
  <2>2. UNCHANGED <<call, returned, events, refused, accepted, erred>>
    BY <2>1 DEF StartControl, ControlStep, Once, OnceBegin, InitializeShim, OncePass,
                SetInferenceEnabled, ResetStore
  <2>3. PICK to : pc' = [pc EXCEPT ![c] = to]
    BY <2>1 DEF StartControl, ControlStep, Once, OnceBegin, InitializeShim, OncePass,
                SetInferenceEnabled, ResetStore, EndControl, Goto
  <2>4. \A t \in Threads : pc'[t] = pc[t]
    BY <2>3, ProcAssumption DEF TypeOK, Procs
  <2>5. QED
    BY <2>2, <2>4
<1>2. CASE UNCHANGED vars
  BY <1>2 DEF vars
<1>3. CASE \E k \in queue : FinishKernel(k)
  BY <1>3 DEF FinishKernel
<1>4. QED
  BY <1>1, <1>2, <1>3

(* Only the wait and the release write a status into the locals, and an    *)
(* answer once recorded stays so.                                          *)
LEMMA StatusStep ==
  ASSUME TypeOK, AnswersAreRecorded, NEW u \in Threads, EnterCall(u) \/ CallStep(u)
  PROVE  AnswersAreRecorded' /\ erred \subseteq erred'
<1> USE DEF globals, counters, driver, history, statistics
<1>1. erred \subseteq erred'
  <2>1. CASE EnqueueFails(u) \/ Wait(u) \/ Release(u)
    BY <2>1 DEF EnqueueFails, Wait, Release
  <2>2. CASE ~(EnqueueFails(u) \/ Wait(u) \/ Release(u))
    <3>1. erred' = erred
      BY <2>2 DEF CallStep, EnterCall, Once, OnceBegin, InitializeShim, OncePass,
                  GateUnresolved, Gate, Count, Enqueue, RecordCount, RecordTotal, LoadMax,
                  SwapMax, SwapMaxFails, CompareMax
    <3>2. QED
      BY <3>1
  <2>3. QED
    BY <2>1, <2>2
<1>2. ASSUME \A t \in Threads : t # u => call'[t] = call[t] /\ returned'[t] = returned[t],
             call'[u].status # "SUCCESS" => Id(u)' \in erred'
      PROVE  AnswersAreRecorded'
  BY <1>1, <1>2 DEF AnswersAreRecorded, Id
<1>3. ASSUME NEW from, NEW s, Return(u, from, s) PROVE AnswersAreRecorded'
  <2>1. /\ \A t \in Threads : t # u => call'[t] = call[t] /\ returned'[t] = returned[t]
        /\ call'[u] = NoCall
    BY <1>3 DEF Return, TypeOK
  <2>2. QED
    BY <1>2, <2>1 DEF NoCall
<1>4. ASSUME UNCHANGED returned, \A t \in Threads : call'[t].status = call[t].status
      PROVE  AnswersAreRecorded'
  BY <1>1, <1>4 DEF AnswersAreRecorded, Id
<1>5. CASE EnterCall(u) \/ LoadMax(u) \/ SwapMaxFails(u)
  <2>1. UNCHANGED returned
    BY <1>5 DEF EnterCall, LoadMax, SwapMaxFails, CompareMax
  <2>2. \/ \E b \in EventArgs : call' = [call EXCEPT ![u].boundary = b]
        \/ call' = [call EXCEPT ![u].previous_max = g_max_wait_ns]
    BY <1>5 DEF EnterCall, LoadMax, SwapMaxFails, CompareMax
  <2>3. call \in [Threads -> Locals]
    BY DEF TypeOK
  <2>4. \A t \in Threads : call'[t].status = call[t].status
    BY <2>2, <2>3 DEF Locals
  <2>5. QED
    BY <1>1, <1>4, <2>1, <2>4
<1>6. CASE Gate(u)
  <2> DEFINE seen == IF g_inference_enabled THEN {} ELSE active
  <2>1. call' = [call EXCEPT ![u].should_wait = g_inference_enabled, ![u].unseen = seen]
        /\ UNCHANGED returned
    BY <1>6 DEF Gate
  <2> HIDE DEF seen
  <2>2. call' = [call EXCEPT ![u] = [call[u] EXCEPT !.should_wait = g_inference_enabled,
                                                    !.unseen = seen]]
    BY <2>1 DEF TypeOK
  <2>3. \A t \in Threads : call'[t].status = call[t].status
    BY <2>2 DEF TypeOK, Locals
  <2>4. QED
    BY <1>1, <1>4, <2>1, <2>3
<1>7. CASE Wait(u)
  <2>1. PICK s \in {"SUCCESS"} \cup Errors, d \in Durations, measured \in BOOLEAN :
          /\ call' = [call EXCEPT ![u].status = s,
                                  ![u].duration = IF measured THEN d ELSE 0]
          /\ erred' = IF s = "SUCCESS" THEN erred ELSE erred \cup {Id(u)}
    BY <1>7 DEF Wait
  <2> DEFINE d1 == IF measured THEN d ELSE 0
  <2>2. call' = [call EXCEPT ![u].status = s, ![u].duration = d1]
    BY <2>1
  <2> HIDE DEF d1
  <2>3. call' = [call EXCEPT ![u] = [call[u] EXCEPT !.status = s, !.duration = d1]]
    BY <2>2 DEF TypeOK
  <2>4. call'[u].status = s /\ \A t \in Threads : t # u => call'[t] = call[t]
    BY <2>3 DEF TypeOK, Locals
  <2>5. UNCHANGED returned /\ Id(u)' = Id(u)
    BY <1>7 DEF Wait, Id
  <2>6. s # "SUCCESS" => Id(u) \in erred'
    BY <2>1
  <2>7. QED
    BY <1>1, <1>2, <2>4, <2>5, <2>6
<1>8. CASE GateUnresolved(u) \/ Enqueue(u) \/ EnqueueFails(u) \/ Release(u)
  <2>1. (UNCHANGED <<call, returned>>) \/ \E from, s : Return(u, from, s)
    BY <1>8 DEF GateUnresolved, Enqueue, EnqueueFails, Release
  <2>2. QED
    BY <1>1, <1>3, <1>4, <2>1
<1>9. CASE Once(u) \/ Count(u) \/ RecordCount(u) \/ RecordTotal(u) \/ SwapMax(u)
  <2>1. UNCHANGED <<call, returned>>
    BY <1>9 DEF Once, OnceBegin, InitializeShim, OncePass, Count, RecordCount, RecordTotal,
                SwapMax
  <2>2. QED
    BY <1>1, <1>4, <2>1
<1>10. QED
  BY <1>1, <1>5, <1>6, <1>7, <1>8, <1>9 DEF CallStep

----------------------------------------------------------------------------
(* Initialisation: until it is done nobody is past it, and nobody has      *)
(* returned; one process runs it.                                          *)

Uninitialized == {"idle", "once", "init"}

OneInitializer ==
  /\ \A p \in Procs : pc[p] = "init" => g_init_once = "running"
  /\ \A p, q \in Procs : pc[p] = "init" /\ pc[q] = "init" => p = q

NobodyIsEarly ==
  g_init_once # "done" =>
    \A t \in Threads : pc[t] \in Uninitialized /\ Len(returned[t]) = 0

OnceInv ==
  TypeOK /\ AnswersAreRecorded /\ OneInitializer /\ NobodyIsEarly /\ InvalidMeansUnresolved

(* A step after the initialisation, which calls no initialiser and returns *)
(* from no call.                                                           *)
LEMMA SettledStep ==
  ASSUME OnceInv, NEW p \in Procs, NEW from, NEW to, Goto(p, from, to),
         from \notin Uninitialized \/ (from = "idle" /\ to = "once") \/ g_init_once = "done",
         to # "init",
         UNCHANGED <<g_init_once, symbols, returned>>, erred \subseteq erred'
  PROVE  OneInitializer' /\ NobodyIsEarly' /\ InvalidMeansUnresolved'
<1>1. pc[p] = from /\ pc'[p] = to /\ \A q \in Procs : q # p => pc'[q] = pc[q]
  BY DEF OnceInv, TypeOK, Goto
<1>2. OneInitializer'
  BY <1>1 DEF OnceInv, OneInitializer
<1>3. NobodyIsEarly'
  <2> SUFFICES ASSUME g_init_once' # "done", NEW t \in Threads
               PROVE  pc'[t] \in Uninitialized /\ Len(returned'[t]) = 0
    BY DEF NobodyIsEarly
  <2>1. pc[t] \in Uninitialized /\ Len(returned[t]) = 0
    BY DEF OnceInv, NobodyIsEarly
  <2>2. CASE t = p
    BY <1>1, <2>1, <2>2 DEF Uninitialized
  <2>3. CASE t # p
    BY <1>1, <2>1, <2>3 DEF Procs
  <2>4. QED
    BY <2>2, <2>3
<1>4. InvalidMeansUnresolved'
  BY DEF OnceInv, InvalidMeansUnresolved
<1>5. QED
  BY <1>2, <1>3, <1>4

(* A call that got past the initialisation returns. *)
LEMMA SettledReturn ==
  ASSUME OnceInv, NEW u \in Threads, NEW from, NEW s \in Statuses, Return(u, from, s),
         from \notin Uninitialized, UNCHANGED <<g_init_once, symbols>>, erred \subseteq erred',
         s = "INVALID_OPERATION" => symbols # Symbols \/ Id(u) \in erred'
  PROVE  OneInitializer' /\ NobodyIsEarly' /\ InvalidMeansUnresolved'
<1> DEFINE r == [status |-> s, should_wait |-> call[u].should_wait,
                 boundary |-> call[u].boundary]
<1>1. TypeOK /\ u \in Procs
  BY DEF OnceInv, Procs
<1>2. pc[u] = from /\ pc'[u] = "idle" /\ \A q \in Procs : q # u => pc'[q] = pc[q]
  BY <1>1 DEF Return, Goto, TypeOK
<1>3. r \in Record
  BY <1>1 DEF TypeOK, Locals, Record
<1>4. returned' = [returned EXCEPT ![u] = Append(returned[u], r)]
  BY DEF Return
<1>5. /\ \A t \in Threads : t # u => returned'[t] = returned[t]
      /\ Len(returned[u]) \in Nat
      /\ Len(returned'[u]) = Len(returned[u]) + 1
      /\ \A n \in 1..Len(returned[u]) : returned'[u][n] = returned[u][n]
      /\ returned'[u][Len(returned[u]) + 1] = r
  <2> HIDE DEF r
  <2> QED
    BY <1>1, <1>3, <1>4, AppendedRecord
<1>6. g_init_once = "done"
  BY <1>2 DEF OnceInv, NobodyIsEarly
<1>7. OneInitializer'
  BY <1>2 DEF OnceInv, OneInitializer
<1>8. NobodyIsEarly'
  BY <1>6 DEF NobodyIsEarly
<1>9. InvalidMeansUnresolved'
  <2> SUFFICES ASSUME NEW t \in Threads, NEW n \in 1..Len(returned'[t]),
                      returned'[t][n].status = "INVALID_OPERATION", <<t, n>> \notin erred'
               PROVE  symbols' # Symbols
    BY DEF InvalidMeansUnresolved
  <2>1. CASE t = u /\ n = Len(returned[u]) + 1
    BY <1>5, <2>1 DEF Id
  <2>2. CASE ~(t = u /\ n = Len(returned[u]) + 1)
    <3>1. n \in 1..Len(returned[t]) /\ returned'[t][n] = returned[t][n]
      BY <1>5, <2>2
    <3>2. QED
      BY <3>1 DEF OnceInv, InvalidMeansUnresolved
  <2>3. QED
    BY <2>1, <2>2
<1>10. QED
  BY <1>7, <1>8, <1>9

(* pthread_once itself, for threads and controllers. *)
LEMMA OnceStep ==
  ASSUME OnceInv, NEW p \in Procs, Once(p)
  PROVE  OneInitializer' /\ NobodyIsEarly' /\ InvalidMeansUnresolved'
<1>1. AfterOnce(p) # "init"
  BY DEF AfterOnce
<1>2. UNCHANGED <<returned, erred>>
  BY DEF Once, OnceBegin, InitializeShim, OncePass, history, driver
<1>3. ASSUME NEW from, NEW to, Goto(p, from, to)
      PROVE  pc[p] = from /\ pc'[p] = to /\ \A q \in Procs : q # p => pc'[q] = pc[q]
  BY <1>3 DEF OnceInv, TypeOK, Goto
<1>4. CASE OnceBegin(p)
  <2>1. /\ pc[p] = "once" /\ pc'[p] = "init" /\ \A q \in Procs : q # p => pc'[q] = pc[q]
        /\ g_init_once = "fresh" /\ g_init_once' = "running" /\ symbols' = symbols
    BY <1>3, <1>4 DEF OnceBegin
  <2>2. OneInitializer'
    BY <2>1 DEF OnceInv, OneInitializer
  <2>3. NobodyIsEarly'
    <3> SUFFICES ASSUME NEW t \in Threads
                 PROVE  pc'[t] \in Uninitialized /\ Len(returned'[t]) = 0
      BY DEF NobodyIsEarly
    <3>1. pc[t] \in Uninitialized /\ Len(returned[t]) = 0
      BY <2>1 DEF OnceInv, NobodyIsEarly
    <3>2. QED
      BY <1>2, <2>1, <3>1 DEF Uninitialized, Procs
  <2>4. InvalidMeansUnresolved'
    BY <1>2, <2>1 DEF OnceInv, InvalidMeansUnresolved
  <2>5. QED
    BY <2>2, <2>3, <2>4
<1>5. CASE InitializeShim(p)
  <2>1. /\ pc[p] = "init" /\ pc'[p] # "init" /\ \A q \in Procs : q # p => pc'[q] = pc[q]
        /\ g_init_once' = "done"
    BY <1>1, <1>3, <1>5 DEF InitializeShim
  <2>2. OneInitializer'
    BY <2>1 DEF OnceInv, OneInitializer
  <2>3. NobodyIsEarly'
    BY <2>1 DEF NobodyIsEarly
  <2>4. \A t \in Threads : Len(returned[t]) = 0
    BY <2>1 DEF OnceInv, OneInitializer, NobodyIsEarly
  <2>5. InvalidMeansUnresolved'
    BY <1>2, <2>4 DEF InvalidMeansUnresolved
  <2>6. QED
    BY <2>2, <2>3, <2>5
<1>6. CASE OncePass(p)
  <2>1. g_init_once = "done" /\ Goto(p, "once", AfterOnce(p)) /\ UNCHANGED <<g_init_once, symbols>>
    BY <1>6 DEF OncePass, globals
  <2>2. QED
    BY <1>1, <1>2, <2>1, SettledStep
<1>7. QED
  BY <1>4, <1>5, <1>6 DEF Once

LEMMA CallKeepsOnce ==
  ASSUME OnceInv, NEW u \in Threads, EnterCall(u) \/ CallStep(u)
  PROVE  OneInitializer' /\ NobodyIsEarly' /\ InvalidMeansUnresolved'
<1> USE DEF globals, history, Uninitialized
<1>1. TypeOK /\ u \in Procs /\ erred \subseteq erred'
  BY StatusStep DEF OnceInv, Procs
<1>2. CASE EnterCall(u)
  BY <1>1, <1>2, SettledStep DEF EnterCall
<1>3. CASE Once(u)
  BY <1>1, <1>3, OnceStep
<1>4. CASE Gate(u) \/ Count(u)
  <2>1. PICK from \in {"gate", "count"}, to \in {"count", "enqueue"} : Goto(u, from, to)
    BY <1>4 DEF Gate, Count
  <2>2. UNCHANGED <<g_init_once, symbols, returned>>
    BY <1>4 DEF Gate, Count
  <2>3. QED
    BY <1>1, <2>1, <2>2, SettledStep
<1>5. CASE Wait(u) \/ RecordCount(u) \/ RecordTotal(u) \/ LoadMax(u) \/ SwapMax(u)
           \/ SwapMaxFails(u)
  <2>1. PICK from \in {"wait", "recordCount", "recordTotal", "loadMax", "swapMax"},
             to \in {"recordCount", "recordTotal", "loadMax", "swapMax", "release"} :
               Goto(u, from, to)
    BY <1>5 DEF Wait, RecordCount, RecordTotal, LoadMax, SwapMax, SwapMaxFails, CompareMax
  <2>2. UNCHANGED <<g_init_once, symbols, returned>>
    BY <1>5 DEF Wait, RecordCount, RecordTotal, LoadMax, SwapMax, SwapMaxFails, CompareMax
  <2>3. QED
    BY <1>1, <2>1, <2>2, SettledStep
<1>6. CASE GateUnresolved(u) \/ Enqueue(u) \/ EnqueueFails(u) \/ Release(u)
  <2>1. UNCHANGED <<g_init_once, symbols>>
    BY <1>6 DEF GateUnresolved, Enqueue, EnqueueFails, Release
  <2>2. CASE Goto(u, "enqueue", "wait") /\ UNCHANGED returned
    BY <1>1, <2>1, <2>2, SettledStep
  <2>3. CASE ~(Goto(u, "enqueue", "wait") /\ UNCHANGED returned)
    <3> DEFINE Answers(from, s) ==
          /\ Return(u, from, s) /\ from \notin Uninitialized /\ s \in Statuses
          /\ s = "INVALID_OPERATION" => symbols # Symbols \/ Id(u) \in erred'
    <3>1. ASSUME NEW from, NEW s, Answers(from, s)
          PROVE  OneInitializer' /\ NobodyIsEarly' /\ InvalidMeansUnresolved'
      BY <1>1, <2>1, <3>1, SettledReturn
    <3>2. CASE GateUnresolved(u)
      <4>1. Answers("gate", "INVALID_OPERATION")
        BY <3>2 DEF GateUnresolved, Statuses, Symbols
      <4>2. QED
        BY <3>1, <4>1
    <3>3. CASE Enqueue(u)
      <4>1. \/ Return(u, "enqueue", "SUCCESS")
            \/ Return(u, "enqueue", "INVALID_OPERATION") /\ symbols # Symbols
        BY <2>3, <3>3 DEF Enqueue, Symbols
      <4>2. Answers("enqueue", "SUCCESS") \/ Answers("enqueue", "INVALID_OPERATION")
        BY <4>1 DEF Statuses
      <4> HIDE DEF Answers
      <4>3. QED
        BY <3>1, <4>2
    <3>4. CASE EnqueueFails(u)
      <4>1. PICK s \in Errors : Return(u, "enqueue", s)
        BY <3>4 DEF EnqueueFails
      <4>2. Id(u) \in erred' /\ s \in Statuses
        BY <3>4, ErrorAssumption DEF EnqueueFails, Statuses
      <4>3. Answers("enqueue", s)
        BY <4>1, <4>2
      <4> HIDE DEF Answers
      <4>4. QED
        BY <3>1, <4>3
    <3>5. CASE Release(u)
      <4>1. PICK s \in {call[u].status} \cup Errors :
              Return(u, "release", s) /\ (s = call[u].status \/ Id(u) \in erred')
        BY <3>5 DEF Release
      <4>2. s \in Statuses
        BY <1>1, ErrorAssumption DEF TypeOK, Locals, Statuses
      <4>3. call[u].status # "SUCCESS" => Id(u) \in erred'
        BY <1>1 DEF OnceInv, AnswersAreRecorded
      <4>4. Answers("release", s)
        BY <4>1, <4>2, <4>3
      <4> HIDE DEF Answers
      <4>5. QED
        BY <3>1, <4>4
    <3>6. QED
      BY <1>6, <3>2, <3>3, <3>4, <3>5
  <2>4. QED
    BY <2>2, <2>3
<1>7. QED
  BY <1>2, <1>3, <1>4, <1>5, <1>6 DEF CallStep

LEMMA InitOnceInv == Init => OnceInv
<1> SUFFICES ASSUME Init PROVE OnceInv
  OBVIOUS
<1>1. TypeOK /\ AnswersAreRecorded
  BY InitTypeOK DEF Init, NoCall, AnswersAreRecorded
<1>2. \A p \in Procs : pc[p] = "idle"
  BY DEF Init
<1>3. \A t \in Threads : Len(returned[t]) = 0
  BY DEF Init
<1>4. OneInitializer /\ NobodyIsEarly /\ InvalidMeansUnresolved
  BY <1>2, <1>3
     DEF OneInitializer, NobodyIsEarly, InvalidMeansUnresolved, Procs, Uninitialized
<1>5. QED
  BY <1>1, <1>4 DEF OnceInv

LEMMA StepOnceInv == OnceInv /\ [Next]_vars => OnceInv'
<1> SUFFICES ASSUME OnceInv, [Next]_vars PROVE OnceInv'
  OBVIOUS
<1> USE DEF globals, history, statistics
<1>1. TypeOK /\ TypeOK'
  BY StepTypeOK DEF OnceInv
<1>2. CASE \E t \in Threads : EnterCall(t) \/ CallStep(t)
  BY <1>1, <1>2, CallKeepsOnce, StatusStep DEF OnceInv
<1>3. ASSUME [\E c \in Controllers : StartControl(c) \/ ControlStep(c)]_vars
             \/ \E k \in queue : FinishKernel(k)
      PROVE  AnswersAreRecorded' /\ erred' = erred
  BY <1>1, <1>3, OthersKeepCalls DEF OnceInv, AnswersAreRecorded, Id
<1>4. CASE \E c \in Controllers : StartControl(c) \/ ControlStep(c)
  <2>1. PICK c \in Controllers : StartControl(c) \/ ControlStep(c)
    BY <1>4
  <2>2. c \in Procs
    BY DEF Procs
  <2>3. CASE Once(c)
    BY <1>1, <1>3, <1>4, <2>2, <2>3, OnceStep DEF OnceInv
  <2>4. CASE StartControl(c)
    <3>1. Goto(c, "idle", "once") /\ UNCHANGED <<g_init_once, symbols, returned>>
      BY <2>4 DEF StartControl
    <3>2. OneInitializer' /\ NobodyIsEarly' /\ InvalidMeansUnresolved'
      BY <1>3, <1>4, <2>2, <3>1, SettledStep
    <3>3. QED
      BY <1>1, <1>3, <1>4, <3>2 DEF OnceInv
  <2>5. CASE SetInferenceEnabled(c) \/ ResetStore(c)
    <3>1. PICK from \in {"exchange", "store"}, to \in {"idle", "store"} : Goto(c, from, to)
      BY <2>5 DEF SetInferenceEnabled, ResetStore, EndControl
    <3>2. UNCHANGED <<g_init_once, symbols, returned>>
      BY <2>5 DEF SetInferenceEnabled, ResetStore
    <3>3. OneInitializer' /\ NobodyIsEarly' /\ InvalidMeansUnresolved'
      BY <1>3, <1>4, <2>2, <3>1, <3>2, SettledStep DEF Uninitialized
    <3>4. QED
      BY <1>1, <1>3, <1>4, <3>3 DEF OnceInv
  <2>6. QED
    BY <2>1, <2>3, <2>4, <2>5 DEF ControlStep
<1>5. CASE (\E k \in queue : FinishKernel(k)) \/ UNCHANGED vars
  <2>1. UNCHANGED <<pc, g_init_once, symbols, returned, erred>>
    BY <1>5 DEF FinishKernel, vars, driver
  <2>2. OneInitializer' /\ NobodyIsEarly' /\ InvalidMeansUnresolved'
    BY <2>1 DEF OnceInv, OneInitializer, NobodyIsEarly, InvalidMeansUnresolved
  <2>3. QED
    BY <1>1, <1>3, <1>5, <2>2 DEF OnceInv
<1>6. QED
  BY <1>2, <1>4, <1>5 DEF Next

(* CL_INVALID_OPERATION is never the answer to a call that came while      *)
(* another thread was initialising: a symbol is missing for good.          *)
THEOREM InvalidIsUnresolved == Spec => []InvalidMeansUnresolved
<1>1. OnceInv => InvalidMeansUnresolved
  BY DEF OnceInv
<1>2. QED
  BY <1>1, InitOnceInv, StepOnceInv, PTL DEF Spec
----------------------------------------------------------------------------
(* Events *)

(* The symbols change only before the first call returns. *)
LEMMA OnceSettles ==
  ASSUME OnceInv, NEW p \in Procs, Once(p)
  PROVE  symbols' = symbols \/ \A t \in Threads : Len(returned[t]) = 0
<1>1. CASE InitializeShim(p)
  <2>1. g_init_once # "done"
    BY <1>1 DEF InitializeShim, Goto, OnceInv, OneInitializer
  <2>2. QED
    BY <2>1 DEF OnceInv, NobodyIsEarly
<1>2. CASE OnceBegin(p) \/ OncePass(p)
  BY <1>2 DEF OnceBegin, OncePass, globals
<1>3. QED
  BY <1>1, <1>2 DEF Once

(* An event, or an accepted kernel, of no returned call belongs to a call  *)
(* that waits.                                                             *)
EventsAreNumbered ==
  \A t \in Threads : \A n \in Nat :
    <<t, n>> \in events \cup accepted /\ n > Len(returned[t])
      => n = Len(returned[t]) + 1 /\ pc[t] \in AfterEnqueue

(* A call that waits on the caller's event has not lost it. *)
CallerEventHeld ==
  \A t \in Threads : pc[t] \in AfterEnqueue /\ ~call[t].boundary => Id(t) \in events

Events == EventsAreNumbered /\ CallerEventHeld /\ BoundaryEventReleased /\ CallerEventKept

EventInv == OnceInv /\ Events

(* A step that returns from no call and touches no event. *)
LEMMA NoEventStep ==
  ASSUME EventInv, UNCHANGED <<returned, events, accepted>>, refused \subseteq refused',
         symbols' = symbols \/ \A t \in Threads : Len(returned[t]) = 0,
         \A t \in Threads : /\ pc'[t] \in AfterEnqueue <=> pc[t] \in AfterEnqueue
                            /\ pc[t] \in AfterEnqueue => call'[t].boundary = call[t].boundary
  PROVE  Events'
<1>1. EventsAreNumbered' /\ CallerEventHeld'
  BY DEF EventInv, Events, EventsAreNumbered, CallerEventHeld, Id
<1>2. BoundaryEventReleased' /\ CallerEventKept'
  BY DEF EventInv, Events, BoundaryEventReleased, CallerEventKept
<1>3. QED
  BY <1>1, <1>2 DEF Events

(* A kernel joins the queue with its event, and its call goes on to wait. *)
LEMMA EventSubmitStep ==
  ASSUME EventInv, NEW u \in Threads, Goto(u, "enqueue", "wait"),
         UNCHANGED <<symbols, call, returned, refused>>,
         events' = events \cup {Id(u)}, accepted' = accepted \cup {Id(u)}
  PROVE  Events'
<1>1. /\ pc[u] = "enqueue" /\ pc'[u] = "wait"
      /\ \A t \in Threads : t # u => pc'[t] = pc[t]
  BY DEF EventInv, OnceInv, Goto, TypeOK, Procs
<1>2. \A t \in Threads : Len(returned[t]) \in Nat
  <2>1. \A t \in Threads : returned[t] \in Seq(Record)
    BY DEF EventInv, OnceInv, TypeOK
  <2>2. QED
    BY <2>1
<1>3. EventsAreNumbered'
  <2> SUFFICES ASSUME NEW t \in Threads, NEW n \in Nat, <<t, n>> \in events' \cup accepted',
                      n > Len(returned[t])
               PROVE  n = Len(returned[t]) + 1 /\ pc'[t] \in AfterEnqueue
    BY DEF EventsAreNumbered
  <2>1. CASE <<t, n>> = Id(u)
    BY <1>1, <2>1 DEF Id, AfterEnqueue
  <2>2. CASE <<t, n>> \in events \cup accepted
    BY <1>1, <2>2 DEF EventInv, Events, EventsAreNumbered, AfterEnqueue
  <2>3. QED
    BY <2>1, <2>2
<1>4. CallerEventHeld'
  BY <1>1 DEF EventInv, Events, CallerEventHeld, Id
<1>5. \A t \in Threads : \A n \in 1..Len(returned[t]) :
        /\ <<t, n>> \in events' <=> <<t, n>> \in events
        /\ <<t, n>> \in accepted' <=> <<t, n>> \in accepted
  BY <1>2 DEF Id
<1>6. BoundaryEventReleased' /\ CallerEventKept'
  BY <1>5 DEF EventInv, Events, BoundaryEventReleased, CallerEventKept
<1>7. QED
  BY <1>3, <1>4, <1>6 DEF Events

(* A call of u returns s; of the events only its own may change. *)
LEMMA EventReturnStep ==
  ASSUME EventInv, NEW u \in Threads, NEW from, NEW s \in Statuses, Return(u, from, s),
         refused \subseteq refused', symbols' = symbols,
         \A k : k # Id(u) => /\ k \in events' <=> k \in events
                             /\ k \in accepted' <=> k \in accepted,
         call[u].boundary /\ Id(u) \in events'
           => s # "SUCCESS" /\ (symbols # Symbols \/ Id(u) \in refused'),
         ~call[u].boundary /\ Id(u) \in accepted' => Id(u) \in events'
  PROVE  Events'
<1> DEFINE r == [status |-> s, should_wait |-> call[u].should_wait,
                 boundary |-> call[u].boundary]
<1>1. TypeOK
  BY DEF EventInv, OnceInv
<1>2. u \in Procs /\ pc'[u] = "idle" /\ \A t \in Threads : t # u => pc'[t] = pc[t]
  BY <1>1 DEF Return, Goto, TypeOK, Procs
<1>3. \A t \in Threads : t # u => call'[t] = call[t]
  BY <1>1 DEF Return, TypeOK
<1>4. r \in Record
  BY <1>1 DEF TypeOK, Locals, Record
<1>5. returned' = [returned EXCEPT ![u] = Append(returned[u], r)]
  BY DEF Return
<1>6. /\ \A t \in Threads : t # u => returned'[t] = returned[t]
      /\ Len(returned[u]) \in Nat
      /\ Len(returned'[u]) = Len(returned[u]) + 1
      /\ \A n \in 1..Len(returned[u]) : returned'[u][n] = returned[u][n]
      /\ returned'[u][Len(returned[u]) + 1] = r
  <2> HIDE DEF r
  <2> QED
    BY <1>1, <1>4, <1>5, AppendedRecord
<1>7. EventsAreNumbered'
  <2> SUFFICES ASSUME NEW t \in Threads, NEW n \in Nat, <<t, n>> \in events' \cup accepted',
                      n > Len(returned'[t])
               PROVE  n = Len(returned'[t]) + 1 /\ pc'[t] \in AfterEnqueue
    BY DEF EventsAreNumbered
  <2>1. <<t, n>> # Id(u)
    BY <1>6 DEF Id
  <2>2. <<t, n>> \in events \cup accepted
    BY <2>1
  <2>3. CASE t = u
    BY <1>6, <2>2, <2>3 DEF EventInv, Events, EventsAreNumbered
  <2>4. CASE t # u
    BY <1>2, <1>6, <2>2, <2>4 DEF EventInv, Events, EventsAreNumbered
  <2>5. QED
    BY <2>3, <2>4
<1>8. CallerEventHeld'
  <2> SUFFICES ASSUME NEW t \in Threads, pc'[t] \in AfterEnqueue, ~call'[t].boundary
               PROVE  Id(t)' \in events'
    BY DEF CallerEventHeld
  <2>1. t # u
    BY <1>2 DEF AfterEnqueue, AfterWait
  <2>2. Id(t)' = Id(t) /\ Id(t) # Id(u) /\ Id(t) \in events
    BY <1>2, <1>3, <1>6, <2>1 DEF EventInv, Events, CallerEventHeld, Id
  <2>3. QED
    BY <2>2
<1>9. ASSUME NEW t \in Threads, NEW n \in 1..Len(returned'[t]),
             ~(t = u /\ n = Len(returned[u]) + 1)
      PROVE  /\ n \in 1..Len(returned[t]) /\ returned'[t][n] = returned[t][n]
             /\ <<t, n>> \in events' <=> <<t, n>> \in events
             /\ <<t, n>> \in accepted' <=> <<t, n>> \in accepted
  <2>1. n \in 1..Len(returned[t]) /\ returned'[t][n] = returned[t][n]
    BY <1>6, <1>9
  <2>2. <<t, n>> # Id(u)
    BY <1>9 DEF Id
  <2>3. QED
    BY <2>1, <2>2
<1>10. BoundaryEventReleased'
  <2> SUFFICES ASSUME NEW t \in Threads, NEW n \in 1..Len(returned'[t]),
                      returned'[t][n].boundary, <<t, n>> \in events'
               PROVE  /\ returned'[t][n].status # "SUCCESS"
                      /\ symbols' # Symbols \/ <<t, n>> \in refused'
    BY DEF BoundaryEventReleased
  <2>1. CASE t = u /\ n = Len(returned[u]) + 1
    BY <1>6, <2>1 DEF Id
  <2>2. CASE ~(t = u /\ n = Len(returned[u]) + 1)
    BY <1>9, <2>2 DEF EventInv, Events, BoundaryEventReleased
  <2>3. QED
    BY <2>1, <2>2
<1>11. CallerEventKept'
  <2> SUFFICES ASSUME NEW t \in Threads, NEW n \in 1..Len(returned'[t]),
                      ~returned'[t][n].boundary, <<t, n>> \in accepted'
               PROVE  <<t, n>> \in events'
    BY DEF CallerEventKept
  <2>1. CASE t = u /\ n = Len(returned[u]) + 1
    BY <1>6, <2>1 DEF Id
  <2>2. CASE ~(t = u /\ n = Len(returned[u]) + 1)
    BY <1>9, <2>2 DEF EventInv, Events, CallerEventKept
  <2>3. QED
    BY <2>1, <2>2
<1>12. QED
  BY <1>7, <1>8, <1>10, <1>11 DEF Events

(* Every action of a thread keeps the four facts about events. *)
LEMMA CallKeepsEvents ==
  ASSUME EventInv, NEW u \in Threads, EnterCall(u) \/ CallStep(u)
  PROVE  Events'
<1> USE DEF globals, counters, driver, history, statistics
<1>1. TypeOK /\ u \in Procs
  BY DEF EventInv, OnceInv, Procs
<1>2. ASSUME NEW from, NEW to, Goto(u, from, to), to \in AfterEnqueue <=> from \in AfterEnqueue,
             UNCHANGED <<returned, events, refused, accepted>>,
             symbols' = symbols \/ \A t \in Threads : Len(returned[t]) = 0,
             \A t \in Threads : t # u => call'[t] = call[t],
             from \in AfterEnqueue => call'[u].boundary = call[u].boundary
      PROVE  Events'
  <2>1. pc[u] = from /\ pc'[u] = to /\ \A t \in Threads : t # u => pc'[t] = pc[t]
    BY <1>1, <1>2 DEF Goto, TypeOK
  <2>2. QED
    BY <1>2, <2>1, NoEventStep
<1>3. pc[u] \notin AfterEnqueue => Id(u) \notin events \cup accepted
  <2>1. returned[u] \in Seq(Record)
    BY <1>1 DEF TypeOK
  <2>2. Len(returned[u]) \in Nat
    BY <2>1
  <2>3. QED
    BY <2>2 DEF EventInv, Events, EventsAreNumbered, Id
<1>4. CASE EnterCall(u)
  <2>1. \A t \in Threads : t # u => call'[t] = call[t]
    BY <1>1, <1>4 DEF EnterCall, TypeOK
  <2>2. QED
    BY <1>2, <1>4, <2>1 DEF EnterCall, AfterEnqueue, AfterWait
<1>5. CASE Once(u)
  <2>1. AfterOnce(u) = "gate" /\ UNCHANGED <<call, returned, events, refused, accepted>>
    BY <1>5 DEF Once, OnceBegin, InitializeShim, OncePass, AfterOnce
  <2>2. \/ Goto(u, "once", "init")
        \/ Goto(u, "init", AfterOnce(u))
        \/ Goto(u, "once", AfterOnce(u))
    BY <1>5 DEF Once, OnceBegin, InitializeShim, OncePass
  <2>3. "once" \notin AfterEnqueue /\ "init" \notin AfterEnqueue /\ "gate" \notin AfterEnqueue
    BY DEF AfterEnqueue, AfterWait
  <2>4. symbols' = symbols \/ \A t \in Threads : Len(returned[t]) = 0
    BY <1>1, <1>5, OnceSettles DEF EventInv
  <2>5. QED
    BY <1>2, <2>1, <2>2, <2>3, <2>4
<1>6. CASE GateUnresolved(u)
  <2>1. Return(u, "gate", "INVALID_OPERATION") /\ UNCHANGED <<symbols, events, refused, accepted>>
    BY <1>6 DEF GateUnresolved
  <2>2. Id(u) \notin events \cup accepted
    BY <1>3, <2>1 DEF Return, Goto, AfterEnqueue, AfterWait
  <2>3. QED
    BY <2>1, <2>2, EventReturnStep DEF Statuses
<1>7. CASE Gate(u)
  <2>1. \A t \in Threads : t # u => call'[t] = call[t]
    BY <1>1, <1>7 DEF Gate, TypeOK
  <2>2. QED
    BY <1>2, <1>7, <2>1 DEF Gate, AfterEnqueue, AfterWait
<1>8. CASE Count(u)
  BY <1>2, <1>8 DEF Count, AfterEnqueue, AfterWait
<1>9. CASE Enqueue(u)
  <2>1. events' = IF call[u].should_wait \/ ~call[u].boundary
                  THEN events \cup {Id(u)} ELSE events
    BY <1>9 DEF Enqueue
  <2>2. UNCHANGED <<symbols, refused>> /\ accepted' = accepted \cup {Id(u)}
    BY <1>9 DEF Enqueue
  <2>3. pc[u] = "enqueue"
    BY <1>9 DEF Enqueue, Return, Goto
  <2>4. Id(u) \notin events
    BY <1>3, <2>3 DEF AfterEnqueue, AfterWait
  <2>5. CASE ~call[u].should_wait /\ Return(u, "enqueue", "SUCCESS")
    <3>1. "SUCCESS" \in Statuses
      BY DEF Statuses
    <3>2. call[u].boundary => Id(u) \notin events'
      BY <2>1, <2>4, <2>5
    <3>3. QED
      BY <2>1, <2>2, <2>5, <3>1, <3>2, EventReturnStep
  <2>6. CASE Return(u, "enqueue", "INVALID_OPERATION") /\ symbols # Symbols
    BY <2>1, <2>2, <2>6, EventReturnStep DEF Statuses
  <2>7. CASE call[u].should_wait /\ Goto(u, "enqueue", "wait") /\ UNCHANGED <<call, returned>>
    BY <2>1, <2>2, <2>7, EventSubmitStep
  <2>8. QED
    BY <1>9, <2>5, <2>6, <2>7 DEF Enqueue, Symbols
<1>10. CASE EnqueueFails(u)
  <2>1. PICK s \in Errors : Return(u, "enqueue", s)
    BY <1>10 DEF EnqueueFails
  <2>2. s \in Statuses /\ UNCHANGED <<symbols, events, refused, accepted>>
    BY <1>10, ErrorAssumption DEF EnqueueFails, Statuses
  <2>3. Id(u) \notin events \cup accepted
    BY <1>3, <2>1 DEF Return, Goto, AfterEnqueue, AfterWait
  <2>4. QED
    BY <2>1, <2>2, <2>3, EventReturnStep
<1>11. CASE Wait(u)
  <2>1. PICK s \in {"SUCCESS"} \cup Errors, d \in Durations, measured \in BOOLEAN :
          /\ call' = [call EXCEPT ![u].status = s,
                                  ![u].duration = IF measured THEN d ELSE 0]
          /\ Goto(u, "wait", IF measured THEN "recordCount" ELSE "release")
    BY <1>11 DEF Wait
  <2> DEFINE d1 == IF measured THEN d ELSE 0
  <2>2. call' = [call EXCEPT ![u] = [call[u] EXCEPT !.status = s, !.duration = d1]]
    <3>1. call' = [call EXCEPT ![u].status = s, ![u].duration = d1]
      BY <2>1
    <3> HIDE DEF d1
    <3>2. QED
      BY <1>1, <3>1 DEF TypeOK
  <2>3. /\ \A t \in Threads : t # u => call'[t] = call[t]
        /\ call'[u].boundary = call[u].boundary
    <3> HIDE DEF d1
    <3> QED
      BY <1>1, <2>2 DEF TypeOK, Locals
  <2>4. UNCHANGED <<symbols, returned, events, refused, accepted>>
    BY <1>11 DEF Wait
  <2>5. QED
    BY <1>2, <2>1, <2>3, <2>4 DEF AfterEnqueue, AfterWait
<1>12. CASE RecordCount(u)
  BY <1>2, <1>12 DEF RecordCount, AfterEnqueue, AfterWait
<1>13. CASE RecordTotal(u)
  BY <1>2, <1>13 DEF RecordTotal, AfterEnqueue, AfterWait
<1>14. CASE LoadMax(u) \/ SwapMaxFails(u)
  <2>1. PICK from \in {"loadMax", "swapMax"} : CompareMax(u, from)
    BY <1>14 DEF LoadMax, SwapMaxFails
  <2>2. /\ \A t \in Threads : t # u => call'[t] = call[t]
        /\ call'[u].boundary = call[u].boundary
    BY <1>1, <2>1 DEF CompareMax, TypeOK, Locals
  <2>3. QED
    BY <1>2, <2>1, <2>2 DEF CompareMax, AfterEnqueue, AfterWait
<1>15. CASE SwapMax(u)
  BY <1>2, <1>15 DEF SwapMax, AfterEnqueue, AfterWait
<1>16. CASE Release(u)
  <2>1. UNCHANGED <<symbols, accepted>> /\ pc[u] = "release" /\ call[u].status \in Statuses
    BY <1>1, <1>16 DEF Release, Return, Goto, TypeOK, Locals
  <2>2. ~call[u].boundary => Id(u) \in events
    BY <2>1 DEF EventInv, Events, CallerEventHeld, AfterEnqueue, AfterWait
  <2>3. CASE /\ ~call[u].boundary /\ Return(u, "release", call[u].status)
             /\ UNCHANGED <<events, refused>>
    BY <2>1, <2>2, <2>3, EventReturnStep
  <2>4. CASE /\ call[u].boundary /\ Return(u, "release", call[u].status)
             /\ events' = events \ {Id(u)} /\ UNCHANGED refused
    BY <2>1, <2>4, EventReturnStep
  <2>5. CASE /\ call[u].boundary /\ UNCHANGED events /\ refused' = refused \cup {Id(u)}
             /\ \E e \in Errors :
                  Return(u, "release", IF call[u].status = "SUCCESS" THEN e ELSE call[u].status)
    <3>1. PICK s \in Statuses : Return(u, "release", s) /\ s # "SUCCESS"
      BY <2>1, <2>5, ErrorAssumption DEF Statuses
    <3>2. QED
      BY <2>1, <2>5, <3>1, EventReturnStep
  <2>6. QED
    BY <1>16, <2>3, <2>4, <2>5 DEF Release
<1>17. QED
  BY <1>4, <1>5, <1>6, <1>7, <1>8, <1>9, <1>10, <1>11, <1>12, <1>13, <1>14, <1>15,
     <1>16 DEF CallStep

LEMMA InitEventInv == Init => EventInv
<1> SUFFICES ASSUME Init PROVE EventInv
  OBVIOUS
<1>1. OnceInv
  BY InitOnceInv
<1>2. events = {} /\ accepted = {}
      /\ \A t \in Threads : Len(returned[t]) = 0 /\ pc[t] \notin AfterEnqueue
  BY DEF Init, AfterEnqueue, AfterWait, Procs
<1>3. EventsAreNumbered /\ CallerEventHeld
  BY <1>2 DEF EventsAreNumbered, CallerEventHeld
<1>4. BoundaryEventReleased /\ CallerEventKept
  BY <1>2 DEF BoundaryEventReleased, CallerEventKept
<1>5. QED
  BY <1>1, <1>3, <1>4 DEF EventInv, Events

LEMMA StepEventInv == EventInv /\ [Next]_vars => EventInv'
<1> SUFFICES ASSUME EventInv, [Next]_vars PROVE EventInv'
  OBVIOUS
<1> USE DEF globals, history, statistics
<1>1. TypeOK /\ OnceInv'
  BY StepOnceInv DEF EventInv, OnceInv
<1>2. CASE \E t \in Threads : EnterCall(t) \/ CallStep(t)
  BY <1>1, <1>2, CallKeepsEvents DEF EventInv
<1>3. CASE [\E c \in Controllers : StartControl(c) \/ ControlStep(c)]_vars
           \/ \E k \in queue : FinishKernel(k)
  <2>1. /\ UNCHANGED <<call, returned, events, refused, accepted, erred>>
        /\ \A t \in Threads : pc'[t] = pc[t]
    BY <1>1, <1>3, OthersKeepCalls
  <2>2. symbols' = symbols \/ \A t \in Threads : Len(returned[t]) = 0
    <3>1. CASE \E c \in Controllers : Once(c)
      <4>1. PICK c \in Controllers : Once(c)
        BY <3>1
      <4>2. QED
        BY <4>1, OnceSettles DEF EventInv, Procs
    <3>2. CASE ~\E c \in Controllers : Once(c)
      BY <1>3, <3>2 DEF StartControl, ControlStep, SetInferenceEnabled, ResetStore,
                        FinishKernel, vars
    <3>3. QED
      BY <3>1, <3>2
  <2>3. Events'
    BY <2>1, <2>2, NoEventStep
  <2>4. QED
    BY <1>1, <2>3 DEF EventInv
<1>4. QED
  BY <1>2, <1>3 DEF Next

(* No event the shim made for itself outlives its call, unless the driver  *)
(* lacks a symbol or refused the release, and then the caller has an error.*)
THEOREM OwnEventsReleased == Spec => []BoundaryEventReleased
<1>1. EventInv => BoundaryEventReleased
  BY DEF EventInv, Events
<1>2. QED
  BY <1>1, InitEventInv, StepEventInv, PTL DEF Spec

(* The event a caller asked for is never released for it, in whichever way *)
(* the call went once its kernel was accepted.                             *)
THEOREM CallersKeepEvents == Spec => []CallerEventKept
<1>1. EventInv => CallerEventKept
  BY DEF EventInv, Events
<1>2. QED
  BY <1>1, InitEventInv, StepEventInv, PTL DEF Spec
=============================================================================

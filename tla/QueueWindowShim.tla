-------------------------- MODULE QueueWindowShim --------------------------
(***************************************************************************)
(* libOCLQ.so, experiments/opencl-queue-window/opencl_queue_shim.c: the    *)
(* prototype of the bounded queue.  It counts the dispatches of every      *)
(* OpenCL queue in a table of fixed size and waits for every window-th     *)
(* one, so the bound depends on the table, on refused kernels and on how   *)
(* many threads share a queue.                                             *)
(*                                                                         *)
(* The statistics and pthread_once are those of BoundedShim and are not    *)
(* modelled again.  The driver is external; its queues are in order.       *)
(***************************************************************************)
EXTENDS Naturals, Sequences, FiniteSets, Functions

CONSTANTS
  Threads,      (* native threads that enqueue kernels                     *)
  Queues,       (* cl_command_queue handles                                *)
  NoQueue,      (* NULL, the queue of an unused slot                       *)
  Slots,        (* BSS_MAX_TRACKED_QUEUES                                  *)
  Windows,      (* values of the window property, 0 where it is unusable   *)
  Faults,       (* "enqueue", "wait", "symbols": what may go wrong         *)
  MaxCalls,     (* bound: calls of clEnqueueNDRangeKernel                  *)
  MaxControls   (* bound: calls of nativeReset and nativeSetInferenceEnabled *)

ASSUME ThreadAssumption == IsFiniteSet(Threads) /\ Threads # {}
ASSUME QueueAssumption == NoQueue \notin Queues
ASSUME SlotAssumption == Slots \in Nat \ {0}
ASSUME WindowAssumption == Windows \subseteq 0..1024
ASSUME BoundAssumption == MaxCalls \in Nat /\ MaxControls \in Nat

VARIABLES
  g_window_size,
  resolved,             (* clWaitForEvents and clReleaseEvent were found   *)
  g_queue_counters,
  g_inference_enabled,
  pc,
  call,                 (* locals of a thread's call                       *)
  resetting,            (* nativeReset has stored its atomics, not yet     *)
                        (* taken the mutex                                 *)
  submitted,            (* per queue, the unfinished kernels in order      *)
  calls, controls,      (* for MaxCalls and MaxControls                    *)
  (* history, read by properties only *)
  session,              (* times the table was cleared, plus one           *)
  lost                  (* boundaries of this session without a wait       *)

config == <<g_window_size, resolved>>
vars == <<config, g_queue_counters, g_inference_enabled, pc, call, resetting,
          submitted, calls, controls, session, lost>>

NoCall == [queue |-> NoQueue, wait |-> FALSE, session |-> 0]
NoCounter == [queue |-> NoQueue, dispatches |-> 0]

(* initialize_shim has run: nothing happens before it.                     *)
Init ==
  /\ g_window_size \in Windows
  /\ resolved \in {TRUE, "symbols" \notin Faults}
  /\ g_queue_counters = [i \in 1..Slots |-> NoCounter]
  /\ g_inference_enabled = FALSE
  /\ pc = [t \in Threads |-> "idle"]
  /\ call = [t \in Threads |-> NoCall]
  /\ resetting = FALSE
  /\ submitted = [q \in Queues |-> <<>>]
  /\ calls = 0
  /\ controls = 0
  /\ session = 1
  /\ lost = [q \in Queues |-> 0]

Goto(t, from, to) ==
  /\ pc[t] = from
  /\ pc' = [pc EXCEPT ![t] = to]

Return(t, from) ==
  /\ Goto(t, from, "idle")
  /\ call' = [call EXCEPT ![t] = NoCall]

(* The boundary of t's call passes without a wait.                         *)
LoseBoundary(t) ==
  lost' = IF call[t].wait /\ call[t].session = session
          THEN [lost EXCEPT ![call[t].queue] = @ + 1] ELSE lost

----------------------------------------------------------------------------
(* clEnqueueNDRangeKernel *)

(* should_wait_after_dispatch reads the window and the switch.             *)
EnterCall(t) ==
  /\ calls < MaxCalls
  /\ Goto(t, "idle",
          IF g_window_size # 0 /\ g_inference_enabled THEN "count" ELSE "enqueue")
  /\ \E q \in Queues : call' = [call EXCEPT ![t].queue = q]
  /\ calls' = calls + 1
  /\ UNCHANGED <<config, g_queue_counters, g_inference_enabled, resetting, submitted,
                 controls, session, lost>>

First(S) == CHOOSE i \in S : \A j \in S : i <= j

(* The slot for queue q: its own, else the first empty one, else the first.*)
Select(q) ==
  LET slotsOf(x) == {i \in 1..Slots : g_queue_counters[i].queue = x}
  IN IF slotsOf(q) # {} THEN First(slotsOf(q))
     ELSE IF slotsOf(NoQueue) # {} THEN First(slotsOf(NoQueue))
     ELSE 1

(* Mutant: the counter is cleared whether or not the slot changes hands.  *)
CountRestarts(t) ==
  LET q == call[t].queue
      slot == Select(q)
  IN /\ Goto(t, "count", "enqueue")
     /\ g_queue_counters' = [g_queue_counters EXCEPT ![slot] = [queue |-> q, dispatches |-> 1]]
     /\ call' = [call EXCEPT ![t].wait = (1 % g_window_size = 0), ![t].session = session]
     /\ UNCHANGED <<config, g_inference_enabled, resetting, submitted, calls, controls,
                    session, lost>>

(* Under the mutex, the dispatch is counted; whether it is a boundary is   *)
(* known before the driver has seen the kernel.  A queue whose slot is     *)
(* taken over loses the boundary it was counting towards.                  *)
Count(t) ==
  LET q == call[t].queue
      slot == Select(q)
      owner == g_queue_counters[slot].queue
      n == IF owner = q THEN g_queue_counters[slot].dispatches + 1 ELSE 1
  IN /\ Goto(t, "count", "enqueue")
     /\ g_queue_counters' = [g_queue_counters EXCEPT ![slot] = [queue |-> q, dispatches |-> n]]
     /\ call' = [call EXCEPT ![t].wait = (n % g_window_size = 0), ![t].session = session]
     /\ lost' = IF owner \in Queues \ {q} THEN [lost EXCEPT ![owner] = @ + 1] ELSE lost
     /\ UNCHANGED <<config, g_inference_enabled, resetting, submitted, calls, controls, session>>

Submit(t) ==
  submitted' = [submitted EXCEPT ![call[t].queue] =
                  Append(@, [thread |-> t, session |-> call[t].session])]

(* The driver takes the kernel.  A boundary call goes on to wait, if the   *)
(* vendor library has what that takes.                                     *)
Enqueue(t) ==
  /\ \/ /\ call[t].wait /\ resolved
        /\ Goto(t, "enqueue", "wait")
        /\ UNCHANGED <<call, lost>>
     \/ /\ ~(call[t].wait /\ resolved)
        /\ Return(t, "enqueue")
        /\ LoseBoundary(t)
  /\ Submit(t)
  /\ UNCHANGED <<config, g_queue_counters, g_inference_enabled, resetting, calls,
                 controls, session>>

(* The driver refuses it; the dispatch stays counted.                      *)
EnqueueFails(t) ==
  /\ "enqueue" \in Faults
  /\ Return(t, "enqueue")
  /\ LoseBoundary(t)
  /\ UNCHANGED <<config, g_queue_counters, g_inference_enabled, resetting, submitted, calls,
                 controls, session>>

(* clWaitForEvents returns once t's kernel, the last t put on this queue,  *)
(* has finished; recording the wait and releasing the event change nothing *)
(* that is modelled here.                                                  *)
Wait(t) ==
  /\ Return(t, "wait")
  /\ t \notin {k.thread : k \in Range(submitted[call[t].queue])}
  /\ UNCHANGED <<config, g_queue_counters, g_inference_enabled, resetting, submitted, calls,
                 controls, session, lost>>

WaitFails(t) ==
  /\ "wait" \in Faults
  /\ Return(t, "wait")
  /\ LoseBoundary(t)
  /\ UNCHANGED <<config, g_queue_counters, g_inference_enabled, resetting, submitted, calls,
                 controls, session>>

----------------------------------------------------------------------------
(* The JNI functions *)

(* A call that finds the switch as it wants it changes nothing.            *)
SetInferenceEnabled ==
  /\ controls < MaxControls
  /\ controls' = controls + 1
  /\ g_inference_enabled' = ~g_inference_enabled
  /\ UNCHANGED <<config, g_queue_counters, pc, call, resetting, submitted, calls, session, lost>>

(* nativeReset first stores false in the switch and zero in the counters.  *)
Reset ==
  /\ controls < MaxControls
  /\ controls' = controls + 1
  /\ ~resetting
  /\ resetting' = TRUE
  /\ g_inference_enabled' = FALSE
  /\ UNCHANGED <<config, g_queue_counters, pc, call, submitted, calls, session, lost>>

(* Mutant: only the queues are cleared. *)
ClearTableKeepsCounts ==
  /\ resetting
  /\ resetting' = FALSE
  /\ g_queue_counters' = [i \in 1..Slots |-> [g_queue_counters[i] EXCEPT !.queue = NoQueue]]
  /\ session' = session + 1
  /\ lost' = [q \in Queues |-> 0]
  /\ UNCHANGED <<config, g_inference_enabled, pc, call, submitted, calls, controls>>

(* Then it clears the table under the mutex.                               *)
ClearTable ==
  /\ resetting
  /\ resetting' = FALSE
  /\ g_queue_counters' = [i \in 1..Slots |-> NoCounter]
  /\ session' = session + 1
  /\ lost' = [q \in Queues |-> 0]
  /\ UNCHANGED <<config, g_inference_enabled, pc, call, submitted, calls, controls>>

(* The GPU finishes the oldest kernel of a queue.  External. *)
FinishKernel(q) ==
  /\ submitted[q] # <<>>
  /\ submitted' = [submitted EXCEPT ![q] = Tail(@)]
  /\ UNCHANGED <<config, g_queue_counters, g_inference_enabled, pc, call, resetting, calls,
                 controls, session, lost>>

Next ==
  \/ \E t \in Threads :
       \/ EnterCall(t) \/ Count(t)
       \/ Enqueue(t) \/ EnqueueFails(t)
       \/ Wait(t) \/ WaitFails(t)
  \/ SetInferenceEnabled
  \/ Reset \/ ClearTable
  \/ \E q \in Queues : FinishKernel(q)

Spec == Init /\ [][Next]_vars

----------------------------------------------------------------------------
(* Properties *)

(* Every variable has its type; a slot counts exactly if it has a queue,   *)
(* and no queue has two slots.                                             *)
TypeOK ==
  /\ g_window_size \in Windows /\ resolved \in BOOLEAN
  /\ g_queue_counters \in [1..Slots -> [queue : Queues \cup {NoQueue}, dispatches : Nat]]
  /\ \A i \in 1..Slots :
       (g_queue_counters[i].queue = NoQueue) <=> (g_queue_counters[i].dispatches = 0)
  /\ \A i, j \in 1..Slots :
       g_queue_counters[i].queue = g_queue_counters[j].queue
         => i = j \/ g_queue_counters[i].queue = NoQueue
  /\ g_inference_enabled \in BOOLEAN /\ resetting \in BOOLEAN
  /\ pc \in [Threads -> {"idle", "count", "enqueue", "wait"}]
  /\ call \in [Threads -> [queue : Queues \cup {NoQueue}, wait : BOOLEAN, session : Nat]]
  /\ \A t \in Threads : pc[t] # "idle" => call[t].queue \in Queues
  /\ submitted \in [Queues -> Seq([thread : Threads, session : Nat])]
  /\ calls \in 0..MaxCalls /\ controls \in 0..MaxControls
  /\ session \in Nat \ {0} /\ lost \in [Queues -> Nat]

(* The unfinished kernels of q that were counted since the last reset. *)
Counted(q) == {i \in DOMAIN submitted[q] : submitted[q][i].session = session}

(* How much counted work a queue can hold: a window for every thread that  *)
(* may be waiting at a boundary, one straggler for every other thread that *)
(* counted a dispatch and reached the driver late, and one window for      *)
(* every boundary that was refused, not waited for, or evicted.            *)
QueueBounded ==
  \A q \in Queues :
    g_window_size # 0 =>
      Cardinality(Counted(q)) <= (Cardinality(Threads) + lost[q]) * g_window_size
                                 + Cardinality(Threads) - 1

(* What the README says of one thread per queue: "After every configured   *)
(* number of successful kernel enqueues on one command queue, the shim     *)
(* requests an event for the boundary kernel and waits for it."            *)
DocumentedWindow ==
  \A q \in Queues : g_window_size # 0 => Cardinality(Counted(q)) <= g_window_size
=============================================================================

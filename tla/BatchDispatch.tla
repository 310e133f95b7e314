--------------------------- MODULE BatchDispatch ---------------------------
(***************************************************************************)
(* GpuInferenceContextOpenClLitert::Dispatch after the patch               *)
(* patches/complete-runtime/0003-bounded-opencl-queue.patch: the graph is  *)
(* added to the OpenCL queue in batches of kernels, and after every window *)
(* of batches the loop waits on a boundary event.                          *)
(*                                                                         *)
(* The OpenCL queue is in order, so it is two counters: batches 1..added   *)
(* were added and batches 1..finished have finished.  The driver may run   *)
(* work that was not flushed, and has to run work that was.                *)
(*                                                                         *)
(* Each of the three calls into the queue may fail.  Two of them end the   *)
(* Dispatch; the status of the wait is not read, and the loop goes on over *)
(* batches that have not finished.                                         *)
(***************************************************************************)
EXTENDS Integers, FiniteSets

CONSTANTS
  Window,        (* command_queue_window_size_; 0 is upstream's behaviour  *)
  MaxBatches,    (* AddToQueue cuts a graph into at most so many batches   *)
  Drains,        (* whether callers read the outputs before the next run   *)
  Faults,        (* "add", "event", "wait": calls that may fail            *)
  MaxDispatches  (* bound: calls of Dispatch                               *)

ASSUME WindowAssumption == Window \in Nat
ASSUME BatchesAssumption == MaxBatches \in Nat \ {0}
ASSUME DrainsAssumption == Drains \subseteq BOOLEAN
ASSUME DispatchesAssumption == MaxDispatches \in Nat

VARIABLES
  batches,            (* batches of this graph                             *)
  drains,             (* the caller blocks on the outputs between runs     *)
  pc,
  offset,             (* batches of this Dispatch added, -1 after the last *)
  batches_since_wait,
  boundary_event,     (* the batch the boundary event follows, 0 if none   *)
  added,
  flushed,
  finished,
  base,               (* added when this Dispatch began                    *)
  status,             (* what the last Dispatch returned                   *)
  dispatches,         (* calls of Dispatch, for MaxDispatches              *)
  (* history, read by properties only *)
  mark,               (* added at the last boundary wait of this Dispatch  *)
  unheeded,           (* failed waits of this Dispatch since one succeeded *)
  missed,             (* failed waits and error returns, of any Dispatch,  *)
                      (* since a boundary wait last succeeded              *)
  errors              (* errors OpenCL reported: those Dispatch returned   *)
                      (* and the failed waits it did not look at           *)

options == <<batches, drains>>
loop == <<offset, batches_since_wait, boundary_event>>
device == <<added, flushed, finished>>
history == <<mark, unheeded, missed, errors>>
vars == <<options, pc, loop, device, base, status, dispatches, history>>

Init ==
  /\ batches \in 1..MaxBatches
  /\ drains \in Drains
  /\ pc = "idle"
  /\ offset = 0
  /\ batches_since_wait = 0
  /\ boundary_event = 0
  /\ added = 0
  /\ flushed = 0
  /\ finished = 0
  /\ base = 0
  /\ status = "ok"
  /\ dispatches = 0
  /\ mark = 0
  /\ unheeded = 0
  /\ missed = 0
  /\ errors = 0

Goto(from, to) == pc = from /\ pc' = to

(* Dispatch is called for the next inference. *)
Dispatch ==
  /\ dispatches < MaxDispatches
  /\ drains => finished = added
  /\ Goto("idle", "add")
  /\ offset' = 0
  /\ batches_since_wait' = 0
  /\ base' = added
  /\ status' = "ok"
  /\ dispatches' = dispatches + 1
  /\ mark' = added
  /\ unheeded' = 0
  /\ UNCHANGED <<options, boundary_event, device, missed, errors>>

RETURN_IF_ERROR(from, call) ==
  /\ call \in Faults
  /\ Goto(from, "idle")
  /\ status' = "error"
  /\ missed' = missed + 1
  /\ errors' = errors + 1
  /\ UNCHANGED <<options, loop, device, base, dispatches, mark, unheeded>>

(* Mutant: the window is compared with the batches before this one. *)
WaitForBoundaryLate(n) == Window > 0 /\ n > Window

(* Mutant: no boundary after the last batch of a graph.                    *)
WaitForBoundaryInside(n) == Window > 0 /\ n >= Window /\ offset + 1 # batches

(* wait_for_boundary after n batches since the last wait. *)
WaitForBoundary(n) == Window > 0 /\ n >= Window

(* Mutant: the counter starts over with every batch. *)
AddToQueueRestarts ==
  /\ added' = added + 1
  /\ offset' = IF offset + 1 = batches THEN -1 ELSE offset + 1
  /\ batches_since_wait' = 1
  /\ Goto("add", IF WaitForBoundary(1) THEN "event" ELSE "flush")
  /\ boundary_event' = 0
  /\ UNCHANGED <<options, flushed, finished, base, status, dispatches, history>>

(* Mutant: the end of the graph is noticed one batch late. *)
AddToQueuePastEnd ==
  /\ added' = added + 1
  /\ offset' = IF offset > batches THEN -1 ELSE offset + 1
  /\ batches_since_wait' = batches_since_wait + 1
  /\ Goto("add", IF WaitForBoundary(batches_since_wait + 1) THEN "event" ELSE "flush")
  /\ boundary_event' = 0
  /\ UNCHANGED <<options, flushed, finished, base, status, dispatches, history>>

(* AddToQueue adds the next batch and says where the following one starts. *)
AddToQueue ==
  /\ added' = added + 1
  /\ offset' = IF offset + 1 = batches THEN -1 ELSE offset + 1
  /\ batches_since_wait' = batches_since_wait + 1
  /\ Goto("add", IF WaitForBoundary(batches_since_wait + 1) THEN "event" ELSE "flush")
  /\ boundary_event' = 0
  /\ UNCHANGED <<options, flushed, finished, base, status, dispatches, history>>

AddToQueueFails == RETURN_IF_ERROR("add", "add")

EnqueueEvent ==
  /\ Goto("event", "flush")
  /\ boundary_event' = added
  /\ UNCHANGED <<options, offset, batches_since_wait, device, base, status, dispatches, history>>

(* The event cannot be enqueued: Dispatch returns with the batch unflushed.*)
EnqueueEventFails == RETURN_IF_ERROR("event", "event")

LoopOrReturn == IF offset = -1 THEN "idle" ELSE "add"

(* Mutant: the wait comes before the flush. *)
ClFlushAfterWait ==
  /\ boundary_event # 0 => finished >= boundary_event
  /\ Goto("flush", IF boundary_event # 0 THEN "wait" ELSE LoopOrReturn)
  /\ flushed' = added
  /\ UNCHANGED <<options, loop, added, finished, base, status, dispatches, history>>

ClFlush ==
  /\ Goto("flush", IF boundary_event # 0 THEN "wait" ELSE LoopOrReturn)
  /\ flushed' = added
  /\ UNCHANGED <<options, loop, added, finished, base, status, dispatches, history>>

(* boundary_event.Wait() returns and the loop goes on or ends.             *)
LeaveWait ==
  /\ Goto("wait", LoopOrReturn)
  /\ batches_since_wait' = 0
  /\ mark' = boundary_event
  /\ UNCHANGED <<options, offset, boundary_event, device, base, status, dispatches>>

(* It returns because everything up to the boundary has finished.          *)
Wait ==
  /\ finished >= boundary_event
  /\ LeaveWait
  /\ unheeded' = 0
  /\ missed' = 0
  /\ UNCHANGED errors

(* It returns an error, at any time, and its status is not read: the count *)
(* starts over although the batches may still be running.                  *)
WaitFails ==
  /\ "wait" \in Faults
  /\ LeaveWait
  /\ unheeded' = unheeded + 1
  /\ missed' = missed + 1
  /\ errors' = errors + 1

(* The GPU finishes the oldest batch.  External. *)
FinishBatch ==
  /\ finished < added
  /\ finished' = finished + 1
  /\ UNCHANGED <<options, pc, loop, added, flushed, base, status, dispatches, history>>

Step == AddToQueue \/ EnqueueEvent \/ ClFlush \/ Wait

Next ==
  \/ Dispatch
  \/ AddToQueue \/ AddToQueueFails
  \/ EnqueueEvent \/ EnqueueEventFails
  \/ ClFlush
  \/ Wait \/ WaitFails
  \/ FinishBatch

Spec == Init /\ [][Next]_vars

(* The dispatching thread runs on; the driver finishes what was flushed.   *)
(* No call has to fail.                                                    *)
Fairness ==
  /\ WF_vars(Step)
  /\ WF_vars(FinishBatch /\ finished < flushed)

FairSpec == Spec /\ Fairness

----------------------------------------------------------------------------
(* Properties *)

(* The options keep their ranges, the device counters their order, and a   *)
(* boundary event follows a batch that was added.                          *)
TypeOK ==
  /\ batches \in 1..MaxBatches /\ drains \in Drains
  /\ pc \in {"idle", "add", "event", "flush", "wait"}
  /\ offset \in -1..batches
  /\ batches_since_wait \in Nat
  /\ added \in Nat /\ flushed \in Nat /\ finished \in Nat
  /\ base \in Nat /\ mark \in Nat /\ boundary_event \in Nat
  /\ unheeded \in Nat /\ missed \in Nat
  /\ finished <= added /\ flushed <= added /\ base <= added /\ mark <= added
  /\ boundary_event <= added
  /\ status \in {"ok", "error"} /\ errors \in Nat /\ dispatches \in Nat

(* The batches of the current Dispatch that have not finished. *)
UnfinishedHere == {i \in 1..added : i > finished /\ i > base}

(* With a positive window, a Dispatch never has more than window batches   *)
(* of its own unfinished, whatever earlier calls left on the queue; and    *)
(* each boundary wait that failed since the last one that succeeded, whose *)
(* status the loop does not read, lets it go at most one window further.   *)
DispatchWithinWindow ==
  Window > 0 => Cardinality(UnfinishedHere) <= Window * (1 + unheeded)

(* The whole queue, over all calls of Dispatch and for callers that never  *)
(* read an output: while graphs have at least window batches it holds less *)
(* than two windows, the rest of one graph and the start of the next; and  *)
(* a failed wait, or a Dispatch that ends in an error with its batches     *)
(* unflushed, adds at most as much again, until a boundary wait succeeds.  *)
QueueWithinTwoWindows ==
  Window > 0 /\ batches >= Window =>
    added - finished <= (1 + missed) * (2 * Window - 1)

(* The refinement mapping: the batches added since the last boundary wait  *)
(* and not finished.  An error takes what is there out of the account,     *)
(* whether Dispatch returns it or, for a wait, does not look at it; and so *)
(* does a caller that does not wait for its outputs.                       *)
Pending == IF drains /\ status = "ok" THEN {i \in UnfinishedHere : i > mark} ELSE {}
PendingBar == [c \in {"delegate"} |-> Pending]
ErrorsBar == [c \in {"delegate"} |-> errors]

Bound == INSTANCE BoundedQueue WITH
  Callers <- {"delegate"}, pending <- PendingBar, errors <- ErrorsBar

(* For a caller that reads the outputs of one run before the next, the     *)
(* dispatch loop implements the bounded queue: nothing leaves the account  *)
(* but by finishing, or by an error of OpenCL, be it returned or dropped.  *)
ImplementsBoundedQueue == Bound!Spec

(* Dispatch returns: every boundary wait ends, because the work it waits   *)
(* for was flushed before.                                                 *)
DispatchReturns == pc # "idle" ~> pc = "idle"

(* What the patch says of command_queue_window_size_: "If > 0, limits      *)
(* unfinished kernel batches before an event wait."                        *)
QueueWithinWindow == Window > 0 => added - finished <= Window
=============================================================================

---------------------------- MODULE BoundedShim ----------------------------
(***************************************************************************)
(* libBssOcl.so, runtime/bounded-gpu/opencl_queue_shim.c, with the Java    *)
(* class BssLiteRtRuntime that drives it.  Any number of native threads    *)
(* call the interposed clEnqueueNDRangeKernel; any number of Java threads  *)
(* call beginInference, endInference and resetInferenceCounters.  One step *)
(* is one access to shared memory or one call into the vendor driver.      *)
(*                                                                         *)
(* The driver is external: it may queue or refuse a kernel, finishes       *)
(* queued kernels in any order, may fail a wait or a release, with any     *)
(* status, and need not export every symbol the shim resolves.             *)
(***************************************************************************)
EXTENDS Integers, Sequences, FiniteSets

CONSTANTS
  Threads,       (* native threads that enqueue kernels                    *)
  Controllers,   (* Java threads that use BssLiteRtRuntime                 *)
  ControlOps,    (* what they call: "begin", "end" or "reset"              *)
  EventArgs,     (* whether callers pass event == NULL: values of boundary *)
  Durations,     (* wait durations the monotonic clock can show            *)
  VendorTables,  (* the sets of vendor symbols dlsym may resolve           *)
  Faults,        (* driver and clock operations that may fail              *)
  Errors,        (* the error statuses the driver answers with             *)
  MaxCalls,      (* bound: calls of clEnqueueNDRangeKernel per thread      *)
  MaxControls    (* bound: control operations over all controllers         *)

Symbols == {"enqueue", "wait", "release"}

ASSUME ProcAssumption == Threads \cap Controllers = {}
ASSUME ControlAssumption == ControlOps \subseteq {"begin", "end", "reset"}
ASSUME EventAssumption == EventArgs \subseteq BOOLEAN
ASSUME DurationAssumption == Durations \subseteq Nat
ASSUME VendorAssumption == VendorTables \subseteq SUBSET Symbols
ASSUME ErrorAssumption == Errors \subseteq {"FAILED", "INVALID_OPERATION"}
ASSUME BoundAssumption == MaxCalls \in Nat /\ MaxControls \in Nat

Procs == Threads \cup Controllers

VARIABLES
  (* static state of the library *)
  g_init_once,          (* pthread_once: "fresh", "running" or "done"      *)
  symbols,              (* the vendor symbols that resolved                *)
  g_inference_enabled,
  g_dispatch_count,
  g_wait_count,
  g_total_wait_ns,
  g_max_wait_ns,
  (* the processes *)
  pc,
  call,                 (* locals of a thread's call in progress; unseen,  *)
                        (* a history: inferences active when it found the  *)
                        (* flag clear                                      *)
  control,              (* locals of a controller's operation              *)
  controls,             (* operations started, for MaxControls             *)
  (* the driver: a kernel and its event are named <<thread, call number>>  *)
  queue,                (* kernels enqueued and not finished               *)
  events,               (* event objects created and not released          *)
  refused,              (* events whose release the driver refused         *)
  accepted,             (* history: every kernel it ever put on its queue  *)
  erred,                (* history: calls it answered with an error        *)
  (* history, read by properties only *)
  active,               (* controllers that began inference and have since *)
                        (* called neither endInference nor the reset       *)
  returned,             (* per thread, what each call returned             *)
  torn,                 (* a reset overlapped a call it should not have    *)
  unrecorded,           (* counted calls since the reset with no wait      *)
  recorded              (* durations recorded since the reset              *)

globals == <<g_init_once, symbols, g_inference_enabled>>
counters == <<g_dispatch_count, g_wait_count, g_total_wait_ns, g_max_wait_ns>>
driver == <<queue, events, refused, accepted, erred>>
statistics == <<torn, unrecorded, recorded>>
history == <<active, statistics>>
vars == <<globals, counters, pc, call, control, controls, driver, returned, history>>

NoCall == [should_wait |-> FALSE, boundary |-> FALSE, status |-> "SUCCESS",
           duration |-> 0, previous_max |-> 0, unseen |-> {}]
NoControl == [op |-> "none", stage |-> 1]

Init ==
  /\ g_init_once = "fresh"
  /\ symbols = {}
  /\ g_inference_enabled = FALSE
  /\ g_dispatch_count = 0
  /\ g_wait_count = 0
  /\ g_total_wait_ns = 0
  /\ g_max_wait_ns = 0
  /\ pc = [p \in Procs |-> "idle"]
  /\ call = [t \in Threads |-> NoCall]
  /\ control = [c \in Controllers |-> NoControl]
  /\ controls = 0
  /\ queue = {}
  /\ events = {}
  /\ refused = {}
  /\ accepted = {}
  /\ erred = {}
  /\ returned = [t \in Threads |-> <<>>]
  /\ active = {}
  /\ torn = FALSE
  /\ unrecorded = 0
  /\ recorded = {}

----------------------------------------------------------------------------
(* Helpers *)

Goto(p, from, to) ==
  /\ pc[p] = from
  /\ pc' = [pc EXCEPT ![p] = to]

(* The kernel, and the event, of the call t is making. *)
Id(t) == <<t, Len(returned[t]) + 1>>

(* Threads between counting a dispatch and leaving the call. *)
Counting == {t \in Threads : call[t].should_wait /\ pc[t] # "idle"}

(* Controllers between the first and the last store of a reset. *)
Resetting == {c \in Controllers : pc[c] = "store" /\ control[c].stage > 1}

(* The call of t returns status s to its caller. *)
Return(t, from, s) ==
  /\ Goto(t, from, "idle")
  /\ returned' = [returned EXCEPT ![t] =
       Append(@, [status |-> s, should_wait |-> call[t].should_wait,
                  boundary |-> call[t].boundary])]
  /\ call' = [call EXCEPT ![t] = NoCall]

----------------------------------------------------------------------------
(* pthread_once(&g_init_once, initialize_shim): the first to arrive runs   *)
(* it, everyone else waits until it is done.                               *)

AfterOnce(p) ==
  IF p \in Threads THEN "gate"
  ELSE IF control[p].op = "reset" THEN "store" ELSE "exchange"

OnceBegin(p) ==
  /\ g_init_once = "fresh"
  /\ Goto(p, "once", "init")
  /\ g_init_once' = "running"
  /\ UNCHANGED <<symbols, g_inference_enabled, counters, call, control, controls,
                 driver, returned, history>>

InitializeShim(p) ==
  /\ Goto(p, "init", AfterOnce(p))
  /\ symbols' \in VendorTables
  /\ g_init_once' = "done"
  /\ UNCHANGED <<g_inference_enabled, counters, call, control, controls,
                 driver, returned, history>>

(* Mutant: a caller that finds initialisation already started goes on.     *)
OncePassUnfinished(p) ==
  /\ g_init_once # "fresh"
  /\ Goto(p, "once", AfterOnce(p))
  /\ UNCHANGED <<globals, counters, call, control, controls, driver, returned, history>>

OncePass(p) ==
  /\ g_init_once = "done"
  /\ Goto(p, "once", AfterOnce(p))
  /\ UNCHANGED <<globals, counters, call, control, controls, driver, returned, history>>

----------------------------------------------------------------------------
(* clEnqueueNDRangeKernel *)

(* A call arrives; boundary says the caller passed event == NULL.          *)
EnterCall(t) ==
  /\ Len(returned[t]) < MaxCalls
  /\ Goto(t, "idle", "once")
  /\ \E b \in EventArgs : call' = [call EXCEPT ![t].boundary = b]
  /\ UNCHANGED <<globals, counters, control, controls, driver, returned, history>>

(* g_real_enqueue is NULL. *)
GateUnresolved(t) ==
  /\ "enqueue" \notin symbols
  /\ Return(t, "gate", "INVALID_OPERATION")
  /\ UNCHANGED <<globals, counters, control, controls, driver, history>>

(* The one read of g_inference_enabled: should_wait never changes again.   *)
Gate(t) ==
  /\ "enqueue" \in symbols
  /\ Goto(t, "gate", IF g_inference_enabled THEN "count" ELSE "enqueue")
  /\ call' = [call EXCEPT ![t].should_wait = g_inference_enabled,
                             ![t].unseen = IF g_inference_enabled THEN {} ELSE active]
  /\ UNCHANGED <<globals, counters, control, controls, driver, returned, history>>

Count(t) ==
  /\ Goto(t, "count", "enqueue")
  /\ g_dispatch_count' = g_dispatch_count + 1
  /\ torn' = (torn \/ Resetting # {})
  /\ UNCHANGED <<globals, g_wait_count, g_total_wait_ns, g_max_wait_ns, call,
                 control, controls, driver, returned, active, unrecorded, recorded>>

(* Mutant: the flag is read again to decide on the wait.                   *)
EnqueueReadsFlagAgain(t) ==
  /\ queue' = queue \cup {Id(t)}
  /\ accepted' = accepted \cup {Id(t)}
  /\ events' = IF call[t].should_wait \/ ~call[t].boundary
               THEN events \cup {Id(t)} ELSE events
  /\ \/ /\ ~call[t].should_wait \/ ~g_inference_enabled
        /\ Return(t, "enqueue", "SUCCESS")
     \/ /\ call[t].should_wait /\ g_inference_enabled
        /\ {"wait", "release"} \subseteq symbols
        /\ Goto(t, "enqueue", "wait")
        /\ UNCHANGED <<call, returned>>
  /\ UNCHANGED <<globals, counters, control, controls, refused, erred, history>>

(* The driver accepts the kernel.  It makes an event when result_event is  *)
(* not NULL.  With the wait or the release symbol missing the call fails   *)
(* although the kernel is on the queue.                                    *)
Enqueue(t) ==
  /\ queue' = queue \cup {Id(t)}
  /\ accepted' = accepted \cup {Id(t)}
  /\ events' = IF call[t].should_wait \/ ~call[t].boundary
               THEN events \cup {Id(t)} ELSE events
  /\ \/ /\ ~call[t].should_wait
        /\ Return(t, "enqueue", "SUCCESS")
        /\ UNCHANGED unrecorded
     \/ /\ call[t].should_wait
        /\ ~({"wait", "release"} \subseteq symbols)
        /\ Return(t, "enqueue", "INVALID_OPERATION")
        /\ unrecorded' = unrecorded + 1
     \/ /\ call[t].should_wait
        /\ {"wait", "release"} \subseteq symbols
        /\ Goto(t, "enqueue", "wait")
        /\ UNCHANGED <<call, returned, unrecorded>>
  /\ UNCHANGED <<globals, counters, control, controls, refused, erred, active, torn,
                 recorded>>

(* The driver refuses the kernel: its status is the call's status, and the *)
(* dispatch stays counted.                                                 *)
EnqueueFails(t) ==
  /\ "enqueue" \in Faults
  /\ \E s \in Errors : Return(t, "enqueue", s)
  /\ erred' = erred \cup {Id(t)}
  /\ unrecorded' = IF call[t].should_wait THEN unrecorded + 1 ELSE unrecorded
  /\ UNCHANGED <<globals, counters, control, controls, queue, events, refused, accepted,
                 active, torn, recorded>>

(* Mutant: success is reported whether or not the kernel has finished. *)
WaitUnfinished(t) ==
  /\ Goto(t, "wait", "release")
  /\ call' = [call EXCEPT ![t].status = "SUCCESS"]
  /\ unrecorded' = unrecorded + 1
  /\ UNCHANGED <<globals, counters, control, controls, driver, returned, active, torn,
                 recorded>>

(* Mutant: the difference is recorded without looking at its sign.  In the *)
(* code, where the type is unsigned, it would wrap.                        *)
WaitRecordsAnyDifference(t) ==
  /\ \E s \in {"SUCCESS"} \cup Errors, d \in Durations, measured \in BOOLEAN :
       /\ s = "SUCCESS" => Id(t) \notin queue
       /\ s # "SUCCESS" => "wait" \in Faults
       /\ ~measured => "clock" \in Faults
       /\ call' = [call EXCEPT ![t].status = s, ![t].duration = IF measured THEN d ELSE -d]
       /\ erred' = IF s = "SUCCESS" THEN erred ELSE erred \cup {Id(t)}
  /\ Goto(t, "wait", "recordCount")
  /\ UNCHANGED <<globals, counters, control, controls, queue, events, refused, accepted,
                 returned, history>>

(* clWaitForEvents answers: with success once the kernel has finished, or  *)
(* with an error at any time.  Between the two clock readings a duration   *)
(* is measured, and recorded whatever the answer was; a clock that fails   *)
(* at the second reading makes ended_ns < started_ns and nothing is        *)
(* recorded.  One that fails at the first only measures another duration.  *)
Wait(t) ==
  /\ \E s \in {"SUCCESS"} \cup Errors, d \in Durations, measured \in BOOLEAN :
       /\ s = "SUCCESS" => Id(t) \notin queue
       /\ s # "SUCCESS" => "wait" \in Faults
       /\ ~measured => "clock" \in Faults
       /\ call' = [call EXCEPT ![t].status = s, ![t].duration = IF measured THEN d ELSE 0]
       /\ Goto(t, "wait", IF measured THEN "recordCount" ELSE "release")
       /\ unrecorded' = IF measured THEN unrecorded ELSE unrecorded + 1
       /\ erred' = IF s = "SUCCESS" THEN erred ELSE erred \cup {Id(t)}
  /\ UNCHANGED <<globals, counters, control, controls, queue, events, refused, accepted,
                 returned, active, torn, recorded>>

(* record_wait: two additions, then the maximum.                           *)
RecordCount(t) ==
  /\ Goto(t, "recordCount", "recordTotal")
  /\ g_wait_count' = g_wait_count + 1
  /\ UNCHANGED <<globals, g_dispatch_count, g_total_wait_ns, g_max_wait_ns, call,
                 control, controls, driver, returned, history>>

RecordTotal(t) ==
  /\ Goto(t, "recordTotal", "loadMax")
  /\ g_total_wait_ns' = g_total_wait_ns + call[t].duration
  /\ recorded' = recorded \cup {call[t].duration}
  /\ UNCHANGED <<globals, g_dispatch_count, g_wait_count, g_max_wait_ns, call,
                 control, controls, driver, returned, active, torn, unrecorded>>

(* The value in g_max_wait_ns decides whether the loop goes on.            *)
CompareMax(t, from) ==
  /\ Goto(t, from, IF call[t].duration > g_max_wait_ns THEN "swapMax" ELSE "release")
  /\ call' = [call EXCEPT ![t].previous_max = g_max_wait_ns]
  /\ UNCHANGED <<globals, counters, control, controls, driver, returned, history>>

LoadMax(t) == CompareMax(t, "loadMax")

(* Mutant: the maximum is stored without comparing it first.               *)
SwapMaxBlindly(t) ==
  /\ Goto(t, "swapMax", "release")
  /\ g_max_wait_ns' = call[t].duration
  /\ UNCHANGED <<globals, g_dispatch_count, g_wait_count, g_total_wait_ns, call,
                 control, controls, driver, returned, history>>

(* The compare-and-exchange succeeds.                                      *)
SwapMax(t) ==
  /\ g_max_wait_ns = call[t].previous_max
  /\ Goto(t, "swapMax", "release")
  /\ g_max_wait_ns' = call[t].duration
  /\ UNCHANGED <<globals, g_dispatch_count, g_wait_count, g_total_wait_ns, call,
                 control, controls, driver, returned, history>>

(* Mutant: a failed exchange does not refresh previous_max.                *)
SwapMaxKeepsStale(t) ==
  /\ g_max_wait_ns # call[t].previous_max
  /\ Goto(t, "swapMax", "swapMax")
  /\ UNCHANGED <<globals, counters, call, control, controls, driver, returned, history>>

(* It fails and previous_max becomes the value found.  A spurious failure  *)
(* of the weak exchange finds the same value: it is a stuttering step.     *)
SwapMaxFails(t) ==
  /\ g_max_wait_ns # call[t].previous_max
  /\ CompareMax(t, "swapMax")

(* Mutant: the boundary event is released only while inference is on.      *)
ReleaseWhileActive(t) ==
  /\ events' = IF call[t].boundary /\ g_inference_enabled THEN events \ {Id(t)} ELSE events
  /\ Return(t, "release", call[t].status)
  /\ UNCHANGED <<globals, counters, control, controls, queue, refused, accepted, erred,
                 history>>

(* Mutant: after a failed wait whichever event was waited for is released. *)
ReleaseAnyFailedEvent(t) ==
  /\ events' = IF call[t].boundary \/ call[t].status # "SUCCESS"
               THEN events \ {Id(t)} ELSE events
  /\ Return(t, "release", call[t].status)
  /\ UNCHANGED <<globals, counters, control, controls, queue, refused, accepted, erred,
                 history>>

(* The boundary event, and only it, is released; the error of the release  *)
(* is reported only when the wait had none.                                *)
Release(t) ==
  /\ \/ /\ ~call[t].boundary
        /\ Return(t, "release", call[t].status)
        /\ UNCHANGED <<events, refused, erred>>
     \/ /\ call[t].boundary
        /\ Return(t, "release", call[t].status)
        /\ events' = events \ {Id(t)}
        /\ UNCHANGED <<refused, erred>>
     \/ /\ call[t].boundary
        /\ "release" \in Faults
        /\ \E e \in Errors :
             Return(t, "release", IF call[t].status = "SUCCESS" THEN e ELSE call[t].status)
        /\ refused' = refused \cup {Id(t)}
        /\ erred' = erred \cup {Id(t)}
        /\ UNCHANGED events
  /\ UNCHANGED <<globals, counters, control, controls, queue, accepted, history>>

----------------------------------------------------------------------------
(* BssLiteRtRuntime and the JNI functions behind it *)

(* beginInference, endInference or resetInferenceCounters is called.       *)
StartControl(c) ==
  /\ controls < MaxControls
  /\ Goto(c, "idle", "once")
  /\ \E o \in ControlOps :
       /\ control' = [control EXCEPT ![c].op = o]
       /\ active' = IF o = "begin" THEN active ELSE active \ {c}
  /\ controls' = controls + 1
  /\ UNCHANGED <<globals, counters, call, driver, returned, statistics>>

EndControl(c, from) ==
  /\ Goto(c, from, "idle")
  /\ control' = [control EXCEPT ![c] = NoControl]

(* nativeSetInferenceEnabled: one atomic exchange.                         *)
SetInferenceEnabled(c) ==
  /\ EndControl(c, "exchange")
  /\ g_inference_enabled' = (control[c].op = "begin")
  /\ active' = IF control[c].op = "begin" THEN active \cup {c} ELSE active
  /\ UNCHANGED <<g_init_once, symbols, counters, call, controls, driver, returned,
                 statistics>>

(* Mutant: the third store of the reset is missing.                        *)
ResetStoreKeepsWaits(c) ==
  /\ IF control[c].stage < 5
     THEN /\ Goto(c, "store", "store")
          /\ control' = [control EXCEPT ![c].stage = @ + 1]
     ELSE EndControl(c, "store")
  /\ g_inference_enabled' = (control[c].stage # 1 /\ g_inference_enabled)
  /\ g_dispatch_count' = IF control[c].stage = 2 THEN 0 ELSE g_dispatch_count
  /\ g_total_wait_ns' = IF control[c].stage = 4 THEN 0 ELSE g_total_wait_ns
  /\ g_max_wait_ns' = IF control[c].stage = 5 THEN 0 ELSE g_max_wait_ns
  /\ IF control[c].stage = 1 /\ Counting = {} /\ Resetting = {}
     THEN torn' = FALSE /\ unrecorded' = 0 /\ recorded' = {}
     ELSE torn' = (torn \/ Counting # {}) /\ UNCHANGED <<unrecorded, recorded>>
  /\ UNCHANGED <<g_init_once, symbols, g_wait_count, call, controls, driver, returned,
                 active>>

(* reset_counters: five separate stores, in this order.  The history       *)
(* variables start over with a reset that finds no counted call and no     *)
(* other reset under way; any overlap is remembered in torn.               *)
ResetStore(c) ==
  /\ IF control[c].stage < 5
     THEN /\ Goto(c, "store", "store")
          /\ control' = [control EXCEPT ![c].stage = @ + 1]
     ELSE EndControl(c, "store")
  /\ g_inference_enabled' = (control[c].stage # 1 /\ g_inference_enabled)
  /\ g_dispatch_count' = IF control[c].stage = 2 THEN 0 ELSE g_dispatch_count
  /\ g_wait_count' = IF control[c].stage = 3 THEN 0 ELSE g_wait_count
  /\ g_total_wait_ns' = IF control[c].stage = 4 THEN 0 ELSE g_total_wait_ns
  /\ g_max_wait_ns' = IF control[c].stage = 5 THEN 0 ELSE g_max_wait_ns
  /\ IF control[c].stage = 1 /\ Counting = {} /\ Resetting = {}
     THEN torn' = FALSE /\ unrecorded' = 0 /\ recorded' = {}
     ELSE torn' = (torn \/ Counting # {}) /\ UNCHANGED <<unrecorded, recorded>>
  /\ UNCHANGED <<g_init_once, symbols, call, controls, driver, returned, active>>

----------------------------------------------------------------------------
(* The GPU finishes a kernel.  External. *)
FinishKernel(k) ==
  /\ k \in queue
  /\ queue' = queue \ {k}
  /\ UNCHANGED <<globals, counters, pc, call, control, controls, events, refused, accepted,
                 erred, returned, history>>

----------------------------------------------------------------------------
(* The whole system *)

Once(p) == OnceBegin(p) \/ InitializeShim(p) \/ OncePass(p)

CallStep(t) ==
  \/ Once(t)
  \/ GateUnresolved(t) \/ Gate(t) \/ Count(t)
  \/ Enqueue(t) \/ EnqueueFails(t)
  \/ Wait(t)
  \/ RecordCount(t) \/ RecordTotal(t) \/ LoadMax(t) \/ SwapMax(t) \/ SwapMaxFails(t)
  \/ Release(t)

ControlStep(c) == Once(c) \/ SetInferenceEnabled(c) \/ ResetStore(c)

Next ==
  \/ \E t \in Threads : EnterCall(t) \/ CallStep(t)
  \/ \E c \in Controllers : StartControl(c) \/ ControlStep(c)
  \/ \E k \in queue : FinishKernel(k)

Spec == Init /\ [][Next]_vars

(* A thread that is inside a call runs on, and so does a controller inside *)
(* an operation; the GPU finishes every kernel.  Nobody has to start a     *)
(* call or an operation.                                                   *)
Fairness ==
  /\ \A t \in Threads : WF_vars(CallStep(t))
  /\ \A c \in Controllers : WF_vars(ControlStep(c))
  /\ \A k \in Threads \X (1..MaxCalls) : WF_vars(FinishKernel(k))

FairSpec == Spec /\ Fairness

----------------------------------------------------------------------------
(* Properties *)

Pcs == {"idle", "once", "init", "gate", "count", "enqueue", "wait", "recordCount",
        "recordTotal", "loadMax", "swapMax", "release", "exchange", "store"}
Statuses == {"SUCCESS", "FAILED", "INVALID_OPERATION"}
Locals == [should_wait : BOOLEAN, boundary : BOOLEAN, status : Statuses,
           duration : Nat, previous_max : Nat, unseen : SUBSET Controllers]
Operations == [op : {"none", "begin", "end", "reset"}, stage : 1..5]
Record == [status : Statuses, should_wait : BOOLEAN, boundary : BOOLEAN]

(* Every variable of the library, of its callers and of the driver has its *)
(* type; in particular what is recorded is a duration: the difference of   *)
(* two clock readings never underflows, also when a reading failed.        *)
TypeOK ==
  /\ g_init_once \in {"fresh", "running", "done"}
  /\ symbols \subseteq Symbols
  /\ g_inference_enabled \in BOOLEAN
  /\ g_dispatch_count \in Nat
  /\ g_wait_count \in Nat
  /\ g_total_wait_ns \in Nat
  /\ g_max_wait_ns \in Nat
  /\ pc \in [Procs -> Pcs]
  /\ call \in [Threads -> Locals]
  /\ control \in [Controllers -> Operations]
  /\ controls \in Nat
  /\ queue \subseteq Threads \X (Nat \ {0})
  /\ events \subseteq Threads \X (Nat \ {0})
  /\ refused \subseteq Threads \X (Nat \ {0})
  /\ accepted \subseteq Threads \X (Nat \ {0})
  /\ erred \subseteq Threads \X (Nat \ {0})
  /\ returned \in [Threads -> Seq(Record)]
  /\ active \subseteq Controllers
  /\ torn \in BOOLEAN
  /\ unrecorded \in Nat
  /\ recorded \subseteq Nat

(* A call that saw inference enabled and reports CL_SUCCESS has waited its *)
(* kernel out: none of its work is left on the GPU queue, whichever thread *)
(* it ran on and whether or not the caller supplied the event.             *)
SuccessMeansFinished ==
  \A t \in Threads : \A n \in 1..Len(returned[t]) :
    returned[t][n].should_wait /\ returned[t][n].status = "SUCCESS" => <<t, n>> \notin queue

(* The event the shim makes for itself outlives the call only when the     *)
(* driver lacks a symbol or refused the release, never because a wait      *)
(* failed or inference ended meanwhile; and the caller has an error then.  *)
BoundaryEventReleased ==
  \A t \in Threads : \A n \in 1..Len(returned[t]) :
    returned[t][n].boundary /\ <<t, n>> \in events
      => /\ returned[t][n].status # "SUCCESS"
         /\ symbols # Symbols \/ <<t, n>> \in refused

(* The event a caller asked for is the caller's: after a call that put the *)
(* kernel on the queue it exists, also when the shim waited on it, when    *)
(* that wait failed, and when there was no function to wait with.          *)
CallerEventKept ==
  \A t \in Threads : \A n \in 1..Len(returned[t]) :
    ~returned[t][n].boundary /\ <<t, n>> \in accepted => <<t, n>> \in events

(* CL_INVALID_OPERATION, where it is not the driver's own answer, means    *)
(* that a vendor symbol is missing; it is never the answer to a call that  *)
(* came while another thread was initialising.                             *)
InvalidMeansUnresolved ==
  \A t \in Threads : \A n \in 1..Len(returned[t]) :
    returned[t][n].status = "INVALID_OPERATION" /\ <<t, n>> \notin erred
      => symbols # Symbols

(* Between two resets that overlapped no counted call, the dispatch count  *)
(* is the wait count plus the calls still on their way to record a wait    *)
(* plus the ones that ended without recording one.  Matching counts at     *)
(* rest therefore mean that every counted call recorded its wait.          *)
CountsAgree ==
  ~torn /\ Resetting = {} =>
    g_dispatch_count = g_wait_count + unrecorded +
      Cardinality({t \in Counting : pc[t] \in {"enqueue", "wait", "recordCount"}})

(* Racing record_wait calls lose no maximum: every duration recorded since *)
(* the reset is at most g_max_wait_ns or still held by a thread inside the *)
(* compare-and-exchange loop, and the maximum is one of those durations.   *)
MaxWaitIsExact ==
  ~torn /\ Resetting = {} =>
    /\ g_max_wait_ns \in recorded \cup {0}
    /\ \A d \in recorded :
         \/ d <= g_max_wait_ns
         \/ \E t \in Threads : pc[t] \in {"loadMax", "swapMax"} /\ call[t].duration = d

(* The kernels of t that the one-kernel bound covers: submitted by a call  *)
(* that is waiting for them or reported success for them.                  *)
PendingOf(t) ==
  {k \in queue : /\ k[1] = t
                 /\ IF k = Id(t) THEN call[t].should_wait
                    ELSE /\ returned[t][k[2]].should_wait
                         /\ returned[t][k[2]].status = "SUCCESS"}

ErrorsOf(t) == Cardinality({n \in 1..Len(returned[t]) : returned[t][n].status # "SUCCESS"})

Bound == INSTANCE BoundedQueue WITH
  Callers <- Threads,
  Window <- 1,
  pending <- [t \in Threads |-> PendingOf(t)],
  errors <- [t \in Threads |-> ErrorsOf(t)]

(* The shim implements the bounded queue with a window of one: a thread's  *)
(* second gated kernel is submitted only after its first has finished, or  *)
(* after a call returned an error.                                         *)
ImplementsBoundedQueue == Bound!Spec

(* Every call returns and every control operation ends, through the        *)
(* initialisation, the wait and the compare-and-exchange loop, whatever    *)
(* the other threads do.                                                   *)
CallsReturn == \A p \in Procs : pc[p] # "idle" ~> pc[p] = "idle"

(* What the release notes say: "one event wait after every submitted       *)
(* OpenCL NDRange kernel while inference is active".  A kernel the driver  *)
(* accepts while some controller, since before the call read the flag, is  *)
(* between its beginInference and its endInference is waited for.          *)
ActiveSubmissionsWait ==
  [][\A t \in Threads :
       Enqueue(t) => call[t].should_wait \/ call[t].unseen \cap active = {}]_vars
=============================================================================

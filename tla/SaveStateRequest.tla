-------------------------- MODULE SaveStateRequest --------------------------
(***************************************************************************)
(* A save-state request on its way through Core::System: SendSignal queues *)
(* it, RunLoop consumes it, waits until no asynchronous operation is       *)
(* pending (for five seconds at most), executes LoadState or SaveState and *)
(* reports one outcome to the frontend (core.cpp), inside the loop of the  *)
(* iOS frontend that pauses, stops and boots sessions (CytrusEmulator.mm). *)
(*                                                                         *)
(* Two threads take steps: the emulation thread (pc) and the frontend      *)
(* thread (fpc).  The frontend holds signal_mutex across several steps     *)
(* where the code does (MutexHeld); a critical section whose inside nobody *)
(* can observe is one step.  What the frontend does with its handlers and  *)
(* when it pauses or stops is left open.                                   *)
(*                                                                         *)
(* A request is a model value with a kind, so that its way can be followed;*)
(* slots, texts and the diagnostics snapshot are left out, and so is a GDB *)
(* client that halts RunLoop.                                              *)
(***************************************************************************)
EXTENDS Integers

CONSTANTS
  Requests,     \* every save-state request the frontend will make
  KindOf,       \* "Load" or "Save"
  None,
  MaxCalls,     \* bound on the calls of Cancel and RequestReset
  MaxSessions   \* bound on the boots

Signals == Requests \cup {"Reset", "Shutdown"}
Outcomes == {"Success", "TransientFailure", "PermanentFailure"}

ASSUME RequestAssumption ==
  /\ KindOf \in [Requests -> {"Load", "Save"}]
  /\ None \notin Signals \cup Outcomes
  /\ Requests \cap {"Reset", "Shutdown"} = {}
  /\ MaxCalls \in Nat /\ MaxSessions \in Nat

VARIABLES
  sig,        \* current_signal and signal_param
  pending,    \* save_state_request_pending
  cancel,     \* save_state_cancel_requested
  req,        \* save_state_request_status and save_state_slot
  expired,    \* save_state_request_time is more than five seconds ago
  executing,  \* save_state_executing
  powered,    \* is_powered_on
  kernel,     \* System::kernel is not null
  async,      \* Kernel::AreAsyncOperationsPending
  installed,  \* a save_state_callback is installed
  latch,      \* undelivered_save_state_outcome
  paused, stop,            \* pause_emulation, stop_run
  pc, loc, cur, out, after, del,  \* emulation thread: see TypeOK
  fpc, fcur, fdel,         \* frontend thread
  calls, sessions,
  \* history: requests made, overwritten in the queue, executed, covered by
  \* the last cancel; outcomes reported and handed to a callback
  sent, replaced, ran, covered, told, reports, delivered

core == <<sig, pending, cancel, req, expired, executing, powered, kernel, async>>
outlet == <<installed, latch>>
loop == <<paused, stop, sessions>>
emu == <<pc, loc, cur, out, after, del>>
front == <<fpc, fcur, fdel>>
history == <<sent, replaced, ran, covered, told, reports, delivered>>
vars == <<core, outlet, loop, emu, front, calls, history>>

FlagsOK ==
  /\ pending \in BOOLEAN /\ cancel \in BOOLEAN /\ expired \in BOOLEAN
  /\ executing \in BOOLEAN /\ powered \in BOOLEAN /\ kernel \in BOOLEAN /\ async \in BOOLEAN
  /\ installed \in BOOLEAN /\ paused \in BOOLEAN /\ stop \in BOOLEAN

ValuesOK ==
  /\ sig \in Signals \cup {None}
  /\ req \in Requests \cup {None}
  /\ latch \in Requests \cup {None}
  /\ pc \in {"off", "boot", "loop", "crashed", "parked", "checked", "waiting", "cancelCheck", "drop", "consume", "dispatch",
             "resolve", "begin", "mark", "execute", "cpu", "deadSignal",
             "deadRequest", "notify", "deliver"}
  /\ loc \in Signals \cup {None}           \* the local variable signal of RunLoop
  /\ cur \in Requests \cup {None}          \* the request RunLoop is resolving
  /\ out \in Outcomes                      \* the outcome it is about to report
  /\ after \in {"loop", "deadRequest"}     \* where RunLoop goes on after reporting
  /\ del \in Requests \cup {None}          \* the outcome its callback is called with
  /\ fpc \in {"idle", "unpausing", "stopping", "shutdown", "arming", "notify", "deliver", "refuse", "refused"}
  /\ fcur \in Requests \cup {None} /\ fdel \in Requests \cup {None}
  /\ calls \in 0 .. MaxCalls /\ sessions \in 0 .. MaxSessions
  /\ sent \subseteq Requests /\ replaced \subseteq Requests
  /\ ran \subseteq Requests /\ covered \subseteq Requests
  /\ told \in [Requests -> Outcomes \cup {None}]
  /\ reports \in [Requests -> Nat] /\ delivered \in [Requests -> Nat]

(* Every variable keeps its type. *)
TypeOK == FlagsOK /\ ValuesOK

Init ==
  /\ sig = None /\ req = None /\ latch = None
  /\ pending = FALSE /\ cancel = FALSE /\ expired = FALSE /\ executing = FALSE
  /\ powered = FALSE /\ kernel = FALSE /\ async = FALSE /\ installed = FALSE
  /\ paused = FALSE /\ stop = FALSE
  /\ pc = "off" /\ loc = None /\ cur = None /\ del = None
  /\ out = "TransientFailure" /\ after = "loop"
  /\ fpc = "idle" /\ fcur = None /\ fdel = None
  /\ calls = 0 /\ sessions = 0
  /\ sent = {} /\ replaced = {} /\ ran = {} /\ covered = {}
  /\ told = [r \in Requests |-> None]
  /\ reports = [r \in Requests |-> 0] /\ delivered = [r \in Requests |-> 0]

(* The frontend is inside SendSignal or CancelPendingSaveStateOperation. *)
MutexHeld == fpc \in {"arming", "refuse", "refused"}

(* The critical section of NotifySaveStateResult for request r: the outcome *)
(* is latched when no callback is installed (the newest one wins).          *)
Report(r, o) ==
  /\ reports' = [reports EXCEPT ![r] = @ + 1]
  /\ told' = [told EXCEPT ![r] = o]
  /\ latch' = IF installed THEN latch ELSE r

Call(r) == delivered' = [delivered EXCEPT ![r] = @ + 1]

-----------------------------------------------------------------------------
(* The emulation thread: insert: and its loop. *)

Goto(label) == pc' = label

(* insert: up to System::Load, which takes its time. *)
Insert ==
  /\ pc = "off" /\ sessions < MaxSessions
  /\ sessions' = sessions + 1
  /\ Goto("boot")
  /\ UNCHANGED <<core, outlet, paused, stop, loc, cur, out, after, del, front, calls,
                 history>>

(* System::Load returns.  A failure ends the session at once; a success     *)
(* overwrites the flags, and with them a stop or a pause made meanwhile.    *)
Boot(success) ==
  /\ pc = "boot"
  /\ stop' = ~success
  /\ paused' = IF success THEN FALSE ELSE paused
  /\ powered' = success /\ kernel' = success
  /\ async' = FALSE
  /\ Goto(IF success THEN "loop" ELSE "off")
  /\ UNCHANGED <<sig, pending, cancel, req, expired, executing, outlet, sessions,
                 loc, cur, out, after, del, front, calls, history>>

(* The head of the loop and the first test of RunLoop; the end of the       *)
(* session shuts the system down.  SamplePc walks the threads of a kernel   *)
(* that may be null, and the process dies of it.                            *)
LoopHead ==
  /\ pc = "loop"
  /\ Goto(IF stop THEN "off" ELSE IF paused THEN "parked" ELSE IF ~kernel THEN "crashed"
          ELSE IF powered THEN "cancelCheck" ELSE "deadSignal")
  /\ powered' = (powered /\ ~stop) /\ kernel' = (kernel /\ ~stop)
  /\ UNCHANGED <<sig, pending, cancel, req, expired, executing, async, outlet, loop,
                 loc, cur, out, after, del, front, calls, history>>

(* The predicate of the wait. *)
Unparked == ~paused \/ stop

(* The thread takes paused_mutex and looks at the predicate.  When it holds *)
(* the loop goes on, after RestampPendingSaveStateDeadline; otherwise the   *)
(* thread keeps the mutex ...                                               *)
Unpark ==
  /\ pc = "parked"
  /\ IF Unparked
     THEN Goto("loop") /\ expired' = (expired /\ req = None)
     ELSE Goto("checked") /\ UNCHANGED expired
  /\ UNCHANGED <<sig, pending, cancel, req, executing, powered, kernel, async, outlet, loop,
                 loc, cur, out, after, del, front, calls, history>>

(* ... until it is registered with running_cv, where only a notify, or a    *)
(* spurious wakeup, finds it.                                               *)
Wait ==
  /\ pc = "checked"
  /\ Goto("waiting")
  /\ UNCHANGED <<core, outlet, loop, loc, cur, out, after, del, front, calls, history>>

WakeSpuriously ==
  /\ pc = "waiting"
  /\ Goto("parked")
  /\ UNCHANGED <<core, outlet, loop, loc, cur, out, after, del, front, calls, history>>

-----------------------------------------------------------------------------
(* The emulation thread inside RunLoop. *)

(* The core is not powered on: the queued request is discarded, ... *)
DeadSignal ==
  /\ pc = "deadSignal" /\ ~MutexHeld
  /\ IF sig \in Requests
     THEN /\ cur' = sig /\ sig' = None
          /\ out' = "TransientFailure" /\ after' = "deadRequest" /\ Goto("notify")
     ELSE /\ Goto("deadRequest") /\ UNCHANGED <<cur, sig, out, after>>
  /\ UNCHANGED <<pending, cancel, req, expired, executing, powered, kernel, async, outlet, loop,
                 loc, del, front, calls, history>>

(* ... and then the pending one. *)
DeadRequest ==
  /\ pc = "deadRequest"
  /\ IF req # None
     THEN /\ cur' = req /\ req' = None /\ out' = "TransientFailure" /\ Goto("drop")
     ELSE /\ Goto("loop") /\ UNCHANGED <<cur, req, out>>
  /\ UNCHANGED <<sig, pending, cancel, expired, executing, powered, kernel, async, outlet, loop,
                 loc, after, del, front, calls, history>>

(* The cancel latch is taken before the signal is. *)
CancelCheck ==
  /\ pc = "cancelCheck"
  /\ cancel' = FALSE
  /\ IF cancel /\ req # None
     THEN /\ cur' = req /\ req' = None /\ out' = "TransientFailure" /\ Goto("drop")
     ELSE /\ Goto("consume") /\ UNCHANGED <<cur, req, out>>
  /\ UNCHANGED <<sig, pending, expired, executing, powered, kernel, async, outlet, loop,
                 loc, after, del, front, calls, history>>

(* save_state_request_pending.store(false) of a request that is not         *)
(* executed; it follows the store to save_state_request_status.             *)
Drop ==
  /\ pc = "drop"
  /\ pending' = FALSE
  /\ after' = "loop" /\ Goto("notify")
  /\ UNCHANGED <<sig, cancel, req, expired, executing, powered, kernel, async, outlet, loop,
                 loc, cur, out, del, front, calls, history>>

(* The critical section that takes current_signal. *)
Consume ==
  /\ pc = "consume" /\ ~MutexHeld
  /\ loc' = sig /\ sig' = None
  /\ pending' = (pending \/ sig \in Requests)
  /\ Goto("dispatch")
  /\ UNCHANGED <<cancel, req, expired, executing, powered, kernel, async, outlet, loop,
                 cur, out, after, del, front, calls, history>>

(* The switch over the signal.  Reset shuts down and loads again, and does  *)
(* not ask whether that failed, which leaves no kernel; a new kernel has no *)
(* asynchronous operations.                                                 *)
Dispatch ==
  /\ pc = "dispatch"
  /\ loc' = None
  /\ \/ /\ loc = "Reset" /\ Goto("loop")
        /\ powered' \in BOOLEAN /\ kernel' = powered' /\ async' = FALSE
        /\ UNCHANGED <<req, expired, cur, out, after>>
     \/ /\ loc = "Shutdown" /\ Goto("loop")
        /\ UNCHANGED <<powered, kernel, async, req, expired, cur, out, after>>
     \/ /\ loc = None /\ Goto("resolve")
        /\ UNCHANGED <<powered, kernel, async, req, expired, cur, out, after>>
     \/ /\ loc \in Requests /\ req = None
        /\ req' = loc /\ expired' = FALSE /\ Goto("resolve")
        /\ UNCHANGED <<powered, kernel, async, cur, out, after>>
     \/ /\ loc \in Requests /\ req # None
        /\ cur' = loc /\ out' = "TransientFailure" /\ after' = "loop" /\ Goto("notify")
        /\ UNCHANGED <<powered, kernel, async, req, expired>>
  /\ UNCHANGED <<sig, pending, cancel, executing, outlet, loop, del, front,
                 calls, history>>

(* Mutant: there is no deadline. *)
ResolveWithoutDeadline ==
  /\ pc = "resolve"
  /\ IF req # None /\ ~async
     THEN /\ cur' = req /\ req' = None /\ Goto("begin")
     ELSE /\ Goto("cpu") /\ UNCHANGED <<cur, req>>
  /\ UNCHANGED <<sig, pending, cancel, expired, executing, powered, kernel, async, outlet, loop,
                 loc, out, after, del, front, calls, history>>

(* Execute the pending request, give it up, or go on emulating. *)
Resolve ==
  /\ pc = "resolve"
  /\ IF req # None /\ ~async
     THEN /\ cur' = req /\ req' = None /\ Goto("begin") /\ UNCHANGED out
     ELSE IF req # None /\ expired
     THEN /\ cur' = req /\ req' = None /\ out' = "TransientFailure" /\ Goto("drop")
     ELSE /\ Goto("cpu") /\ UNCHANGED <<cur, req, out>>
  /\ UNCHANGED <<sig, pending, cancel, expired, executing, powered, kernel, async, outlet, loop,
                 loc, after, del, front, calls, history>>

(* The mirror is cleared, ... *)
Begin ==
  /\ pc = "begin"
  /\ pending' = FALSE
  /\ Goto("mark")
  /\ UNCHANGED <<sig, cancel, req, expired, executing, powered, kernel, async, outlet, loop,
                 loc, cur, out, after, del, front, calls, history>>

(* Mutant: save_state_executing is not set. *)
MarkNothing ==
  /\ pc = "mark"
  /\ Goto("execute")
  /\ UNCHANGED <<core, outlet, loop, loc, cur, out, after, del, front, calls, history>>

(* ... and then save_state_executing is set. *)
Mark ==
  /\ pc = "mark"
  /\ executing' = TRUE
  /\ Goto("execute")
  /\ UNCHANGED <<sig, pending, cancel, req, expired, powered, kernel, async, outlet, loop,
                 loc, cur, out, after, del, front, calls, history>>

(* Mutant: a failed operation is reported as one that was not processed. *)
ExecuteFailsTransiently(success) ==
  /\ pc = "execute"
  /\ ran' = ran \cup {cur}
  /\ out' = IF success THEN "Success" ELSE "TransientFailure"
  /\ after' = "loop" /\ Goto("notify")
  /\ UNCHANGED <<core, outlet, loop, loc, cur, del, front, calls,
                 sent, replaced, covered, told, reports, delivered>>

(* LoadState or SaveState: a load shuts the system down and initialises it  *)
(* again.  Init makes the kernel early and sets is_powered_on last, so that *)
(* a failure may leave a system, a kernel that is not powered on, or none.  *)
Execute(success) ==
  /\ pc = "execute"
  /\ ran' = ran \cup {cur}
  /\ out' = IF success THEN "Success" ELSE "PermanentFailure"
  /\ IF KindOf[cur] = "Load" /\ ~success
     THEN powered' \in BOOLEAN /\ kernel' \in BOOLEAN /\ (powered' => kernel')
     ELSE UNCHANGED <<powered, kernel>>
  /\ after' = "loop" /\ Goto("notify")
  /\ UNCHANGED <<sig, pending, cancel, req, expired, executing, async, outlet, loop,
                 loc, cur, del, front, calls,
                 sent, replaced, covered, told, reports, delivered>>

(* The emulated cores run: asynchronous operations start and end. *)
RunCores ==
  /\ pc = "cpu"
  /\ async' \in BOOLEAN
  /\ Goto("loop")
  /\ UNCHANGED <<sig, pending, cancel, req, expired, executing, powered, kernel, outlet, loop,
                 loc, cur, out, after, del, front, calls, history>>

(* NotifySaveStateResult on this thread; save_state_executing is cleared    *)
(* when RunLoop returns.                                                    *)
Notify ==
  /\ pc = "notify"
  /\ Report(cur, out)
  /\ cur' = None
  /\ IF installed THEN del' = cur /\ Goto("deliver") /\ UNCHANGED executing
                  ELSE Goto(after) /\ executing' = FALSE /\ UNCHANGED del
  /\ UNCHANGED <<sig, pending, cancel, req, expired, powered, kernel, async, installed, loop,
                 loc, out, after, front, calls, sent, replaced, ran, covered, delivered>>

(* The copy of the callback is called outside the lock. *)
Deliver ==
  /\ pc = "deliver"
  /\ Call(del)
  /\ del' = None /\ executing' = FALSE /\ Goto(after)
  /\ UNCHANGED <<sig, pending, cancel, req, expired, powered, kernel, async, outlet, loop,
                 loc, cur, out, after, front, calls, sent, replaced, ran, covered, told,
                 reports>>

(* Five seconds go by. *)
DeadlinePasses ==
  /\ req # None /\ ~expired /\ pc # "crashed"
  /\ expired' = TRUE
  /\ UNCHANGED <<sig, pending, cancel, req, executing, powered, kernel, async, outlet, loop, emu,
                 front, calls, history>>

-----------------------------------------------------------------------------
(* The frontend thread. *)

(* SendSignal compares the kinds of signals only. *)
SameSignal(s, x) ==
  IF s \in Requests /\ x \in Requests THEN KindOf[s] = KindOf[x] ELSE s = x

Accepts(s) == sig = None \/ SameSignal(s, sig)

(* load: and save:.  A queued request of the same kind is overwritten; a    *)
(* refused request is reported from inside the critical section.            *)
SendRequest(r) ==
  /\ fpc = "idle" /\ ~stop /\ r \notin sent
  /\ sent' = sent \cup {r}
  /\ IF Accepts(r)
     THEN /\ sig' = r
          /\ replaced' = IF sig \in Requests THEN replaced \cup {sig} ELSE replaced
          /\ UNCHANGED <<fpc, fcur>>
     ELSE /\ fpc' = "refuse" /\ fcur' = r
          /\ UNCHANGED <<sig, replaced>>
  /\ UNCHANGED <<pending, cancel, req, expired, executing, powered, kernel, async, outlet, loop,
                 emu, fdel, calls, ran, covered, told, reports, delivered>>

RequestReset ==
  /\ fpc = "idle" /\ ~stop /\ calls < MaxCalls
  /\ calls' = calls + 1
  /\ sig' = IF Accepts("Reset") THEN "Reset" ELSE sig
  /\ UNCHANGED <<pending, cancel, req, expired, executing, powered, kernel, async, outlet, loop,
                 emu, front, history>>

(* Mutant: the cancelled request stays in the queue. *)
CancelKeepsSignal ==
  /\ fpc = "idle" /\ calls < MaxCalls
  /\ calls' = calls + 1
  /\ covered' = sent
  /\ IF sig \in Requests
     THEN fcur' = sig /\ fpc' = "notify"
     ELSE fpc' = (IF pending THEN "arming" ELSE "idle") /\ UNCHANGED fcur
  /\ UNCHANGED <<core, outlet, loop, emu, fdel, sent, replaced, ran, told, reports,
                 delivered>>

(* CancelPendingSaveStateOperation up to the read of the mirror. *)
Cancel ==
  /\ fpc = "idle" /\ calls < MaxCalls
  /\ calls' = calls + 1
  /\ covered' = sent
  /\ IF sig \in Requests
     THEN /\ fcur' = sig /\ sig' = None /\ fpc' = "notify"
     ELSE /\ fpc' = IF pending THEN "arming" ELSE "idle"
          /\ UNCHANGED <<sig, fcur>>
  /\ UNCHANGED <<pending, cancel, req, expired, executing, powered, kernel, async, outlet, loop,
                 emu, fdel, sent, replaced, ran, told, reports, delivered>>

(* ... and the store to the cancel latch. *)
ArmCancel ==
  /\ fpc = "arming"
  /\ cancel' = TRUE
  /\ fpc' = "idle"
  /\ UNCHANGED <<sig, pending, req, expired, executing, powered, kernel, async, outlet, loop,
                 emu, fcur, fdel, calls, history>>

(* NotifySaveStateResult on this thread, after a cancel or in SendSignal. *)
FrontNotify ==
  /\ fpc \in {"notify", "refuse"}
  /\ Report(fcur, "TransientFailure")
  /\ fcur' = None
  /\ fdel' = IF installed THEN fcur ELSE fdel
  /\ fpc' = IF ~installed THEN "idle" ELSE IF fpc = "refuse" THEN "refused" ELSE "deliver"
  /\ UNCHANGED <<core, installed, loop, emu, calls, sent, replaced, ran, covered, delivered>>

FrontDeliver ==
  /\ fpc \in {"deliver", "refused"}
  /\ Call(fdel)
  /\ fdel' = None /\ fpc' = "idle"
  /\ UNCHANGED <<core, outlet, loop, emu, fcur, calls, sent, replaced, ran, covered, told,
                 reports>>

(* Mutant: a delivered outcome stays latched. *)
SetCallbackKeepsLatch(install) ==
  /\ fpc = "idle"
  /\ installed' = install
  /\ latch' = IF install THEN latch ELSE None
  /\ IF install /\ latch # None
     THEN fdel' = latch /\ fpc' = "deliver"
     ELSE UNCHANGED <<fdel, fpc>>
  /\ UNCHANGED <<core, loop, emu, fcur, calls, history>>

(* SetSaveStateCallback: installing delivers the latch, uninstalling drops  *)
(* it.                                                                      *)
SetSaveStateCallback(install) ==
  /\ fpc = "idle"
  /\ installed' = install
  /\ latch' = None
  /\ IF install /\ latch # None
     THEN fdel' = latch /\ fpc' = "deliver"
     ELSE UNCHANGED <<fdel, fpc>>
  /\ UNCHANGED <<core, loop, emu, fcur, calls, history>>

(* The emulation thread has paused_mutex between the predicate and its      *)
(* registration in the wait.                                                *)
PausedMutexFree == pc # "checked"

(* pause: stores the flag under paused_mutex, and then notifies. *)
Pause(pause) ==
  /\ fpc = "idle" /\ PausedMutexFree
  /\ paused' = pause
  /\ fpc' = IF pause THEN "idle" ELSE "unpausing"
  /\ UNCHANGED <<core, outlet, stop, sessions, emu, fcur, fdel, calls, history>>

(* Mutant: the flags are stored without the mutex. *)
StopUnlocked ==
  /\ fpc = "idle" /\ ~stop /\ pc # "off"
  /\ stop' = TRUE /\ paused' = FALSE
  /\ fpc' = "stopping"
  /\ UNCHANGED <<core, outlet, sessions, emu, fcur, fdel, calls, history>>

(* stop: sets the flags under paused_mutex, notifies, and then requests a   *)
(* shutdown; the frontend does not stop again what it has stopped.  The     *)
(* call through bottom_window in between does nothing also when that        *)
(* pointer is null: StopPresenting is not virtual and its body is empty.    *)
Stop ==
  /\ fpc = "idle" /\ PausedMutexFree /\ ~stop /\ pc # "off"
  /\ stop' = TRUE /\ paused' = FALSE
  /\ fpc' = "stopping"
  /\ UNCHANGED <<core, outlet, sessions, emu, fcur, fdel, calls, history>>

(* running_cv.notify_all(). *)
NotifyAll ==
  /\ fpc \in {"unpausing", "stopping"}
  /\ Goto(IF pc = "waiting" THEN "parked" ELSE pc)
  /\ fpc' = IF fpc = "stopping" THEN "shutdown" ELSE "idle"
  /\ UNCHANGED <<core, outlet, loop, loc, cur, out, after, del, fcur, fdel, calls, history>>

RequestShutdown ==
  /\ fpc = "shutdown"
  /\ fpc' = "idle"
  /\ sig' = IF Accepts("Shutdown") THEN "Shutdown" ELSE sig
  /\ UNCHANGED <<pending, cancel, req, expired, executing, powered, kernel, async, outlet, loop,
                 emu, fcur, fdel, calls, history>>

-----------------------------------------------------------------------------
EmulationStep ==
  \/ LoopHead \/ Unpark \/ Wait
  \/ DeadSignal \/ DeadRequest
  \/ CancelCheck \/ Drop \/ Consume \/ Dispatch \/ Resolve \/ Begin \/ Mark
  \/ \E success \in BOOLEAN : Execute(success)
  \/ RunCores \/ Notify \/ Deliver

(* What the frontend has begun it ends, unless the process dies. *)
FrontendGoesOn ==
  /\ pc # "crashed"
  /\ ArmCancel \/ FrontNotify \/ FrontDeliver \/ NotifyAll \/ RequestShutdown

FrontendCall ==
  /\ pc # "crashed"
  /\ \/ \E r \in Requests : SendRequest(r)
     \/ RequestReset \/ Cancel \/ Stop
     \/ \E b \in BOOLEAN : SetSaveStateCallback(b) \/ Pause(b)

Next ==
  \/ EmulationStep \/ WakeSpuriously
  \/ Insert
  \/ \E success \in BOOLEAN : Boot(success)
  \/ DeadlinePasses
  \/ FrontendGoesOn
  \/ FrontendCall

Spec == Init /\ [][Next]_vars

(* The emulation thread runs while its session does, System::Load and the   *)
(* calls of the frontend return, and the clock does not stand still.        *)
FairSpec == Spec /\ WF_vars(EmulationStep \/ \E success \in BOOLEAN : Boot(success))
                 /\ WF_vars(FrontendGoesOn) /\ WF_vars(DeadlinePasses)

-----------------------------------------------------------------------------
(* Properties. *)

At(place, r) == IF place = r THEN 1 ELSE 0

(* The places where a request can be on its way: the queue, RunLoop's local *)
(* signal, the pending request, the one being resolved or executed, and the *)
(* one the frontend is refusing or cancelling.                              *)
OnTheWay(r) == At(sig, r) + At(loc, r) + At(req, r) + At(cur, r) + At(fcur, r)

(* No request vanishes and none is handled twice: a request that was sent   *)
(* is in exactly one place, or was overwritten in the queue, or was         *)
(* reported, exactly once.                                                  *)
OneOwner ==
  \A r \in Requests :
    OnTheWay(r) + reports[r] + (IF r \in replaced THEN 1 ELSE 0)
      = IF r \in sent THEN 1 ELSE 0

(* No outcome is handed to the frontend twice, whoever calls the callback   *)
(* and however installing and uninstalling it race with the report.         *)
DeliveredOnce ==
  \A r \in Requests :
    delivered[r] + At(del, r) + At(fdel, r) + At(latch, r) <= reports[r]

(* The comment in RunLoop: a concurrent cancel "always observes either the  *)
(* queued signal or the pending mirror - never the gap between them".       *)
MirrorCovers == (loc \in Requests \/ req # None) => pending

(* SaveStateOutcome: a TransientFailure was never processed, and the other  *)
(* outcomes are of requests that LoadState or SaveState was called for.     *)
OutcomeTruthful ==
  \A r \in Requests : told[r] # None => (r \in ran <=> told[r] # "TransientFailure")

(* From the call of LoadState or SaveState to the report of its outcome     *)
(* save_state_executing is set: a watchdog that reads it never gives up on  *)
(* an operation the core is busy with.                                      *)
ExecutingVisible ==
  (\E r \in ran : reports[r] = 0) => executing

(* The requests that have no outcome yet. *)
Open == {r \in sent : reports[r] = 0 /\ r \notin replaced}

(* The session is over, about to end, or held by the frontend. *)
NotRunning == paused \/ stop \/ pc = "off"

(* Every request is reported, unless another one overwrote it in the queue  *)
(* or the process died for want of a kernel, as long as the frontend keeps  *)
(* the session running: through a pause that the emulation thread waits     *)
(* out, a wait for asynchronous operations that never ends, and a core that *)
(* a failed load left powered off.                                          *)
RequestReported == Open # {} ~> (Open = {} \/ NotRunning \/ pc = "crashed")

(* A stop of a session that has booted ends it, whatever request is queued, *)
(* waiting or being executed, wherever the emulation thread is on its way   *)
(* into the wait of a pause, and whatever pause: does before it looks again.*)
StopEndsSession == (stop /\ pc \notin {"off", "boot"}) ~> pc \in {"off", "crashed"}

(* RunLoop: "a stale latch must never kill a request queued AFTER the       *)
(* cancel".                                                                 *)
NoStaleCancel ==
  [][CancelCheck /\ cancel /\ req # None => req \in covered]_vars

=============================================================================

------------------------------ MODULE BlinkHost ------------------------------
(***************************************************************************)
(* Renderer hosts of native programs and their realms                      *)
(* (nts_blink_counter_host.cc, nts_blink_realm.cc and the stable listeners *)
(* of nts_blink_managed_registry.cc, whose registry is another module).    *)
(* All of it runs on one Blink thread, on an explicit stack: the program   *)
(* runs inside host and realm calls, and calls back into them while they   *)
(* are in progress.  The process has one ScriptC runtime (external), so    *)
(* one hosted scheduler and one retained-callback service; main frames of  *)
(* one process, at once or after one another, may all ask for them.  Each  *)
(* is refused while somebody has it.  The service wakes its host when it   *)
(* accepts a delivery, and one that accepts none never wakes anybody.      *)
(***************************************************************************)
EXTENDS Naturals, FiniteSets, SequencesExt

CONSTANTS MaxHosts,     \* bound on the hosts started
          MaxJobs,      \* bound on the continuations enqueued
          MaxListeners, \* bound on the listeners created
          MaxPending,   \* bound on retained deliveries, and on posted drains
          MaxDepth      \* bound on the calls in progress

ASSUME BoundsAssumption ==
  {MaxHosts, MaxJobs, MaxListeners, MaxPending, MaxDepth} \subseteq Nat

Hosts == 1..MaxHosts
Jobs == 1..MaxJobs
Listeners == 1..MaxListeners
None == 0

VARIABLES
  host,       \* -> "none", "starting", "started", "stopping" or "gone"
  realm,      \* its realm: "none", "alive", "invalid" or "deleted"
  context,    \* hosts whose document has its execution context
  observer,   \* hosts whose lifecycle observer still points at the realm
  stopHook,   \* realms with a hosted_scheduler_stop_
  scheduler,  \* the realm the hosted scheduler enqueues through, or None
  service,    \* the host the callback service wakes, or None when there is no service
  accepting,  \* the service admits deliveries
  configured, \* hosts with callbacks_configured_
  pending,    \* retained deliveries queued in the service
  drains,     \* host -> drain tasks posted for it
  job,        \* -> "unused", "queued", "cancelled" (queued still), "ran" or "freed"
  microtasks, \* jobs in Blink's microtask queue
  jobRealm,   \* job -> the realm of its payload
  listener,   \* -> "unused", "listening" or "detached"
  target,     \* listener -> its realm_
  stack,      \* calls in progress, innermost last
  current     \* current_web_realm

serviceVars == <<service, accepting, configured>>
hostVars == <<host, observer, serviceVars, pending, drains>>
jobVars == <<job, microtasks, jobRealm>>
listenerVars == <<listener, target>>
vars == <<hostVars, realm, context, stopHook, scheduler, jobVars, listenerVars, stack, current>>

(* A call in progress: which, for which host, the realm its scope restores *)
(* and, of an event being dispatched, the listeners not yet invoked.       *)
Call(op, h, left) == [op |-> op, host |-> h, saved |-> current, left |-> left]
ProgramCalls == {"start", "stop", "drain", "continuation", "handler"}
OtherCalls == {"scheduler", "callbacks", "rollback", "invalidate", "event"}
Top == Last(stack)
InProgram == stack # <<>> /\ Top.op \in ProgramCalls
Idle == stack = <<>>
Room == Len(stack) < MaxDepth

(* ScopedCurrentWebRealm: entered with a call, restored when it returns.   *)
Enter(op, h) == stack' = Append(stack, Call(op, h, {})) /\ current' = h

Restored == Top.saved

Init ==
  /\ host = [h \in Hosts |-> "none"] /\ realm = [h \in Hosts |-> "none"]
  /\ context = Hosts /\ observer = {} /\ stopHook = {}
  /\ scheduler = None /\ service = None /\ accepting = FALSE /\ configured = {} /\ pending = 0
  /\ drains = [h \in Hosts |-> 0]
  /\ job = [j \in Jobs |-> "unused"] /\ microtasks = <<>> /\ jobRealm = [j \in Jobs |-> None]
  /\ listener = [l \in Listeners |-> "unused"] /\ target = [l \in Listeners |-> None]
  /\ stack = <<>> /\ current = None

-----------------------------------------------------------------------------
(* StopScriptCHostedScheduler: the hook is taken before it is called; the  *)
(* runtime then cancels the continuations it has not run.                  *)
CancelJobs == [j \in Jobs |-> IF job[j] = "queued" THEN "cancelled" ELSE job[j]]

FaultyStopScheduler(h) ==
  /\ UNCHANGED stopHook
  /\ IF h \in stopHook
     THEN scheduler' = None /\ job' = CancelJobs
     ELSE UNCHANGED <<scheduler, job>>
StopScheduler(h) ==
  /\ stopHook' = stopHook \ {h}
  /\ IF h \in stopHook
     THEN scheduler' = None /\ job' = CancelJobs
     ELSE UNCHANGED <<scheduler, job>>

(* managed_.Invalidate cancels every listener of the realm.                *)
FaultyDetached(h) == target
Detached(h) == [l \in Listeners |-> IF target[l] = h THEN None ELSE target[l]]
CancelListeners(h) ==
  /\ target' = Detached(h)
  /\ listener' = [l \in Listeners |-> IF target[l] = h THEN "detached" ELSE listener[l]]

Return(op) ==
  /\ ~ Idle /\ Top.op = op
  /\ stack' = Front(stack) /\ current' = Restored

(* A host call goes over to its next part with the realm still current.    *)
Continue(from, to) ==
  /\ ~ Idle /\ Top.op = from
  /\ stack' = Append(Front(stack), [Top EXCEPT !.op = to]) /\ UNCHANGED current

HostBecomes(stage) == host' = [host EXCEPT ![Top.host] = stage]

(* The constructor of BlinkCounterHost: a realm with its observer, then    *)
(* the two configurations.  A probe that fails resets the realm at once.   *)
StartHost(h) ==
  /\ Idle /\ host[h] = "none" /\ \A g \in 1..(h - 1) : host[g] # "none"
  /\ h \in context
  /\ \/ /\ host' = [host EXCEPT ![h] = "starting"] /\ realm' = [realm EXCEPT ![h] = "alive"]
        /\ observer' = observer \cup {h}
        /\ Enter("scheduler", h)
     \/ /\ host' = [host EXCEPT ![h] = "gone"] /\ realm' = [realm EXCEPT ![h] = "deleted"]
        /\ UNCHANGED <<observer, stack, current>>
  /\ UNCHANGED <<context, scheduler, stopHook, serviceVars, pending, drains, jobVars, listenerVars>>

FaultyConfigureScheduler ==
  /\ \/ /\ Continue("scheduler", "callbacks") /\ UNCHANGED host
        /\ scheduler = None /\ scheduler' = Top.host
     \/ Continue("scheduler", "rollback") /\ HostBecomes("stopping") /\ UNCHANGED scheduler
  /\ stopHook' = stopHook \cup {Top.host}
  /\ UNCHANGED <<realm, context, observer, serviceVars, pending, drains, jobVars, listenerVars>>

(* ConfigureScriptCHostedScheduler: another host may have the scheduler,   *)
(* or the runtime fails; the hook is kept only of a scheduler configured.  *)
ConfigureScheduler ==
  /\ \/ /\ Continue("scheduler", "callbacks") /\ UNCHANGED host
        /\ scheduler = None
        /\ scheduler' = Top.host /\ stopHook' = stopHook \cup {Top.host}
     \/ Continue("scheduler", "rollback") /\ HostBecomes("stopping") /\ UNCHANGED <<scheduler, stopHook>>
  /\ UNCHANGED <<realm, context, observer, serviceVars, pending, drains, jobVars, listenerVars>>

(* ConfigureScriptCCallbacks, refused while there is a service and when it *)
(* fails: the scheduler this host has just been given is then rolled back. *)
ConfigureCallbacks ==
  /\ \/ /\ Continue("callbacks", "start") /\ UNCHANGED host
        /\ service = None
        /\ service' = Top.host /\ accepting' = TRUE /\ configured' = configured \cup {Top.host}
     \/ Continue("callbacks", "rollback") /\ HostBecomes("stopping") /\ UNCHANGED serviceVars
  /\ UNCHANGED <<realm, context, observer, scheduler, stopHook, pending, drains, jobVars, listenerVars>>

(* started_ is what the program's start answered; a start that answered    *)
(* otherwise is shut down, and the program's stop is called first.         *)
Started ==
  /\ Return("start") /\ HostBecomes("started")
  /\ UNCHANGED <<realm, context, observer, stopHook, scheduler, serviceVars, pending, drains, jobVars, listenerVars>>

StartFailed ==
  /\ Continue("start", "stop") /\ HostBecomes("stopping")
  /\ UNCHANGED <<realm, context, observer, stopHook, scheduler, serviceVars, pending, drains, jobVars, listenerVars>>

(* The destructor: posted drains are disowned, then the program is stopped *)
(* with its realm current, whatever state that realm is in.                *)
DestroyHost(h) ==
  /\ Idle /\ host[h] = "started"
  /\ host' = [host EXCEPT ![h] = "stopping"]
  /\ Enter("stop", h)
  /\ UNCHANGED <<realm, context, observer, stopHook, scheduler, serviceVars, pending, drains, jobVars, listenerVars>>

(* ShutdownScriptCCallbacks: stop accepting, discard, destroy.  A service  *)
(* that does not quiesce survives its destroy, which is logged: it keeps   *)
(* the host it was to wake.                                                *)
FaultyShutdownCallbacks(h) ==
  IF h \in configured
  THEN /\ service' \in {None, service}
       /\ configured' = configured \ {h} /\ UNCHANGED <<accepting, pending>>
  ELSE UNCHANGED <<serviceVars, pending>>
ShutdownCallbacks(h) ==
  IF h \in configured
  THEN /\ accepting' = FALSE /\ pending' = 0
       /\ service' \in {None, service}
       /\ configured' = configured \ {h}
  ELSE UNCHANGED <<serviceVars, pending>>

(* The rest of ShutdownScriptCRuntime, which a start that was refused one  *)
(* of its configurations comes to directly, and ResetRealm.                *)
Shutdown ==
  /\ Return("stop") \/ Return("rollback")
  /\ LET h == Top.host IN
       /\ StopScheduler(h)
       /\ ShutdownCallbacks(h)
       /\ observer' = observer \ {h}
       /\ CancelListeners(h)
       /\ realm' = [realm EXCEPT ![h] = "deleted"]
       /\ HostBecomes("gone")
  /\ UNCHANGED <<context, drains, microtasks, jobRealm>>

-----------------------------------------------------------------------------
(* Blink destroys the main frame's execution context in a task of its own. *)
(* The observer's ContextDestroyed invalidates the realm: the scheduler is *)
(* stopped in a scope while the realm still works, then the rest ends.     *)
DestroyContext(h) ==
  /\ Idle /\ h \in context
  /\ context' = context \ {h}
  /\ IF h \in observer /\ realm[h] = "alive"
     THEN Enter("invalidate", h) /\ StopScheduler(h)
     ELSE UNCHANGED <<stack, current, stopHook, scheduler, job>>
  /\ UNCHANGED <<hostVars, realm, microtasks, jobRealm, listenerVars>>

(* A cancelled continuation's frame gives back a subscription it captured. *)
ReleaseCaptured(l) ==
  /\ ~ Idle /\ Top.op = "invalidate" /\ target[l] = Top.host
  /\ target' = [target EXCEPT ![l] = None] /\ listener' = [listener EXCEPT ![l] = "detached"]
  /\ UNCHANGED <<hostVars, realm, context, stopHook, scheduler, jobVars, stack, current>>

Invalidated ==
  /\ Return("invalidate")
  /\ realm' = [realm EXCEPT ![Top.host] = "invalid"]
  /\ observer' = observer \ {Top.host}
  /\ CancelListeners(Top.host)
  /\ UNCHANGED <<host, context, stopHook, scheduler, serviceVars, pending, drains, jobVars>>

-----------------------------------------------------------------------------
(* What the program does while it runs.  EnqueueHostedMicrotask goes       *)
(* through the scheduler's raw realm pointer and is refused once the realm *)
(* is not alive; a stopped scheduler does not call it.                     *)
Await(j) ==
  /\ InProgram /\ job[j] = "unused" /\ \A i \in 1..(j - 1) : job[i] # "unused"
  /\ scheduler # None /\ realm[scheduler] = "alive"
  /\ job' = [job EXCEPT ![j] = "queued"] /\ microtasks' = Append(microtasks, j)
  /\ jobRealm' = [jobRealm EXCEPT ![j] = scheduler]
  /\ UNCHANGED <<hostVars, realm, context, stopHook, scheduler, listenerVars, stack, current>>

(* A signal queues a retained delivery; the service wakes its host, which  *)
(* posts a drain bound to its weak pointer.                                *)
Emit ==
  /\ InProgram \/ Idle
  /\ accepting /\ pending < MaxPending /\ drains[service] < MaxPending
  /\ pending' = pending + 1 /\ drains' = [drains EXCEPT ![service] = @ + 1]
  /\ UNCHANGED <<host, observer, serviceVars, realm, context, stopHook, scheduler, jobVars, listenerVars, stack, current>>

(* Listen on a node of the current realm; when addEventListener fails the  *)
(* listener is detached again.                                             *)
Listen(l) ==
  /\ InProgram /\ current # None /\ realm[current] = "alive"
  /\ listener[l] = "unused" /\ \A i \in 1..(l - 1) : listener[i] # "unused"
  /\ \/ listener' = [listener EXCEPT ![l] = "listening"] /\ target' = [target EXCEPT ![l] = current]
     \/ listener' = [listener EXCEPT ![l] = "detached"] /\ UNCHANGED target
  /\ UNCHANGED <<hostVars, realm, context, stopHook, scheduler, jobVars, stack, current>>

Dispose(l) ==
  /\ InProgram /\ current # None /\ realm[current] = "alive" /\ target[l] = current
  /\ listener' = [listener EXCEPT ![l] = "detached"] /\ target' = [target EXCEPT ![l] = None]
  /\ UNCHANGED <<hostVars, realm, context, stopHook, scheduler, jobVars, stack, current>>

(* The program's work for this call is over.                               *)
ProgramReturns ==
  /\ \E op \in {"drain", "continuation", "handler"} : Return(op)
  /\ UNCHANGED <<hostVars, realm, context, stopHook, scheduler, jobVars, listenerVars>>

-----------------------------------------------------------------------------
(* Blink dispatches an event to the listeners registered now, from a task  *)
(* of its own or because a program's call fires it.  The bound leaves room *)
(* for the handlers it invokes.                                            *)
FireEvent ==
  /\ Len(stack) + 1 < MaxDepth /\ (Idle \/ InProgram)
  /\ \E ls \in SUBSET {l \in Listeners : listener[l] = "listening"} :
       ls # {} /\ stack' = Append(stack, Call("event", None, ls))
  /\ UNCHANGED <<hostVars, realm, context, stopHook, scheduler, jobVars, listenerVars, current>>

(* Invoke: a listener cancelled meanwhile was detached and does nothing;   *)
(* the realm must be alive and its context the one the event is for.       *)
Invocable(l) == target[l] # None /\ realm[target[l]] = "alive" /\ target[l] \in context

Invoke(l) ==
  /\ ~ Idle /\ Top.op = "event" /\ l \in Top.left
  /\ LET rest == [stack EXCEPT ![Len(stack)].left = @ \ {l}] IN
       IF Invocable(l)
       THEN /\ stack' = Append(rest, Call("handler", target[l], {})) /\ current' = target[l]
       ELSE stack' = rest /\ UNCHANGED current
  /\ UNCHANGED <<hostVars, realm, context, stopHook, scheduler, jobVars, listenerVars>>

EventDone ==
  /\ ~ Idle /\ Top.op = "event" /\ Top.left = {}
  /\ stack' = Front(stack)
  /\ UNCHANGED <<hostVars, realm, context, stopHook, scheduler, jobVars, listenerVars, current>>

(* RunHostedJob, at a microtask checkpoint: after a task, or inside a      *)
(* program's call that ran a script.  A job is run even when its realm is  *)
(* gone; only a living realm is made current for it.                       *)
Installs(j) == realm[jobRealm[j]] = "alive"

FaultySettled(j) ==
  IF ~ Installs(j) THEN job[j] ELSE IF job[j] = "cancelled" THEN "freed" ELSE "ran"
Settled(j) == IF job[j] = "cancelled" THEN "freed" ELSE "ran"

RunHostedJob ==
  /\ microtasks # <<>> /\ Room /\ (Idle \/ InProgram)
  /\ microtasks' = Tail(microtasks)
  /\ LET j == Head(microtasks) IN
       /\ job' = [job EXCEPT ![j] = Settled(j)]
       /\ IF job[j] = "cancelled"
          THEN UNCHANGED <<stack, current>>
          ELSE IF Installs(j)
               THEN Enter("continuation", jobRealm[j])
               ELSE stack' = Append(stack, Call("continuation", None, {})) /\ UNCHANGED current
  /\ UNCHANGED <<hostVars, realm, context, stopHook, scheduler, jobRealm, listenerVars>>

(* DrainScriptCCallback: a task of a host that is gone, or whose realm is  *)
(* not alive, does nothing.                                                *)
FaultyMayDrain(h) == host[h] = "started" /\ h \in configured
MayDrain(h) == host[h] = "started" /\ h \in configured /\ realm[h] = "alive"

Drain(h) ==
  /\ Idle /\ drains[h] > 0
  /\ drains' = [drains EXCEPT ![h] = @ - 1]
  /\ IF MayDrain(h) /\ pending > 0
     THEN pending' = pending - 1 /\ Enter("drain", h)
     ELSE UNCHANGED <<pending, stack, current>>
  /\ UNCHANGED <<host, observer, serviceVars, realm, context, stopHook, scheduler, jobVars, listenerVars>>

Next ==
  \/ \E h \in Hosts : StartHost(h) \/ DestroyHost(h) \/ DestroyContext(h) \/ Drain(h)
  \/ ConfigureScheduler \/ ConfigureCallbacks \/ Started \/ StartFailed \/ Shutdown
  \/ Invalidated \/ ProgramReturns
  \/ \E j \in Jobs : Await(j)
  \/ \E l \in Listeners : Listen(l) \/ Dispose(l) \/ ReleaseCaptured(l) \/ Invoke(l)
  \/ Emit \/ FireEvent \/ EventDone \/ RunHostedJob

(* Blink ends every task with a microtask checkpoint, and what the program *)
(* is called for ends; so does the dispatch of an event.                   *)
Returns == ConfigureScheduler \/ ConfigureCallbacks \/ Started \/ StartFailed \/ Shutdown
           \/ Invalidated \/ ProgramReturns \/ EventDone \/ \E l \in Listeners : Invoke(l)

Spec == Init /\ [][Next]_vars /\ WF_vars(Returns) /\ SF_vars(RunHostedJob)

-----------------------------------------------------------------------------
TypeOK ==
  /\ host \in [Hosts -> {"none", "starting", "started", "stopping", "gone"}]
  /\ realm \in [Hosts -> {"none", "alive", "invalid", "deleted"}]
  /\ context \subseteq Hosts /\ observer \subseteq Hosts /\ stopHook \subseteq Hosts
  /\ scheduler \in Hosts \cup {None} /\ service \in Hosts \cup {None}
  /\ accepting \in BOOLEAN /\ configured \subseteq Hosts
  /\ pending \in 0..MaxPending /\ drains \in [Hosts -> 0..MaxPending]
  /\ job \in [Jobs -> {"unused", "queued", "cancelled", "ran", "freed"}]
  /\ microtasks \in Seq(Jobs) /\ jobRealm \in [Jobs -> Hosts \cup {None}]
  /\ listener \in [Listeners -> {"unused", "listening", "detached"}]
  /\ target \in [Listeners -> Hosts \cup {None}]
  /\ stack \in Seq([op : ProgramCalls \cup OtherCalls, host : Hosts \cup {None},
                     saved : Hosts \cup {None}, left : SUBSET Listeners])
  /\ current \in Hosts \cup {None}

(* The raw pointers that outlive a call never lead to a realm or a host    *)
(* that was deleted: the scheduler's context, the observer's, those of     *)
(* registered listeners ("safe by contract", nts_blink_event_listener.h),  *)
(* and the current realm with every realm a scope will restore.  The       *)
(* service may still name a deleted host, when it did not quiesce, but     *)
(* never while it admits deliveries or has any: it does not wake that host.*)
RealmPointersLive ==
  LET exists(h) == h = None \/ realm[h] \in {"alive", "invalid"} IN
  /\ exists(scheduler)
  /\ accepting \/ pending > 0 => service # None /\ host[service] \notin {"none", "gone"}
  /\ \A h \in observer : exists(h)
  /\ \A l \in Listeners : exists(target[l])
  /\ exists(current) /\ \A i \in DOMAIN stack : exists(stack[i].saved)
  /\ Idle => current = None

(* The same of the service at any time, which the host does not guarantee: *)
(* a destroy that fails is logged and the host deleted all the same.       *)
WakeContextLive == service # None => host[service] \notin {"none", "gone"}

(* "Only an alive realm may be installed for capsules reached by an        *)
(* accepted continuation", and likewise for a drain and a listener: the    *)
(* program is entered in its own, living realm, whatever was current.      *)
EntersLiveRealm ==
  [][Len(stack') > Len(stack) /\ Last(stack').op \in {"continuation", "drain", "handler"} =>
       LET h == Last(stack').host IN h \in Hosts /\ current' = h /\ realm[h] = "alive"]_vars

(* Admission belongs to a living realm.  Invalidation closes it first:     *)
(* while a realm's continuations are released, and ever after, also once a *)
(* refused start was rolled back, nothing of it is in the scheduler, and   *)
(* of the jobs queued before only the cancellation is left.  Until then a  *)
(* started host keeps the scheduler, and till its shutdown the service,    *)
(* whatever other hosts try.                                               *)
AdmissionOwned ==
  \A h \in Hosts :
    LET open == /\ realm[h] = "alive"
                /\ ~ \E i \in DOMAIN stack : stack[i].op = "invalidate" /\ stack[i].host = h IN
    /\ ~ open =>
         /\ scheduler # h /\ h \notin stopHook
         /\ \A j \in Jobs : jobRealm[j] = h => job[j] # "queued"
    /\ host[h] = "started" => service = h /\ accepting /\ (open => scheduler = h)

(* "The runtime job owns its scheduler/frame payload and therefore must    *)
(* run even after the realm has died": each accepted job gets its turn,    *)
(* once, as a continuation or as its own cancellation.                     *)
JobsSettle ==
  \A j \in Jobs : job[j] \in {"queued", "cancelled"} ~> job[j] \in {"ran", "freed"}
=============================================================================

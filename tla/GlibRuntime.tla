---------------------------- MODULE GlibRuntime ----------------------------
(***************************************************************************)
(* nts_glib_runtime.c and nts_gtk_application.c: the adapter that lets     *)
(* ScriptC's loop run on a GMainContext.  A wake attaches an idle source   *)
(* that holds a reference to the adapter; the owner thread polls the       *)
(* context and each source delivers at most one event.                     *)
(*                                                                         *)
(* ScriptC's retained-callback service, its loop and GLib are outside.     *)
(* The service wakes when an admission finds the queue empty and when a    *)
(* dispatch leaves events behind (tests/fixtures/glib-runtime.c stands in  *)
(* for it so); its destroy succeeds when neither an event, nor a live      *)
(* registration, nor an admission in progress is left.  An iteration of    *)
(* the context dispatches the sources it found ready and blocks without.   *)
(***************************************************************************)
EXTENDS Naturals

CONSTANTS Producers,      \* foreign threads
          MaxAdmissions,  \* bound on events
          MaxAdapters     \* bound on calls of nts_gtk_application_start

ASSUME BoundsAssumption ==
  MaxAdmissions \in Nat /\ MaxAdapters \in Nat \ {0}

Adapters == 1..MaxAdapters
None == 0

VARIABLES
  adapter,    \* per adapter: its references and flags
  current,    \* nts_gtk_application_runtime
  created,    \* adapters allocated so far
  sources,    \* per adapter: its idle sources attached to the context
  batch,      \* per adapter: those the iteration in hand will dispatch
  dispatching, \* the adapter whose source is being dispatched
  wakeup,     \* g_main_context_wakeup is pending
  deadline,   \* the poll in hand has a deadline (max_wait_ms >= 0)
  owner,      \* the owner thread
  service,    \* the retained-callback service; wake is its wake context
  attachedTo, \* the adapter attached to ScriptC's loop
  thread,     \* per foreign thread, what it is doing and with which adapter
  admissions

vars == <<adapter, current, created, sources, batch, dispatching, wakeup, deadline, owner,
          service, attachedTo, thread, admissions>>

application == <<current, created, attachedTo>>
iteration == <<batch, dispatching, deadline>>
events == <<service, thread, admissions>>
memory == <<adapter, sources>>

Fresh == [refs |-> 1, active |-> TRUE, loopPending |-> TRUE, failed |-> FALSE]
Unallocated == [Fresh EXCEPT !.refs = 0, !.active = FALSE, !.loopPending = FALSE]
NoService == [wake |-> None, accepting |-> FALSE, queue |-> 0, live |-> FALSE]
Resting == [at |-> "idle", with |-> None]

TypeOK ==
  /\ adapter \in [Adapters -> [refs : Nat, active : BOOLEAN, loopPending : BOOLEAN,
                               failed : BOOLEAN]]
  /\ {current, dispatching, attachedTo} \subseteq Adapters \cup {None}
  /\ created \in 0..MaxAdapters
  /\ sources \in [Adapters -> Nat] /\ batch \in [Adapters -> Nat]
  /\ {wakeup, deadline} \subseteq BOOLEAN
  /\ owner \in {"top", "loop", "poll", "iterate", "callback", "checkpoint", "ended"}
  /\ service \in [wake : Adapters \cup {None}, accepting : BOOLEAN,
                  queue : 0..MaxAdmissions, live : BOOLEAN]
  /\ thread \in [Producers -> [at : {"idle", "wake", "attach", "stop"},
                               with : Adapters \cup {None}]]
  /\ admissions \in 0..MaxAdmissions

Init ==
  /\ adapter = [r \in Adapters |-> Unallocated]
  /\ current = None /\ created = 0
  /\ sources = [r \in Adapters |-> 0] /\ batch = [r \in Adapters |-> 0]
  /\ dispatching = None /\ wakeup = FALSE /\ deadline = FALSE
  /\ owner = "top"
  /\ service = NoService /\ attachedTo = None
  /\ thread = [p \in Producers |-> Resting]
  /\ admissions = 0

-----------------------------------------------------------------------------
(* Definitions named Faulty... are bugs the code could have had; each run  *)
(* is also made with one of them in place of the definition that follows   *)
(* it, to show that the property in question notices.                      *)

FaultyReleased(r) == adapter

(* nts_glib_runtime_release: at 0 the adapter is freed.                    *)
Released(r) == [adapter EXCEPT ![r].refs = @ - 1]

FaultyRetained(r) == adapter
Retained(r) == [adapter EXCEPT ![r].refs = @ + 1]

(* The second half of nts_glib_runtime_wake: a fresh idle source, which    *)
(* also ends a blocked iteration.                                          *)
AttachSource(r) ==
  /\ adapter' = Retained(r)
  /\ sources' = [sources EXCEPT ![r] = @ + 1]

(* nts_glib_runtime_wake on the owner thread.                              *)
Wake(r) == IF adapter[r].active THEN AttachSource(r) ELSE UNCHANGED <<adapter, sources>>

(* nts_glib_runtime_report, once the sink has consumed the exception.      *)
Report(map, r) ==
  /\ adapter' = [map EXCEPT ![r].failed = TRUE, ![r].loopPending = FALSE]
  /\ wakeup' = TRUE

-----------------------------------------------------------------------------
(* Foreign threads.                                                        *)

(* An admission, and the two steps of the wake it may owe.                 *)
Admit(p) ==
  /\ thread[p] = Resting /\ admissions < MaxAdmissions
  /\ service.accepting /\ service.live
  /\ admissions' = admissions + 1
  /\ service' = [service EXCEPT !.queue = @ + 1]
  /\ thread' = [thread EXCEPT ![p] =
        IF service.queue = 0 THEN [at |-> "wake", with |-> service.wake] ELSE Resting]
  /\ UNCHANGED <<application, iteration, memory, wakeup, owner>>

ReadActive(p) ==
  /\ thread[p].at = "wake"
  /\ thread' = [thread EXCEPT ![p] =
        IF adapter[thread[p].with].active THEN [@ EXCEPT !.at = "attach"] ELSE Resting]
  /\ UNCHANGED <<application, iteration, memory, wakeup, owner, service, admissions>>

Attach(p) ==
  /\ thread[p].at = "attach"
  /\ AttachSource(thread[p].with)
  /\ thread' = [thread EXCEPT ![p] = Resting]
  /\ UNCHANGED <<application, iteration, wakeup, owner, service, admissions>>

(* nts_glib_runtime_request_stop: the flag first, then the wakeup.         *)
ClearPending(r) == adapter' = [adapter EXCEPT ![r].loopPending = FALSE] /\ UNCHANGED wakeup

FaultyWakeContext == UNCHANGED <<adapter, wakeup>>
WakeContext == wakeup' = TRUE /\ UNCHANGED adapter

RequestStop(p) ==
  /\ thread[p] = Resting /\ current # None
  /\ thread' = [thread EXCEPT ![p] = [at |-> "stop", with |-> current]]
  /\ ClearPending(current)
  /\ UNCHANGED <<application, iteration, sources, owner, service, admissions>>

WakeStopped(p) ==
  /\ thread[p].at = "stop"
  /\ thread' = [thread EXCEPT ![p] = Resting]
  /\ WakeContext
  /\ UNCHANGED <<application, iteration, sources, owner, service, admissions>>

-----------------------------------------------------------------------------
(* nts_gtk_application_start and nts_gtk_application_shutdown.             *)

(* A failure to attach or to configure is rolled back and the adapter      *)
(* detached again.                                                         *)
StartApplication ==
  /\ owner = "top" /\ current = None /\ created < MaxAdapters
  /\ created' = created + 1
  /\ \/ /\ service.wake = None /\ attachedTo = None
        /\ adapter' = [adapter EXCEPT ![created + 1] = Fresh]
        /\ current' = created + 1 /\ attachedTo' = created + 1
        /\ service' = [NoService EXCEPT !.wake = created + 1, !.accepting = TRUE]
        /\ UNCHANGED wakeup
     \/ /\ wakeup' = TRUE
        /\ UNCHANGED <<adapter, current, attachedTo, service>>
  /\ UNCHANGED <<iteration, sources, owner, thread, admissions>>

NoAdmissionInProgress == \A p \in Producers : thread[p].at \notin {"wake", "attach"}

CanDestroy == service.queue = 0 /\ ~service.live

(* stop_accepting, destroy, and detach whatever destroy says.  By now the  *)
(* program has stopped its producers ("native event producers must be       *)
(* stopped separately") and nobody calls request_stop with an adapter he    *)
(* is about to lose; queued events and connected handlers may be left.     *)
Shutdown ==
  /\ owner \in {"top", "ended"} /\ current # None
  /\ \A p \in Producers : thread[p].at # "stop"
  /\ NoAdmissionInProgress
  /\ service' = IF CanDestroy THEN NoService ELSE [service EXCEPT !.accepting = FALSE]
  /\ adapter' = [Released(current) EXCEPT ![current].active = FALSE,
                                         ![current].loopPending = FALSE]
  /\ wakeup' = TRUE
  /\ current' = None /\ attachedTo' = None
  /\ UNCHANGED <<iteration, created, sources, owner, thread, admissions>>

-----------------------------------------------------------------------------
(* What TypeScript and native handlers do on the owner thread.             *)
InProgram == owner \in {"top", "callback"}

(* A handler is connected or disconnected.                                 *)
Connect ==
  /\ InProgram /\ (service.live \/ service.accepting)
  /\ service' = [service EXCEPT !.live = ~@]
  /\ UNCHANGED <<application, iteration, memory, wakeup, owner, thread, admissions>>

(* nts_gtk_application_quit.                                               *)
Quit ==
  /\ InProgram /\ current # None
  /\ adapter' = [adapter EXCEPT ![current].loopPending = FALSE]
  /\ wakeup' = TRUE
  /\ UNCHANGED <<application, iteration, events, sources, owner>>

(* A native signal on the owner thread admits an event: inside a call from *)
(* TypeScript, or from a GTK source of the iteration.                      *)
OwnerAdmits ==
  /\ InProgram \/ owner = "poll"
  /\ admissions < MaxAdmissions /\ service.accepting /\ service.live
  /\ admissions' = admissions + 1
  /\ service' = [service EXCEPT !.queue = @ + 1]
  /\ IF service.queue = 0 THEN Wake(service.wake) ELSE UNCHANGED <<adapter, sources>>
  /\ IF owner = "poll" THEN owner' = "iterate" /\ batch' = sources
     ELSE UNCHANGED <<owner, batch>>
  /\ UNCHANGED <<application, dispatching, wakeup, deadline, thread>>

TopReturns ==
  /\ owner = "top"
  /\ owner' = IF attachedTo = None THEN "ended" ELSE "loop"
  /\ UNCHANGED <<application, iteration, events, memory, wakeup>>

-----------------------------------------------------------------------------
(* ScriptC's loop and nts_glib_runtime_poll.                               *)

(* nts_glib_runtime_loop_pending.                                          *)
LoopPending(r) == adapter[r].active /\ (adapter[r].loopPending \/ service.queue # 0)

(* The loop polls while the adapter is pending or a timer is armed, up to  *)
(* the timer's deadline.                                                   *)
LoopPolls ==
  /\ owner = "loop"
  /\ owner' = "poll"
  /\ deadline' \in {~LoopPending(attachedTo), TRUE}
  /\ UNCHANGED <<application, events, memory, batch, dispatching, wakeup>>

LoopEnds ==
  /\ owner = "loop" /\ ~LoopPending(attachedTo)
  /\ owner' = "ended"
  /\ UNCHANGED <<application, iteration, events, memory, wakeup>>

Ready == wakeup \/ \E r \in Adapters : sources[r] > 0

(* One g_main_context_iteration; GTK code may also iterate the context     *)
(* once the application is shut down.                                      *)
Iterate ==
  /\ owner = "poll" \/ (owner = "ended" /\ current = None)
  /\ Ready
  /\ owner' = "iterate"
  /\ batch' = sources /\ wakeup' = FALSE
  /\ UNCHANGED <<application, events, memory, dispatching, deadline>>

(* The deadline source ends a blocked iteration when a timer is due.       *)
PollTimesOut ==
  /\ owner = "poll" /\ ~Ready /\ deadline
  /\ owner' = "loop"
  /\ UNCHANGED <<application, iteration, events, memory, wakeup>>

FaultyMayEnter(r) == adapter[r].loopPending

MayEnter(r) == adapter[r].active

(* nts_glib_runtime_dispatch: nothing for a detached adapter, nothing when *)
(* the queue is empty, else one event.                                     *)
Dispatch(r) ==
  /\ owner = "iterate" /\ batch[r] > 0
  /\ batch' = [batch EXCEPT ![r] = @ - 1]
  /\ IF ~MayEnter(r) \/ service.queue = 0
     THEN /\ sources' = [sources EXCEPT ![r] = @ - 1]
          /\ adapter' = Released(r)
          /\ UNCHANGED <<dispatching, owner, service>>
     ELSE LET w == service.wake
              more == service.queue > 1 /\ adapter[w].active IN
          /\ dispatching' = r /\ owner' = "callback"
          /\ service' = [service EXCEPT !.queue = @ - 1]
          /\ adapter' = IF more THEN Retained(w) ELSE adapter
          /\ sources' = [q \in Adapters |-> sources[q] - (IF q = r THEN 1 ELSE 0)
                                                       + (IF more /\ q = w THEN 1 ELSE 0)]
  /\ UNCHANGED <<application, wakeup, deadline, thread, admissions>>

CallbackEnds ==
  /\ owner = "callback"
  /\ owner' = "checkpoint"
  /\ UNCHANGED <<adapter, wakeup>> \/ Report(adapter, dispatching)
  /\ UNCHANGED <<application, iteration, events, sources>>

(* The checkpoint, and the end of the source.                              *)
Checkpoint ==
  /\ owner = "checkpoint"
  /\ owner' = "iterate" /\ dispatching' = None
  /\ (adapter' = Released(dispatching) /\ UNCHANGED wakeup) \/ Report(Released(dispatching), dispatching)
  /\ UNCHANGED <<application, events, sources, batch, deadline>>

(* A failed poll ends ScriptC's loop.                                      *)
IterationEnds ==
  /\ owner = "iterate" /\ \A r \in Adapters : batch[r] = 0
  /\ owner' = IF attachedTo = None \/ adapter[attachedTo].failed THEN "ended" ELSE "loop"
  /\ UNCHANGED <<application, iteration, events, memory, wakeup>>

-----------------------------------------------------------------------------
OwnerStep ==
  \/ TopReturns \/ LoopPolls \/ LoopEnds \/ Iterate \/ PollTimesOut \/ IterationEnds
  \/ \E r \in Adapters : Dispatch(r)
  \/ CallbackEnds \/ Checkpoint

Next ==
  \/ OwnerStep
  \/ StartApplication \/ Shutdown \/ Connect \/ Quit \/ OwnerAdmits
  \/ \E p \in Producers :
       Admit(p) \/ ReadActive(p) \/ Attach(p) \/ RequestStop(p) \/ WakeStopped(p)

(* Threads run and timers end: a loop with nothing pending may poll for a  *)
(* timer, but not for ever.                                                *)
Spec ==
  /\ Init /\ [][Next]_vars
  /\ WF_vars(OwnerStep) /\ SF_vars(LoopEnds)
  /\ \A p \in Producers : WF_vars(ReadActive(p) \/ Attach(p) \/ WakeStopped(p))

-----------------------------------------------------------------------------
(* An adapter's references are its owner's, its attached sources' and the  *)
(* one being dispatched: none is freed under a source, none is leaked once *)
(* a context has dropped its last source.                                  *)
ReferencesExact ==
  \A r \in Adapters :
    adapter[r].refs = sources[r] + (IF current = r THEN 1 ELSE 0)
                                + (IF dispatching = r THEN 1 ELSE 0)

(* "Prevents already-scheduled GLib sources from entering ScriptC": a      *)
(* source of a detached adapter delivers nothing, also when the            *)
(* application has been started again.                                     *)
StaleSourceSilent == dispatching # None => dispatching = current

(* A source keeps its adapter alive and cannot use it once it is not the   *)
(* application's any more.                                                 *)
AdaptersExact == ReferencesExact /\ StaleSourceSilent

(* An admitted event is delivered while the loop runs.                     *)
EventsDelivered ==
  (service.queue > 0 /\ owner # "ended") ~> (service.queue = 0 \/ owner = "ended")

(* request_stop "ends attached-loop liveness and wakes a blocked owner     *)
(* poll", from whatever thread it comes.                                   *)
StopEnds ==
  (owner \in {"loop", "poll"} /\ current # None /\ ~adapter[current].loopPending)
    ~> (owner = "ended")
=============================================================================

----------------------------- MODULE JvmRuntime -----------------------------
(***************************************************************************)
(* nts_jvm_runtime.c: the owner thread of a JVM program.  Three products   *)
(* share the file:                                                         *)
(*   executable  the program creates the JVM and ScriptC's loop polls      *)
(*   spawned     a JVM loads the library: JNI_OnLoad spawns an owner that  *)
(*               binds, runs the top level and parks in the pump           *)
(*   inPlace     the loading thread is the owner; the platform calls in    *)
(* Foreign threads admit callback events and wake the pump.                *)
(*                                                                         *)
(* ScriptC's retained-callback service and loop are outside: an admission  *)
(* wakes when the queue was empty, a dispatch takes one event and wakes    *)
(* again when more are left (as tests/fixtures/glib-runtime.c stands in    *)
(* for them), destroy succeeds when neither work nor a registration is     *)
(* left.  An environment pointer is the number of the VM it belongs to.    *)
(***************************************************************************)
EXTENDS Naturals

CONSTANTS Products,      \* the products checked
          Packages,      \* binding packages registered at image load
          Producers,     \* foreign threads
          MaxAdmissions, \* bound on events
          MaxStarts,     \* bound on calls of applicationStart
          StopInTurn,    \* may a callback call applicationStop?
          HostedRestart  \* may an adopted program start again after a stop?

ASSUME BoundsAssumption ==
  /\ Products \subseteq {"executable", "spawned", "inPlace"}
  /\ {Packages, MaxAdmissions, MaxStarts} \subseteq Nat
  /\ {StopInTurn, HostedRestart} \subseteq BOOLEAN

VARIABLES
  product,
  vm,             \* nts_jvm_vm; 0 is NULL
  env,            \* the owner's nts_jvm_thread_env; 0 is NULL
  saved,          \* previous_env of the turn in hand
  adopted, servicesReady, ownerKnown, failed,   \* the file's flags
  bound,          \* packages bound so far
  boot,           \* nts_jvm_boot
  woken,          \* nts_jvm_loop.woken
  signaled,       \* the condition variable was signalled under the waiter
  owner, loader,  \* where the two threads are
  producer,       \* per foreign thread: "idle" or "waking"
  service,        \* the retained-callback service
  attached,       \* the pump is the loop's attached source
  startResult, starts,   \* what applicationStart last returned, and its calls
  admissions,
  exit            \* how the process ended

vars == <<product, vm, env, saved, adopted, servicesReady, ownerKnown, failed, bound,
          boot, woken, signaled, owner, loader, producer, service, attached,
          startResult, starts, admissions, exit>>

hosting == <<product, adopted, ownerKnown, bound, boot, loader>>
program == <<startResult, starts>>
pump == <<woken, signaled, producer, admissions>>

Idle == [configured |-> FALSE, accepting |-> FALSE, queue |-> 0, live |-> FALSE]
Configured == [Idle EXCEPT !.configured = TRUE, !.accepting = TRUE]

TypeOK ==
  /\ product \in Products
  /\ {vm, env, saved} \subseteq 0..MaxStarts + 1
  /\ {adopted, servicesReady, ownerKnown, failed, woken, signaled, attached} \subseteq BOOLEAN
  /\ bound \in 0..Packages
  /\ boot \in [bound : BOOLEAN, failed : BOOLEAN]
  /\ owner \in {"absent", "attach", "bind", "services", "top", "platform", "turn", "loop",
                "poll", "waiting", "dispatch", "callback", "checkpoint", "dead"}
  /\ loader \in {"none", "waiting", "ok", "error"}
  /\ producer \in [Producers -> {"idle", "waking"}]
  /\ service \in [configured : BOOLEAN, accepting : BOOLEAN,
                  queue : 0..MaxAdmissions, live : BOOLEAN]
  /\ startResult \in {"none", "ok", "error"} /\ starts \in 0..MaxStarts
  /\ admissions \in 0..MaxAdmissions
  /\ exit \in {"none", "ok", "failed", "ended"}

Init ==
  /\ product \in Products
  /\ vm = 0 /\ env = 0 /\ saved = 0 /\ bound = 0
  /\ adopted = FALSE /\ servicesReady = FALSE /\ ownerKnown = FALSE /\ failed = FALSE
  /\ boot = [bound |-> FALSE, failed |-> FALSE]
  /\ woken = FALSE /\ signaled = FALSE
  /\ owner = IF product = "executable" THEN "top" ELSE "absent"
  /\ loader = "none"
  /\ producer = [p \in Producers |-> "idle"]
  /\ service = Idle /\ attached = FALSE
  /\ startResult = "none" /\ starts = 0 /\ admissions = 0
  /\ exit = "none"

-----------------------------------------------------------------------------
(* The pump's condition variable; both critical sections are one step.     *)

(* Definitions named Faulty... are bugs the code could have had; each run  *)
(* is also made with one of them in place of the definition that follows   *)
(* it, to show that the property in question notices.                      *)
FaultyWake == woken' = TRUE /\ UNCHANGED signaled

(* nts_jvm_runtime_wake.                                                   *)
Wake == woken' = TRUE /\ signaled' = (signaled \/ owner = "waiting")

(* A foreign thread's admission: counted first ...                         *)
Admit(p) ==
  /\ producer[p] = "idle" /\ admissions < MaxAdmissions
  /\ service.accepting /\ service.live
  /\ admissions' = admissions + 1
  /\ service' = [service EXCEPT !.queue = @ + 1]
  /\ producer' = [producer EXCEPT ![p] = IF service.queue = 0 THEN "waking" ELSE "idle"]
  /\ UNCHANGED <<hosting, program, vm, env, saved, servicesReady, failed, woken, signaled,
                 owner, attached, exit>>

(* ... and the wake comes later.                                           *)
CallWake(p) ==
  /\ producer[p] = "waking"
  /\ producer' = [producer EXCEPT ![p] = "idle"]
  /\ Wake
  /\ UNCHANGED <<hosting, program, vm, env, saved, servicesReady, failed, owner,
                 service, attached, admissions, exit>>

(* nts_jvm_runtime_pending.                                                *)
Pending == service.queue # 0

(* ScriptC's loop polls while work is pending or a timer is armed, and     *)
(* ends otherwise.                                                         *)
LoopPolls ==
  /\ owner = "loop" /\ attached
  /\ owner' = "poll"
  /\ UNCHANGED <<hosting, program, pump, vm, env, saved, servicesReady, failed, service,
                 attached, exit>>

LoopEnds ==
  /\ owner = "loop" /\ ~(attached /\ Pending)
  /\ exit' = "ended"
  /\ UNCHANGED <<hosting, program, pump, vm, env, saved, servicesReady, failed, owner,
                 service, attached>>

(* The rest of nts_jvm_runtime_poll up to the dispatch: the flag is reset  *)
(* under the mutex and nts_jvm_env_enter_current takes the environment.    *)
EnterTurn ==
  /\ woken' = FALSE /\ signaled' = FALSE
  /\ saved' = env
  /\ env' = IF env # 0 THEN env ELSE vm
  /\ owner' = "dispatch"

MustWait == ~woken /\ ~Pending

PollEnters ==
  /\ owner = "poll"
  /\ \/ /\ ~MustWait \/ product = "executable"     \* a due timer: max_wait_ms = 0
        /\ EnterTurn
     \/ /\ MustWait
        /\ owner' = "waiting"
        /\ UNCHANGED <<woken, signaled, env, saved>>
  /\ UNCHANGED <<hosting, program, vm, servicesReady, failed, producer, service,
                 attached, admissions, exit>>

(* Signalled; or the timer's deadline, or a spurious wake-up.              *)
PollWakes ==
  /\ owner = "waiting" /\ signaled
  /\ EnterTurn
  /\ UNCHANGED <<hosting, program, vm, servicesReady, failed, producer, service,
                 attached, admissions, exit>>

PollTimesOut ==
  /\ owner = "waiting" /\ ~signaled
  /\ EnterTurn
  /\ UNCHANGED <<hosting, program, vm, servicesReady, failed, producer, service,
                 attached, admissions, exit>>

(* scr_retained_callbacks_dispatch: at most one event.                     *)
Dispatch ==
  /\ owner = "dispatch"
  /\ IF service.queue = 0
     THEN owner' = "checkpoint" /\ UNCHANGED <<service, woken, signaled>>
     ELSE /\ owner' = "callback"
          /\ service' = [service EXCEPT !.queue = @ - 1]
          /\ IF service.queue > 1 THEN Wake ELSE UNCHANGED <<woken, signaled>>
  /\ UNCHANGED <<hosting, program, vm, env, saved, servicesReady, failed, producer,
                 attached, admissions, exit>>

(* The callback returns or throws; a throw is noted and the turn goes on.  *)
CallbackEnds ==
  /\ owner = "callback"
  /\ owner' = "checkpoint"
  /\ failed' \in {failed, TRUE}
  /\ UNCHANGED <<hosting, program, pump, vm, env, saved, servicesReady, service, attached, exit>>

(* The checkpoint may fail too; nts_jvm_env_leave ends the turn.           *)
Checkpoint ==
  /\ owner = "checkpoint"
  /\ failed' \in {failed, TRUE}
  /\ env' = saved
  /\ owner' = IF product = "executable" THEN "loop" ELSE "poll"
  /\ UNCHANGED <<hosting, program, pump, vm, saved, servicesReady, service, attached, exit>>

-----------------------------------------------------------------------------
(* The services and the boot.                                              *)

FaultyRollback == Configured

(* What a failed attachment leaves: scr_retained_callbacks_destroy.        *)
Rollback == Idle

Refusal == "error"

(* configure and set_attached, in this order.  configure refuses a service *)
(* that is still configured; both may fail for reasons of their own.       *)
Configure(result) ==
  \/ /\ result = "ok" /\ ~service.configured /\ ~attached
     /\ service' = Configured /\ attached' = TRUE
  \/ /\ result = "error" /\ ~service.configured
     /\ service' = Rollback /\ UNCHANGED attached
  \/ result = Refusal /\ UNCHANGED <<service, attached>>

(* nts_jvm_start_services.                                                 *)
StartServices(result) ==
  IF servicesReady
  THEN result = "ok" /\ UNCHANGED <<service, attached, servicesReady>>
  ELSE Configure(result) /\ servicesReady' = (result = "ok")

FaultyBootSignal(hasFailed) ==
  boot' = IF hasFailed THEN boot ELSE [bound |-> TRUE, failed |-> FALSE]

(* nts_jvm_boot_signal; the in-place boot has no one to tell.              *)
BootSignal(hasFailed) == boot' = [bound |-> TRUE, failed |-> hasFailed]

(* The owner gives up: the spawned one reports and its thread ends, the    *)
(* in-place one returns JNI_ERR.                                           *)
BootFails ==
  /\ owner' = "dead" /\ env' = 0
  /\ IF product = "spawned"
     THEN BootSignal(TRUE) /\ UNCHANGED <<vm, loader>>
     ELSE vm' = 0 /\ loader' = "error" /\ UNCHANGED boot

(* JNI_OnLoad.                                                             *)
OnLoad ==
  /\ product # "executable" /\ loader = "none"
  /\ \/ /\ vm' = 1 /\ adopted' = TRUE
        /\ owner' = "attach" /\ loader' = "waiting"
     \/ /\ product = "spawned"             \* pthread_create fails
        /\ adopted' = TRUE /\ loader' = "error" /\ UNCHANGED <<vm, owner>>
  /\ UNCHANGED <<program, pump, product, env, saved, ownerKnown, bound, boot, servicesReady,
                 failed, service, attached, exit>>

FaultyMayReturn == TRUE

MayReturn == boot.bound

(* The spawning loader's wait.                                             *)
LoaderReturns ==
  /\ product = "spawned" /\ loader = "waiting" /\ MayReturn
  /\ IF boot.failed
     THEN loader' = "error" /\ vm' = 0 /\ adopted' = FALSE
     ELSE loader' = "ok" /\ UNCHANGED <<vm, adopted>>
  /\ UNCHANGED <<program, pump, product, env, saved, ownerKnown, bound, boot, servicesReady,
                 failed, owner, service, attached, exit>>

(* Claim the instance, attach (or GetEnv) ...                              *)
OwnerAttaches ==
  /\ owner = "attach"
  /\ ownerKnown' = TRUE
  /\ \/ owner' = "bind" /\ env' = vm /\ UNCHANGED <<vm, loader, boot>>
     \/ BootFails
  /\ UNCHANGED <<program, pump, product, saved, adopted, bound, servicesReady, failed,
                 service, attached, exit>>

FaultyBindsLeft == bound <= Packages

BindsLeft == bound < Packages

(* ... bind the packages one by one ...                                    *)
OwnerBinds ==
  /\ owner = "bind"
  /\ IF BindsLeft
     THEN \/ bound' = bound + 1 /\ UNCHANGED <<owner, env, vm, loader, boot>>
          \/ BootFails /\ UNCHANGED bound
     ELSE owner' = "services" /\ UNCHANGED <<bound, env, vm, loader, boot>>
  /\ UNCHANGED <<program, pump, product, saved, adopted, ownerKnown, servicesReady, failed,
                 service, attached, exit>>

(* ... start the services, let the loader go and run the top level.        *)
OwnerServes ==
  /\ owner = "services"
  /\ \/ StartServices("error") /\ BootFails
     \/ /\ StartServices("ok")
        /\ owner' = "top" /\ UNCHANGED <<env, vm, loader>>
        /\ IF product = "spawned" THEN BootSignal(FALSE) ELSE UNCHANGED boot
  /\ UNCHANGED <<program, pump, product, saved, adopted, ownerKnown, bound, failed, exit>>

(* The top level returns: to the loop, to the park, or to the platform.    *)
TopReturns ==
  /\ owner = "top"
  /\ owner' = CASE product = "executable" -> "loop"
                [] product = "spawned" -> "poll"
                [] product = "inPlace" -> "platform"
  /\ IF product = "inPlace" THEN env' = 0 /\ loader' = "ok" ELSE UNCHANGED <<env, loader>>
  /\ UNCHANGED <<program, pump, product, vm, saved, adopted, ownerKnown, bound, boot,
                 servicesReady, failed, service, attached, exit>>

(* A generated trampoline brackets a platform callback with its own        *)
(* environment.                                                            *)
PlatformCalls ==
  /\ owner = "platform"
  /\ owner' = "turn" /\ saved' = env /\ env' = vm
  /\ UNCHANGED <<hosting, program, pump, vm, servicesReady, failed, service, attached, exit>>

PlatformReturns ==
  /\ owner = "turn"
  /\ owner' = "platform" /\ env' = saved
  /\ UNCHANGED <<hosting, program, pump, vm, saved, servicesReady, failed, service, attached, exit>>

-----------------------------------------------------------------------------
(* What the program may call from its top level or from a callback.        *)
InProgram == owner \in {"top", "callback", "turn"}

(* nts_jvm_application_start in an executable: create, bind, configure,    *)
(* attach; each may fail and undoes what was done before.                  *)
CreateVm(result) ==
  /\ Configure(result)
  /\ IF result = "ok" THEN vm' = starts + 1 /\ env' = starts + 1
     ELSE /\ vm' = 0
          /\ env' \in {env, 0}   \* untouched when the VM was not created

ApplicationStart ==
  /\ InProgram /\ starts < MaxStarts
  /\ HostedRestart \/ ~adopted \/ attached
  /\ starts' = starts + 1
  /\ startResult' \in {"ok", "error"}
  /\ IF adopted
     THEN StartServices(startResult') /\ UNCHANGED <<vm, env, ownerKnown>>
     ELSE IF vm # 0
     THEN startResult' = "error" /\ UNCHANGED <<vm, env, ownerKnown, service, attached, servicesReady>>
     ELSE CreateVm(startResult') /\ ownerKnown' = TRUE /\ UNCHANGED servicesReady
  /\ UNCHANGED <<pump, product, adopted, bound, boot, loader, saved, failed, owner, exit>>

FaultyForgetEnv == UNCHANGED env

ForgetEnv == env' = 0

(* nts_jvm_application_stop.                                               *)
ApplicationStop ==
  /\ InProgram /\ vm # 0
  /\ owner = "callback" => StopInTurn
  /\ service' = IF service.queue = 0 /\ ~service.live THEN Idle
                ELSE [service EXCEPT !.accepting = FALSE]
  /\ attached' = FALSE
  /\ startResult' = "none"
  /\ IF adopted THEN UNCHANGED <<vm, env>> ELSE vm' = 0 /\ ForgetEnv
  /\ UNCHANGED <<hosting, pump, starts, saved, servicesReady, failed, owner, exit>>

(* nts_jvm_application_complete: a recorded failure is sticky.             *)
Verdict(code) == IF failed THEN "failed" ELSE code

ApplicationComplete ==
  /\ InProgram
  /\ \E code \in {"ok", "failed"} : exit' = Verdict(code)
  /\ UNCHANGED <<hosting, program, pump, vm, env, saved, servicesReady, failed, owner,
                 service, attached>>

(* A handler is connected or disconnected.                                 *)
Connect ==
  /\ InProgram
  /\ service.live \/ service.accepting
  /\ service' = [service EXCEPT !.live = ~@]
  /\ UNCHANGED <<hosting, program, pump, vm, env, saved, servicesReady, failed, owner,
                 attached, exit>>

-----------------------------------------------------------------------------
OwnerStep ==
  \/ LoopPolls \/ LoopEnds \/ PollEnters \/ PollWakes
  \/ Dispatch \/ CallbackEnds \/ Checkpoint
  \/ OwnerAttaches \/ OwnerBinds \/ OwnerServes \/ TopReturns \/ PlatformReturns

Next ==
  /\ exit = "none"
  /\ \/ OwnerStep \/ PollTimesOut
     \/ OnLoad \/ LoaderReturns \/ PlatformCalls
     \/ ApplicationStart \/ ApplicationStop \/ ApplicationComplete \/ Connect
     \/ \E p \in Producers : Admit(p) \/ CallWake(p)

(* Threads run; nobody has to call in, time out or admit.                  *)
Spec ==
  /\ Init /\ [][Next]_vars
  /\ WF_vars(exit = "none" /\ OwnerStep)
  /\ WF_vars(exit = "none" /\ LoaderReturns)
  /\ \A p \in Producers : WF_vars(exit = "none" /\ CallWake(p))
-----------------------------------------------------------------------------
(* The environment is never a pointer into a VM that is gone: "it is       *)
(* non-NULL only while the current thread is in a Java callback/owner turn, *)
(* or for the lifetime of a runtime-attached owner thread".                *)
EnvIsLive == env # 0 => env = vm

(* loadLibrary returns to the loader of a spawned owner only once the      *)
(* owner has claimed the instance and bound every package: no Java thread  *)
(* calls a native method that is not registered yet.                       *)
LoaderSeesOwner ==
  product = "spawned" /\ loader = "ok" => ownerKnown /\ bound = Packages /\ servicesReady

(* ... and it returns, also when the owner could not attach or bind.       *)
LoadReturns == loader = "waiting" ~> (loader # "waiting" \/ exit # "none")

(* A start that reports an error leaves the process as it found it: no VM, *)
(* no service, no source on the loop that was not there before.            *)
FailedStartUndone ==
  [][starts' # starts /\ startResult' = "error"
       => UNCHANGED <<vm, service, attached>> /\ env' \in {env, 0}]_vars

(* A start that reports success has a service to register with and a pump  *)
(* on the loop, until the program stops it.                                *)
StartedIsServed == startResult = "ok" => service.configured /\ service.accepting /\ attached

(* Success is not reported to anyone, loader or program, before what it    *)
(* promises is there.                                                      *)
ReadyWhenReported == LoaderSeesOwner /\ StartedIsServed

(* An admitted event is delivered where this runtime owns the loop, unless *)
(* the program stops first.                                                *)
EventsDelivered ==
  (product # "inPlace" /\ attached /\ service.queue > 0)
    ~> (service.queue = 0 \/ ~attached \/ exit # "none")
=============================================================================

-------------------------- MODULE JvmRuntimeProofs --------------------------
(***************************************************************************)
(* Proofs about JvmRuntime, for every choice of products, packages,        *)
(* producers and bounds.                                                   *)
(***************************************************************************)
EXTENDS JvmRuntime, TLAPS

-----------------------------------------------------------------------------
(* Where the threads can be in each product, and what the boot has done by *)
(* then: nobody runs the program before the owner stands, a boot that      *)
(* failed leaves no owner ...                                              *)
Stages ==
  /\ product = "executable" =>
       /\ owner \in {"top", "loop", "poll", "waiting", "dispatch", "callback", "checkpoint"}
       /\ ~ adopted /\ loader = "none"
  /\ product = "spawned" => owner \notin {"loop", "platform", "turn"}
  /\ product = "inPlace" =>
       owner \in {"absent", "attach", "bind", "services", "top", "platform", "turn", "dead"}
  /\ product # "executable" /\ loader = "none" => owner = "absent"
  /\ product # "executable" /\ owner \notin {"absent", "dead"} => adopted
  /\ owner \in {"absent", "attach", "bind", "services"} => startResult = "none"
  /\ owner \in {"absent", "dead"} => env = 0
  /\ boot.failed => owner = "dead"

(* ... and success is reported after the last package and the services.    *)
Reported ==
  /\ owner \in {"bind", "services"} => ownerKnown
  /\ owner = "services" => bound = Packages
  /\ product = "spawned" /\ (loader = "ok" \/ (boot.bound /\ ~ boot.failed)) =>
       ownerKnown /\ bound = Packages /\ servicesReady

(* A service that is not configured is empty; the pump is on the loop only *)
(* for one that accepts.                                                   *)
Served ==
  /\ service.configured \/ service = Idle
  /\ attached => service.configured /\ service.accepting
  /\ service.queue <= admissions

BootInv == TypeOK /\ Stages /\ Reported /\ Served

(* What a turn will put back is as live as what it uses.                   *)
EnvInv ==
  /\ EnvIsLive
  /\ owner \in {"dispatch", "callback", "checkpoint", "turn"} /\ saved # 0 => saved = vm

StartInv == startResult = "ok" => attached


-----------------------------------------------------------------------------
(* The operators the actions share.                                        *)

BootFlags == [bound : BOOLEAN, failed : BOOLEAN]
Services == [configured : BOOLEAN, accepting : BOOLEAN, queue : 0..MaxAdmissions, live : BOOLEAN]

LEMMA Bounds ==
  /\ Packages \in Nat /\ MaxAdmissions \in Nat /\ MaxStarts \in Nat
  /\ 0 \in 0..MaxStarts + 1 /\ 1 \in 0..MaxStarts + 1
BY BoundsAssumption

LEMMA ServiceFacts ==
  /\ Idle \in Services /\ Configured \in Services
  /\ ~ Idle.configured /\ Idle.queue = 0
  /\ Configured.configured /\ Configured.accepting /\ Configured.queue = 0
<1>1. 0 \in 0..MaxAdmissions
  BY Bounds
<1>2. Idle \in Services /\ ~ Idle.configured /\ Idle.queue = 0
  BY <1>1 DEF Idle, Services
<1>3. Configured = [Idle EXCEPT !.configured = TRUE, !.accepting = TRUE]
  BY DEF Configured
<1>4. Configured \in Services
  BY <1>2, <1>3 DEF Services
<1>5. Configured.configured /\ Configured.accepting /\ Configured.queue = Idle.queue
  BY <1>2, <1>3 DEF Services
<1> QED
  BY <1>2, <1>4, <1>5

(* A rejected or failed configuration leaves the service and the source as *)
(* they were: one that was not configured was idle already.                *)
LEMMA ConfigureFacts ==
  ASSUME BootInv, NEW result, Configure(result)
  PROVE  /\ service' \in Services /\ attached' \in BOOLEAN
         /\ service'.configured \/ service' = Idle
         /\ attached' => service'.configured /\ service'.accepting
         /\ service'.queue <= admissions
         /\ result = "ok" => attached'
         /\ result = "error" => service' = service /\ attached' = attached
<1>1. service \in Services /\ attached \in BOOLEAN /\ admissions \in Nat
  BY Bounds DEF BootInv, TypeOK, Services
<1>2. CASE result = "ok"
  <2>1. service' = Configured /\ attached' = TRUE
    BY <1>2 DEF Configure, Refusal
  <2> QED
    BY <1>1, <1>2, <2>1, ServiceFacts
<1>3. CASE result # "ok"
  <2>1. result = "error" /\ service' = service /\ attached' = attached
    BY <1>3 DEF Configure, Refusal, Rollback, BootInv, Served
  <2> QED
    BY <1>1, <2>1 DEF BootInv, Served
<1> QED
  BY <1>2, <1>3

LEMMA StartServicesFacts ==
  ASSUME BootInv, NEW result, StartServices(result)
  PROVE  /\ service' \in Services /\ attached' \in BOOLEAN /\ servicesReady' \in BOOLEAN
         /\ service'.configured \/ service' = Idle
         /\ attached' => service'.configured /\ service'.accepting
         /\ service'.queue <= admissions
         /\ result = "ok" => servicesReady' /\ (attached' \/ servicesReady)
         /\ result = "error" => service' = service /\ attached' = attached
         /\ servicesReady => servicesReady'
<1>1. CASE servicesReady
  BY <1>1 DEF StartServices, BootInv, TypeOK, Served, Services
<1>2. CASE ~ servicesReady
  <2>1. Configure(result) /\ servicesReady' = (result = "ok")
    BY <1>2 DEF StartServices
  <2>2. servicesReady' \in BOOLEAN /\ (result = "ok" => servicesReady')
    BY <2>1
  <2> QED
    BY <1>2, <2>1, <2>2, ConfigureFacts
<1> QED
  BY <1>1, <1>2

LEMMA BootSignalFacts ==
  ASSUME NEW hasFailed \in BOOLEAN, BootSignal(hasFailed)
  PROVE  boot' \in BootFlags /\ boot'.bound /\ boot'.failed = hasFailed
BY DEF BootSignal, BootFlags

LEMMA BootFailsFacts ==
  ASSUME TypeOK, BootFails
  PROVE  /\ owner' = "dead" /\ env' = 0
         /\ boot' \in BootFlags
         /\ vm' \in {0, vm} /\ loader' \in {"error", loader}
         /\ product = "spawned" => boot'.bound /\ boot'.failed
         /\ product # "spawned" => boot' = boot /\ loader' = "error"
<1>1. CASE product = "spawned"
  BY <1>1, BootSignalFacts DEF BootFails
<1>2. CASE product # "spawned"
  BY <1>2 DEF BootFails, TypeOK, BootFlags
<1> QED
  BY <1>1, <1>2

LEMMA LoopPollsKeeps == BootInv /\ LoopPolls => BootInv'
<1> SUFFICES ASSUME BootInv, LoopPolls PROVE BootInv'
  OBVIOUS
<1>2. TypeOK'
  BY Bounds DEF BootInv, TypeOK, Stages, Served, LoopPolls, hosting, program, pump
<1>3. Stages'
  BY DEF BootInv, TypeOK, Stages, LoopPolls, hosting, program, pump
<1>4. Reported' /\ Served'
  BY Bounds DEF BootInv, TypeOK, Stages, Reported, Served, Idle, LoopPolls, hosting, program, pump
<1> QED
  BY <1>2, <1>3, <1>4 DEF BootInv

LEMMA LoopEndsKeeps == BootInv /\ LoopEnds => BootInv'
<1> SUFFICES ASSUME BootInv, LoopEnds PROVE BootInv'
  OBVIOUS
<1>2. TypeOK'
  BY Bounds DEF BootInv, TypeOK, Stages, Served, LoopEnds, hosting, program, pump
<1>3. Stages'
  BY DEF BootInv, TypeOK, Stages, LoopEnds, hosting, program, pump
<1>4. Reported' /\ Served'
  BY Bounds DEF BootInv, TypeOK, Stages, Reported, Served, Idle, LoopEnds, hosting, program, pump
<1> QED
  BY <1>2, <1>3, <1>4 DEF BootInv

LEMMA PollEntersKeeps == BootInv /\ PollEnters => BootInv'
<1> SUFFICES ASSUME BootInv, PollEnters PROVE BootInv'
  OBVIOUS
<1>1. {adopted', servicesReady', ownerKnown', failed', woken', signaled', attached'} \subseteq BOOLEAN
  BY DEF BootInv, TypeOK, PollEnters, EnterTurn, hosting, program
<1>2. TypeOK'
  BY <1>1, Bounds DEF BootInv, TypeOK, Stages, Served, PollEnters, EnterTurn, hosting, program
<1>3. Stages'
  BY DEF BootInv, TypeOK, Stages, PollEnters, EnterTurn, hosting, program
<1>4. Reported' /\ Served'
  BY Bounds DEF BootInv, TypeOK, Stages, Reported, Served, Idle, PollEnters, EnterTurn, hosting, program
<1> QED
  BY <1>2, <1>3, <1>4 DEF BootInv

LEMMA PollWakesKeeps == BootInv /\ PollWakes => BootInv'
<1> SUFFICES ASSUME BootInv, PollWakes PROVE BootInv'
  OBVIOUS
<1>1. {adopted', servicesReady', ownerKnown', failed', woken', signaled', attached'} \subseteq BOOLEAN
  BY DEF BootInv, TypeOK, PollWakes, EnterTurn, hosting, program
<1>2. TypeOK'
  BY <1>1, Bounds DEF BootInv, TypeOK, Stages, Served, PollWakes, EnterTurn, hosting, program
<1>3. Stages'
  BY DEF BootInv, TypeOK, Stages, PollWakes, EnterTurn, hosting, program
<1>4. Reported' /\ Served'
  BY Bounds DEF BootInv, TypeOK, Stages, Reported, Served, Idle, PollWakes, EnterTurn, hosting, program
<1> QED
  BY <1>2, <1>3, <1>4 DEF BootInv

LEMMA PollTimesOutKeeps == BootInv /\ PollTimesOut => BootInv'
<1> SUFFICES ASSUME BootInv, PollTimesOut PROVE BootInv'
  OBVIOUS
<1>1. {adopted', servicesReady', ownerKnown', failed', woken', signaled', attached'} \subseteq BOOLEAN
  BY DEF BootInv, TypeOK, PollTimesOut, EnterTurn, hosting, program
<1>2. TypeOK'
  BY <1>1, Bounds DEF BootInv, TypeOK, Stages, Served, PollTimesOut, EnterTurn, hosting, program
<1>3. Stages'
  BY DEF BootInv, TypeOK, Stages, PollTimesOut, EnterTurn, hosting, program
<1>4. Reported' /\ Served'
  BY Bounds DEF BootInv, TypeOK, Stages, Reported, Served, Idle, PollTimesOut, EnterTurn, hosting, program
<1> QED
  BY <1>2, <1>3, <1>4 DEF BootInv

LEMMA DispatchKeeps == BootInv /\ Dispatch => BootInv'
<1> SUFFICES ASSUME BootInv, Dispatch PROVE BootInv'
  OBVIOUS
<1>1. {adopted', servicesReady', ownerKnown', failed', woken', signaled', attached'} \subseteq BOOLEAN
  BY DEF BootInv, TypeOK, Dispatch, Wake, hosting, program
<1>2. TypeOK'
  BY <1>1, Bounds DEF BootInv, TypeOK, Stages, Served, Dispatch, Wake, hosting, program
<1>3. Stages'
  BY DEF BootInv, TypeOK, Stages, Dispatch, Wake, hosting, program
<1>4. Reported' /\ Served'
  BY Bounds DEF BootInv, TypeOK, Stages, Reported, Served, Idle, Dispatch, Wake, hosting, program
<1> QED
  BY <1>2, <1>3, <1>4 DEF BootInv

LEMMA CallbackEndsKeeps == BootInv /\ CallbackEnds => BootInv'
<1> SUFFICES ASSUME BootInv, CallbackEnds PROVE BootInv'
  OBVIOUS
<1>1. {adopted', servicesReady', ownerKnown', failed', woken', signaled', attached'} \subseteq BOOLEAN
  BY DEF BootInv, TypeOK, CallbackEnds, hosting, program, pump
<1>2. TypeOK'
  BY <1>1, Bounds DEF BootInv, TypeOK, Stages, Served, CallbackEnds, hosting, program, pump
<1>3. Stages'
  BY DEF BootInv, TypeOK, Stages, CallbackEnds, hosting, program, pump
<1>4. Reported' /\ Served'
  BY Bounds DEF BootInv, TypeOK, Stages, Reported, Served, Idle, CallbackEnds, hosting, program, pump
<1> QED
  BY <1>2, <1>3, <1>4 DEF BootInv

LEMMA CheckpointKeeps == BootInv /\ Checkpoint => BootInv'
<1> SUFFICES ASSUME BootInv, Checkpoint PROVE BootInv'
  OBVIOUS
<1>1. {adopted', servicesReady', ownerKnown', failed', woken', signaled', attached'} \subseteq BOOLEAN
  BY DEF BootInv, TypeOK, Checkpoint, hosting, program, pump
<1>2. TypeOK'
  BY <1>1, Bounds DEF BootInv, TypeOK, Stages, Served, Checkpoint, hosting, program, pump
<1>3. Stages'
  BY DEF BootInv, TypeOK, Stages, Checkpoint, hosting, program, pump
<1>4. Reported' /\ Served'
  BY Bounds DEF BootInv, TypeOK, Stages, Reported, Served, Idle, Checkpoint, hosting, program, pump
<1> QED
  BY <1>2, <1>3, <1>4 DEF BootInv

LEMMA TopReturnsKeeps == BootInv /\ TopReturns => BootInv'
<1> SUFFICES ASSUME BootInv, TopReturns PROVE BootInv'
  OBVIOUS
<1> TypeOK /\ Stages /\ Reported /\ Served
  BY DEF BootInv
<1>1. product \in {"executable", "spawned", "inPlace"}
  BY BoundsAssumption DEF TypeOK
<1>2. /\ product = "executable" => owner' = "loop"
      /\ product = "spawned" => owner' = "poll"
      /\ product = "inPlace" => owner' = "platform" /\ env' = 0 /\ loader' = "ok"
      /\ product # "inPlace" => UNCHANGED <<env, loader>>
  BY <1>1 DEF TopReturns
<1>3. TypeOK'
  BY <1>1, <1>2, Bounds DEF TypeOK, TopReturns, program, pump
<1>4. Stages' /\ Reported' /\ Served'
  BY <1>1, <1>2 DEF TypeOK, Stages, Reported, Served, TopReturns, program, pump
<1> QED
  BY <1>3, <1>4 DEF BootInv

LEMMA PlatformCallsKeeps == BootInv /\ PlatformCalls => BootInv'
<1> SUFFICES ASSUME BootInv, PlatformCalls PROVE BootInv'
  OBVIOUS
<1>2. TypeOK'
  BY Bounds DEF BootInv, TypeOK, Stages, Served, PlatformCalls, hosting, program, pump
<1>3. Stages'
  BY DEF BootInv, TypeOK, Stages, PlatformCalls, hosting, program, pump
<1>4. Reported' /\ Served'
  BY Bounds DEF BootInv, TypeOK, Stages, Reported, Served, Idle, PlatformCalls, hosting, program, pump
<1> QED
  BY <1>2, <1>3, <1>4 DEF BootInv

LEMMA PlatformReturnsKeeps == BootInv /\ PlatformReturns => BootInv'
<1> SUFFICES ASSUME BootInv, PlatformReturns PROVE BootInv'
  OBVIOUS
<1>2. TypeOK'
  BY Bounds DEF BootInv, TypeOK, Stages, Served, PlatformReturns, hosting, program, pump
<1>3. Stages'
  BY DEF BootInv, TypeOK, Stages, PlatformReturns, hosting, program, pump
<1>4. Reported' /\ Served'
  BY Bounds DEF BootInv, TypeOK, Stages, Reported, Served, Idle, PlatformReturns, hosting, program, pump
<1> QED
  BY <1>2, <1>3, <1>4 DEF BootInv

LEMMA OnLoadKeeps == BootInv /\ OnLoad => BootInv'
<1> SUFFICES ASSUME BootInv, OnLoad PROVE BootInv'
  OBVIOUS
<1>1. {adopted', servicesReady', ownerKnown', failed', woken', signaled', attached'} \subseteq BOOLEAN
  BY DEF BootInv, TypeOK, OnLoad, program, pump
<1>2. TypeOK'
  BY <1>1, Bounds DEF BootInv, TypeOK, Stages, Served, OnLoad, program, pump
<1>3. Stages'
  BY DEF BootInv, TypeOK, Stages, OnLoad, program, pump
<1>4. Reported' /\ Served'
  BY Bounds DEF BootInv, TypeOK, Stages, Reported, Served, Idle, OnLoad, program, pump
<1> QED
  BY <1>2, <1>3, <1>4 DEF BootInv

LEMMA LoaderReturnsKeeps == BootInv /\ LoaderReturns => BootInv'
<1> SUFFICES ASSUME BootInv, LoaderReturns PROVE BootInv'
  OBVIOUS
<1>1. {adopted', servicesReady', ownerKnown', failed', woken', signaled', attached'} \subseteq BOOLEAN
  BY DEF BootInv, TypeOK, LoaderReturns, MayReturn, program, pump
<1>2. TypeOK'
  BY <1>1, Bounds DEF BootInv, TypeOK, Stages, Served, LoaderReturns, MayReturn, program, pump
<1>3. Stages'
  BY DEF BootInv, TypeOK, Stages, LoaderReturns, MayReturn, program, pump
<1>4. Reported' /\ Served'
  BY Bounds DEF BootInv, TypeOK, Stages, Reported, Served, Idle, LoaderReturns, MayReturn, program, pump
<1> QED
  BY <1>2, <1>3, <1>4 DEF BootInv

LEMMA ApplicationCompleteKeeps == BootInv /\ ApplicationComplete => BootInv'
<1> SUFFICES ASSUME BootInv, ApplicationComplete PROVE BootInv'
  OBVIOUS
<1>2. TypeOK'
  BY Bounds DEF BootInv, TypeOK, Stages, Served, ApplicationComplete, Verdict, hosting, program, pump
<1>3. Stages'
  BY DEF BootInv, TypeOK, Stages, ApplicationComplete, Verdict, hosting, program, pump
<1>4. Reported' /\ Served'
  BY Bounds DEF BootInv, TypeOK, Stages, Reported, Served, Idle, ApplicationComplete, Verdict, hosting, program, pump
<1> QED
  BY <1>2, <1>3, <1>4 DEF BootInv

LEMMA ConnectKeeps == BootInv /\ Connect => BootInv'
<1> SUFFICES ASSUME BootInv, Connect PROVE BootInv'
  OBVIOUS
<1>2. TypeOK'
  BY Bounds DEF BootInv, TypeOK, Stages, Served, Connect, InProgram, hosting, program, pump
<1>3. Stages'
  BY DEF BootInv, TypeOK, Stages, Connect, InProgram, hosting, program, pump
<1>4. Reported' /\ Served'
  BY Bounds DEF BootInv, TypeOK, Stages, Reported, Served, Idle, Connect, InProgram, hosting, program, pump
<1> QED
  BY <1>2, <1>3, <1>4 DEF BootInv

LEMMA AdmitKeeps == ASSUME BootInv, NEW p \in Producers, Admit(p) PROVE BootInv'
<1> TypeOK /\ Stages /\ Reported /\ Served
  BY DEF BootInv
<1>2. TypeOK'
  BY Bounds DEF BootInv, TypeOK, Stages, Served, Admit, hosting, program
<1>3. Stages'
  BY DEF BootInv, TypeOK, Stages, Admit, hosting, program
<1>4. Reported' /\ Served'
  BY Bounds DEF BootInv, TypeOK, Stages, Reported, Served, Idle, Admit, hosting, program
<1> QED
  BY <1>2, <1>3, <1>4 DEF BootInv

LEMMA CallWakeKeeps == ASSUME BootInv, NEW p \in Producers, CallWake(p) PROVE BootInv'
<1> TypeOK /\ Stages /\ Reported /\ Served
  BY DEF BootInv
<1>2. TypeOK'
  BY Bounds DEF BootInv, TypeOK, Stages, Served, CallWake, Wake, hosting, program
<1>3. Stages'
  BY DEF BootInv, TypeOK, Stages, CallWake, Wake, hosting, program
<1>4. Reported' /\ Served'
  BY Bounds DEF BootInv, TypeOK, Stages, Reported, Served, Idle, CallWake, Wake, hosting, program
<1> QED
  BY <1>2, <1>3, <1>4 DEF BootInv

LEMMA OwnerAttachesKeeps == BootInv /\ OwnerAttaches => BootInv'
<1> SUFFICES ASSUME BootInv, OwnerAttaches PROVE BootInv'
  OBVIOUS
<1> TypeOK /\ Stages /\ Reported /\ Served
  BY DEF BootInv
<1>1. CASE owner' = "bind" /\ env' = vm /\ UNCHANGED <<vm, loader, boot>>
  <2>1. TypeOK'
    BY <1>1 DEF TypeOK, OwnerAttaches, program, pump
  <2>2. Stages' /\ Reported' /\ Served'
    BY <1>1, BoundsAssumption DEF TypeOK, Stages, Reported, Served, OwnerAttaches, program, pump
  <2> QED
    BY <2>1, <2>2 DEF BootInv
<1>2. CASE BootFails
  <2>1. TypeOK'
    BY <1>2, BootFailsFacts, Bounds DEF TypeOK, BootFlags, OwnerAttaches, program, pump
  <2>2. Stages' /\ Reported' /\ Served'
    BY <1>2, BootFailsFacts, BoundsAssumption
       DEF TypeOK, Stages, Reported, Served, OwnerAttaches, program, pump
  <2> QED
    BY <2>1, <2>2 DEF BootInv
<1> QED
  BY <1>1, <1>2 DEF OwnerAttaches

LEMMA OwnerBindsKeeps == BootInv /\ OwnerBinds => BootInv'
<1> SUFFICES ASSUME BootInv, OwnerBinds PROVE BootInv'
  OBVIOUS
<1> TypeOK /\ Stages /\ Reported /\ Served
  BY DEF BootInv
<1>1. CASE BindsLeft /\ bound' = bound + 1 /\ UNCHANGED <<owner, env, vm, loader, boot>>
  <2>1. TypeOK'
    BY <1>1, Bounds DEF TypeOK, BindsLeft, OwnerBinds, program, pump
  <2>2. Stages' /\ Reported' /\ Served'
    BY <1>1, BoundsAssumption DEF TypeOK, Stages, Reported, Served, BindsLeft, OwnerBinds, program, pump
  <2> QED
    BY <2>1, <2>2 DEF BootInv
<1>2. CASE BindsLeft /\ BootFails /\ UNCHANGED bound
  <2>1. TypeOK'
    BY <1>2, BootFailsFacts, Bounds DEF TypeOK, BootFlags, OwnerBinds, program, pump
  <2>2. Stages' /\ Reported' /\ Served'
    BY <1>2, BootFailsFacts, BoundsAssumption
       DEF TypeOK, Stages, Reported, Served, OwnerBinds, program, pump
  <2> QED
    BY <2>1, <2>2 DEF BootInv
<1>3. CASE ~ BindsLeft /\ owner' = "services" /\ UNCHANGED <<bound, env, vm, loader, boot>>
  <2>1. TypeOK'
    BY <1>3 DEF TypeOK, OwnerBinds, program, pump
  <2>2. bound = Packages
    BY <1>3, Bounds DEF TypeOK, BindsLeft
  <2>3. Stages' /\ Reported' /\ Served'
    BY <1>3, <2>2, BoundsAssumption DEF TypeOK, Stages, Reported, Served, OwnerBinds, program, pump
  <2> QED
    BY <2>1, <2>3 DEF BootInv
<1> QED
  BY <1>1, <1>2, <1>3 DEF OwnerBinds

LEMMA OwnerServesKeeps == BootInv /\ OwnerServes => BootInv'
<1> SUFFICES ASSUME BootInv, OwnerServes PROVE BootInv'
  OBVIOUS
<1> TypeOK /\ Stages /\ Reported /\ Served
  BY DEF BootInv
<1>1. CASE StartServices("error") /\ BootFails
  <2>1. TypeOK'
    BY <1>1, StartServicesFacts, BootFailsFacts, Bounds
       DEF TypeOK, BootFlags, Services, OwnerServes, program, pump
  <2>2. Stages' /\ Reported' /\ Served'
    BY <1>1, StartServicesFacts, BootFailsFacts, BoundsAssumption
       DEF TypeOK, Stages, Reported, Served, OwnerServes, program, pump
  <2> QED
    BY <2>1, <2>2 DEF BootInv
<1>2. CASE /\ StartServices("ok")
           /\ owner' = "top" /\ UNCHANGED <<env, vm, loader>>
           /\ IF product = "spawned" THEN BootSignal(FALSE) ELSE UNCHANGED boot
  <2>1. boot' \in BootFlags /\ (boot'.failed => boot.failed)
        /\ (product # "spawned" => boot' = boot)
    BY <1>2, BootSignalFacts DEF TypeOK, BootFlags
  <2>2. TypeOK'
    BY <1>2, <2>1, StartServicesFacts, Bounds DEF TypeOK, BootFlags, Services, OwnerServes, program, pump
  <2>3. Stages' /\ Reported' /\ Served'
    BY <1>2, <2>1, StartServicesFacts, BoundsAssumption
       DEF TypeOK, Stages, Reported, Served, OwnerServes, program, pump
  <2> QED
    BY <2>2, <2>3 DEF BootInv
<1> QED
  BY <1>1, <1>2 DEF OwnerServes

(* The three ways applicationStart can go: an adopted program's services,  *)
(* a VM that exists, a VM to be created.                                   *)
LEMMA ApplicationStartFacts ==
  ASSUME BootInv, ApplicationStart
  PROVE  /\ service' \in Services /\ attached' \in BOOLEAN /\ servicesReady' \in BOOLEAN
         /\ service'.configured \/ service' = Idle
         /\ attached' => service'.configured /\ service'.accepting
         /\ service'.queue <= admissions
         /\ vm' \in 0..MaxStarts + 1 /\ env' \in 0..MaxStarts + 1 /\ ownerKnown' \in BOOLEAN
         /\ startResult' = "error" => UNCHANGED <<vm, service, attached>> /\ env' \in {env, 0}
         /\ startResult' = "ok" => attached' \/ (adopted /\ servicesReady)
         /\ vm' # vm => env' = vm' /\ vm = 0
         /\ vm' = vm => env' \in {env, 0}
         /\ ownerKnown => ownerKnown'
         /\ servicesReady => servicesReady'
<1>1. /\ vm \in 0..MaxStarts + 1 /\ env \in 0..MaxStarts + 1 /\ ownerKnown \in BOOLEAN
      /\ starts \in 0..MaxStarts /\ starts < MaxStarts /\ startResult' \in {"ok", "error"}
      /\ servicesReady \in BOOLEAN
  BY DEF BootInv, TypeOK, ApplicationStart
<1>2. CASE adopted
  <2>1. StartServices(startResult') /\ UNCHANGED <<vm, env, ownerKnown>>
    BY <1>2 DEF ApplicationStart
  <2> QED
    BY <1>1, <1>2, <2>1, StartServicesFacts
<1>3. CASE ~ adopted /\ vm # 0
  <2>1. startResult' = "error" /\ UNCHANGED <<vm, env, ownerKnown, service, attached, servicesReady>>
    BY <1>3 DEF ApplicationStart
  <2> QED
    BY <1>1, <2>1 DEF BootInv, TypeOK, Served, Services
<1>4. CASE ~ adopted /\ vm = 0
  <2>1. CreateVm(startResult') /\ ownerKnown' = TRUE /\ UNCHANGED servicesReady
    BY <1>4 DEF ApplicationStart
  <2>2. Configure(startResult')
    BY <2>1 DEF CreateVm
  <2>3. CASE startResult' = "ok"
    <3>1. vm' = starts + 1 /\ env' = starts + 1 /\ starts + 1 \in 0..MaxStarts + 1
      BY <1>1, <2>1, <2>3, Bounds DEF CreateVm
    <3> QED
      BY <1>1, <1>4, <2>1, <2>2, <2>3, <3>1, ConfigureFacts, Bounds
  <2>4. CASE startResult' = "error"
    <3>1. vm' = 0 /\ env' \in {env, 0}
      BY <2>1, <2>4 DEF CreateVm
    <3> QED
      BY <1>1, <1>4, <2>1, <2>2, <2>4, <3>1, ConfigureFacts, Bounds
  <2> QED
    BY <1>1, <2>3, <2>4
<1> QED
  BY <1>2, <1>3, <1>4

LEMMA ApplicationStartKeeps == BootInv /\ ApplicationStart => BootInv'
<1> SUFFICES ASSUME BootInv, ApplicationStart PROVE BootInv'
  OBVIOUS
<1> TypeOK /\ Stages /\ Reported /\ Served
  BY DEF BootInv
<1>1. /\ owner \in {"top", "callback", "turn"} /\ startResult' \in {"ok", "error"}
      /\ starts' = starts + 1 /\ starts < MaxStarts
      /\ UNCHANGED <<pump, product, adopted, bound, boot, loader, saved, failed, owner, exit>>
  BY DEF ApplicationStart, InProgram
<1>2. TypeOK'
  <2>1. starts' \in 0..MaxStarts
    BY <1>1, Bounds DEF TypeOK
  <2>2. /\ vm' \in 0..MaxStarts + 1 /\ env' \in 0..MaxStarts + 1 /\ ownerKnown' \in BOOLEAN
        /\ service' \in Services /\ attached' \in BOOLEAN /\ servicesReady' \in BOOLEAN
    BY ApplicationStartFacts
  <2>3. {vm', env', saved'} \subseteq 0..MaxStarts + 1
    BY <1>1, <2>2 DEF TypeOK
  <2>4. {adopted', servicesReady', ownerKnown', failed', woken', signaled', attached'} \subseteq BOOLEAN
    BY <1>1, <2>2 DEF TypeOK, pump
  <2>5. service' \in [configured : BOOLEAN, accepting : BOOLEAN, queue : 0..MaxAdmissions, live : BOOLEAN]
    BY <2>2 DEF Services
  <2>6. UNCHANGED <<product, bound, boot, owner, loader, producer, admissions, exit>>
    BY <1>1 DEF pump
  <2>7. startResult' \in {"none", "ok", "error"}
    BY <1>1
  <2> QED
    BY <2>1, <2>3, <2>4, <2>5, <2>6, <2>7 DEF TypeOK
<1>3. Stages' /\ Reported' /\ Served'
  BY <1>1, ApplicationStartFacts DEF Stages, Reported, Served, pump
<1> QED
  BY <1>2, <1>3 DEF BootInv

LEMMA ApplicationStopFacts ==
  ASSUME BootInv, ApplicationStop
  PROVE  /\ service' \in Services
         /\ service'.configured \/ service' = Idle
         /\ service'.queue <= admissions
<1>1. service \in Services /\ admissions \in Nat
  BY Bounds DEF BootInv, TypeOK, Services
<1>2. CASE service.queue = 0 /\ ~ service.live
  <2>1. service' = Idle
    BY <1>2 DEF ApplicationStop
  <2> QED
    BY <1>1, <2>1, ServiceFacts
<1>3. CASE ~ (service.queue = 0 /\ ~ service.live)
  <2>1. service' = [service EXCEPT !.accepting = FALSE]
    BY <1>3 DEF ApplicationStop
  <2>2. service.configured
    BY <1>3, ServiceFacts DEF BootInv, Served, Idle
  <2> QED
    BY <1>1, <2>1, <2>2 DEF Services, BootInv, Served
<1> QED
  BY <1>2, <1>3

LEMMA ApplicationStopKeeps == BootInv /\ ApplicationStop => BootInv'
<1> SUFFICES ASSUME BootInv, ApplicationStop PROVE BootInv'
  OBVIOUS
<1> TypeOK /\ Stages /\ Reported /\ Served
  BY DEF BootInv
<1>1. /\ owner \in {"top", "callback", "turn"} /\ startResult' = "none" /\ attached' = FALSE
      /\ vm' \in {vm, 0} /\ env' \in {env, 0}
      /\ UNCHANGED <<hosting, pump, starts, saved, servicesReady, failed, owner, exit>>
  BY DEF ApplicationStop, InProgram, ForgetEnv
<1>2. TypeOK'
  <2>1. {vm', env', saved'} \subseteq 0..MaxStarts + 1
    BY <1>1, Bounds DEF TypeOK
  <2>2. {adopted', servicesReady', ownerKnown', failed', woken', signaled', attached'} \subseteq BOOLEAN
    BY <1>1 DEF TypeOK, hosting, pump
  <2>3. service' \in [configured : BOOLEAN, accepting : BOOLEAN, queue : 0..MaxAdmissions, live : BOOLEAN]
    BY ApplicationStopFacts DEF Services
  <2> QED
    BY <1>1, <2>1, <2>2, <2>3 DEF TypeOK, hosting, pump
<1>3. Stages' /\ Reported' /\ Served'
  BY <1>1, ApplicationStopFacts DEF Stages, Reported, Served, hosting, pump
<1> QED
  BY <1>2, <1>3 DEF BootInv

LEMMA InitBoots == Init => BootInv
<1> SUFFICES ASSUME Init PROVE BootInv
  OBVIOUS
<1>1. product \in {"executable", "spawned", "inPlace"} /\ 0 \in 0..Packages /\ 0 \in 0..MaxAdmissions
      /\ 0 \in 0..MaxStarts
  BY BoundsAssumption, Bounds DEF Init
<1>2. service \in Services
  BY ServiceFacts DEF Init
<1>3. TypeOK
  BY <1>1, <1>2, Bounds DEF Init, TypeOK, Services
<1>4. Stages /\ Reported
  BY <1>1 DEF Init, Stages, Reported
<1>5. Served
  BY ServiceFacts DEF Init, Served
<1> QED
  BY <1>3, <1>4, <1>5 DEF BootInv

LEMMA StutterBoots == BootInv /\ UNCHANGED vars => BootInv'
BY DEF BootInv, TypeOK, Stages, Reported, Served, vars

LEMMA NextBoots == BootInv /\ [Next]_vars => BootInv'
<1> SUFFICES ASSUME BootInv, Next PROVE BootInv'
  BY StutterBoots
<1>1. CASE OwnerStep
  BY <1>1, LoopPollsKeeps, LoopEndsKeeps, PollEntersKeeps, PollWakesKeeps, DispatchKeeps,
     CallbackEndsKeeps, CheckpointKeeps, OwnerAttachesKeeps, OwnerBindsKeeps, OwnerServesKeeps,
     TopReturnsKeeps, PlatformReturnsKeeps DEF OwnerStep
<1>2. CASE PollTimesOut \/ OnLoad \/ LoaderReturns \/ PlatformCalls
  BY <1>2, PollTimesOutKeeps, OnLoadKeeps, LoaderReturnsKeeps, PlatformCallsKeeps
<1>3. CASE ApplicationStart \/ ApplicationStop \/ ApplicationComplete \/ Connect
  BY <1>3, ApplicationStartKeeps, ApplicationStopKeeps, ApplicationCompleteKeeps, ConnectKeeps
<1>4. CASE \E p \in Producers : Admit(p) \/ CallWake(p)
  BY <1>4, AdmitKeeps, CallWakeKeeps
<1> QED
  BY <1>1, <1>2, <1>3, <1>4 DEF Next

LEMMA AlwaysBoots == Spec => []BootInv
<1>1. Init => BootInv
  BY InitBoots
<1>2. BootInv /\ [Next]_vars => BootInv'
  BY NextBoots
<1> QED
  BY <1>1, <1>2, PTL DEF Spec

(* Every variable keeps its type: threads are at points that exist, the    *)
(* queue and the packages bound stay within their bounds.                  *)
THEOREM TypeCorrect == Spec => []TypeOK
<1>1. BootInv => TypeOK
  BY DEF BootInv
<1> QED
  BY <1>1, AlwaysBoots, PTL

(* An owner that could not attach, bind or serve leaves nobody running the *)
(* program and no environment behind, and the loader of a spawned owner    *)
(* returns success only when every package is bound: both also when a      *)
(* callback stops the runtime and when an adopted program starts again.    *)
THEOREM LoaderServed == Spec => [](Stages /\ LoaderSeesOwner)
<1>1. BootInv => Stages /\ LoaderSeesOwner
  BY DEF BootInv, Reported, LoaderSeesOwner
<1> QED
  BY <1>1, AlwaysBoots, PTL

-----------------------------------------------------------------------------
(* The environment.                                                        *)

LEMMA InitEnv == Init => EnvInv
BY DEF Init, EnvInv, EnvIsLive

(* No step but a stop between two callbacks of a turn puts an environment  *)
(* and its VM apart.                                                       *)
LEMMA NextEnv == ~ StopInTurn /\ BootInv /\ EnvInv /\ [Next]_vars => EnvInv'
<1> SUFFICES ASSUME ~ StopInTurn, BootInv, EnvInv, [Next]_vars PROVE EnvInv'
  OBVIOUS
<1> /\ TypeOK /\ Stages /\ EnvIsLive
    /\ owner \in {"dispatch", "callback", "checkpoint", "turn"} /\ saved # 0 => saved = vm
  BY DEF BootInv, EnvInv
<1> SUFFICES EnvIsLive' /\ (owner' \in {"dispatch", "callback", "checkpoint", "turn"} /\ saved' # 0
                              => saved' = vm')
  BY DEF EnvInv
<1> product \in {"executable", "spawned", "inPlace"}
  BY BoundsAssumption DEF TypeOK
<1>1. CASE UNCHANGED vars
  BY <1>1 DEF EnvIsLive, vars
<1>2. CASE LoopPolls \/ LoopEnds \/ Dispatch \/ CallbackEnds
  BY <1>2 DEF LoopPolls, LoopEnds, Dispatch, CallbackEnds, EnvIsLive
<1>3. CASE PollEnters \/ PollWakes \/ PollTimesOut
  BY <1>3 DEF PollEnters, PollWakes, PollTimesOut, EnterTurn, EnvIsLive
<1>4. CASE Checkpoint \/ PlatformReturns
  BY <1>4 DEF Checkpoint, PlatformReturns, EnvIsLive
<1>5. CASE PlatformCalls
  BY <1>5 DEF PlatformCalls, EnvIsLive
<1>6. CASE OwnerAttaches
  BY <1>6, BootFailsFacts DEF OwnerAttaches, EnvIsLive
<1>7. CASE OwnerBinds
  BY <1>7, BootFailsFacts DEF OwnerBinds, EnvIsLive
<1>8. CASE OwnerServes
  BY <1>8, BootFailsFacts DEF OwnerServes, EnvIsLive
<1>9. CASE TopReturns
  BY <1>9 DEF TopReturns, EnvIsLive
<1>10. CASE OnLoad
  BY <1>10 DEF OnLoad, Stages, EnvIsLive
<1>11. CASE LoaderReturns
  BY <1>11 DEF LoaderReturns, Stages, EnvIsLive
<1>12. CASE ApplicationStart
  <2>1. owner' = owner /\ saved' = saved
    BY <1>12 DEF ApplicationStart
  <2> QED
    BY <1>12, <2>1, ApplicationStartFacts DEF EnvIsLive
<1>13. CASE ApplicationStop
  <2>1. owner' = owner /\ saved' = saved /\ owner \in {"top", "turn"}
    BY <1>13 DEF ApplicationStop, InProgram
  <2>2. CASE adopted
    BY <1>13, <2>1, <2>2 DEF ApplicationStop, EnvIsLive
  <2>3. CASE ~ adopted
    BY <1>13, <2>1, <2>3 DEF ApplicationStop, ForgetEnv, Stages, EnvIsLive
  <2> QED
    BY <2>2, <2>3
<1>14. CASE ApplicationComplete \/ Connect
  BY <1>14 DEF ApplicationComplete, Connect, EnvIsLive
<1>15. CASE \E p \in Producers : Admit(p) \/ CallWake(p)
  BY <1>15 DEF Admit, CallWake, EnvIsLive
<1> QED
  BY <1>1, <1>2, <1>3, <1>4, <1>5, <1>6, <1>7, <1>8, <1>9, <1>10, <1>11, <1>12, <1>13, <1>14,
     <1>15 DEF Next, OwnerStep

(* As long as no callback stops the runtime in the middle of a turn, the   *)
(* owner's environment is NULL or belongs to the VM that is there, in all  *)
(* three products and through every failed start and stop.                 *)
THEOREM EnvLive == ~ StopInTurn /\ Spec => []EnvIsLive
<1> SUFFICES ASSUME ~ StopInTurn PROVE Spec => []EnvIsLive
  OBVIOUS
<1>1. Init => EnvInv
  BY InitEnv
<1>2. BootInv /\ EnvInv /\ [Next]_vars => EnvInv'
  BY NextEnv
<1>3. EnvInv => EnvIsLive
  BY DEF EnvInv
<1> QED
  BY <1>1, <1>2, <1>3, AlwaysBoots, PTL DEF Spec

-----------------------------------------------------------------------------
(* What a start reports.                                                   *)

LEMMA NextStart == ~ HostedRestart /\ BootInv /\ StartInv /\ [Next]_vars => StartInv'
<1> SUFFICES ASSUME ~ HostedRestart, BootInv, StartInv, [Next]_vars PROVE StartInv'
  OBVIOUS
<1>1. CASE ApplicationStart
  <2>1. ~ adopted \/ attached
    BY <1>1 DEF ApplicationStart
  <2>2. CASE adopted
    BY <1>1, <2>1, <2>2 DEF ApplicationStart, StartServices, Configure, Refusal, StartInv
  <2>3. CASE ~ adopted
    BY <1>1, <2>3, ApplicationStartFacts DEF StartInv
  <2> QED
    BY <2>2, <2>3
<1>2. CASE ApplicationStop
  BY <1>2 DEF ApplicationStop, StartInv
<1>3. CASE OwnerServes
  BY <1>3 DEF OwnerServes, BootInv, Stages, StartInv, program
<1>4. CASE UNCHANGED <<startResult, attached>>
  BY <1>4 DEF StartInv
<1>5. CASE OwnerStep /\ ~ OwnerServes
  BY <1>4, <1>5 DEF OwnerStep, LoopPolls, LoopEnds, PollEnters, PollWakes, Dispatch, CallbackEnds,
     Checkpoint, OwnerAttaches, OwnerBinds, TopReturns, PlatformReturns, program
<1>6. CASE PollTimesOut \/ OnLoad \/ LoaderReturns \/ PlatformCalls \/ ApplicationComplete \/ Connect
  BY <1>4, <1>6 DEF PollTimesOut, OnLoad, LoaderReturns, PlatformCalls, ApplicationComplete, Connect,
     program
<1>7. CASE \E p \in Producers : Admit(p) \/ CallWake(p)
  BY <1>4, <1>7 DEF Admit, CallWake, program
<1>8. CASE UNCHANGED vars
  BY <1>4, <1>8 DEF vars
<1> QED
  BY <1>1, <1>2, <1>3, <1>5, <1>6, <1>7, <1>8 DEF Next

(* As long as an adopted program does not start again after a stop, no     *)
(* success is reported, to the loader or to the program, before what it    *)
(* promises is there: the owner bound, a service that accepts, the pump on *)
(* the loop.                                                               *)
THEOREM ReportedReady == ~ HostedRestart /\ Spec => []ReadyWhenReported
<1> SUFFICES ASSUME ~ HostedRestart PROVE Spec => []ReadyWhenReported
  OBVIOUS
<1>1. Init => StartInv
  BY DEF Init, StartInv
<1>2. BootInv /\ StartInv /\ [Next]_vars => StartInv'
  BY NextStart
<1>3. BootInv /\ StartInv => ReadyWhenReported
  BY DEF BootInv, Reported, Served, StartInv, ReadyWhenReported, LoaderSeesOwner, StartedIsServed
<1> QED
  BY <1>1, <1>2, <1>3, AlwaysBoots, PTL DEF Spec

(* A start that reports an error has undone whatever it did, for every     *)
(* choice of the constants.                                                *)
THEOREM FailedStartsUndone == Spec => FailedStartUndone
<1>1. BootInv /\ [Next]_vars =>
        [starts' # starts /\ startResult' = "error"
           => UNCHANGED <<vm, service, attached>> /\ env' \in {env, 0}]_vars
  <2> SUFFICES ASSUME BootInv, Next, starts' # starts, startResult' = "error"
               PROVE  UNCHANGED <<vm, service, attached>> /\ env' \in {env, 0}
    OBVIOUS
  <2>1. ApplicationStart
    BY DEF Next, OwnerStep, LoopPolls, LoopEnds, PollEnters, PollWakes, Dispatch, CallbackEnds,
       Checkpoint, OwnerAttaches, OwnerBinds, OwnerServes, TopReturns, PlatformReturns,
       PollTimesOut, OnLoad, LoaderReturns, PlatformCalls, ApplicationStop, ApplicationComplete,
       Connect, Admit, CallWake, program
  <2> QED
    BY <2>1, ApplicationStartFacts
<1> QED
  BY <1>1, AlwaysBoots, PTL DEF Spec, FailedStartUndone
=============================================================================

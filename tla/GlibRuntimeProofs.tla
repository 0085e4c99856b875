-------------------------- MODULE GlibRuntimeProofs --------------------------
(***************************************************************************)
(* Proofs about GlibRuntime for any foreign threads, and any number of     *)
(* events and of starts of the application.                                *)
(***************************************************************************)
EXTENDS GlibRuntime, Integers, TLAPS

LEMMA NoneIsNoAdapter == None \notin Adapters
BY DEF None, Adapters

(* Adapters as the type invariant has them, with references not yet known  *)
(* to be natural: that they never go below zero is part of the argument.   *)
AdapterMaps == [Adapters -> [refs : Int, active : BOOLEAN, loopPending : BOOLEAN, failed : BOOLEAN]]

LEMMA ReleasedFacts ==
  ASSUME adapter \in AdapterMaps, NEW r \in Adapters
  PROVE  /\ Released(r) \in AdapterMaps
         /\ \A q \in Adapters : /\ Released(r)[q].refs = adapter[q].refs - (IF q = r THEN 1 ELSE 0)
                                /\ Released(r)[q].active = adapter[q].active
BY DEF AdapterMaps, Released

LEMMA RetainedFacts ==
  ASSUME adapter \in AdapterMaps, NEW r \in Adapters
  PROVE  /\ Retained(r) \in AdapterMaps
         /\ \A q \in Adapters : /\ Retained(r)[q].refs = adapter[q].refs + (IF q = r THEN 1 ELSE 0)
                                /\ Retained(r)[q].active = adapter[q].active
BY DEF AdapterMaps, Retained

LEMMA ReportFacts ==
  ASSUME NEW m \in AdapterMaps, NEW r, Report(m, r)
  PROVE  /\ adapter' \in AdapterMaps
         /\ \A q \in Adapters : adapter'[q].refs = m[q].refs /\ adapter'[q].active = m[q].active
BY DEF AdapterMaps, Report

LEMMA FlagFacts ==
  ASSUME adapter \in AdapterMaps, NEW r \in Adapters
  PROVE  LET m == [adapter EXCEPT ![r].loopPending = FALSE] IN
         /\ m \in AdapterMaps
         /\ \A q \in Adapters : m[q].refs = adapter[q].refs /\ m[q].active = adapter[q].active
BY DEF AdapterMaps

-----------------------------------------------------------------------------
(* The strengthening.                                                      *)

(* The adapter that delivers is the application's.                         *)
ActiveIsCurrent == \A r \in Adapters : adapter[r].active <=> current = r

(* Whatever refers to an adapter refers to one that was allocated.         *)
Allocated(r) == r \in 1..created

ReferencesAllocated ==
  /\ current # None => Allocated(current)
  /\ dispatching # None => Allocated(dispatching)
  /\ service.wake # None => Allocated(service.wake)
  /\ \A p \in Producers : thread[p].at # "idle" => Allocated(thread[p].with)
  /\ \A r \in Adapters : sources[r] > 0 => Allocated(r)

(* Events are only admitted while there is an adapter to wake, and what is *)
(* queued was admitted.                                                    *)
AdmissionsWake == (service.accepting => service.wake # None) /\ service.queue <= admissions

(* An iteration dispatches sources that are attached, one at a time, and   *)
(* nothing starts or ends while it does.                                   *)
BatchAttached == \A r \in Adapters : batch[r] <= sources[r]
DispatchingNests == dispatching # None => owner \in {"callback", "checkpoint"}

IInv ==
  /\ TypeOK /\ AdaptersExact /\ ActiveIsCurrent /\ ReferencesAllocated
  /\ AdmissionsWake /\ BatchAttached /\ DispatchingNests

LEMMA Typed ==
  TypeOK => /\ adapter \in AdapterMaps /\ sources \in [Adapters -> Nat] /\ batch \in [Adapters -> Nat]
            /\ current \in Adapters \cup {None} /\ dispatching \in Adapters \cup {None}
            /\ attachedTo \in Adapters \cup {None} /\ created \in 0..MaxAdapters
            /\ created \in Nat /\ service.wake \in Adapters \cup {None}
BY BoundsAssumption DEF TypeOK, AdapterMaps

-----------------------------------------------------------------------------
(* The references of the adapters, under each step.                        *)
Counted(r, s, c, d) == s[r] + (IF c = r THEN 1 ELSE 0) + (IF d = r THEN 1 ELSE 0)

AdaptersOK ==
  /\ adapter \in AdapterMaps /\ sources \in [Adapters -> Nat] /\ batch \in [Adapters -> Nat]
  /\ ReferencesExact /\ ActiveIsCurrent /\ BatchAttached

LEMMA AttachStep ==
  ASSUME AdaptersOK, NEW r \in Adapters, AttachSource(r), UNCHANGED <<current, dispatching>>,
         UNCHANGED batch \/ batch' = sources
  PROVE  AdaptersOK'
<1>1. /\ adapter \in AdapterMaps /\ sources \in [Adapters -> Nat] /\ batch \in [Adapters -> Nat]
      /\ adapter' = Retained(r) /\ sources' = [sources EXCEPT ![r] = sources[r] + 1]
  BY DEF AdaptersOK, AttachSource
<1>2. /\ adapter' \in AdapterMaps
      /\ \A q \in Adapters : /\ adapter'[q].refs = adapter[q].refs + (IF q = r THEN 1 ELSE 0)
                             /\ adapter'[q].active = adapter[q].active
  BY <1>1, RetainedFacts
<1>3. /\ sources' \in [Adapters -> Nat] /\ batch' \in [Adapters -> Nat]
      /\ \A q \in Adapters : sources'[q] = sources[q] + (IF q = r THEN 1 ELSE 0)
  BY <1>1
<1>4. ASSUME NEW q \in Adapters
      PROVE  batch'[q] <= sources'[q]
  <2>1. sources[q] \in Nat /\ batch[q] \in Nat /\ batch[q] <= sources[q]
    BY <1>1 DEF AdaptersOK, BatchAttached
  <2> QED
    BY <1>3, <2>1
<1>5. ReferencesExact'
  BY <1>1, <1>2, <1>3 DEF AdaptersOK, ReferencesExact, AdapterMaps
<1> QED
  BY <1>2, <1>3, <1>4, <1>5 DEF AdaptersOK, ActiveIsCurrent, BatchAttached

(* Flags other than active are not what is counted.                        *)
LEMMA FlagStep ==
  ASSUME AdaptersOK, UNCHANGED <<current, dispatching, sources, batch>>, adapter' \in AdapterMaps,
         \A q \in Adapters : adapter'[q].refs = adapter[q].refs /\ adapter'[q].active = adapter[q].active
  PROVE  AdaptersOK'
BY DEF AdaptersOK, ReferencesExact, ActiveIsCurrent, BatchAttached

LEMMA StartStep ==
  ASSUME IInv, AdaptersOK, StartApplication
  PROVE  AdaptersOK'
<1>1. CASE UNCHANGED <<adapter, current>>
  <2>1. UNCHANGED <<sources, batch, dispatching>>
    BY DEF StartApplication, iteration
  <2> QED
    BY <1>1, <2>1, FlagStep DEF AdaptersOK
<1>2. CASE adapter' = [adapter EXCEPT ![created + 1] = Fresh] /\ current' = created + 1
  <2>1. /\ created \in Nat /\ created + 1 \in Adapters /\ current = None /\ None \notin Adapters
        /\ UNCHANGED <<sources, batch, dispatching>>
    BY NoneIsNoAdapter, BoundsAssumption DEF IInv, TypeOK, StartApplication, Adapters, iteration
  <2>2. /\ adapter' \in AdapterMaps
        /\ adapter'[created + 1].refs = 1 /\ adapter'[created + 1].active = TRUE
        /\ \A q \in Adapters \ {created + 1} : adapter'[q] = adapter[q]
    BY <1>2, <2>1 DEF AdaptersOK, AdapterMaps, Fresh
  <2>3. sources[created + 1] = 0 /\ dispatching # created + 1
    <3>1. created + 1 \notin 1..created /\ (sources[created + 1] > 0 => created + 1 \in 1..created)
      BY <2>1 DEF IInv, ReferencesAllocated, Allocated
    <3>2. sources[created + 1] \in Nat
      BY <2>1 DEF AdaptersOK
    <3>3. dispatching # None => dispatching \in 1..created
      BY DEF IInv, ReferencesAllocated, Allocated
    <3> QED
      BY <2>1, <3>1, <3>2, <3>3
  <2>4. ReferencesExact'
    BY <1>2, <2>1, <2>2, <2>3 DEF AdaptersOK, ReferencesExact
  <2>5. ActiveIsCurrent'
    BY <1>2, <2>1, <2>2 DEF AdaptersOK, ActiveIsCurrent
  <2> QED
    BY <2>1, <2>2, <2>4, <2>5 DEF AdaptersOK, BatchAttached
<1> QED
  BY <1>1, <1>2 DEF StartApplication

LEMMA ShutdownStep ==
  ASSUME IInv, AdaptersOK, Shutdown
  PROVE  AdaptersOK'
<1>1. /\ current \in Adapters /\ current' = None /\ None \notin Adapters
      /\ UNCHANGED <<sources, batch, dispatching>>
      /\ adapter' = [Released(current) EXCEPT ![current].active = FALSE, ![current].loopPending = FALSE]
  BY Typed, NoneIsNoAdapter DEF IInv, Shutdown, iteration
<1>2. PICK m \in AdapterMaps : m = Released(current)
  BY <1>1, ReleasedFacts DEF AdaptersOK
<1>3. PICK r \in Adapters : r = current
  BY <1>1
<1>4. adapter' = [m EXCEPT ![r].active = FALSE, ![r].loopPending = FALSE]
  BY <1>1, <1>2, <1>3
<1>5. /\ adapter' \in AdapterMaps
      /\ \A q \in Adapters : /\ adapter'[q].refs = m[q].refs
                             /\ adapter'[q].active = IF q = r THEN FALSE ELSE m[q].active
  BY <1>4 DEF AdapterMaps
<1>6. \A q \in Adapters : /\ m[q].refs = adapter[q].refs - (IF q = r THEN 1 ELSE 0)
                          /\ m[q].active = adapter[q].active
  BY <1>2, <1>3, ReleasedFacts DEF AdaptersOK
<1>7. ReferencesExact'
  <2>1. ASSUME NEW q \in Adapters
        PROVE  /\ adapter[q].refs = sources[q] + (IF r = q THEN 1 ELSE 0)
                                               + (IF dispatching = q THEN 1 ELSE 0)
               /\ sources[q] \in Nat
    BY <1>3 DEF AdaptersOK, ReferencesExact
  <2>2. ASSUME NEW q \in Adapters
        PROVE  adapter'[q].refs = sources[q] + 0 + (IF dispatching = q THEN 1 ELSE 0)
    <3> DEFINE beingDispatched == IF dispatching = q THEN 1 ELSE 0
    <3>1. sources[q] \in Nat /\ beingDispatched \in Nat
      BY <2>1
    <3>2. adapter[q].refs = sources[q] + (IF r = q THEN 1 ELSE 0) + beingDispatched
      BY <2>1
    <3>3. adapter'[q].refs = adapter[q].refs - (IF q = r THEN 1 ELSE 0)
      BY <1>5, <1>6
    <3> HIDE DEF beingDispatched
    <3>4. adapter'[q].refs = sources[q] + 0 + beingDispatched
      <4>1. CASE q = r
        <5>1. adapter[q].refs = sources[q] + 1 + beingDispatched /\ adapter'[q].refs = adapter[q].refs - 1
          BY <3>2, <3>3, <4>1
        <5> QED
          BY <3>1, <5>1
      <4>2. CASE q # r
        <5>1. adapter[q].refs = sources[q] + 0 + beingDispatched /\ adapter'[q].refs = adapter[q].refs - 0
          BY <3>2, <3>3, <4>2
        <5> QED
          BY <3>1, <5>1
      <4> QED
        BY <4>1, <4>2
    <3> QED
      BY <3>4 DEF beingDispatched
  <2>3. current' = None /\ sources' = sources /\ dispatching' = dispatching
        /\ \A q \in Adapters : None # q
    BY <1>1
  <2> QED
    BY <2>2, <2>3 DEF ReferencesExact
<1>8. ActiveIsCurrent'
  BY <1>1, <1>3, <1>5, <1>6 DEF AdaptersOK, ActiveIsCurrent
<1> QED
  BY <1>1, <1>5, <1>7, <1>8 DEF AdaptersOK, BatchAttached

LEMMA DispatchStep ==
  ASSUME IInv, AdaptersOK, NEW r \in Adapters, Dispatch(r)
  PROVE  AdaptersOK' /\ (dispatching' # dispatching => dispatching' = current)
<1>1. /\ adapter \in AdapterMaps /\ sources \in [Adapters -> Nat] /\ batch \in [Adapters -> Nat]
      /\ batch[r] \in Nat /\ batch[r] > 0 /\ batch[r] <= sources[r]
      /\ batch' = [batch EXCEPT ![r] = batch[r] - 1]
      /\ UNCHANGED current /\ dispatching = None /\ None \notin Adapters
  BY NoneIsNoAdapter DEF AdaptersOK, BatchAttached, Dispatch, application, IInv, DispatchingNests
<1>2. /\ batch' \in [Adapters -> Nat]
      /\ \A q \in Adapters : batch'[q] = batch[q] - (IF q = r THEN 1 ELSE 0)
  BY <1>1
<1>3. \A q \in Adapters : sources[q] \in Nat /\ batch[q] \in Nat /\ batch[q] <= sources[q]
  BY <1>1 DEF AdaptersOK, BatchAttached
<1>4. CASE ~ MayEnter(r) \/ service.queue = 0
  <2>1. /\ sources' = [sources EXCEPT ![r] = sources[r] - 1] /\ adapter' = Released(r)
        /\ UNCHANGED dispatching
    BY <1>4 DEF Dispatch
  <2>2. /\ sources' \in [Adapters -> Nat]
        /\ \A q \in Adapters : sources'[q] = sources[q] - (IF q = r THEN 1 ELSE 0)
    BY <1>1, <2>1
  <2>3. /\ adapter' \in AdapterMaps
        /\ \A q \in Adapters : /\ adapter'[q].refs = adapter[q].refs - (IF q = r THEN 1 ELSE 0)
                               /\ adapter'[q].active = adapter[q].active
    BY <1>1, <2>1, ReleasedFacts
  <2>4. ReferencesExact'
    BY <1>1, <2>1, <2>2, <2>3 DEF AdaptersOK, ReferencesExact, AdapterMaps
  <2>5. BatchAttached'
    BY <1>2, <1>3, <2>2 DEF BatchAttached
  <2> QED
    BY <1>1, <1>2, <2>1, <2>2, <2>3, <2>4, <2>5 DEF AdaptersOK, ActiveIsCurrent
<1>5. CASE ~ (~ MayEnter(r) \/ service.queue = 0)
  <2> DEFINE w == service.wake
             more == service.queue > 1 /\ adapter[w].active
  <2>1. /\ dispatching' = r /\ adapter' = IF more THEN Retained(w) ELSE adapter
        /\ sources' = [q \in Adapters |-> sources[q] - (IF q = r THEN 1 ELSE 0)
                                                     + (IF more /\ q = w THEN 1 ELSE 0)]
    BY <1>5 DEF Dispatch
  <2>2. current = r
    BY <1>5 DEF MayEnter, AdaptersOK, ActiveIsCurrent
  <2>3. w \in Adapters \/ w = None
    BY Typed DEF IInv
  <2>4. /\ sources' \in [Adapters -> Nat]
        /\ \A q \in Adapters : sources'[q] = sources[q] - (IF q = r THEN 1 ELSE 0)
                                                       + (IF more /\ q = w THEN 1 ELSE 0)
    BY <1>1, <2>1
  <2>5. /\ adapter' \in AdapterMaps
        /\ \A q \in Adapters : /\ adapter'[q].refs = adapter[q].refs + (IF more /\ q = w THEN 1 ELSE 0)
                               /\ adapter'[q].active = adapter[q].active
    <3>1. CASE more /\ w \in Adapters
      BY <1>1, <2>1, <3>1, RetainedFacts
    <3>2. CASE ~ more
      BY <1>1, <2>1, <3>2 DEF AdapterMaps
    <3>3. CASE w = None
      <4>1. Retained(w) = adapter
        BY <1>1, <3>3 DEF Retained, AdapterMaps
      <4> QED
        BY <1>1, <2>1, <3>3, <4>1 DEF AdapterMaps
    <3> QED
      BY <2>3, <3>1, <3>2, <3>3
  <2> HIDE DEF w, more
  <2>6. ReferencesExact'
    BY <1>1, <2>1, <2>4, <2>5 DEF AdaptersOK, ReferencesExact, AdapterMaps
  <2>7. BatchAttached'
    BY <1>2, <1>3, <2>4 DEF BatchAttached
  <2> QED
    BY <1>1, <1>2, <2>1, <2>2, <2>4, <2>5, <2>6, <2>7 DEF AdaptersOK, ActiveIsCurrent
<1> QED
  BY <1>4, <1>5

LEMMA CheckpointStep ==
  ASSUME IInv, AdaptersOK, Checkpoint, dispatching \in Adapters
  PROVE  AdaptersOK'
<1>1. /\ adapter \in AdapterMaps /\ dispatching' = None /\ None \notin Adapters
      /\ UNCHANGED <<current, sources, batch>>
  BY NoneIsNoAdapter DEF AdaptersOK, Checkpoint, application
<1>2. PICK m \in AdapterMaps : m = Released(dispatching)
  BY <1>1, ReleasedFacts
<1>3. \A q \in Adapters : /\ m[q].refs = adapter[q].refs - (IF q = dispatching THEN 1 ELSE 0)
                          /\ m[q].active = adapter[q].active
  BY <1>1, <1>2, ReleasedFacts
<1>4. /\ adapter' \in AdapterMaps
      /\ \A q \in Adapters : adapter'[q].refs = m[q].refs /\ adapter'[q].active = m[q].active
  <2>1. PICK r : r = dispatching
    OBVIOUS
  <2>2. adapter' = m \/ Report(m, r)
    BY <1>2, <2>1 DEF Checkpoint
  <2> QED
    BY <2>2, ReportFacts DEF AdapterMaps
<1>5. ReferencesExact'
  BY <1>1, <1>3, <1>4 DEF AdaptersOK, ReferencesExact, AdapterMaps
<1> QED
  BY <1>1, <1>3, <1>4, <1>5 DEF AdaptersOK, ActiveIsCurrent, BatchAttached

LEMMA AdaptersStep ==
  ASSUME IInv, [Next]_vars
  PROVE  AdaptersOK' /\ (dispatching' \notin {None, dispatching} => dispatching' = current)
<1> DEFINE Goal == AdaptersOK' /\ (dispatching' \notin {None, dispatching} => dispatching' = current)
<1>1. AdaptersOK /\ TypeOK
  BY Typed DEF IInv, AdaptersOK, AdaptersExact
<1>2. CASE UNCHANGED <<adapter, sources, batch, current, dispatching>>
  BY <1>1, <1>2 DEF AdaptersOK, ReferencesExact, ActiveIsCurrent, BatchAttached
<1>3. ASSUME NEW p \in Producers, Admit(p) \/ ReadActive(p) \/ WakeStopped(p)
      PROVE  Goal
  BY <1>2, <1>3 DEF Admit, ReadActive, WakeStopped, WakeContext, application, iteration, memory
<1>4. ASSUME NEW p \in Producers, Attach(p)
      PROVE  Goal
  <2>1. thread[p].with \in Adapters
    <3>1. thread[p].with \in 1..created /\ created \in 0..MaxAdapters
      BY <1>1, <1>4 DEF Attach, IInv, ReferencesAllocated, Allocated, TypeOK
    <3> QED
      BY <3>1, BoundsAssumption DEF Adapters
  <2>2. PICK r \in Adapters : r = thread[p].with
    BY <2>1
  <2> QED
    BY <1>1, <1>4, <2>2, AttachStep DEF Attach, application, iteration
<1>5. ASSUME NEW r \in Adapters, adapter' = [adapter EXCEPT ![r].loopPending = FALSE],
             UNCHANGED <<sources, batch, current, dispatching>>
      PROVE  Goal
  BY <1>1, <1>5, FlagFacts, FlagStep DEF AdaptersOK
<1>6. ASSUME NEW p \in Producers, RequestStop(p)
      PROVE  Goal
  <2>1. current \in Adapters /\ ClearPending(current) /\ UNCHANGED <<sources, batch, current, dispatching>>
    BY <1>6, Typed DEF RequestStop, IInv, application, iteration
  <2> QED
    BY <1>5, <2>1 DEF ClearPending
<1>7. CASE Quit
  <2>1. current \in Adapters /\ UNCHANGED <<sources, batch, current, dispatching>>
    BY <1>7, Typed DEF Quit, IInv, application, iteration
  <2> QED
    BY <1>5, <1>7, <2>1 DEF Quit
<1>8. CASE StartApplication
  <2>1. UNCHANGED dispatching
    BY <1>8 DEF StartApplication, iteration
  <2> QED
    BY <1>1, <1>8, <2>1, StartStep
<1>9. CASE Shutdown
  <2>1. UNCHANGED dispatching
    BY <1>9 DEF Shutdown, iteration
  <2> QED
    BY <1>1, <1>9, <2>1, ShutdownStep
<1>10. CASE OwnerAdmits
  <2>1. UNCHANGED <<current, dispatching>>
    BY <1>10 DEF OwnerAdmits, application
  <2>2. UNCHANGED batch \/ batch' = sources
    BY <1>10 DEF OwnerAdmits
  <2>3. service.wake \in Adapters
    BY <1>10, Typed DEF OwnerAdmits, IInv, AdmissionsWake
  <2>4. PICK r \in Adapters : r = service.wake
    BY <2>3
  <2>5. AttachSource(r) \/ UNCHANGED <<adapter, sources>>
    BY <1>10, <2>4 DEF OwnerAdmits, Wake
  <2>6. CASE AttachSource(r)
    BY <1>1, <2>1, <2>2, <2>6, AttachStep
  <2>7. CASE UNCHANGED <<adapter, sources>>
    <3>1. batch' \in [Adapters -> Nat] /\ \A q \in Adapters : batch'[q] <= sources[q]
      BY <1>1, <2>2 DEF AdaptersOK, BatchAttached
    <3> QED
      BY <1>1, <2>1, <2>7, <3>1 DEF AdaptersOK, ReferencesExact, ActiveIsCurrent, BatchAttached
  <2> QED
    BY <2>5, <2>6, <2>7
<1>11. CASE Iterate
  <2>1. UNCHANGED <<adapter, sources, current, dispatching>> /\ batch' = sources
    BY <1>11 DEF Iterate, application, memory
  <2>2. batch' \in [Adapters -> Nat] /\ \A q \in Adapters : batch'[q] <= sources[q]
    BY <1>1, <2>1 DEF AdaptersOK
  <2> QED
    BY <1>1, <2>1, <2>2 DEF AdaptersOK, ReferencesExact, ActiveIsCurrent, BatchAttached
<1>12. ASSUME NEW r \in Adapters, Dispatch(r)
       PROVE  Goal
  BY <1>1, <1>12, DispatchStep
<1>13. CASE CallbackEnds
  <2>1. UNCHANGED <<sources, batch, current, dispatching>>
    BY <1>13 DEF CallbackEnds, application, iteration
  <2>2. PICK m \in AdapterMaps : m = adapter
    BY <1>1 DEF AdaptersOK
  <2>3. UNCHANGED adapter \/ Report(m, dispatching)
    BY <1>13, <2>2 DEF CallbackEnds
  <2>4. CASE Report(m, dispatching)
    <3>1. PICK r : r = dispatching
      OBVIOUS
    <3>2. /\ adapter' \in AdapterMaps
          /\ \A q \in Adapters : adapter'[q].refs = adapter[q].refs /\ adapter'[q].active = adapter[q].active
      BY <2>2, <2>4, <3>1, ReportFacts
    <3> QED
      BY <1>1, <2>1, <3>2, FlagStep
  <2> QED
    BY <1>2, <2>1, <2>3, <2>4
<1>14. CASE Checkpoint
  <2>1. dispatching' = None
    BY <1>14 DEF Checkpoint
  <2>2. CASE dispatching \in Adapters
    BY <1>1, <1>14, <2>1, <2>2, CheckpointStep
  <2>3. CASE dispatching = None
    <3>1. UNCHANGED <<sources, batch, current>>
      BY <1>14 DEF Checkpoint, application
    <3>2. PICK m \in AdapterMaps : m = adapter
      BY <1>1 DEF AdaptersOK
    <3>3. Released(None) = adapter
      BY <3>2, NoneIsNoAdapter DEF Released, AdapterMaps
    <3>4. UNCHANGED adapter \/ Report(m, None)
      BY <1>14, <2>3, <3>2, <3>3 DEF Checkpoint
    <3>5. /\ adapter' \in AdapterMaps
          /\ \A q \in Adapters : adapter'[q].refs = adapter[q].refs /\ adapter'[q].active = adapter[q].active
      BY <3>2, <3>4, ReportFacts
    <3> QED
      BY <1>1, <2>1, <2>3, <3>1, <3>5, FlagStep
  <2> QED
    BY <1>1, <2>2, <2>3, Typed
<1>15. CASE Connect \/ TopReturns \/ LoopPolls \/ LoopEnds \/ PollTimesOut \/ IterationEnds
  BY <1>2, <1>15
  DEF Connect, TopReturns, LoopPolls, LoopEnds, PollTimesOut, IterationEnds, application, iteration, memory
<1>16. CASE UNCHANGED vars
  BY <1>2, <1>16 DEF vars
<1> QED
  BY <1>3, <1>4, <1>6, <1>7, <1>8, <1>9, <1>10, <1>11, <1>12, <1>13, <1>14, <1>15, <1>16
  DEF Next, OwnerStep

-----------------------------------------------------------------------------
(* The rest of the strengthening, under each step.                         *)
LEMMA NestingStep ==
  ASSUME IInv, [Next]_vars
  PROVE  DispatchingNests' /\ StaleSourceSilent'
<1> DEFINE Goal == DispatchingNests' /\ StaleSourceSilent'
<1>1. DispatchingNests /\ StaleSourceSilent
  BY DEF IInv, AdaptersExact
<1>2. CASE UNCHANGED <<dispatching, owner, current>>
  BY <1>1, <1>2 DEF DispatchingNests, StaleSourceSilent
<1>3. ASSUME dispatching' = None
      PROVE  Goal
  BY <1>3 DEF DispatchingNests, StaleSourceSilent
<1>4. ASSUME owner \notin {"callback", "checkpoint"}, UNCHANGED dispatching
      PROVE  Goal
  BY <1>1, <1>3, <1>4 DEF DispatchingNests
<1>5. CASE StartApplication \/ Shutdown \/ TopReturns \/ LoopPolls \/ LoopEnds \/ PollTimesOut
           \/ Iterate \/ IterationEnds
  <2>1. UNCHANGED dispatching
    BY <1>5 DEF StartApplication, Shutdown, TopReturns, LoopPolls, LoopEnds, PollTimesOut, Iterate,
                IterationEnds, iteration
  <2>2. owner \notin {"callback", "checkpoint"}
    BY <1>5 DEF StartApplication, Shutdown, TopReturns, LoopPolls, LoopEnds, PollTimesOut, Iterate,
                IterationEnds
  <2> QED
    BY <1>4, <2>1, <2>2
<1>6. CASE OwnerAdmits
  <2>1. UNCHANGED <<dispatching, current>> /\ (owner = "poll" \/ UNCHANGED owner)
    BY <1>6 DEF OwnerAdmits, application
  <2> QED
    BY <1>2, <1>4, <2>1
<1>7. ASSUME NEW r \in Adapters, Dispatch(r)
      PROVE  Goal
  <2>1. owner = "iterate" /\ dispatching = None
    BY <1>1, <1>7 DEF Dispatch, DispatchingNests
  <2>2. UNCHANGED dispatching \/ (dispatching' = r /\ owner' = "callback")
    BY <1>7 DEF Dispatch
  <2>3. dispatching' \notin {None, dispatching} => dispatching' = current
    BY <1>7, AdaptersStep DEF Next, OwnerStep
  <2>4. UNCHANGED current
    BY <1>7 DEF Dispatch, application
  <2> QED
    BY <1>3, <2>1, <2>2, <2>3, <2>4 DEF DispatchingNests, StaleSourceSilent
<1>8. CASE CallbackEnds
  <2>1. UNCHANGED <<dispatching, current>> /\ owner' = "checkpoint"
    BY <1>8 DEF CallbackEnds, application, iteration
  <2> QED
    BY <1>1, <2>1 DEF DispatchingNests, StaleSourceSilent
<1>9. CASE Checkpoint
  BY <1>3, <1>9 DEF Checkpoint
<1>10. CASE Connect \/ Quit
  BY <1>2, <1>10 DEF Connect, Quit, application, iteration
<1>11. ASSUME NEW p \in Producers, Admit(p) \/ ReadActive(p) \/ Attach(p) \/ RequestStop(p) \/ WakeStopped(p)
       PROVE  Goal
  BY <1>2, <1>11 DEF Admit, ReadActive, Attach, RequestStop, WakeStopped, application, iteration
<1>12. CASE UNCHANGED vars
  BY <1>2, <1>12 DEF vars
<1> QED
  BY <1>5, <1>6, <1>7, <1>8, <1>9, <1>10, <1>11, <1>12 DEF Next, OwnerStep

(* What each step makes of the retained-callback service.                  *)
LEMMA ServiceStep ==
  ASSUME IInv, [Next]_vars
  PROVE  /\ service' \in [wake : Adapters \cup {None}, accepting : BOOLEAN,
                          queue : 0..MaxAdmissions, live : BOOLEAN]
         /\ admissions' \in 0..MaxAdmissions /\ AdmissionsWake'
         /\ service'.wake \in {None, service.wake} \/ (service'.wake = created' /\ created' = created + 1)
<1> DEFINE Services == [wake : Adapters \cup {None}, accepting : BOOLEAN,
                        queue : 0..MaxAdmissions, live : BOOLEAN]
           Goal == /\ service' \in Services /\ admissions' \in 0..MaxAdmissions /\ AdmissionsWake'
                   /\ service'.wake \in {None, service.wake} \/ (service'.wake = created' /\ created' = created + 1)
<1>1. /\ service \in Services /\ admissions \in 0..MaxAdmissions /\ AdmissionsWake
      /\ service.queue \in 0..MaxAdmissions /\ MaxAdmissions \in Nat /\ None \notin Adapters
      /\ service.wake \in Adapters \cup {None}
  BY NoneIsNoAdapter, BoundsAssumption DEF IInv, TypeOK
<1>2. CASE UNCHANGED <<service, admissions>>
  BY <1>1, <1>2 DEF AdmissionsWake
<1>3. NoService \in Services /\ NoService.wake = None /\ NoService.accepting = FALSE
      /\ NoService.queue = 0
  BY <1>1 DEF NoService
<1>4. CASE service' = NoService /\ UNCHANGED admissions
  BY <1>1, <1>3, <1>4 DEF AdmissionsWake
<1>5. ASSUME service' = [service EXCEPT !.accepting = FALSE], UNCHANGED admissions
      PROVE  Goal
  <2>1. /\ service' \in Services /\ service'.wake = service.wake /\ service'.accepting = FALSE
        /\ service'.queue = service.queue
    BY <1>1, <1>5
  <2> QED
    BY <1>1, <1>5, <2>1 DEF AdmissionsWake
<1>6. CASE Shutdown
  <2>1. UNCHANGED admissions
    BY <1>6 DEF Shutdown
  <2> QED
    BY <1>4, <1>5, <1>6, <2>1 DEF Shutdown
<1>7. CASE StartApplication
  <2>1. UNCHANGED admissions
    BY <1>7 DEF StartApplication
  <2>2. CASE service' = [NoService EXCEPT !.wake = created + 1, !.accepting = TRUE]
    <3>1. created + 1 \in Adapters /\ created' = created + 1
      BY <1>7, BoundsAssumption DEF IInv, TypeOK, StartApplication, Adapters
    <3>2. PICK r \in Adapters : r = created + 1
      BY <3>1
    <3>3. /\ service' \in Services /\ service'.wake = r /\ service'.queue = 0
      <4>1. service' = [wake |-> r, accepting |-> TRUE, queue |-> 0, live |-> FALSE]
        BY <2>2, <3>2 DEF NoService
      <4> QED
        BY <1>1, <4>1
    <3> QED
      BY <1>1, <2>1, <3>1, <3>2, <3>3 DEF AdmissionsWake
  <2> QED
    BY <1>2, <1>7, <2>1, <2>2 DEF StartApplication
<1>8. CASE Connect
  <2>1. service' = [service EXCEPT !.live = ~ service.live] /\ UNCHANGED admissions
    BY <1>8 DEF Connect
  <2>2. /\ service' \in Services /\ service'.wake = service.wake
        /\ service'.accepting = service.accepting /\ service'.queue = service.queue
    BY <1>1, <2>1
  <2> QED
    BY <1>1, <2>1, <2>2 DEF AdmissionsWake
<1>9. ASSUME admissions < MaxAdmissions, admissions' = admissions + 1,
             service' = [service EXCEPT !.queue = service.queue + 1]
      PROVE  Goal
  <2>1. admissions' \in 0..MaxAdmissions /\ service.queue + 1 \in 0..MaxAdmissions
        /\ service.queue + 1 <= admissions'
    BY <1>1, <1>9 DEF AdmissionsWake
  <2>2. /\ service' \in Services /\ service'.wake = service.wake
        /\ service'.accepting = service.accepting /\ service'.queue = service.queue + 1
    BY <1>1, <1>9, <2>1
  <2> QED
    BY <1>1, <2>1, <2>2 DEF AdmissionsWake
<1>10. ASSUME NEW p \in Producers, Admit(p)
       PROVE  Goal
  BY <1>9, <1>10 DEF Admit
<1>11. CASE OwnerAdmits
  BY <1>9, <1>11 DEF OwnerAdmits
<1>12. ASSUME NEW r \in Adapters, Dispatch(r)
       PROVE  Goal
  <2>1. UNCHANGED admissions
    BY <1>12 DEF Dispatch
  <2>2. UNCHANGED service
        \/ (service.queue # 0 /\ service' = [service EXCEPT !.queue = service.queue - 1])
    BY <1>12 DEF Dispatch
  <2>3. CASE service.queue # 0 /\ service' = [service EXCEPT !.queue = service.queue - 1]
    <3>1. service.queue - 1 \in 0..MaxAdmissions /\ service.queue - 1 <= admissions
      BY <1>1, <2>3 DEF AdmissionsWake
    <3>2. /\ service' \in Services /\ service'.wake = service.wake
          /\ service'.accepting = service.accepting /\ service'.queue = service.queue - 1
      BY <1>1, <2>3, <3>1
    <3> QED
      BY <1>1, <2>1, <3>1, <3>2 DEF AdmissionsWake
  <2> QED
    BY <1>2, <2>1, <2>2, <2>3
<1>13. CASE Quit \/ CallbackEnds \/ Checkpoint \/ TopReturns \/ LoopPolls \/ LoopEnds \/ PollTimesOut
            \/ Iterate \/ IterationEnds
  BY <1>2, <1>13 DEF Quit, CallbackEnds, Checkpoint, TopReturns, LoopPolls, LoopEnds, PollTimesOut,
                     Iterate, IterationEnds, events
<1>14. ASSUME NEW p \in Producers, ReadActive(p) \/ Attach(p) \/ RequestStop(p) \/ WakeStopped(p)
       PROVE  Goal
  BY <1>2, <1>14 DEF ReadActive, Attach, RequestStop, WakeStopped
<1>15. CASE UNCHANGED vars
  BY <1>2, <1>15 DEF vars
<1> QED
  BY <1>6, <1>7, <1>8, <1>10, <1>11, <1>12, <1>13, <1>14, <1>15 DEF Next, OwnerStep

(* What each step makes of the foreign threads.                            *)
LEMMA ThreadStep ==
  ASSUME IInv, [Next]_vars
  PROVE  /\ thread' \in [Producers -> [at : {"idle", "wake", "attach", "stop"}, with : Adapters \cup {None}]]
         /\ \A p \in Producers : thread'[p].at # "idle" => Allocated(thread'[p].with)
<1> DEFINE Threads == [Producers -> [at : {"idle", "wake", "attach", "stop"}, with : Adapters \cup {None}]]
           Goal == /\ thread' \in Threads
                   /\ \A p \in Producers : thread'[p].at # "idle" => Allocated(thread'[p].with)
<1>1. /\ thread \in Threads
      /\ \A p \in Producers : thread[p].at # "idle" => Allocated(thread[p].with)
      /\ (current # None => Allocated(current)) /\ (service.wake # None => Allocated(service.wake))
      /\ current \in Adapters \cup {None} /\ service.wake \in Adapters \cup {None}
      /\ (service.accepting => service.wake # None)
  BY Typed DEF IInv, TypeOK, ReferencesAllocated, AdmissionsWake
<1>2. CASE UNCHANGED thread
  BY <1>1, <1>2
<1>3. ASSUME NEW p \in Producers,
             NEW to \in [at : {"idle", "wake", "attach", "stop"}, with : Adapters \cup {None}],
             to.at # "idle" => Allocated(to.with), thread' = [thread EXCEPT ![p] = to]
      PROVE  Goal
  BY <1>1, <1>3
<1>4. /\ Resting \in [at : {"idle", "wake", "attach", "stop"}, with : Adapters \cup {None}]
      /\ Resting.at = "idle"
  BY DEF Resting
<1>5. ASSUME NEW p \in Producers, Admit(p)
      PROVE  Goal
  <2>1. service.wake # None
    BY <1>1, <1>5 DEF Admit
  <2>2. PICK w \in Adapters : w = service.wake
    BY <1>1, <2>1
  <2>3. PICK to : to = IF service.queue = 0 THEN [at |-> "wake", with |-> w] ELSE Resting
    OBVIOUS
  <2>4. /\ to \in [at : {"idle", "wake", "attach", "stop"}, with : Adapters \cup {None}]
        /\ to.at # "idle" => Allocated(to.with)
    BY <1>1, <1>4, <2>1, <2>2, <2>3
  <2>5. thread' = [thread EXCEPT ![p] = to]
    BY <1>5, <2>2, <2>3 DEF Admit
  <2> QED
    BY <1>3, <2>4, <2>5
<1>6. ASSUME NEW p \in Producers, ReadActive(p)
      PROVE  Goal
  <2>1. PICK t \in [at : {"idle", "wake", "attach", "stop"}, with : Adapters \cup {None}] : t = thread[p]
    BY <1>1
  <2>2. PICK to : to = IF adapter[thread[p].with].active THEN [t EXCEPT !.at = "attach"] ELSE Resting
    OBVIOUS
  <2>3. t.at # "idle" /\ Allocated(t.with)
    BY <1>1, <1>6, <2>1 DEF ReadActive
  <2>4. /\ to \in [at : {"idle", "wake", "attach", "stop"}, with : Adapters \cup {None}]
        /\ to.at # "idle" => Allocated(to.with)
    BY <1>4, <2>2, <2>3
  <2>5. thread' = [thread EXCEPT ![p] = to]
    BY <1>1, <1>6, <2>1, <2>2 DEF ReadActive
  <2> QED
    BY <1>3, <2>4, <2>5
<1>7. ASSUME NEW p \in Producers, RequestStop(p)
      PROVE  Goal
  <2>1. PICK c \in Adapters : c = current
    BY <1>1, <1>7 DEF RequestStop
  <2>2. current # None
    BY <1>7 DEF RequestStop
  <2>3. PICK to : to = [at |-> "stop", with |-> c]
    OBVIOUS
  <2>4. /\ to \in [at : {"idle", "wake", "attach", "stop"}, with : Adapters \cup {None}]
        /\ to.at # "idle" => Allocated(to.with)
    BY <1>1, <2>1, <2>2, <2>3
  <2>5. thread' = [thread EXCEPT ![p] = to]
    BY <1>7, <2>1, <2>3 DEF RequestStop
  <2> QED
    BY <1>3, <2>4, <2>5
<1>8. ASSUME NEW p \in Producers, Attach(p) \/ WakeStopped(p)
      PROVE  Goal
  BY <1>3, <1>4, <1>8 DEF Attach, WakeStopped
<1>9. CASE \/ StartApplication \/ Shutdown \/ Connect \/ Quit \/ OwnerAdmits
           \/ CallbackEnds \/ Checkpoint \/ TopReturns \/ LoopPolls \/ LoopEnds \/ PollTimesOut
           \/ Iterate \/ IterationEnds
  BY <1>2, <1>9 DEF StartApplication, Shutdown, Connect, Quit, OwnerAdmits, CallbackEnds, Checkpoint,
                    TopReturns, LoopPolls, LoopEnds, PollTimesOut, Iterate, IterationEnds, events
<1>10. ASSUME NEW r \in Adapters, Dispatch(r)
       PROVE  Goal
  BY <1>2, <1>10 DEF Dispatch
<1>11. CASE UNCHANGED vars
  BY <1>2, <1>11 DEF vars
<1> QED
  BY <1>5, <1>6, <1>7, <1>8, <1>9, <1>10, <1>11 DEF Next, OwnerStep

(* An adapter once allocated stays one, and a start allocates the next.    *)
LEMMA AllocationStep ==
  ASSUME IInv, [Next]_vars
  PROVE  /\ created' \in 0..MaxAdapters /\ created' \in Nat /\ created' >= created
         /\ created' = created \/ created' = created + 1
         /\ current' \in {None, current} \/ (current' = created' /\ created' = created + 1)
         /\ attachedTo' \in {None, attachedTo} \/ attachedTo' = created'
         /\ current' \in Adapters \cup {None} /\ attachedTo' \in Adapters \cup {None}
<1>1. /\ created \in 0..MaxAdapters /\ created \in Nat /\ MaxAdapters \in Nat \ {0}
      /\ current \in Adapters \cup {None} /\ attachedTo \in Adapters \cup {None}
  BY Typed, BoundsAssumption DEF IInv
<1> DEFINE Same == UNCHANGED <<current, created, attachedTo>>
<1>2. CASE StartApplication
  <2>1. /\ created < MaxAdapters /\ created' = created + 1
        /\ (current' = created + 1 /\ attachedTo' = created + 1) \/ UNCHANGED <<current, attachedTo>>
    BY <1>2 DEF StartApplication
  <2>2. created + 1 \in Adapters /\ created + 1 \in 0..MaxAdapters
    BY <1>1, <2>1 DEF Adapters
  <2> QED
    BY <1>1, <2>1, <2>2
<1>3. CASE Shutdown
  BY <1>1, <1>3 DEF Shutdown
<1>4. CASE Same
  BY <1>1, <1>4
<1>5. ASSUME \/ Connect \/ Quit \/ OwnerAdmits \/ CallbackEnds \/ Checkpoint \/ TopReturns
             \/ LoopPolls \/ LoopEnds \/ PollTimesOut \/ Iterate \/ IterationEnds
      PROVE  Same
  BY <1>5 DEF Connect, Quit, OwnerAdmits, CallbackEnds, Checkpoint, TopReturns, LoopPolls, LoopEnds,
              PollTimesOut, Iterate, IterationEnds, application
<1>6. ASSUME NEW r \in Adapters, Dispatch(r)
      PROVE  Same
  BY <1>6 DEF Dispatch, application
<1>7. ASSUME NEW p \in Producers, Admit(p) \/ ReadActive(p) \/ Attach(p) \/ RequestStop(p) \/ WakeStopped(p)
      PROVE  Same
  BY <1>7 DEF Admit, ReadActive, Attach, RequestStop, WakeStopped, application
<1>8. ASSUME UNCHANGED vars
      PROVE  Same
  BY <1>8 DEF vars
<1> QED
  BY <1>2, <1>3, <1>4, <1>5, <1>6, <1>7, <1>8 DEF Next, OwnerStep

(* Which adapters may get a source.                                        *)
LEMMA SourcesStep ==
  ASSUME IInv, [Next]_vars, NEW r \in Adapters, sources'[r] > 0
  PROVE  Allocated(r)
<1>1. /\ sources \in [Adapters -> Nat] /\ (sources[r] > 0 => Allocated(r)) /\ sources[r] \in Nat
  BY Typed DEF IInv, ReferencesAllocated
<1>2. CASE UNCHANGED sources
  BY <1>1, <1>2
<1>3. ASSUME NEW q, Allocated(q), sources' = [sources EXCEPT ![q] = sources[q] + 1]
      PROVE  Allocated(r)
  BY <1>1, <1>3
<1>4. ASSUME NEW p \in Producers, Attach(p)
      PROVE  Allocated(r)
  <2>1. PICK q : q = thread[p].with
    OBVIOUS
  <2>2. Allocated(q) /\ sources' = [sources EXCEPT ![q] = sources[q] + 1]
    BY <1>4, <2>1 DEF Attach, AttachSource, IInv, ReferencesAllocated
  <2> QED
    BY <1>3, <2>2
<1>5. CASE OwnerAdmits
  <2>1. PICK q : q = service.wake
    OBVIOUS
  <2>2. Allocated(q)
    BY <1>5, <2>1 DEF OwnerAdmits, IInv, ReferencesAllocated, AdmissionsWake
  <2>3. UNCHANGED sources \/ sources' = [sources EXCEPT ![q] = sources[q] + 1]
    BY <1>5, <2>1 DEF OwnerAdmits, Wake, AttachSource
  <2> QED
    BY <1>2, <1>3, <2>2, <2>3
<1>6. ASSUME NEW q \in Adapters, Dispatch(q)
      PROVE  Allocated(r)
  <2>1. CASE sources' = [sources EXCEPT ![q] = sources[q] - 1]
    <3>1. sources[q] \in Nat
      BY <1>1
    <3>2. sources'[r] > 0 => sources[r] > 0
      BY <1>1, <2>1, <3>1
    <3> QED
      BY <1>1, <3>2
  <2> DEFINE w == service.wake
             more == service.queue > 1 /\ adapter[w].active
  <2>2. CASE sources' = [a \in Adapters |-> sources[a] - (IF a = q THEN 1 ELSE 0)
                                                       + (IF more /\ a = w THEN 1 ELSE 0)]
    <3>1. CASE r = w
      BY <3>1, NoneIsNoAdapter DEF IInv, ReferencesAllocated
    <3>2. CASE r # w
      <4>1. sources'[r] = sources[r] - (IF r = q THEN 1 ELSE 0) + 0
        BY <2>2, <3>2
      <4>2. sources[r] > 0
        BY <1>1, <4>1
      <4> QED
        BY <1>1, <4>2
    <3> QED
      BY <3>1, <3>2
  <2> QED
    BY <1>6, <2>1, <2>2 DEF Dispatch
<1>7. ASSUME \/ StartApplication \/ Shutdown \/ Connect \/ Quit \/ CallbackEnds \/ Checkpoint \/ TopReturns
             \/ LoopPolls \/ LoopEnds \/ PollTimesOut \/ Iterate \/ IterationEnds
      PROVE  UNCHANGED sources
  BY <1>7 DEF StartApplication, Shutdown, Connect, Quit, CallbackEnds, Checkpoint, TopReturns, LoopPolls,
              LoopEnds, PollTimesOut, Iterate, IterationEnds, memory
<1>8. ASSUME NEW p \in Producers, Admit(p) \/ ReadActive(p) \/ RequestStop(p) \/ WakeStopped(p)
      PROVE  UNCHANGED sources
  BY <1>8 DEF Admit, ReadActive, RequestStop, WakeStopped, memory
<1>9. CASE UNCHANGED vars
  BY <1>2, <1>9 DEF vars
<1> QED
  BY <1>2, <1>4, <1>5, <1>6, <1>7, <1>8, <1>9 DEF Next, OwnerStep


-----------------------------------------------------------------------------
(* The strengthening under every step.                                     *)
LEMMA ReferencesStep ==
  ASSUME IInv, [Next]_vars
  PROVE  ReferencesAllocated'
<1>1. /\ created \in Nat /\ created' \in Nat /\ created' >= created
      /\ created' = created \/ created' = created + 1
  BY Typed, AllocationStep DEF IInv
<1>2. ASSUME NEW r, r \in 1..created
      PROVE  r \in 1..created'
  BY <1>1, <1>2
<1>3. created' = created + 1 => created' \in 1..created'
  BY <1>1
<1>4. /\ current # None => current \in 1..created
      /\ dispatching # None => dispatching \in 1..created
      /\ service.wake # None => service.wake \in 1..created
  BY DEF IInv, ReferencesAllocated, Allocated
<1>5. current' # None => current' \in 1..created'
  <2>1. current' \in {None, current} \/ (current' = created' /\ created' = created + 1)
    BY AllocationStep
  <2> QED
    BY <1>2, <1>3, <1>4, <2>1, Zenon
<1>6. dispatching' # None => dispatching' \in 1..created'
  <2>1. dispatching' \notin {None, dispatching} => dispatching' = current
    BY AdaptersStep
  <2> QED
    BY <1>2, <1>4, <2>1
<1>7. service'.wake # None => service'.wake \in 1..created'
  <2>1. service'.wake \in {None, service.wake} \/ (service'.wake = created' /\ created' = created + 1)
    BY ServiceStep
  <2> QED
    BY <1>2, <1>3, <1>4, <2>1, Zenon
<1>8. ASSUME NEW p \in Producers, thread'[p].at # "idle"
      PROVE  thread'[p].with \in 1..created'
  <2>1. thread'[p].with \in 1..created
    BY <1>8, ThreadStep DEF Allocated
  <2> QED
    BY <1>2, <2>1
<1>9. ASSUME NEW r \in Adapters, sources'[r] > 0
      PROVE  r \in 1..created'
  <2>1. r \in 1..created
    BY <1>9, SourcesStep DEF Allocated
  <2> QED
    BY <1>2, <2>1
<1> QED
  BY <1>5, <1>6, <1>7, <1>8, <1>9 DEF ReferencesAllocated, Allocated

(* The flags of the poll, and where the owner thread may be.               *)
LEMMA FlagsStep ==
  ASSUME IInv, [Next]_vars
  PROVE  /\ {wakeup', deadline'} \subseteq BOOLEAN
         /\ owner' \in {"top", "loop", "poll", "iterate", "callback", "checkpoint", "ended"}
<1> DEFINE Owners == {"top", "loop", "poll", "iterate", "callback", "checkpoint", "ended"}
           Goal == wakeup' \in BOOLEAN /\ deadline' \in BOOLEAN /\ owner' \in Owners
<1>1. wakeup \in BOOLEAN /\ deadline \in BOOLEAN /\ owner \in Owners
  BY DEF IInv, TypeOK
<1>2. CASE LoopPolls
  BY <1>1, <1>2 DEF LoopPolls, LoopPending
<1>3. ASSUME \/ StartApplication \/ Shutdown \/ Connect \/ Quit \/ TopReturns
             \/ LoopEnds \/ PollTimesOut \/ Iterate \/ IterationEnds
      PROVE  Goal
  BY <1>1, <1>3 DEF StartApplication, Shutdown, Connect, Quit, TopReturns, LoopEnds, PollTimesOut,
                    Iterate, IterationEnds, iteration
<1>4. CASE OwnerAdmits
  BY <1>1, <1>4 DEF OwnerAdmits
<1>5. CASE CallbackEnds \/ Checkpoint
  BY <1>1, <1>5 DEF CallbackEnds, Checkpoint, Report, iteration
<1>6. ASSUME NEW r \in Adapters, Dispatch(r)
      PROVE  Goal
  BY <1>1, <1>6 DEF Dispatch
<1>7. ASSUME NEW p \in Producers, Admit(p) \/ ReadActive(p) \/ Attach(p) \/ RequestStop(p) \/ WakeStopped(p)
      PROVE  Goal
  BY <1>1, <1>7 DEF Admit, ReadActive, Attach, RequestStop, WakeStopped, ClearPending, WakeContext, iteration
<1>8. CASE UNCHANGED vars
  BY <1>1, <1>8 DEF vars
<1>9. Goal
  BY <1>2, <1>3, <1>4, <1>5, <1>6, <1>7, <1>8 DEF Next, OwnerStep
<1> QED
  BY <1>9

(* A program that has started nothing.                                     *)
LEMMA IInvInit == Init => IInv
<1> SUFFICES ASSUME Init PROVE IInv
  OBVIOUS
<1>1. /\ adapter = [r \in Adapters |-> Unallocated] /\ sources = [r \in Adapters |-> 0]
      /\ batch = [r \in Adapters |-> 0] /\ current = None /\ dispatching = None /\ attachedTo = None
      /\ created = 0 /\ None \notin Adapters
  BY NoneIsNoAdapter DEF Init
<1>2. Unallocated.refs = 0 /\ Unallocated.active = FALSE
      /\ Unallocated \in [refs : Nat, active : BOOLEAN, loopPending : BOOLEAN, failed : BOOLEAN]
  BY DEF Unallocated, Fresh
<1>3. TypeOK
  <2>1. /\ adapter \in [Adapters -> [refs : Nat, active : BOOLEAN, loopPending : BOOLEAN, failed : BOOLEAN]]
        /\ sources \in [Adapters -> Nat] /\ batch \in [Adapters -> Nat]
    BY <1>1, <1>2
  <2>2. service \in [wake : Adapters \cup {None}, accepting : BOOLEAN,
                     queue : 0..MaxAdmissions, live : BOOLEAN]
    BY BoundsAssumption DEF Init, NoService
  <2>3. thread \in [Producers -> [at : {"idle", "wake", "attach", "stop"}, with : Adapters \cup {None}]]
    BY DEF Init, Resting
  <2>4. created \in 0..MaxAdapters /\ admissions \in 0..MaxAdmissions
    BY BoundsAssumption DEF Init
  <2> QED
    BY <1>1, <2>1, <2>2, <2>3, <2>4 DEF Init, TypeOK
<1>4. ReferencesExact
  BY <1>1, <1>2 DEF ReferencesExact
<1>5. ActiveIsCurrent /\ BatchAttached /\ DispatchingNests /\ StaleSourceSilent
  BY <1>1, <1>2 DEF ActiveIsCurrent, BatchAttached, DispatchingNests, StaleSourceSilent
<1>6. ReferencesAllocated
  BY <1>1 DEF Init, ReferencesAllocated, NoService, Resting
<1>7. AdmissionsWake
  BY DEF Init, AdmissionsWake, NoService
<1> QED
  BY <1>3, <1>4, <1>5, <1>6, <1>7 DEF IInv, AdaptersExact

(* The parts together.                                                     *)
LEMMA IInvNext == IInv /\ [Next]_vars => IInv'
<1> SUFFICES ASSUME IInv, [Next]_vars PROVE IInv'
  OBVIOUS
<1>1. AdaptersOK' /\ DispatchingNests' /\ StaleSourceSilent'
  BY AdaptersStep, NestingStep
<1>2. /\ adapter' \in AdapterMaps' /\ sources' \in [Adapters -> Nat] /\ batch' \in [Adapters -> Nat]
      /\ ReferencesExact' /\ ActiveIsCurrent' /\ BatchAttached'
  BY <1>1 DEF AdaptersOK
<1>3. adapter' \in [Adapters -> [refs : Nat, active : BOOLEAN, loopPending : BOOLEAN, failed : BOOLEAN]]
  <2>1. ASSUME NEW r \in Adapters
        PROVE  adapter'[r].refs \in Nat
    <3>1. sources'[r] \in Nat
      BY <1>2
    <3>2. adapter'[r].refs = sources'[r] + (IF current' = r THEN 1 ELSE 0) + (IF dispatching' = r THEN 1 ELSE 0)
      BY <1>2 DEF ReferencesExact
    <3> QED
      BY <3>1, <3>2
  <2> QED
    BY <1>2, <2>1 DEF AdapterMaps
<1>4. dispatching' \in Adapters \cup {None}
  <2>1. dispatching' \notin {None, dispatching} => dispatching' = current
    BY AdaptersStep
  <2>2. {current, dispatching} \subseteq Adapters \cup {None}
    BY DEF IInv, TypeOK
  <2> QED
    BY <2>1, <2>2
<1>5. TypeOK'
  <2>1. /\ created' \in 0..MaxAdapters /\ current' \in Adapters \cup {None}
        /\ attachedTo' \in Adapters \cup {None}
    BY AllocationStep
  <2>2. /\ service' \in [wake : Adapters \cup {None}, accepting : BOOLEAN,
                         queue : 0..MaxAdmissions, live : BOOLEAN]
        /\ admissions' \in 0..MaxAdmissions
    BY ServiceStep
  <2>3. thread' \in [Producers -> [at : {"idle", "wake", "attach", "stop"}, with : Adapters \cup {None}]]
    BY ThreadStep
  <2>4. /\ {wakeup', deadline'} \subseteq BOOLEAN
        /\ owner' \in {"top", "loop", "poll", "iterate", "callback", "checkpoint", "ended"}
    BY FlagsStep
  <2> QED
    BY <1>2, <1>3, <1>4, <2>1, <2>2, <2>3, <2>4 DEF TypeOK
<1>6. AdmissionsWake' /\ ReferencesAllocated'
  BY ServiceStep, ReferencesStep
<1> QED
  BY <1>1, <1>2, <1>5, <1>6 DEF IInv, AdaptersExact

(* The strengthening holds in every state the program reaches: the         *)
(* adapter that delivers is the one nts_gtk_application_runtime names, and *)
(* sources, threads and the service only know adapters that were           *)
(* allocated.                                                              *)
THEOREM IInvInvariant == Spec => []IInv
  BY IInvInit, IInvNext, PTL DEF Spec

(* Every field keeps its range; in particular no adapter is released more  *)
(* often than nts_glib_runtime_retain was called for it.                   *)
THEOREM TypeCorrect == Spec => []TypeOK
<1>1. IInv => TypeOK
  BY DEF IInv
<1> QED
  BY <1>1, IInvInvariant, PTL

(* The references of an adapter are exactly its owner's, its attached      *)
(* idle sources' and the one of the source nts_glib_runtime_dispatch has   *)
(* in hand, so none is freed under a source and none leaks; and a source   *)
(* of a detached adapter delivers nothing.                                 *)
THEOREM AdaptersStayExact == Spec => []AdaptersExact
<1>1. IInv => AdaptersExact
  BY DEF IInv
<1> QED
  BY <1>1, IInvInvariant, PTL
=============================================================================

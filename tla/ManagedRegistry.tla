--------------------------- MODULE ManagedRegistry ---------------------------
(***************************************************************************)
(* The managed handles of a Blink realm (nts_blink_managed_registry.cc).   *)
(* A program holds claims on node peers and on event subscriptions.  A     *)
(* subscription owns its callback's closure, and a closure may capture     *)
(* claims of its own: giving a closure back (the context_release hook)     *)
(* gives those claims back too, in the middle of whatever registry call    *)
(* released it.  The calls in progress are the frames of an explicit stack.*)
(***************************************************************************)
EXTENDS Naturals, SequencesExt

CONSTANTS Nodes,         \* DOM nodes of the document
          MaxPeers,      \* bound on the NtsWebNode allocations
          MaxListens,    \* bound on the calls of Listen and ListenFrame
          MaxClaims      \* bound on the claims one holder has on one peer

ASSUME BoundsAssumption == MaxPeers \in Nat /\ MaxListens \in Nat /\ MaxClaims \in Nat
ASSUME NodesAssumption == "none" \notin Nodes

Peers == 1..MaxPeers
Subscriptions == 1..MaxListens
None == 0

(* A claim is held by the program or captured by a subscription's closure. *)
Program == 0
Holders == {Program} \cup Subscriptions
Nobody == MaxListens + 1

VARIABLES
  peers,        \* nodes_: the linked peers
  node,         \* peer -> its Persistent<Node>, or "none"
  claims,       \* peer -> claims; 0: not allocated, or deleted
  index,        \* nodes_by_dom_id_
  subscription, \* -> "unused", "stable", "frame" or "gone"
  list,         \* subscriptions_, head first
  frames,       \* frame_subscriptions_, head first
  listening,    \* registrations Blink's event targets have
  hooks,        \* subscriptions whose context_release is not cleared
  invalidated,
  registry,     \* does the registry exist?
  held,         \* holder -> peer -> claims held
  owner,        \* stable subscription -> holder of its claim, or Nobody
  released,     \* subscription -> times its closure was given back
  stack,        \* registry calls in progress, innermost last
  outcome       \* "running", or "aborted" by a failed CHECK

peerVars == <<peers, node, claims, index>>
subscriptionVars == <<subscription, list, frames, listening, hooks, released>>
holding == <<held, owner>>
lifetime == <<invalidated, registry>>
vars == <<peerVars, subscriptionVars, holding, lifetime, stack, outcome>>

(* Frames: a closure being dropped, the delete that follows a Cancel, the  *)
(* two loops of Invalidate (at: the cursor) and the cursor's advance.      *)
Frame(op, at) == [op |-> op, at |-> at]
FrameOps == {"hook", "delete", "frames", "subscriptions", "advance"}

TypeOK ==
  /\ peers \subseteq Peers
  /\ node \in [Peers -> Nodes \cup {"none"}]
  /\ claims \in [Peers -> Nat]
  /\ index \in [Nodes -> Peers \cup {None}]
  /\ subscription \in [Subscriptions -> {"unused", "stable", "frame", "gone"}]
  /\ list \in Seq(Subscriptions) /\ frames \in Seq(Subscriptions)
  /\ listening \subseteq Subscriptions /\ hooks \subseteq Subscriptions
  /\ invalidated \in BOOLEAN /\ registry \in BOOLEAN
  /\ held \in [Holders -> [Peers -> 0..MaxClaims]]
  /\ owner \in [Subscriptions -> Holders \cup {Nobody}]
  /\ released \in [Subscriptions -> 0..1]
  /\ stack \in Seq([op : FrameOps, at : Subscriptions \cup {None}])
  /\ outcome \in {"running", "aborted"}

Init ==
  /\ peers = {} /\ node = [p \in Peers |-> "none"] /\ claims = [p \in Peers |-> 0]
  /\ index = [n \in Nodes |-> None]
  /\ subscription = [s \in Subscriptions |-> "unused"]
  /\ list = <<>> /\ frames = <<>> /\ listening = {} /\ hooks = {}
  /\ invalidated = FALSE /\ registry = TRUE
  /\ held = [h \in Holders |-> [p \in Peers |-> 0]]
  /\ owner = [s \in Subscriptions |-> Nobody]
  /\ released = [s \in Subscriptions |-> 0]
  /\ stack = <<>> /\ outcome = "running"

Running == outcome = "running"
Top == Last(stack)
Below == Front(stack)
FirstOf(seq) == IF seq = <<>> THEN None ELSE Head(seq)

-----------------------------------------------------------------------------
(* Definitions named Faulty... are bugs the code could have had; each run  *)
(* is also made with one of them in place of the definition that follows   *)
(* it, to show that the property in question notices.                      *)

(* Cancel, of either kind of subscription: the listener is unregistered    *)
(* and detached, the hook is cleared, then called, above the frames rest.  *)
FaultyClearHook(s) == UNCHANGED hooks
ClearHook(s) == hooks' = hooks \ {s}

FaultyUnregister(s) == UNCHANGED listening
Unregister(s) == listening' = listening \ {s}

Cancel(s, rest) ==
  /\ Unregister(s)
  /\ ClearHook(s)
  /\ IF s \in hooks
     THEN /\ released' = [released EXCEPT ![s] = @ + 1]
          /\ stack' = Append(rest, Frame("hook", s))
     ELSE stack' = rest /\ UNCHANGED released

(* RemoveNode and the delete: a peer that still has its node must be in    *)
(* the index under it, or a CHECK aborts the process.                      *)
Erase(p) == index' = [index EXCEPT ![node[p]] = None]

LastClaim(p) ==
  /\ claims' = [claims EXCEPT ![p] = 0]
  /\ peers' = peers \ {p}
  /\ node' = [node EXCEPT ![p] = "none"]
  /\ IF p \notin peers \/ node[p] = "none"
     THEN UNCHANGED <<index, outcome>>
     ELSE IF index[node[p]] = p
     THEN Erase(p) /\ UNCHANGED outcome
     ELSE outcome' = "aborted" /\ UNCHANGED index

(* ReleaseManagedNode of a claim that h holds.                             *)
ReleaseNode(h, p) ==
  /\ held' = [held EXCEPT ![h][p] = @ - 1]
  /\ IF claims[p] = 1
     THEN LastClaim(p)
     ELSE claims' = [claims EXCEPT ![p] = @ - 1] /\ UNCHANGED <<peers, node, index, outcome>>

(* ReleaseManagedSubscription: unlink, cancel, delete.  Once the registry  *)
(* is gone the hook has been called already and only the delete is left.   *)
ReleaseSubscription(s, rest) ==
  /\ owner' = [owner EXCEPT ![s] = Nobody]
  /\ IF registry
     THEN /\ list' = RemoveFirst(list, s)
          /\ Cancel(s, Append(rest, Frame("delete", s)))
          /\ UNCHANGED subscription
     ELSE /\ subscription' = [subscription EXCEPT ![s] = "gone"]
          /\ stack' = rest
          /\ UNCHANGED <<list, listening, hooks, released>>
  /\ UNCHANGED frames

-----------------------------------------------------------------------------
(* The program's calls; none starts while another one is in progress.      *)
Calls == Running /\ stack = <<>>

(* AcquireNode: one peer per node, found through the index.                *)
Existing(n) == index[n]

FaultyAddClaim(p) == claims' = [claims EXCEPT ![p] = 1]
AddClaim(p) == claims' = [claims EXCEPT ![p] = @ + 1]

Acquire(n) ==
  /\ Calls /\ registry /\ ~invalidated
  /\ \E p \in Peers :
       /\ held[Program][p] < MaxClaims
       /\ IF Existing(n) # None
          THEN /\ p = index[n]
               /\ UNCHANGED <<peers, node, index>>
          ELSE /\ claims[p] = 0 /\ \A q \in 1..p - 1 : claims[q] > 0
               /\ peers' = peers \cup {p}
               /\ node' = [node EXCEPT ![p] = n]
               /\ index' = [index EXCEPT ![n] = p]
       /\ AddClaim(p)
       /\ held' = [held EXCEPT ![Program][p] = @ + 1]
  /\ UNCHANGED <<subscriptionVars, owner, lifetime, stack, outcome>>

ProgramReleasesNode(p) ==
  /\ Calls /\ held[Program][p] > 0
  /\ ReleaseNode(Program, p)
  /\ UNCHANGED <<subscriptionVars, owner, lifetime, stack>>

(* Listen and ListenFrame: the closure captures some of the peers the      *)
(* program holds.  When the realm is invalidated, or addEventListener      *)
(* refuses, the closure is given back before the call returns nothing.     *)
Listen(s, kind, refused, captured) ==
  /\ Calls /\ registry
  /\ \A q \in Subscriptions : subscription[q] = "unused" <=> q >= s
  /\ invalidated => refused
  /\ \A p \in captured : held[Program][p] > 0
  /\ held' = [held EXCEPT
       ![Program] = [p \in Peers |-> IF p \in captured THEN @[p] - 1 ELSE @[p]],
       ![s] = [p \in Peers |-> IF p \in captured THEN 1 ELSE 0]]
  /\ IF refused
     THEN /\ subscription' = [subscription EXCEPT ![s] = "gone"]
          /\ released' = [released EXCEPT ![s] = 1]
          /\ stack' = <<Frame("hook", s)>>
          /\ UNCHANGED <<list, frames, listening, hooks, owner>>
     ELSE /\ subscription' = [subscription EXCEPT ![s] = kind]
          /\ listening' = listening \cup {s} /\ hooks' = hooks \cup {s}
          /\ IF kind = "stable"
             THEN /\ list' = <<s>> \o list /\ UNCHANGED frames
                  /\ owner' = [owner EXCEPT ![s] = Program]
             ELSE frames' = <<s>> \o frames /\ UNCHANGED <<list, owner>>
          /\ UNCHANGED <<released, stack>>
  /\ UNCHANGED <<peerVars, lifetime, outcome>>

(* The program stores a subscription in a variable that the closure of c   *)
(* captures; c may be the subscription itself.                             *)
Capture(s, c) ==
  /\ Calls /\ owner[s] = Program /\ c \in hooks
  /\ owner' = [owner EXCEPT ![s] = c]
  /\ UNCHANGED <<peerVars, subscriptionVars, held, lifetime, stack, outcome>>

ProgramReleasesSubscription(s) ==
  /\ Calls /\ owner[s] = Program
  /\ ReleaseSubscription(s, stack)
  /\ UNCHANGED <<peerVars, held, lifetime, outcome>>

(* RemoveFrameSubscription.                                                *)
UnlinkFrame(s) == frames' = RemoveFirst(frames, s)

(* BlinkFrameEventListener::Cancel, from ReleaseFrameSubscription or from  *)
(* Invalidate.                                                             *)
CancelFrame(s, rest) ==
  /\ subscription' = [subscription EXCEPT ![s] = "gone"]
  /\ UnlinkFrame(s)
  /\ Cancel(s, rest)
  /\ UNCHANGED list

ReleaseFrame(s) ==
  /\ Calls /\ subscription[s] = "frame"
  /\ CancelFrame(s, stack)
  /\ UNCHANGED <<peerVars, holding, lifetime, outcome>>

-----------------------------------------------------------------------------
(* Frames that run on.                                                     *)

(* A closure being dropped gives back the claims it captured, one by one.  *)
HookReleasesNode ==
  /\ Running /\ stack # <<>> /\ Top.op = "hook"
  /\ \E p \in Peers : held[Top.at][p] > 0 /\ ReleaseNode(Top.at, p)
  /\ UNCHANGED <<subscriptionVars, owner, lifetime, stack>>

HookReleasesSubscription ==
  /\ Running /\ stack # <<>> /\ Top.op = "hook"
  /\ \E s \in Subscriptions : owner[s] = Top.at /\ ReleaseSubscription(s, stack)
  /\ UNCHANGED <<peerVars, held, lifetime, outcome>>

HookReturns ==
  /\ Running /\ stack # <<>> /\ Top.op = "hook"
  /\ \A p \in Peers : held[Top.at][p] = 0
  /\ \A s \in Subscriptions : owner[s] # Top.at
  /\ stack' = Below
  /\ UNCHANGED <<peerVars, subscriptionVars, holding, lifetime, outcome>>

Delete ==
  /\ Running /\ stack # <<>> /\ Top.op = "delete"
  /\ subscription' = [subscription EXCEPT ![Top.at] = "gone"]
  /\ stack' = Below
  /\ UNCHANGED <<peerVars, list, frames, listening, hooks, released, holding, lifetime, outcome>>

(* Invalidate: the realm's document goes away.  The index is cleared, the  *)
(* frame listeners are cancelled, then the subscriptions, and at the end   *)
(* the peers lose their nodes.                                             *)
Invalidate ==
  /\ Calls /\ registry /\ ~invalidated
  /\ invalidated' = TRUE
  /\ index' = [n \in Nodes |-> None]
  /\ stack' = <<Frame("frames", None)>>
  /\ UNCHANGED <<peers, node, claims, subscriptionVars, holding, registry, outcome>>

InvalidateFrames ==
  /\ Running /\ stack # <<>> /\ Top.op = "frames"
  /\ IF frames # <<>>
     THEN CancelFrame(Head(frames), stack)
     ELSE /\ stack' = Append(Below, Frame("subscriptions", FirstOf(list)))
          /\ UNCHANGED subscriptionVars
  /\ UNCHANGED <<peerVars, holding, lifetime, outcome>>

InvalidateSubscription ==
  /\ Running /\ stack # <<>> /\ Top.op = "subscriptions" /\ Top.at # None
  /\ Cancel(Top.at, Append(Below, Frame("advance", Top.at)))
  /\ UNCHANGED <<peerVars, subscription, list, frames, holding, lifetime, outcome>>

(* The link to the registration after s; null at the end of the list.      *)
Place(s) == SelectInSeq(list, LAMBDA x : x = s)
NextLink(s) == IF Place(s) \in 1..Len(list) - 1 THEN list[Place(s) + 1] ELSE None

(* The cursor reads the next link of the subscription it just cancelled.   *)
(* A deleted one was unlinked with a null link: the read finds that, or    *)
(* whatever the allocator put there, and then the process goes down.       *)
Advance ==
  /\ Running /\ stack # <<>> /\ Top.op = "advance"
  /\ IF subscription[Top.at] = "gone"
     THEN \/ /\ stack' = Append(Below, Frame("subscriptions", None))
             /\ UNCHANGED outcome
          \/ outcome' = "aborted" /\ UNCHANGED stack
     ELSE /\ stack' = Append(Below, Frame("subscriptions", NextLink(Top.at)))
          /\ UNCHANGED outcome
  /\ UNCHANGED <<peerVars, subscriptionVars, holding, lifetime>>

InvalidateReturns ==
  /\ Running /\ stack # <<>> /\ Top.op = "subscriptions" /\ Top.at = None
  /\ node' = [p \in Peers |-> IF p \in peers THEN "none" ELSE node[p]]
  /\ stack' = Below
  /\ UNCHANGED <<peers, claims, index, subscriptionVars, holding, lifetime, outcome>>

(* The realm is deleted: what the program still holds is orphaned.         *)
Destroy ==
  /\ Calls /\ registry /\ invalidated
  /\ registry' = FALSE
  /\ peers' = {} /\ list' = <<>>
  /\ UNCHANGED <<node, claims, index, subscription, frames, listening, hooks, released,
                 holding, invalidated, stack, outcome>>

Step ==
  \/ HookReleasesNode \/ HookReleasesSubscription \/ HookReturns \/ Delete
  \/ InvalidateFrames \/ InvalidateSubscription \/ Advance \/ InvalidateReturns

Next ==
  \/ \E n \in Nodes : Acquire(n)
  \/ \E p \in Peers : ProgramReleasesNode(p)
  \/ \E s \in Subscriptions :
       \/ \E kind \in {"stable", "frame"}, refused \in BOOLEAN, captured \in SUBSET Peers :
            Listen(s, kind, refused, captured)
       \/ \E c \in Subscriptions : Capture(s, c)
       \/ ProgramReleasesSubscription(s)
       \/ ReleaseFrame(s)
  \/ Invalidate \/ Destroy
  \/ Step

(* A call that was started goes on by itself.                              *)
Spec == Init /\ [][Next]_vars /\ WF_vars(Step)

-----------------------------------------------------------------------------
(* Every claim the program or a closure holds is counted in its peer, and  *)
(* no peer outlives its last claim: re-entrant releases lose none.         *)
Total(count) ==
  LET sum[h \in Holders] == IF h = Program THEN count[h] ELSE sum[h - 1] + count[h]
  IN sum[MaxListens]

ClaimsExact ==
  Running => \A p \in Peers : claims[p] = Total([h \in Holders |-> held[h][p]])

(* While the realm lives, the index is the linked peers' identity: two     *)
(* acquisitions of a node give the same handle, and a peer that was        *)
(* deleted is not found again under a node that reuses its place.          *)
IndexIsIdentity ==
  (Running /\ ~invalidated) =>
     /\ \A p \in peers : node[p] \in Nodes /\ index[node[p]] = p /\ claims[p] > 0
     /\ \A n \in Nodes : index[n] # None => index[n] \in peers /\ node[index[n]] = n

(* Both: a handle is counted and found for as long as it is held.          *)
PeersExact == ClaimsExact /\ IndexIsIdentity

(* Admission is closed before a closure is given back: no listener that    *)
(* Blink could still invoke is attached to a released closure, and every   *)
(* closure that is no longer attached was released (once: see TypeOK).     *)
ClosedBeforeReleased ==
  \A s \in Subscriptions :
     /\ released[s] = 1 => s \notin listening
     /\ released[s] = 0 => s \in listening \/ subscription[s] = "unused"

(* A registration is linked exactly as long as its closure may run, save   *)
(* for the cancelled stable ones whose claim the program still has to      *)
(* give back.  Unlinking finds what it looks for, and deleting the realm   *)
(* finds no frame listener (three CHECKs).                                 *)
LinkedWhileListening ==
  /\ registry => listening \subseteq ToSet(list) \cup ToSet(frames)
  /\ ToSet(frames) \subseteq listening
  /\ \A s \in ToSet(list) : subscription[s] = "stable" /\ owner[s] # Nobody
  /\ \A s \in Subscriptions :
       /\ registry /\ owner[s] # Nobody => s \in ToSet(list)
       /\ subscription[s] = "frame" => s \in ToSet(frames)
  /\ ~registry => frames = <<>>

(* The two together: what is registered, linked and invoked agree.         *)
RegistrationsExact == ClosedBeforeReleased /\ LinkedWhileListening

(* RemoveNode's CHECK_NE on the index never fails.                         *)
IndexChecksHold == Running \/ Top.op = "advance"

(* When the peers' nodes and the document are dropped, every registration  *)
(* has been removed.                                                       *)
RemovedBeforeRoots ==
  (Running /\ invalidated /\ stack = <<>>) => listening = {}
=============================================================================

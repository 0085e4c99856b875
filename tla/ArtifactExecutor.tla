-------------------------- MODULE ArtifactExecutor --------------------------
(***************************************************************************)
(* executeArtifactGraph: the accepted graph is run in rounds of ready      *)
(* actions, each round in batches of maxConcurrency under Promise.all;     *)
(* every action is restored from the cache or has its tool verified, run   *)
(* and published.  The caller may abort through an AbortSignal.            *)
(*                                                                         *)
(* The command (runCommand) is one step here, from the spawn to the        *)
(* settled promise: module RunCommand opens it.  The cache is one step     *)
(* with its possible outcomes: module ArtifactCache opens it.              *)
(***************************************************************************)
EXTENDS ArtifactGraph, Sequences

CONSTANTS Graphs,         \* the graphs defineArtifactGraph is given
          Concurrency,    \* maxConcurrency
          CacheBound,     \* is options.cache given?
          ActionTimeout,  \* is options.actionTimeoutMs given?
          MayAbort        \* is options.signal given?

ASSUME ExecutorAssumption ==
  /\ Concurrency \in Nat \ {0}
  /\ {CacheBound, ActionTimeout, MayAbort} \subseteq BOOLEAN

ASSUME GraphsAssumption == \A g \in Graphs : IsGraph(g)

VARIABLES
  graph,         \* the accepted graph
  exec,          \* where the loop is; "resolved" and "rejected" are final
  ready, offset, \* the round in hand and where its next batch starts
  state,         \* per action, its executeOrRestoreAction
  completed,     \* actions whose report was collected
  materialized,  \* artifacts that exist in the build root
  verification,  \* the memoised verifyToolBinding promise of the one tool
  aborted        \* the signal fired while the execution was under way

vars == <<graph, exec, ready, offset, state, completed, materialized,
          verification, aborted>>

Final == {"resolved", "rejected"}
Active == {"restoring", "verifying", "running", "publishing"}

(* ready.slice(offset, offset + concurrency)                               *)
Batch == {ready[i] : i \in {j \in DOMAIN ready : offset < j /\ j <= offset + Concurrency}}

TypeOK ==
  /\ graph \in Graphs
  /\ exec \in {"select", "launch", "await"} \cup Final
  /\ ready \in Seq(graph.actions) /\ offset \in 0..Len(ready) + Concurrency - 1
  /\ state \in [graph.actions -> {"idle", "reported", "threw"} \cup Active]
  /\ completed \subseteq graph.actions
  /\ materialized \subseteq Artifacts(graph)
  /\ verification \in {"none", "pending", "good", "bad"}
  /\ aborted \in BOOLEAN

Init ==
  /\ graph \in {g \in Graphs : Accepted(g)}
  /\ exec = "select"
  /\ ready = <<>> /\ offset = 0
  /\ state = [a \in graph.actions |-> "idle"]
  /\ completed = {}
  /\ materialized = {i \in Artifacts(graph) : graph.origin[i] = Source}
  /\ verification = "none"
  /\ aborted = FALSE

-----------------------------------------------------------------------------
(* The loop.                                                               *)

FaultyReadyActionsAny ==
  {a \in graph.actions \ completed : graph.inputs[a] \cap materialized # {}}

ReadyActions == {a \in graph.actions \ completed : DependenciesOf(graph, a) \subseteq completed}

InIdOrder(ids) ==
  CHOOSE seq \in [1..Cardinality(ids) -> ids] :
    \A i, j \in 1..Cardinality(ids) : i < j => seq[i] < seq[j]

(* A round: every action whose dependencies are completed, in id order.    *)
(* No ready action is the internal error "lost its validated topological   *)
(* order".                                                                 *)
SelectReady ==
  /\ exec = "select"
  /\ IF completed = graph.actions THEN exec' = "resolved" /\ UNCHANGED <<ready, offset>>
     ELSE IF ReadyActions = {} THEN exec' = "rejected" /\ UNCHANGED <<ready, offset>>
     ELSE /\ exec' = "launch"
          /\ ready' = InIdOrder(ReadyActions)
          /\ offset' = 0
  /\ UNCHANGED <<graph, state, completed, materialized, verification, aborted>>

FaultyRoundDone == offset > Len(ready)
RoundDone == offset >= Len(ready)

LaunchBatch ==
  /\ exec = "launch"
  /\ IF RoundDone
     THEN exec' = "select" /\ UNCHANGED state
     ELSE /\ exec' = "await"
          /\ state' = [a \in graph.actions |->
                IF a \notin Batch THEN state[a]
                ELSE IF CacheBound /\ a \in graph.cacheable THEN "restoring" ELSE "verifying"]
  /\ UNCHANGED <<graph, ready, offset, completed, materialized, verification, aborted>>

(* Promise.all resolves when every action of the batch reported ...        *)
CollectReports ==
  /\ exec = "await"
  /\ \A a \in Batch : state[a] = "reported"
  /\ completed' = completed \cup Batch
  /\ materialized' = materialized \cup UNION {graph.outputs[a] : a \in Batch}
  /\ offset' = offset + Concurrency
  /\ exec' = "launch"
  /\ UNCHANGED <<graph, ready, state, verification, aborted>>

(* ... and rejects as soon as one throws, whatever the others are doing.   *)
Reject ==
  /\ exec = "await"
  /\ \E a \in Batch : state[a] = "threw"
  /\ exec' = "rejected"
  /\ UNCHANGED <<graph, ready, offset, state, completed, materialized, verification, aborted>>

-----------------------------------------------------------------------------
(* executeOrRestoreAction and executeAction, one action.                   *)
Move(a, to) ==
  /\ state' = [state EXCEPT ![a] = to]
  /\ UNCHANGED <<graph, exec, ready, offset, completed, materialized, aborted>>

(* A hit, a miss, or a corrupt entry; the signal is not looked at.         *)
Restore(a) ==
  /\ state[a] = "restoring"
  /\ \E outcome \in {"reported", "verifying", "threw"} : Move(a, outcome)
  /\ UNCHANGED verification

(* The first miss starts the verification of the tool, the others await    *)
(* the same promise.                                                       *)
StartVerification(a) ==
  /\ state[a] = "verifying" /\ verification = "none"
  /\ verification' = "pending"
  /\ UNCHANGED <<graph, exec, ready, offset, state, completed, materialized, aborted>>

FinishVerification ==
  /\ verification = "pending"
  /\ verification' \in {"good", "bad"}
  /\ UNCHANGED <<graph, exec, ready, offset, state, completed, materialized, aborted>>

(* runCommand looks at the signal before it waits for the child.           *)
Refused == verification = "bad" \/ aborted

(* Inputs are staged and the command is spawned; an input that changed, a  *)
(* tool that does not match its digest and a signal that already fired all *)
(* throw.                                                                  *)
Spawn(a) ==
  /\ state[a] = "verifying" /\ verification \in {"good", "bad"}
  /\ \/ ~Refused /\ Move(a, "running")
     \/ Move(a, "threw")
  /\ UNCHANGED verification

(* The tool exits: its outputs are as declared, or it failed or wrote      *)
(* something else.                                                         *)
ToolExits(a) ==
  /\ state[a] = "running"
  /\ \/ Move(a, IF CacheBound /\ a \in graph.cacheable THEN "publishing" ELSE "reported")
     \/ Move(a, "threw")
  /\ UNCHANGED verification

FaultyTimerSet == FALSE
TimerSet == ActionTimeout

(* The deadline of runCommand: the promise rejects without the child.      *)
DeadlineExpires(a) ==
  /\ TimerSet
  /\ state[a] = "running"
  /\ Move(a, "threw")
  /\ UNCHANGED verification

(* publishActionToCache, or nothing when the dependencies are not known.   *)
PublishEntry(a) ==
  /\ state[a] = "publishing"
  /\ \E outcome \in {"reported", "threw"} : Move(a, outcome)
  /\ UNCHANGED verification

(* The abort event: the listener of every running command rejects it.      *)
Abort ==
  /\ MayAbort /\ ~aborted /\ exec \notin Final
  /\ aborted' = TRUE
  /\ state' = [a \in graph.actions |-> IF state[a] = "running" THEN "threw" ELSE state[a]]
  /\ UNCHANGED <<graph, exec, ready, offset, completed, materialized, verification>>

Executor == SelectReady \/ LaunchBatch \/ CollectReports \/ Reject

(* Everything but the exit of a tool, which may never come.                *)
ActionStep(a) ==
  Restore(a) \/ StartVerification(a) \/ Spawn(a) \/ DeadlineExpires(a) \/ PublishEntry(a)

Next ==
  \/ Executor
  \/ \E a \in graph.actions : ActionStep(a) \/ ToolExits(a)
  \/ FinishVerification
  \/ Abort

(* Promise callbacks and timers run; a tool need not exit.                 *)
Fairness ==
  /\ WF_vars(Executor) /\ WF_vars(FinishVerification)
  /\ \A a \in UNION {g.actions : g \in Graphs} :
       WF_vars(a \in graph.actions /\ ActionStep(a))

Spec == Init /\ [][Next]_vars /\ Fairness

-----------------------------------------------------------------------------
(* For every graph the planner accepts, an action that has been launched   *)
(* has all its inputs: the "no materialized input" and "cannot key         *)
(* unmaterialized input" errors cannot happen.                             *)
InputsMaterialized ==
  \A a \in graph.actions : state[a] # "idle" => graph.inputs[a] \subseteq materialized

(* ... the round is never empty before the last action is completed ...    *)
OrderNeverLost == exec = "select" /\ completed # graph.actions => ReadyActions # {}

(* ... every argument and captured stream of a running command has a path, *)
(* every output it must produce has a way to come into being ...           *)
ArgumentsResolve ==
  \A a \in graph.actions : state[a] = "running" =>
    /\ graph.reads[a] \subseteq materialized
    /\ graph.captured[a] # NoArtifact => graph.captured[a] \in graph.outputs[a]
    /\ \A o \in graph.outputs[a] : graph.origin[o] = a /\ (o \in graph.writes[a] \/ o = graph.captured[a])

(* ... and a successful execution ran or restored every action and         *)
(* materialized every artifact of the graph.                               *)
ResolvedIsComplete ==
  exec = "resolved" =>
    /\ \A a \in graph.actions : state[a] = "reported"
    /\ materialized = Artifacts(graph)

(* What validation lets through can be executed, and is executed whole.    *)
AcceptedIsExecutable == ArgumentsResolve /\ ResolvedIsComplete

(* "Actions already running are killed": once the signal fired no command  *)
(* runs, not even one whose action was between the cache and the spawn.    *)
NoCommandAfterAbort == aborted => \A a \in graph.actions : state[a] # "running"

(* Nothing is under way that should not be: every action launched has its  *)
(* inputs, and every command running is still wanted.                      *)
LaunchedIsDue == InputsMaterialized /\ NoCommandAfterAbort

(* With a deadline the execution ends whatever its tools do: "a wedged     *)
(* compiler otherwise blocks its executor forever".                        *)
ExecutionEnds == <>(exec \in Final)
=============================================================================

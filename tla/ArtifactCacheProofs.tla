------------------------- MODULE ArtifactCacheProofs -------------------------
(***************************************************************************)
(* Proofs about ArtifactCache for any builds, headers and edits, crashing  *)
(* or not.  What a hit returns is current, and no older than its build,    *)
(* when headers do not change while a tool reads them; the rest does not   *)
(* need that.                                                              *)
(***************************************************************************)
EXTENDS ArtifactCache, TLAPS

LEMMA FilesFacts == NoEntry.files # Files /\ ~ (NoEntry.files \subseteq Files) /\ NoEntry.files # {}
<1>1. "absent" \notin Files
  BY DEF Files
<1>2. NoEntry.files = {"absent"}
  BY DEF NoEntry, Entry
<1> QED
  BY <1>1, <1>2

-----------------------------------------------------------------------------
(* The strengthening.                                                      *)

(* Each edit raises one header by one.                                     *)
DiskBounded == \A h \in Headers : disk[h] <= edits

(* What stands at the path was published by a build that is done: its      *)
(* names may be fewer by now, its contents are that build's.               *)
OfOneRun(e) ==
  /\ e.files \subseteq Files /\ e.stored = e.digest
  /\ \E b \in Builds : pc[b] = "done" /\ made[b] = e.stored /\ recorded[b] = e.recorded

EntryConsistent == entry = NoEntry \/ OfOneRun(entry)

(* A build that has an outcome is done.                                    *)
OutcomesFinal == \A b \in Builds : result[b].status # "none" => pc[b] = "done"

OneRunInv == TypeOK /\ DiskBounded /\ EntryConsistent /\ OutcomesFinal

(* With headers at rest while a tool reads them, made and recorded are the *)
(* contents on disk as far as the loops have come, and the manifest of an  *)
(* entry records what its output was made of; a build that has found the   *)
(* recorded headers unchanged has seen them.                               *)
BuildCurrent(b) ==
  /\ pc[b] = "lookup" => next[b] = 1
  /\ pc[b] \in {"check", "logs", "verify", "copy"} => manifest[b].digest = manifest[b].recorded
  /\ pc[b] = "check" =>
       \A h \in Headers : h < next[b] => seen[b][h] = manifest[b].recorded[h]
  /\ pc[b] \in {"logs", "verify", "copy"} => seen[b] = manifest[b].recorded
  /\ pc[b] = "run" => \A h \in Headers : h < next[b] => made[b][h] = disk[h]
  /\ pc[b] = "record" =>
       \A h \in Headers : made[b][h] = disk[h] /\ (h < next[b] => recorded[b][h] = disk[h])
  /\ pc[b] \in Publishing => recorded[b] = made[b]
  /\ result[b].status = "hit" => result[b].output = seen[b]

CurrentInv ==
  /\ OneRunInv
  /\ entry # NoEntry => entry.recorded = entry.digest
  /\ \A b \in Builds : BuildCurrent(b)

-----------------------------------------------------------------------------
(* A build writes only what is its own, and the entry.                     *)
LEMMA StepIsLocal ==
  ASSUME TypeOK, NEW b \in Builds, Step(b) \/ Crash(b)
  PROVE  /\ UNCHANGED <<disk, edits>> /\ pc[b] \notin {"done", "dead"}
         /\ \A a \in Builds \ {b} :
              /\ pc'[a] = pc[a] /\ next'[a] = next[a] /\ manifest'[a] = manifest[a] /\ began'[a] = began[a]
              /\ seen'[a] = seen[a] /\ made'[a] = made[a] /\ recorded'[a] = recorded[a]
              /\ result'[a] = result[a]
<1> DEFINE Local == /\ UNCHANGED <<disk, edits>> /\ pc[b] \notin {"done", "dead"}
                    /\ \A a \in Builds \ {b} :
                         /\ pc'[a] = pc[a] /\ next'[a] = next[a] /\ manifest'[a] = manifest[a]
                         /\ began'[a] = began[a]
                         /\ seen'[a] = seen[a] /\ made'[a] = made[a] /\ recorded'[a] = recorded[a]
                         /\ result'[a] = result[a]
<1>1. CASE Lookup(b) \/ CheckLayout(b) \/ ReadLogs(b) \/ VerifyStored(b) \/ CopyOutput(b)
  BY <1>1 DEF Lookup, CheckLayout, ReadLogs, VerifyStored, CopyOutput, Throw, Finish, Goto, TypeOK
<1>2. CASE ReadManifest(b) \/ Inspect(b)
  BY <1>2 DEF ReadManifest, Inspect, Throw, Finish, Goto, Restart, TypeOK
<1>3. CASE CheckDependencies(b) \/ Recheck(b)
  BY <1>3 DEF CheckDependencies, Recheck, CheckDependency, Finish, Goto, Restart, Advance, TypeOK
<1>4. CASE RunTool(b) \/ RecordDependencies(b)
  BY <1>4 DEF RunTool, RecordDependencies, Goto, Restart, Advance, TypeOK
<1>5. CASE Probe(b) \/ RemoveStale(b) \/ Publish(b) \/ CheckWinner(b) \/ Crash(b)
  BY <1>5 DEF Probe, RemoveStale, Publish, CheckWinner, Crash, Throw, Finish, Goto, TypeOK
<1> QED
  BY <1>1, <1>2, <1>3, <1>4, <1>5 DEF Step

(* Only a lookup says when its build began.                                *)
LEMMA BeganStep ==
  ASSUME NEW b \in Builds, Step(b) \/ Crash(b)
  PROVE  UNCHANGED began \/ (pc[b] = "lookup" /\ began' = [began EXCEPT ![b] = disk])
BY DEF Step, Crash, Lookup, CheckLayout, ReadManifest, CheckDependencies, CheckDependency, ReadLogs,
      VerifyStored, CopyOutput, RunTool, RecordDependencies, Probe, Inspect, Recheck, RemoveStale,
      Publish, CheckWinner

(* What a step makes of the entry.                                         *)
LEMMA EntrySteps ==
  ASSUME NEW b \in Builds, Step(b) \/ Crash(b)
  PROVE  \/ entry' = entry
         \/ entry' = NoEntry
         \/ \E name \in Files \cap entry.files : entry' = [entry EXCEPT !.files = entry.files \ {name}]
         \/ entry' = PublishedEntry(b) /\ pc[b] = "rename" /\ pc' = [pc EXCEPT ![b] = "done"]
            /\ UNCHANGED <<made, recorded>>
<1>1. CASE Publish(b)
  BY <1>1 DEF Publish, Finish, Goto
<1>2. CASE RemoveStale(b)
  BY <1>2 DEF RemoveStale
<1> QED
  BY <1>1, <1>2
  DEF Step, Crash, Lookup, CheckLayout, ReadManifest, CheckDependencies, CheckDependency, ReadLogs,
      VerifyStored, CopyOutput, RunTool, RecordDependencies, Probe, Inspect, Recheck, CheckWinner

LEMMA EntryStep ==
  ASSUME OneRunInv, NEW b \in Builds, Step(b) \/ Crash(b)
  PROVE  EntryConsistent'
<1>1. \A a \in Builds : pc[a] = "done" => pc'[a] = "done" /\ made'[a] = made[a] /\ recorded'[a] = recorded[a]
  BY StepIsLocal DEF OneRunInv
<1>2. ASSUME NEW e, OfOneRun(e)
      PROVE  OfOneRun(e)'
  BY <1>1, <1>2 DEF OfOneRun
<1>3. CASE entry' = entry
  <2>1. PICK e : e = entry
    OBVIOUS
  <2> QED
    BY <1>2, <1>3, <2>1 DEF OneRunInv, EntryConsistent, OfOneRun
<1>4. CASE entry' = NoEntry
  BY <1>4 DEF EntryConsistent, NoEntry, Entry
<1>5. ASSUME NEW name \in Files \cap entry.files, entry' = [entry EXCEPT !.files = entry.files \ {name}]
      PROVE  EntryConsistent'
  <2>1. entry # NoEntry
    BY <1>5 DEF NoEntry, Entry, Files
  <2>2. entry \in [files : SUBSET Files, recorded : Contents, digest : Contents, stored : Contents]
    BY <2>1 DEF OneRunInv, TypeOK
  <2>3. /\ entry'.files = entry.files \ {name} /\ entry'.stored = entry.stored
        /\ entry'.digest = entry.digest /\ entry'.recorded = entry.recorded
    BY <1>5, <2>2
  <2>4. OfOneRun(entry)
    BY <2>1 DEF OneRunInv, EntryConsistent
  <2> QED
    BY <1>1, <2>3, <2>4 DEF EntryConsistent, OfOneRun
<1>6. ASSUME entry' = PublishedEntry(b), pc[b] = "rename", pc' = [pc EXCEPT ![b] = "done"],
             UNCHANGED <<made, recorded>>
      PROVE  EntryConsistent'
  <2>1. /\ entry'.files = Files /\ entry'.stored = made[b] /\ entry'.digest = made[b]
        /\ entry'.recorded = recorded[b]
    BY <1>6 DEF PublishedEntry, Entry
  <2>2. pc'[b] = "done"
    BY <1>6 DEF OneRunInv, TypeOK
  <2> QED
    BY <1>6, <2>1, <2>2 DEF EntryConsistent, OfOneRun
<1> QED
  BY <1>3, <1>4, <1>5, <1>6, EntrySteps

LEMMA OutcomesStep ==
  ASSUME OneRunInv, NEW b \in Builds, Step(b) \/ Crash(b)
  PROVE  OutcomesFinal'
<1>1. \A a \in Builds \ {b} : pc'[a] = pc[a] /\ result'[a] = result[a]
  BY StepIsLocal DEF OneRunInv
<1>2. UNCHANGED result \/ (pc'[b] = "done")
  BY DEF OneRunInv, TypeOK, Step, Crash, Lookup, CheckLayout, ReadManifest, CheckDependencies,
      CheckDependency, ReadLogs, VerifyStored, CopyOutput, RunTool, RecordDependencies, Probe, Inspect,
      Recheck, RemoveStale, Publish, CheckWinner, Throw, Finish, Goto
<1>3. UNCHANGED result => result'[b].status = "none"
  BY StepIsLocal DEF OneRunInv, OutcomesFinal
<1> QED
  BY <1>1, <1>2, <1>3 DEF OneRunInv, OutcomesFinal

(* Where a build goes, and what it writes on the way.                      *)
LEMMA LabelStep ==
  ASSUME TypeOK, NEW b \in Builds, Step(b) \/ Crash(b)
  PROVE  pc' \in [Builds -> Restoring \cup Running \cup Publishing \cup {"done", "dead"}]
<1> DEFINE Labels == Restoring \cup Running \cup Publishing \cup {"done", "dead"}
<1>1. pc \in [Builds -> Labels]
  BY DEF TypeOK
<1>2. ASSUME NEW to \in Labels
      PROVE  Goto(b, to) => pc' \in [Builds -> Labels]
  BY <1>1 DEF Goto
<1>3. {"run", "layout", "manifest", "check", "logs", "verify", "copy", "record", "probe", "inspect",
       "recheck", "remove", "rename", "winner", "done", "dead"} \subseteq Labels
  BY DEF Restoring, Running, Publishing
<1>4. UNCHANGED pc \/ \E to \in Labels : Goto(b, to)
  BY <1>3 DEF Step, Crash, Lookup, CheckLayout, ReadManifest, CheckDependencies,
      CheckDependency, ReadLogs, VerifyStored, CopyOutput, RunTool, RecordDependencies, Probe, Inspect,
      Recheck, RemoveStale, Publish, CheckWinner, Throw, Finish
<1> QED
  BY <1>1, <1>2, <1>4

LEMMA EntryTyped ==
  ASSUME TypeOK, NEW b \in Builds, Step(b) \/ Crash(b)
  PROVE  entry' \in {NoEntry} \cup [files : SUBSET Files, recorded : Contents,
                                    digest : Contents, stored : Contents]
<1> DEFINE Whole == [files : SUBSET Files, recorded : Contents, digest : Contents, stored : Contents]
<1>1. entry \in {NoEntry} \cup Whole /\ made[b] \in Contents /\ recorded[b] \in Contents
  BY DEF TypeOK
<1>2. ASSUME NEW name \in Files \cap entry.files, entry' = [entry EXCEPT !.files = entry.files \ {name}]
      PROVE  entry' \in Whole
  <2>1. entry # NoEntry
    BY <1>2 DEF NoEntry, Entry, Files
  <2>2. entry \in Whole
    BY <1>1, <2>1
  <2> QED
    BY <1>2, <2>2
<1>3. PublishedEntry(b) \in Whole
  BY <1>1 DEF PublishedEntry, Entry
<1> QED
  BY <1>1, <1>2, <1>3, EntrySteps

LEMMA UnreadTyped == Unread \in Contents
BY BoundsAssumption DEF Unread, Contents, Headers

LEMMA ManifestTyped ==
  ASSUME TypeOK, NEW b \in Builds, Step(b) \/ Crash(b)
  PROVE  manifest' \in [Builds -> [recorded : Contents, digest : Contents]]
<1>1. /\ manifest \in [Builds -> [recorded : Contents, digest : Contents]]
      /\ entry.recorded \in Contents /\ entry.digest \in Contents
  BY UnreadTyped DEF TypeOK, NoEntry, Entry
<1>2. \/ UNCHANGED manifest
      \/ manifest' = [manifest EXCEPT ![b] = [recorded |-> entry.recorded, digest |-> entry.digest]]
  BY DEF Step, Crash, Lookup, CheckLayout, ReadManifest, CheckDependencies,
      CheckDependency, ReadLogs, VerifyStored, CopyOutput, RunTool, RecordDependencies, Probe, Inspect,
      Recheck, RemoveStale, Publish, CheckWinner
<1> QED
  BY <1>1, <1>2

LEMMA ResultTyped ==
  ASSUME TypeOK, NEW b \in Builds, Step(b) \/ Crash(b)
  PROVE  result' \in [Builds -> [status : {"none", "hit", "executed", "error"}, output : Contents]]
<1>1. /\ result \in [Builds -> [status : {"none", "hit", "executed", "error"}, output : Contents]]
      /\ entry.stored \in Contents /\ made[b] \in Contents /\ Unread \in Contents
  BY UnreadTyped DEF TypeOK, NoEntry, Entry
<1>2. \/ UNCHANGED result
      \/ Finish(b, "error", Unread) \/ Finish(b, "hit", entry.stored) \/ Finish(b, "executed", made[b])
  BY DEF Step, Crash, Lookup, CheckLayout, ReadManifest, CheckDependencies,
      CheckDependency, ReadLogs, VerifyStored, CopyOutput, RunTool, RecordDependencies, Probe, Inspect,
      Recheck, RemoveStale, Publish, CheckWinner, Throw
<1> QED
  BY <1>1, <1>2 DEF Finish

(* One turn of a loop over the headers.                                    *)
LEMMA LoopsTyped ==
  ASSUME TypeOK, NEW b \in Builds, Step(b) \/ Crash(b)
  PROVE  /\ next' \in [Builds -> 1..HeaderCount + 1]
         /\ {began', seen', made', recorded'} \subseteq [Builds -> Contents]
<1>1. /\ next \in [Builds -> 1..HeaderCount + 1] /\ HeaderCount \in Nat
      /\ seen \in [Builds -> Contents] /\ made \in [Builds -> Contents]
      /\ recorded \in [Builds -> Contents] /\ disk \in Contents
      /\ next[b] \in 1..HeaderCount + 1 /\ began \in [Builds -> Contents]
  BY BoundsAssumption DEF TypeOK
<1>2. \/ UNCHANGED next \/ next' = [next EXCEPT ![b] = 1]
      \/ (next[b] <= HeaderCount /\ next' = [next EXCEPT ![b] = next[b] + 1])
  BY <1>1 DEF Step, Crash, Lookup, CheckLayout, ReadManifest, CheckDependencies,
      CheckDependency, ReadLogs, VerifyStored, CopyOutput, RunTool, RecordDependencies, Probe, Inspect,
      Recheck, RemoveStale, Publish, CheckWinner, Restart, Advance
<1>3. next' \in [Builds -> 1..HeaderCount + 1]
  <2>1. 1 \in 1..HeaderCount + 1 /\ (next[b] <= HeaderCount => next[b] + 1 \in 1..HeaderCount + 1)
    BY <1>1
  <2> QED
    BY <1>1, <1>2, <2>1
<1>4. ASSUME NEW was \in [Builds -> Contents], next[b] <= HeaderCount
      PROVE  [was EXCEPT ![b][next[b]] = disk[next[b]]] \in [Builds -> Contents]
  <2>1. next[b] \in Headers
    BY <1>1, <1>4 DEF Headers
  <2>2. was[b] \in Contents
    BY <1>4
  <2>3. [was[b] EXCEPT ![next[b]] = disk[next[b]]] \in Contents
    BY <1>1, <2>1, <2>2 DEF Contents
  <2> QED
    BY <1>4, <2>3
<1>5. \/ UNCHANGED seen
      \/ next[b] <= HeaderCount /\ seen' = [seen EXCEPT ![b][next[b]] = disk[next[b]]]
  BY <1>1 DEF Step, Crash, Lookup, CheckLayout, ReadManifest, CheckDependencies,
      CheckDependency, ReadLogs, VerifyStored, CopyOutput, RunTool, RecordDependencies, Probe, Inspect,
      Recheck, RemoveStale, Publish, CheckWinner
<1>6. \/ UNCHANGED made
      \/ next[b] <= HeaderCount /\ made' = [made EXCEPT ![b][next[b]] = disk[next[b]]]
  BY <1>1 DEF Step, Crash, Lookup, CheckLayout, ReadManifest, CheckDependencies,
      CheckDependency, ReadLogs, VerifyStored, CopyOutput, RunTool, RecordDependencies, Probe, Inspect,
      Recheck, RemoveStale, Publish, CheckWinner
<1>7. \/ UNCHANGED recorded
      \/ next[b] <= HeaderCount /\ recorded' = [recorded EXCEPT ![b][next[b]] = disk[next[b]]]
  BY <1>1 DEF Step, Crash, Lookup, CheckLayout, ReadManifest, CheckDependencies,
      CheckDependency, ReadLogs, VerifyStored, CopyOutput, RunTool, RecordDependencies, Probe, Inspect,
      Recheck, RemoveStale, Publish, CheckWinner
<1>8. seen' \in [Builds -> Contents] /\ made' \in [Builds -> Contents] /\ recorded' \in [Builds -> Contents]
  BY <1>1, <1>4, <1>5, <1>6, <1>7
<1>9. UNCHANGED began \/ began' = [began EXCEPT ![b] = disk]
  BY BeganStep
<1> QED
  BY <1>1, <1>3, <1>8, <1>9

LEMMA OneRunNext == OneRunInv /\ [Next]_vars => OneRunInv'
<1> SUFFICES ASSUME OneRunInv, [Next]_vars
             PROVE  OneRunInv'
  OBVIOUS
<1>1. CASE UNCHANGED vars
  BY <1>1 DEF vars, OneRunInv, TypeOK, DiskBounded, EntryConsistent, OfOneRun, OutcomesFinal
<1>2. ASSUME NEW b \in Builds, Step(b) \/ Crash(b)
      PROVE  OneRunInv'
  <2>1. TypeOK /\ DiskBounded /\ UNCHANGED <<disk, edits>>
    BY <1>2, StepIsLocal DEF OneRunInv
  <2>2. TypeOK'
    BY <1>2, <2>1, LabelStep, EntryTyped, ManifestTyped, ResultTyped, LoopsTyped DEF TypeOK
  <2>3. DiskBounded'
    BY <2>1 DEF DiskBounded
  <2> QED
    BY <1>2, <2>2, <2>3, EntryStep, OutcomesStep DEF OneRunInv
<1>3. ASSUME NEW h \in Headers, EditHeader(h)
      PROVE  OneRunInv'
  <2>1. TypeOK /\ DiskBounded /\ MaxEdits \in Nat
    BY BoundsAssumption DEF OneRunInv
  <2>2. /\ edits \in 0..MaxEdits /\ edits < MaxEdits /\ edits' = edits + 1
        /\ disk \in [Headers -> 0..MaxEdits] /\ disk' = [disk EXCEPT ![h] = disk[h] + 1]
        /\ \A g \in Headers : disk[g] \in 0..MaxEdits /\ disk[g] <= edits
    BY <1>3, <2>1 DEF EditHeader, TypeOK, Contents, DiskBounded
  <2>3. edits' \in 0..MaxEdits /\ disk[h] + 1 \in 0..MaxEdits /\ disk[h] + 1 <= edits'
        /\ \A g \in Headers : disk[g] <= edits'
    BY <2>1, <2>2
  <2>4. disk' \in Contents /\ DiskBounded'
    BY <2>2, <2>3 DEF Contents, DiskBounded
  <2>5. UNCHANGED <<began, entry, pc, next, manifest, seen, made, recorded, result>>
    BY <1>3 DEF EditHeader
  <2>6. TypeOK'
    BY <2>1, <2>3, <2>4, <2>5 DEF TypeOK
  <2>7. EntryConsistent' /\ OutcomesFinal'
    BY <2>5 DEF OneRunInv, EntryConsistent, OfOneRun, OutcomesFinal
  <2> QED
    BY <2>4, <2>6, <2>7 DEF OneRunInv
<1> QED
  BY <1>1, <1>2, <1>3 DEF Next

LEMMA OneRunInit == Init => OneRunInv
<1> SUFFICES ASSUME Init
             PROVE  OneRunInv
  OBVIOUS
<1>1. TypeOK
  BY UnreadTyped, BoundsAssumption DEF Init, TypeOK, Restoring
<1>2. DiskBounded
  BY DEF Init, DiskBounded, Unread
<1> QED
  BY <1>1, <1>2 DEF Init, OneRunInv, EntryConsistent, OutcomesFinal

(* The strengthening, whenever headers change.                             *)
THEOREM OneRunInvariant == Spec => []OneRunInv
BY OneRunInit, OneRunNext, PTL DEF Spec

(* Every reachable state is well typed (artifact-cache.ts: the entry at    *)
(* the path and what each build has read).                                 *)
THEOREM TypeCorrect == Spec => []TypeOK
<1>1. OneRunInv => TypeOK
  BY DEF OneRunInv
<1> QED
  BY <1>1, OneRunInvariant, PTL

(* An entry that can be restored is the work of one build, manifest and    *)
(* output of the same run, also when headers change under the tools.       *)
THEOREM EntriesAreOneRun == Spec => []EntryIsOneRun
<1>1. ASSUME OneRunInv
      PROVE  EntryIsOneRun
  BY <1>1, FilesFacts DEF OneRunInv, EntryConsistent, OfOneRun, EntryIsOneRun
<1> QED
  BY <1>1, OneRunInvariant, PTL

-----------------------------------------------------------------------------
(* What holds of the one build that steps.                                 *)
LEMMA OwnStep ==
  ASSUME CurrentInv, NEW b \in Builds, Step(b) \/ Crash(b)
  PROVE  BuildCurrent(b)'
<1>1. /\ TypeOK /\ OutcomesFinal /\ BuildCurrent(b) /\ EntryConsistent
      /\ (entry # NoEntry => entry.recorded = entry.digest)
      /\ HeaderCount \in Nat
  BY BoundsAssumption DEF CurrentInv, OneRunInv
<1>2. /\ UNCHANGED <<disk, edits>> /\ pc[b] # "done" /\ result[b].status = "none"
      /\ next[b] \in 1..HeaderCount + 1
  BY <1>1, StepIsLocal DEF OutcomesFinal, TypeOK
<1>3. /\ pc \in [Builds -> Restoring \cup Running \cup Publishing \cup {"done", "dead"}]
      /\ seen \in [Builds -> Contents] /\ made \in [Builds -> Contents]
      /\ recorded \in [Builds -> Contents] /\ disk \in Contents
      /\ next \in [Builds -> 1..HeaderCount + 1]
      /\ manifest \in [Builds -> [recorded : Contents, digest : Contents]]
      /\ result \in [Builds -> [status : {"none", "hit", "executed", "error"}, output : Contents]]
  BY <1>1 DEF TypeOK
<1>4. \A h \in Headers : h \in Nat /\ 1 <= h /\ (h < next[b] + 1 => h < next[b] \/ h = next[b])
      /\ (next[b] > HeaderCount => h < next[b])
  BY <1>1, <1>2 DEF Headers
<1>6. CASE Crash(b)
  BY <1>1, <1>2, <1>3, <1>6 DEF Crash, Goto, BuildCurrent, Publishing
<1>7. ASSUME Throw(b)
      PROVE  BuildCurrent(b)'
  BY <1>1, <1>2, <1>3, <1>7 DEF Throw, Finish, Goto, BuildCurrent, Publishing
<1>8. CASE Lookup(b)
  <2>1. next[b] = 1 /\ UNCHANGED <<next, manifest, seen, made, recorded, result>>
    BY <1>1, <1>8 DEF Lookup, BuildCurrent
  <2>2. pc'[b] \in {"run", "layout"}
    BY <1>3, <1>8 DEF Lookup, Goto
  <2>3. \A h \in Headers : ~ (h < next[b])
    BY <1>4, <2>1
  <2> QED
    BY <1>2, <2>1, <2>2, <2>3 DEF BuildCurrent, Publishing
<1>9. CASE CheckLayout(b)
  <2>1. CASE Goto(b, "manifest") /\ UNCHANGED result
    BY <1>2, <1>3, <2>1 DEF Goto, BuildCurrent, Publishing
  <2> QED
    BY <1>7, <1>9, <2>1 DEF CheckLayout
<1>10. CASE ReadManifest(b)
  <2>1. CASE "manifest.json" \in entry.files
    <3>1. entry # NoEntry
      BY <2>1 DEF NoEntry, Entry
    <3>2. manifest'[b].digest = manifest'[b].recorded
      BY <1>1, <1>3, <1>10, <2>1, <3>1 DEF ReadManifest
    <3>3. pc'[b] = "check" /\ next'[b] = 1 /\ result' = result
      BY <1>3, <1>10, <2>1 DEF ReadManifest, Goto, Restart
    <3>4. \A h \in Headers : ~ (h < next'[b])
      BY <1>4, <3>3
    <3> QED
      BY <1>2, <3>2, <3>3, <3>4 DEF BuildCurrent, Publishing
  <2> QED
    BY <1>7, <1>10, <2>1 DEF ReadManifest
<1>11. CASE CheckDependencies(b)
  <2>1. pc[b] = "check" /\ UNCHANGED <<disk, manifest, made, recorded>>
    BY <1>11 DEF CheckDependencies, CheckDependency
  <2>2. /\ manifest[b].digest = manifest[b].recorded
        /\ \A h \in Headers : h < next[b] => seen[b][h] = manifest[b].recorded[h]
        /\ manifest[b].recorded \in Contents /\ seen[b] \in Contents
    BY <1>1, <1>3, <2>1 DEF BuildCurrent
  <2>3. CASE next[b] > HeaderCount
    <3>1. pc'[b] = "logs" /\ UNCHANGED <<seen, result>>
      BY <1>3, <1>11, <2>3 DEF CheckDependencies, CheckDependency, Goto
    <3>2. seen[b] = manifest[b].recorded
      BY <1>4, <2>2, <2>3 DEF Contents
    <3> QED
      BY <1>2, <2>1, <2>2, <3>1, <3>2 DEF BuildCurrent, Publishing
  <2>4. CASE ~ (next[b] > HeaderCount) /\ Matches(b, next[b])
    <3>1. /\ seen' = [seen EXCEPT ![b][next[b]] = disk[next[b]]]
          /\ next' = [next EXCEPT ![b] = next[b] + 1] /\ UNCHANGED <<pc, result>>
          /\ disk[next[b]] = manifest[b].recorded[next[b]]
      BY <1>11, <2>4 DEF CheckDependencies, CheckDependency, Advance, Matches
    <3>2. next[b] \in Headers
      BY <1>1, <1>2, <2>4 DEF Headers
    <3>3. seen'[b] = [seen[b] EXCEPT ![next[b]] = disk[next[b]]] /\ next'[b] = next[b] + 1
      BY <1>3, <3>1
    <3>4. \A h \in Headers : seen'[b][h] = IF h = next[b] THEN disk[next[b]] ELSE seen[b][h]
      BY <2>2, <3>3 DEF Contents
    <3>5. \A h \in Headers : h < next'[b] => seen'[b][h] = manifest[b].recorded[h]
      BY <1>4, <2>2, <3>1, <3>3, <3>4
    <3> QED
      BY <1>2, <2>1, <2>2, <3>1, <3>5 DEF BuildCurrent, Publishing
  <2>5. CASE ~ (next[b] > HeaderCount) /\ ~ Matches(b, next[b])
    <3>1. pc'[b] = "run" /\ next'[b] = 1 /\ UNCHANGED <<seen, result>>
      BY <1>3, <1>11, <2>5 DEF CheckDependencies, CheckDependency, Goto, Restart
    <3>2. \A h \in Headers : ~ (h < next'[b])
      BY <1>4, <3>1
    <3> QED
      BY <1>2, <3>1, <3>2 DEF BuildCurrent, Publishing
  <2> QED
    BY <2>3, <2>4, <2>5
<1>12. ASSUME NEW to \in {"verify", "copy"}, Goto(b, to), pc[b] \in {"logs", "verify"},
              UNCHANGED <<manifest, seen, result>>
       PROVE  BuildCurrent(b)'
  BY <1>1, <1>2, <1>3, <1>12 DEF Goto, BuildCurrent, Publishing
<1>13. CASE ReadLogs(b) \/ VerifyStored(b)
  BY <1>7, <1>12, <1>13 DEF ReadLogs, VerifyStored
<1>14. CASE CopyOutput(b)
  <2>1. CASE StoredAsRecorded(b)
    <3>1. entry.stored = seen[b]
      BY <1>1, <1>14, <2>1 DEF CopyOutput, StoredAsRecorded, BuildCurrent
    <3>2. pc'[b] = "done" /\ result'[b].output = entry.stored /\ UNCHANGED seen
      BY <1>3, <1>14, <2>1 DEF CopyOutput, Finish, Goto
    <3> QED
      BY <3>1, <3>2 DEF BuildCurrent, Publishing
  <2> QED
    BY <1>7, <1>14, <2>1 DEF CopyOutput
(* A turn of a loop that fills a copy of the headers. *)
<1>15. ASSUME NEW was \in [Builds -> Contents], next[b] <= HeaderCount,
              \A h \in Headers : h < next[b] => was[b][h] = disk[h]
       PROVE  LET to == [was EXCEPT ![b][next[b]] = disk[next[b]]] IN
              \A h \in Headers : h < next[b] + 1 => to[b][h] = disk[h]
  <2>1. next[b] \in Headers
    BY <1>1, <1>2, <1>15 DEF Headers
  <2>2. was[b] \in Contents
    BY <1>15
  <2>3. [was EXCEPT ![b][next[b]] = disk[next[b]]][b] = [was[b] EXCEPT ![next[b]] = disk[next[b]]]
    BY <1>15
  <2>4. \A h \in Headers : [was[b] EXCEPT ![next[b]] = disk[next[b]]][h]
                              = IF h = next[b] THEN disk[next[b]] ELSE was[b][h]
    BY <2>2 DEF Contents
  <2> QED
    BY <1>4, <1>15, <2>3, <2>4
<1>16. CASE RunTool(b)
  <2>1. pc[b] = "run" /\ UNCHANGED <<seen, recorded, result, disk>>
        /\ \A h \in Headers : h < next[b] => made[b][h] = disk[h]
    BY <1>1, <1>16 DEF RunTool, BuildCurrent
  <2>2. CASE next[b] <= HeaderCount
    <3>1. /\ made' = [made EXCEPT ![b][next[b]] = disk[next[b]]]
          /\ next'[b] = next[b] + 1 /\ pc' = pc
      BY <1>3, <1>16, <2>2 DEF RunTool, Advance
    <3>2. \A h \in Headers : h < next'[b] => made'[b][h] = disk[h]
      BY <1>3, <1>15, <2>1, <2>2, <3>1
    <3> QED
      BY <1>2, <2>1, <3>1, <3>2 DEF BuildCurrent, Publishing
  <2>3. CASE ~ (next[b] <= HeaderCount)
    <3>1. pc'[b] = "record" /\ next'[b] = 1 /\ UNCHANGED made
      BY <1>3, <1>16, <2>3 DEF RunTool, Restart, Goto
    <3>2. \A h \in Headers : made[b][h] = disk[h] /\ ~ (h < next'[b])
      BY <1>1, <1>2, <1>4, <2>1, <2>3, <3>1
    <3> QED
      BY <1>2, <2>1, <3>1, <3>2 DEF BuildCurrent, Publishing
  <2> QED
    BY <2>2, <2>3
<1>17. CASE RecordDependencies(b)
  <2>1. pc[b] = "record" /\ UNCHANGED <<seen, made, result, disk>>
        /\ \A h \in Headers : made[b][h] = disk[h] /\ (h < next[b] => recorded[b][h] = disk[h])
    BY <1>1, <1>17 DEF RecordDependencies, BuildCurrent
  <2>2. CASE next[b] <= HeaderCount
    <3>1. /\ recorded' = [recorded EXCEPT ![b][next[b]] = disk[next[b]]]
          /\ next'[b] = next[b] + 1 /\ pc' = pc
      BY <1>3, <1>17, <2>2 DEF RecordDependencies, Advance
    <3>2. \A h \in Headers : h < next'[b] => recorded'[b][h] = disk[h]
      BY <1>3, <1>15, <2>1, <2>2, <3>1
    <3> QED
      BY <1>2, <2>1, <3>1, <3>2 DEF BuildCurrent, Publishing
  <2>3. CASE ~ (next[b] <= HeaderCount)
    <3>1. pc'[b] = "probe" /\ UNCHANGED recorded
      BY <1>3, <1>17, <2>3 DEF RecordDependencies, Goto
    <3>2. \A h \in Headers : recorded[b][h] = made[b][h]
      BY <1>1, <1>2, <1>4, <2>1, <2>3
    <3>3. recorded[b] = made[b]
      <4>1. recorded[b] \in Contents /\ made[b] \in Contents
        BY <1>3
      <4> QED
        BY <3>2, <4>1 DEF Contents
    <3> QED
      BY <1>2, <2>1, <3>1, <3>3 DEF BuildCurrent, Publishing
  <2> QED
    BY <2>2, <2>3
(* While it publishes, the build has nothing to lose: its copies stand. *)
<1>18. ASSUME pc[b] \in Publishing, pc'[b] \in Publishing \cup {"done", "dead"},
              UNCHANGED <<made, recorded>>, result'[b].status # "hit"
       PROVE  BuildCurrent(b)'
  BY <1>1, <1>18 DEF BuildCurrent, Publishing
<1>19. CASE Probe(b) \/ Inspect(b) \/ RemoveStale(b) \/ Publish(b) \/ CheckWinner(b)
  <2>1. pc[b] \in Publishing /\ UNCHANGED <<made, recorded>>
    BY <1>19 DEF Probe, Inspect, RemoveStale, Publish, CheckWinner, Publishing
  <2>2. pc'[b] \in Publishing \cup {"done", "dead"}
    BY <1>3, <1>19 DEF Probe, Inspect, RemoveStale, Publish, CheckWinner, Throw, Finish, Goto, Publishing
  <2>3. result'[b].status # "hit"
    BY <1>2, <1>3, <1>19 DEF Probe, Inspect, RemoveStale, Publish, CheckWinner, Throw, Finish
  <2> QED
    BY <1>18, <2>1, <2>2, <2>3
<1>20. CASE Recheck(b)
  <2>1. pc[b] \in Publishing /\ UNCHANGED <<made, recorded>>
    BY <1>20 DEF Recheck, CheckDependency, Publishing
  <2>2. pc'[b] \in Publishing \cup {"done", "dead"}
    BY <1>3, <1>20 DEF Recheck, CheckDependency, Finish, Goto, Publishing
  <2>3. result'[b].status # "hit"
    BY <1>2, <1>3, <1>20 DEF Recheck, CheckDependency, Finish
  <2> QED
    BY <1>18, <2>1, <2>2, <2>3
<1> QED
  BY <1>6, <1>8, <1>9, <1>10, <1>11, <1>13, <1>14, <1>16, <1>17, <1>19, <1>20 DEF Step

LEMMA CurrentNext ==
  ASSUME ~ EditsDuringAction
  PROVE  CurrentInv /\ [Next]_vars => CurrentInv'
<1> SUFFICES ASSUME CurrentInv, [Next]_vars
             PROVE  CurrentInv'
  OBVIOUS
<1>1. OneRunInv'
  BY OneRunNext DEF CurrentInv
<1>2. CASE UNCHANGED vars
  BY <1>1, <1>2 DEF vars, CurrentInv, BuildCurrent
<1>3. ASSUME NEW b \in Builds, Step(b) \/ Crash(b)
      PROVE  CurrentInv'
  <2>1. ASSUME NEW a \in Builds
        PROVE  BuildCurrent(a)'
    <3>1. CASE a = b
      BY <1>3, <3>1, OwnStep
    <3>2. CASE a # b
      <4>1. BuildCurrent(a)
        BY DEF CurrentInv
      <4>2. /\ UNCHANGED disk
            /\ pc'[a] = pc[a] /\ next'[a] = next[a] /\ manifest'[a] = manifest[a]
            /\ seen'[a] = seen[a] /\ made'[a] = made[a] /\ recorded'[a] = recorded[a]
            /\ result'[a] = result[a]
        BY <1>3, <3>2, StepIsLocal DEF CurrentInv, OneRunInv
      <4> QED
        BY <4>1, <4>2 DEF BuildCurrent
    <3> QED
      BY <3>1, <3>2
  <2>2. entry' # NoEntry => entry'.recorded = entry'.digest
    <3>1. CASE entry' = entry \/ entry' = NoEntry
      BY <3>1 DEF CurrentInv
    <3>2. ASSUME NEW name \in Files \cap entry.files,
                 entry' = [entry EXCEPT !.files = entry.files \ {name}]
          PROVE  entry'.recorded = entry'.digest
      <4>1. entry # NoEntry
        BY <3>2 DEF NoEntry, Entry, Files
      <4>2. /\ entry \in [files : SUBSET Files, recorded : Contents, digest : Contents, stored : Contents]
            /\ entry.recorded = entry.digest
        BY <4>1 DEF CurrentInv, OneRunInv, TypeOK
      <4> QED
        BY <3>2, <4>2
    <3>3. ASSUME entry' = PublishedEntry(b), pc[b] = "rename"
          PROVE  entry'.recorded = entry'.digest
      <4>1. recorded[b] = made[b]
        BY <3>3 DEF CurrentInv, BuildCurrent, Publishing
      <4> QED
        BY <3>3, <4>1 DEF PublishedEntry, Entry
    <3> QED
      BY <1>3, <3>1, <3>2, <3>3, EntrySteps
  <2> QED
    BY <1>1, <2>1, <2>2 DEF CurrentInv
<1>4. ASSUME NEW g \in Headers, EditHeader(g)
      PROVE  CurrentInv'
  <2>1. \A b \in Builds : ~ ToolIsReading(b)
    BY <1>4 DEF EditHeader
  <2>2. UNCHANGED <<entry, pc, next, manifest, seen, made, recorded, result>>
    BY <1>4 DEF EditHeader
  <2>3. ASSUME NEW b \in Builds
        PROVE  BuildCurrent(b)'
    <3>1. pc[b] # "record" /\ (pc[b] = "run" => ~ (next[b] > 1))
      BY <2>1 DEF ToolIsReading
    <3>2. next[b] \in Nat
      BY DEF CurrentInv, OneRunInv, TypeOK
    <3>3. pc[b] = "run" => \A h \in Headers : ~ (h < next[b])
      BY <3>1, <3>2, BoundsAssumption DEF Headers
    <3>4. BuildCurrent(b)
      BY DEF CurrentInv
    <3> QED
      BY <2>2, <3>1, <3>3, <3>4 DEF BuildCurrent
  <2> QED
    BY <1>1, <2>2, <2>3 DEF CurrentInv
<1> QED
  BY <1>2, <1>3, <1>4 DEF Next

LEMMA CurrentInit == Init => CurrentInv
<1> SUFFICES ASSUME Init
             PROVE  CurrentInv
  OBVIOUS
<1>1. ASSUME NEW b \in Builds
      PROVE  BuildCurrent(b)
  BY DEF Init, BuildCurrent, Publishing
<1> QED
  BY <1>1, OneRunInit DEF Init, CurrentInv

(* When no header changes while a tool reads it, a restored output is what *)
(* the tool would make of the headers the restoring build compared         *)
(* (dependenciesUnchanged: "the entry is only reused when every file the   *)
(* tool read is still exactly what it was").                               *)
THEOREM HitsAreCurrent ==
  ASSUME ~ EditsDuringAction
  PROVE  Spec => []HitIsCurrent
<1>1. Init => CurrentInv
  BY CurrentInit
<1>2. CurrentInv /\ [Next]_vars => CurrentInv'
  BY CurrentNext
<1>3. ASSUME CurrentInv
      PROVE  HitIsCurrent
  <2>1. EntryIsOneRun
    BY <1>3, FilesFacts DEF CurrentInv, OneRunInv, EntryConsistent, OfOneRun, EntryIsOneRun
  <2> QED
    BY <1>3, <2>1 DEF CurrentInv, BuildCurrent, HitIsCurrent
<1> QED
  BY <1>1, <1>2, <1>3, PTL DEF Spec
-----------------------------------------------------------------------------
(* The race for the key.  An entry that is not whole, and a path that is   *)
(* empty although something was published, are in the hands of a build     *)
(* that will publish again, or died at it; and who finds an entry finds    *)
(* what a build that executed has published.                               *)
Executed == \E b \in Builds : result[b].status = "executed"
At(labels) == \E a \in Builds : pc[a] \in labels

KeyAttended ==
  /\ entry # NoEntry /\ entry.files # Files => At({"remove", "dead"})
  /\ entry = NoEntry /\ Executed => At({"remove", "rename", "dead"})
  /\ entry # NoEntry \/ At({"inspect", "recheck", "remove", "winner"}) => Executed

LEMMA ExecutedStays ==
  ASSUME OneRunInv, NEW b \in Builds, Step(b) \/ Crash(b), Executed
  PROVE  Executed'
<1>1. PICK a \in Builds : result[a].status = "executed"
  BY DEF Executed
<1>2. a # b
  BY <1>1, StepIsLocal DEF OneRunInv, OutcomesFinal
<1>3. result'[a] = result[a]
  BY <1>2, StepIsLocal DEF OneRunInv
<1> QED
  BY <1>1, <1>3 DEF Executed

(* The steps other than the removal and the renaming: they leave the entry *)
(* alone, and only its death takes a build away from those two.            *)
LEMMA BystanderStep ==
  ASSUME TypeOK, NEW b \in Builds, Step(b) \/ Crash(b), ~ RemoveStale(b), ~ Publish(b)
  PROVE  /\ UNCHANGED entry
         /\ pc[b] \in {"remove", "rename"} => pc'[b] = "dead"
         /\ pc'[b] \in {"inspect", "recheck", "remove", "winner"} =>
              entry # NoEntry \/ pc[b] \in {"inspect", "recheck", "remove", "winner"}
         /\ result'[b].status = "executed" =>
              result[b].status = "executed" \/ pc[b] \in {"recheck", "winner"}
<1> USE DEF TypeOK
<1>1. CASE Lookup(b) \/ CheckLayout(b) \/ ReadLogs(b) \/ VerifyStored(b) \/ CopyOutput(b) \/ ReadManifest(b)
  BY <1>1 DEF Lookup, CheckLayout, ReadLogs, VerifyStored, CopyOutput, ReadManifest, Throw, Finish, Goto
<1>2. CASE CheckDependencies(b) \/ Recheck(b)
  BY <1>2 DEF CheckDependencies, Recheck, CheckDependency, Finish, Goto
<1>3. CASE RunTool(b) \/ RecordDependencies(b)
  BY <1>3 DEF RunTool, RecordDependencies, Goto
<1>4. CASE Probe(b) \/ Inspect(b) \/ CheckWinner(b) \/ Crash(b)
  BY <1>4 DEF Probe, Inspect, CheckWinner, Crash, Throw, Finish, Goto
<1> QED
  BY <1>1, <1>2, <1>3, <1>4 DEF Step

LEMMA KeyStep ==
  ASSUME OneRunInv, KeyAttended, NEW b \in Builds, Step(b) \/ Crash(b)
  PROVE  KeyAttended'
<1>1. /\ TypeOK
      /\ pc \in [Builds -> Restoring \cup Running \cup Publishing \cup {"done", "dead"}]
      /\ result \in [Builds -> [status : {"none", "hit", "executed", "error"}, output : Contents]]
      /\ pc[b] \notin {"done", "dead"}
      /\ \A a \in Builds \ {b} : pc'[a] = pc[a] /\ result'[a] = result[a]
      /\ Executed => Executed'
  BY StepIsLocal, ExecutedStays DEF OneRunInv, TypeOK
<1>2. CASE Publish(b) /\ PathIsFree
  <2>1. entry' = PublishedEntry(b) /\ Finish(b, "executed", made[b])
    BY <1>2 DEF Publish
  <2>2. entry'.files = Files /\ entry' # NoEntry
    BY <2>1, FilesFacts DEF PublishedEntry, Entry
  <2>3. Executed'
    BY <1>1, <2>1 DEF Finish, Executed
  <2> QED
    BY <2>2, <2>3 DEF KeyAttended
<1>3. CASE Publish(b) /\ ~ PathIsFree
  <2>1. entry' = entry /\ entry # NoEntry /\ pc[b] = "rename"
    BY <1>3 DEF Publish, PathIsFree
  <2>2. At({"remove", "dead"}) => At({"remove", "dead"})'
    BY <1>1, <2>1 DEF At
  <2> QED
    BY <1>1, <2>1, <2>2 DEF KeyAttended
<1>4. CASE RemoveStale(b)
  <2>1. pc[b] = "remove" /\ pc'[b] \in {"remove", "rename"} /\ (entry' = NoEntry \/ pc'[b] = "remove")
    BY <1>1, <1>4 DEF RemoveStale, NothingLeft, Goto
  <2>2. Executed'
    BY <1>1, <2>1 DEF KeyAttended, At
  <2> QED
    BY <2>1, <2>2 DEF KeyAttended, At
<1>5. CASE ~ RemoveStale(b) /\ ~ Publish(b)
  <2>1. /\ entry' = entry
        /\ pc[b] \in {"remove", "rename"} => pc'[b] = "dead"
        /\ pc'[b] \in {"inspect", "recheck", "remove", "winner"} =>
             entry # NoEntry \/ pc[b] \in {"inspect", "recheck", "remove", "winner"}
        /\ result'[b].status = "executed" =>
             result[b].status = "executed" \/ pc[b] \in {"recheck", "winner"}
    BY <1>1, <1>5, BystanderStep
  <2>2. /\ At({"remove", "dead"}) => At({"remove", "dead"})'
        /\ At({"remove", "rename", "dead"}) => At({"remove", "rename", "dead"})'
    BY <1>1, <2>1 DEF At
  <2>3. At({"inspect", "recheck", "remove", "winner"})' =>
          entry # NoEntry \/ At({"inspect", "recheck", "remove", "winner"})
    BY <1>1, <2>1 DEF At
  <2>4. Executed' => Executed
    <3>1. result'[b].status = "executed" => Executed
      BY <2>1 DEF Executed, KeyAttended, At
    <3> QED
      BY <1>1, <3>1 DEF Executed
  <2> QED
    BY <1>1, <2>1, <2>2, <2>3, <2>4 DEF KeyAttended
<1> QED
  BY <1>2, <1>3, <1>4, <1>5

(* Whatever builds, headers, edits and crashes there are, and also when    *)
(* headers change under the tools: builds that are all over have left a    *)
(* whole entry (publishActionToCache: "One key, one entry").               *)
THEOREM KeyIsKept == Spec => []KeyKept
<1>1. Init => KeyAttended
  BY DEF Init, KeyAttended, At, Executed
<1>2. OneRunInv /\ KeyAttended /\ [Next]_vars => KeyAttended'
  <2>1. ASSUME UNCHANGED vars, KeyAttended
        PROVE  KeyAttended'
    BY <2>1 DEF vars, KeyAttended, At, Executed
  <2>2. ASSUME NEW h \in Headers, EditHeader(h), KeyAttended
        PROVE  KeyAttended'
    BY <2>2 DEF EditHeader, KeyAttended, At, Executed
  <2> QED
    BY <2>1, <2>2, KeyStep DEF Next
<1>3. ASSUME KeyAttended
      PROVE  KeyKept
  <2>1. (\A b \in Builds : pc[b] = "done") => ~ At({"remove", "rename", "dead"}) /\ ~ At({"remove", "dead"})
    BY DEF At
  <2> QED
    BY <1>3, <2>1 DEF KeyAttended, KeyKept, Executed
<1> QED
  BY <1>1, <1>2, <1>3, OneRunInvariant, PTL DEF Spec

-----------------------------------------------------------------------------
(* Headers only get newer, so what a build has found or read since it      *)
(* began is no older than that; what it takes over from the entry is what  *)
(* it has found.                                                           *)
SinceBegan(read, b) == \A h \in Headers : read[h] >= began[b][h]

BuildSince(b) ==
  /\ SinceBegan(disk, b)
  /\ pc[b] = "lookup" => next[b] = 1
  /\ pc[b] = "check" => \A h \in Headers : h < next[b] => seen[b][h] >= began[b][h]
  /\ pc[b] \in {"logs", "verify", "copy"} => SinceBegan(seen[b], b)
  /\ pc[b] = "run" => \A h \in Headers : h < next[b] => made[b][h] >= began[b][h]
  /\ pc[b] \in {"record"} \cup Publishing => SinceBegan(made[b], b)
  /\ result[b].status = "hit" => SinceBegan(seen[b], b)
  /\ result[b].status = "executed" => SinceBegan(result[b].output, b)

LEMMA ContentsFacts ==
  ASSUME TypeOK, NEW b \in Builds
  PROVE  /\ began[b] \in Contents /\ seen[b] \in Contents /\ made[b] \in Contents /\ disk \in Contents
         /\ \A h \in Headers : /\ began[b][h] \in Nat /\ disk[h] \in Nat
                               /\ seen[b][h] \in Nat /\ made[b][h] \in Nat
         /\ next[b] \in 1..HeaderCount + 1 /\ HeaderCount \in Nat
         /\ \A h \in Headers : h \in Nat /\ 1 <= h /\ (h < next[b] + 1 => h < next[b] \/ h = next[b])
                               /\ (next[b] > HeaderCount => h < next[b])
<1>1. /\ began[b] \in Contents /\ seen[b] \in Contents /\ made[b] \in Contents /\ disk \in Contents
      /\ next[b] \in 1..HeaderCount + 1 /\ HeaderCount \in Nat /\ MaxEdits \in Nat
  BY BoundsAssumption DEF TypeOK
<1>2. \A c \in Contents : \A h \in Headers : c[h] \in Nat
  BY <1>1 DEF Contents
<1> QED
  BY <1>1, <1>2 DEF Headers

(* A turn of a loop that fills a copy of the headers.                      *)
LEMMA TurnSince ==
  ASSUME TypeOK, NEW b \in Builds, NEW was \in [Builds -> Contents], next[b] <= HeaderCount,
         SinceBegan(disk, b), \A h \in Headers : h < next[b] => was[b][h] >= began[b][h]
  PROVE  LET to == [was EXCEPT ![b][next[b]] = disk[next[b]]] IN
         \A h \in Headers : h < next[b] + 1 => to[b][h] >= began[b][h]
<1>1. was[b] \in Contents /\ next[b] \in Headers
  BY ContentsFacts DEF Headers
<1>2. [was EXCEPT ![b][next[b]] = disk[next[b]]][b] = [was[b] EXCEPT ![next[b]] = disk[next[b]]]
  OBVIOUS
<1>3. \A h \in Headers : [was[b] EXCEPT ![next[b]] = disk[next[b]]][h]
                           = IF h = next[b] THEN disk[next[b]] ELSE was[b][h]
  BY <1>1 DEF Contents
<1> QED
  BY <1>2, <1>3, ContentsFacts DEF SinceBegan

LEMMA SinceStep ==
  ASSUME OneRunInv, NEW b \in Builds, BuildSince(b), Step(b) \/ Crash(b)
  PROVE  BuildSince(b)'
<1>1. /\ TypeOK /\ UNCHANGED disk /\ result[b].status = "none" /\ SinceBegan(disk, b)
      /\ pc[b] \notin {"done", "dead"}
  BY StepIsLocal DEF OneRunInv, OutcomesFinal, BuildSince
<1>2. /\ pc \in [Builds -> Restoring \cup Running \cup Publishing \cup {"done", "dead"}]
      /\ seen \in [Builds -> Contents] /\ made \in [Builds -> Contents]
      /\ next \in [Builds -> 1..HeaderCount + 1] /\ began \in [Builds -> Contents]
      /\ result \in [Builds -> [status : {"none", "hit", "executed", "error"}, output : Contents]]
  BY <1>1 DEF TypeOK
<1>3. pc[b] # "lookup" => UNCHANGED began
  BY BeganStep
<1>4. \A h \in Headers : ~ (h < 1)
  BY <1>1, ContentsFacts
(* A build that comes to a label at which nothing has been read yet. *)
<1>5. ASSUME UNCHANGED began, UNCHANGED result,
             \/ pc'[b] \in {"layout", "manifest", "dead"}
             \/ pc'[b] \in {"check", "run"} /\ next'[b] = 1
      PROVE  BuildSince(b)'
  BY <1>1, <1>4, <1>5 DEF BuildSince, SinceBegan, Publishing
<1>6. ASSUME UNCHANGED began, Throw(b)
      PROVE  BuildSince(b)'
  BY <1>1, <1>2, <1>6 DEF Throw, Finish, Goto, BuildSince, SinceBegan, Publishing
<1>7. CASE Crash(b)
  <2>1. pc'[b] = "dead" /\ UNCHANGED <<began, result>>
    BY <1>2, <1>7 DEF Crash, Goto
  <2> QED
    BY <1>5, <2>1
<1>8. CASE Lookup(b)
  <2>1. /\ began'[b] = disk /\ pc'[b] \in {"run", "layout"} /\ next'[b] = 1 /\ UNCHANGED result
    BY <1>2, <1>8 DEF Lookup, Goto, BuildSince
  <2>2. \A h \in Headers : disk[h] >= disk[h]
    BY <1>1, ContentsFacts
  <2> QED
    BY <1>1, <1>4, <2>1, <2>2 DEF BuildSince, SinceBegan, Publishing
<1>9. CASE CheckLayout(b) \/ ReadManifest(b)
  <2>1. UNCHANGED began
    BY <1>3, <1>9 DEF CheckLayout, ReadManifest
  <2>2. CASE Throw(b)
    BY <1>6, <2>1, <2>2
  <2>3. CASE ~ Throw(b)
    <3>1. UNCHANGED result /\ (pc'[b] = "manifest" \/ (pc'[b] = "check" /\ next'[b] = 1))
      BY <1>2, <1>9, <2>3 DEF CheckLayout, ReadManifest, Goto, Restart
    <3> QED
      BY <1>5, <2>1, <3>1
  <2> QED
    BY <2>2, <2>3
<1>10. CASE CheckDependencies(b)
  <2>1. /\ pc[b] = "check" /\ UNCHANGED <<began, made, result>>
        /\ \A h \in Headers : h < next[b] => seen[b][h] >= began[b][h]
    BY <1>3, <1>10 DEF CheckDependencies, CheckDependency, BuildSince, Goto
  <2>2. CASE next[b] > HeaderCount
    <3>1. pc'[b] = "logs" /\ UNCHANGED seen
      BY <1>2, <1>10, <2>2 DEF CheckDependencies, CheckDependency, Goto
    <3>2. SinceBegan(seen[b], b)
      BY <1>1, <2>1, <2>2, ContentsFacts DEF SinceBegan
    <3> QED
      BY <1>1, <2>1, <3>1, <3>2 DEF BuildSince, SinceBegan, Publishing
  <2>3. CASE ~ (next[b] > HeaderCount) /\ Matches(b, next[b])
    <3>1. /\ seen' = [seen EXCEPT ![b][next[b]] = disk[next[b]]]
          /\ next'[b] = next[b] + 1 /\ pc'[b] = "check"
      BY <1>2, <1>10, <2>1, <2>3 DEF CheckDependencies, CheckDependency, Advance
    <3>2. next[b] <= HeaderCount
      BY <1>1, <2>3, ContentsFacts
    <3>3. \A h \in Headers : h < next'[b] => seen'[b][h] >= began[b][h]
      BY <1>1, <1>2, <2>1, <3>1, <3>2, TurnSince
    <3> QED
      BY <1>1, <2>1, <3>1, <3>3 DEF BuildSince, SinceBegan, Publishing
  <2>4. CASE ~ (next[b] > HeaderCount) /\ ~ Matches(b, next[b])
    <3>1. pc'[b] = "run" /\ next'[b] = 1
      BY <1>2, <1>10, <2>4 DEF CheckDependencies, CheckDependency, Goto, Restart
    <3> QED
      BY <1>5, <2>1, <3>1
  <2> QED
    BY <2>2, <2>3, <2>4
<1>11. CASE ReadLogs(b) \/ VerifyStored(b) \/ CopyOutput(b)
  <2>1. pc[b] \in {"logs", "verify", "copy"} /\ UNCHANGED <<began, seen>> /\ SinceBegan(seen[b], b)
    BY <1>3, <1>11 DEF ReadLogs, VerifyStored, CopyOutput, BuildSince
  <2>2. CASE Throw(b)
    BY <1>6, <2>1, <2>2
  <2>3. CASE ~ Throw(b)
    <3>1. \/ pc'[b] \in {"verify", "copy"} /\ UNCHANGED result
          \/ pc'[b] = "done" /\ result'[b].status = "hit"
      BY <1>2, <1>11, <2>3 DEF ReadLogs, VerifyStored, CopyOutput, Finish, Goto
    <3> QED
      BY <1>1, <2>1, <3>1 DEF BuildSince, SinceBegan, Publishing
  <2> QED
    BY <2>2, <2>3
<1>12. CASE RunTool(b)
  <2>1. /\ pc[b] = "run" /\ UNCHANGED <<began, result>>
        /\ \A h \in Headers : h < next[b] => made[b][h] >= began[b][h]
    BY <1>3, <1>12 DEF RunTool, BuildSince
  <2>2. CASE next[b] <= HeaderCount
    <3>1. /\ made' = [made EXCEPT ![b][next[b]] = disk[next[b]]]
          /\ next'[b] = next[b] + 1 /\ pc'[b] = "run"
      BY <1>2, <1>12, <2>1, <2>2 DEF RunTool, Advance
    <3>2. \A h \in Headers : h < next'[b] => made'[b][h] >= began[b][h]
      BY <1>1, <1>2, <2>1, <2>2, <3>1, TurnSince
    <3> QED
      BY <1>1, <2>1, <3>1, <3>2 DEF BuildSince, SinceBegan, Publishing
  <2>3. CASE ~ (next[b] <= HeaderCount)
    <3>1. pc'[b] = "record" /\ UNCHANGED made
      BY <1>2, <1>12, <2>3 DEF RunTool, Goto
    <3>2. SinceBegan(made[b], b)
      BY <1>1, <2>1, <2>3, ContentsFacts DEF SinceBegan
    <3> QED
      BY <1>1, <2>1, <3>1, <3>2 DEF BuildSince, SinceBegan, Publishing
  <2> QED
    BY <2>2, <2>3
(* From there on what the build made stands, and is what it reports. *)
<1>13. ASSUME pc[b] \in {"record"} \cup Publishing, UNCHANGED <<began, made>>,
              \/ pc'[b] \in {"record"} \cup Publishing /\ UNCHANGED result
              \/ Finish(b, "executed", made[b]) \/ Throw(b)
       PROVE  BuildSince(b)'
  <2>1. SinceBegan(made[b], b)
    BY <1>13 DEF BuildSince
  <2>2. CASE pc'[b] \in {"record"} \cup Publishing /\ UNCHANGED result
    BY <1>1, <1>13, <2>1, <2>2 DEF BuildSince, SinceBegan, Publishing
  <2>3. CASE Finish(b, "executed", made[b])
    <3>1. pc'[b] = "done" /\ result'[b].status = "executed" /\ result'[b].output = made[b]
      BY <1>2, <2>3 DEF Finish, Goto
    <3> QED
      BY <1>1, <1>13, <2>1, <3>1 DEF BuildSince, SinceBegan, Publishing
  <2> QED
    BY <1>6, <1>13, <2>2, <2>3
<1>14. CASE RecordDependencies(b) \/ Probe(b) \/ Inspect(b) \/ RemoveStale(b)
  <2>1. pc[b] \in {"record"} \cup Publishing /\ UNCHANGED <<began, made, result>>
    BY <1>3, <1>14 DEF RecordDependencies, Probe, Inspect, RemoveStale, Publishing
  <2>2. pc'[b] \in {"record"} \cup Publishing
    BY <1>2, <1>14 DEF RecordDependencies, Probe, Inspect, RemoveStale, Goto, Publishing
  <2> QED
    BY <1>13, <2>1, <2>2
<1>15. CASE Recheck(b) \/ Publish(b) \/ CheckWinner(b)
  <2>1. pc[b] \in Publishing /\ UNCHANGED <<began, made>>
    BY <1>3, <1>15 DEF Recheck, CheckDependency, Publish, CheckWinner, Publishing
  <2>2. \/ pc'[b] \in Publishing /\ UNCHANGED result
        \/ Finish(b, "executed", made[b]) \/ Throw(b)
    BY <1>2, <1>15 DEF Recheck, CheckDependency, Publish, CheckWinner, Goto, Publishing
  <2> QED
    BY <1>13, <2>1, <2>2
<1> QED
  BY <1>7, <1>8, <1>9, <1>10, <1>11, <1>12, <1>14, <1>15 DEF Step

SinceInv == \A b \in Builds : BuildSince(b)

LEMMA SinceNext == OneRunInv /\ SinceInv /\ [Next]_vars => SinceInv'
<1> SUFFICES ASSUME OneRunInv, SinceInv, [Next]_vars, NEW a \in Builds
             PROVE  BuildSince(a)'
  BY DEF SinceInv
<1>1. BuildSince(a) /\ TypeOK
  BY DEF SinceInv, OneRunInv
<1>2. CASE UNCHANGED vars
  BY <1>1, <1>2 DEF vars, BuildSince, SinceBegan
<1>3. ASSUME NEW b \in Builds, Step(b) \/ Crash(b)
      PROVE  BuildSince(a)'
  <2>1. CASE a = b
    BY <1>1, <1>3, <2>1, SinceStep
  <2>2. CASE a # b
    <3>1. /\ UNCHANGED disk /\ pc'[a] = pc[a] /\ next'[a] = next[a] /\ began'[a] = began[a]
          /\ seen'[a] = seen[a] /\ made'[a] = made[a] /\ result'[a] = result[a]
      BY <1>1, <1>3, <2>2, StepIsLocal
    <3> QED
      BY <1>1, <3>1 DEF BuildSince, SinceBegan
  <2> QED
    BY <2>1, <2>2
<1>4. ASSUME NEW g \in Headers, EditHeader(g)
      PROVE  BuildSince(a)'
  <2>1. UNCHANGED <<began, pc, next, seen, made, result>>
    BY <1>4 DEF EditHeader
  <2>2. \A h \in Headers : disk'[h] \in Nat /\ disk'[h] >= disk[h]
    <3>1. disk \in [Headers -> 0..MaxEdits] /\ \A h \in Headers : disk[h] \in Nat
      BY <1>1, ContentsFacts DEF TypeOK, Contents
    <3>2. disk' = [disk EXCEPT ![g] = disk[g] + 1]
      BY <1>4 DEF EditHeader
    <3> QED
      BY <3>1, <3>2
  <2>3. SinceBegan(disk, a)'
    <3>1. \A h \in Headers : began[a][h] \in Nat /\ disk[h] \in Nat /\ disk[h] >= began[a][h]
      BY <1>1, ContentsFacts DEF BuildSince, SinceBegan
    <3> QED
      BY <2>1, <2>2, <3>1 DEF SinceBegan
  <2> QED
    BY <1>1, <2>1, <2>3 DEF BuildSince, SinceBegan
<1> QED
  BY <1>2, <1>3, <1>4 DEF Next

(* However builds, removals, publications and edits cross, no build        *)
(* reports an output older than its own start, the loser of a publication  *)
(* included, and the key is left with a whole entry.  For what is restored *)
(* headers must be at rest while a tool reads them (publishActionToCache,  *)
(* dependenciesUnchanged).                                                 *)
THEOREM RaceIsSettled ==
  ASSUME ~ EditsDuringAction
  PROVE  Spec => []RaceSettles
<1>1. Init => SinceInv /\ CurrentInv
  <2>1. Init => SinceInv
    <3> SUFFICES ASSUME Init, NEW b \in Builds
                 PROVE  BuildSince(b)
      BY DEF SinceInv
    <3>1. SinceBegan(disk, b)
      BY DEF Init, Unread, SinceBegan
    <3> QED
      BY <3>1 DEF Init, BuildSince, Publishing
  <2> QED
    BY <2>1, CurrentInit
<1>2. SinceInv /\ CurrentInv /\ [Next]_vars => (SinceInv /\ CurrentInv)'
  BY SinceNext, CurrentNext DEF CurrentInv
<1>3. SinceInv /\ CurrentInv => NoStaleResult
  BY DEF SinceInv, CurrentInv, BuildSince, BuildCurrent, SinceBegan, NoStaleResult
<1>4. NoStaleResult /\ KeyKept => RaceSettles
  BY DEF RaceSettles
<1> QED
  BY <1>1, <1>2, <1>3, <1>4, KeyIsKept, PTL DEF Spec
=============================================================================

--------------------------- MODULE ArtifactCache ---------------------------
(***************************************************************************)
(* The local action cache (artifact-cache.ts) as its callers in            *)
(* artifact-graph.ts use it: several builds look the same action key up in *)
(* one directory, restore the entry or run the tool and publish what it    *)
(* made.  Every await between two file-system calls is a place where       *)
(* another build, an editor of the headers, or a crash may come in.        *)
(*                                                                         *)
(* The key covers the declared inputs; what the key leaves out are the     *)
(* headers the tool reads undeclared.  A header's content is a version     *)
(* number, a tool's output is the function of the versions it read, and a  *)
(* digest is the content itself.                                           *)
(***************************************************************************)
EXTENDS Naturals, FiniteSets

CONSTANTS Builds,            \* build processes that share the cache root
          HeaderCount,       \* undeclared files the tool reads
          MaxEdits,          \* bound on header edits
          EditsDuringAction, \* may a header change while a tool runs?
          Crashes            \* may a build die between two calls?

ASSUME BoundsAssumption ==
  /\ HeaderCount \in Nat /\ MaxEdits \in Nat
  /\ EditsDuringAction \in BOOLEAN /\ Crashes \in BOOLEAN

Headers == 1..HeaderCount
Contents == [Headers -> 0..MaxEdits]
Unread == [h \in Headers |-> 0]
Files == {"manifest.json", "stdout.log", "stderr.log", "outputs"}

(* The entry directory: the names in it, the dependencies and the output   *)
(* digest its manifest records, and the output stored in it.               *)
Entry(files, recorded, digest, stored) ==
  [files |-> files, recorded |-> recorded, digest |-> digest, stored |-> stored]
NoEntry == Entry({"absent"}, Unread, Unread, Unread)

VARIABLES
  disk,      \* the headers' current contents
  edits,     \* how many edits there were
  began,     \* per build: disk at its lookup (history: no code has it)
  entry,     \* <entriesRoot>/<key>
  pc,        \* per build: the next file-system call
  next,      \* per build: the next header a loop over headers will look at
  manifest,  \* per build: the manifest it last parsed
  seen,      \* per build: what dependenciesUnchanged found on disk
  made,      \* per build: what its own tool run read (so: its output)
  recorded,  \* per build: what undeclaredDependencies digested after the run
  result     \* per build: "none", "hit", "executed" or "error", and the output

vars == <<disk, edits, began, entry, pc, next, manifest, seen, made, recorded, result>>

Restoring == {"lookup", "layout", "manifest", "check", "logs", "verify", "copy"}
Running == {"run", "record"}
Publishing == {"probe", "inspect", "recheck", "remove", "rename", "winner"}

TypeOK ==
  /\ disk \in Contents /\ edits \in 0..MaxEdits
  /\ entry \in {NoEntry} \cup [files : SUBSET Files, recorded : Contents,
                               digest : Contents, stored : Contents]
  /\ pc \in [Builds -> Restoring \cup Running \cup Publishing \cup {"done", "dead"}]
  /\ next \in [Builds -> 1..HeaderCount + 1]
  /\ manifest \in [Builds -> [recorded : Contents, digest : Contents]]
  /\ {began, seen, made, recorded} \subseteq [Builds -> Contents]
  /\ result \in [Builds -> [status : {"none", "hit", "executed", "error"},
                            output : Contents]]

Init ==
  /\ disk = Unread /\ edits = 0
  /\ began = [b \in Builds |-> Unread]
  /\ entry = NoEntry
  /\ pc = [b \in Builds |-> "lookup"]
  /\ next = [b \in Builds |-> 1]
  /\ manifest = [b \in Builds |-> [recorded |-> Unread, digest |-> Unread]]
  /\ seen = [b \in Builds |-> Unread]
  /\ made = [b \in Builds |-> Unread]
  /\ recorded = [b \in Builds |-> Unread]
  /\ result = [b \in Builds |-> [status |-> "none", output |-> Unread]]

Goto(b, label) == pc' = [pc EXCEPT ![b] = label]

Finish(b, status, output) ==
  /\ Goto(b, "done")
  /\ result' = [result EXCEPT ![b] = [status |-> status, output |-> output]]

(* An exception: a corrupt entry, or an ENOENT under the reader's feet.    *)
Throw(b) == Finish(b, "error", Unread)

FaultyRestart(b) == next' = [next EXCEPT ![b] = 0]

(* The loops over the headers.                                             *)
Restart(b) == next' = [next EXCEPT ![b] = 1]
Advance(b) == next' = [next EXCEPT ![b] = next[b] + 1]

-----------------------------------------------------------------------------
(* Definitions named Faulty... are bugs the code could have had; each run  *)
(* is also made with one of them in place of the definition that follows   *)
(* it, to show that the property in question notices.                      *)

(* restoreActionFromCache.                                                 *)

(* lstat: only ENOENT is a miss.                                           *)
Lookup(b) ==
  /\ pc[b] = "lookup"
  /\ Goto(b, IF entry = NoEntry THEN "run" ELSE "layout")
  /\ began' = [began EXCEPT ![b] = disk]
  /\ UNCHANGED <<disk, edits, entry, next, manifest, seen, made, recorded, result>>

(* readdir: anything but the four names is a corrupt entry.                *)
CheckLayout(b) ==
  /\ pc[b] = "layout"
  /\ IF entry.files = Files
     THEN Goto(b, "manifest") /\ UNCHANGED result
     ELSE Throw(b)
  /\ UNCHANGED <<disk, edits, began, entry, next, manifest, seen, made, recorded>>

ReadManifest(b) ==
  /\ pc[b] = "manifest"
  /\ IF "manifest.json" \in entry.files
     THEN /\ manifest' = [manifest EXCEPT
                            ![b] = [recorded |-> entry.recorded, digest |-> entry.digest]]
          /\ Restart(b)
          /\ Goto(b, "check") /\ UNCHANGED result
     ELSE Throw(b) /\ UNCHANGED <<manifest, next>>
  /\ UNCHANGED <<disk, edits, began, entry, seen, made, recorded>>

(* One comparison of dependenciesUnchanged.                                *)
Matches(b, h) == disk[h] = manifest[b].recorded[h]

(* dependenciesUnchanged, one header at a time; it stops at the first      *)
(* difference.  same and changed are where the caller goes on.             *)
CheckDependency(b, label, same, changed) ==
  /\ pc[b] = label
  /\ IF next[b] > HeaderCount
     THEN same /\ UNCHANGED <<next, seen>>
     ELSE IF Matches(b, next[b])
     THEN /\ seen' = [seen EXCEPT ![b][next[b]] = disk[next[b]]]
          /\ Advance(b)
          /\ UNCHANGED <<pc, result>>
     ELSE /\ changed /\ Restart(b) /\ UNCHANGED seen
  /\ UNCHANGED <<disk, edits, began, entry, manifest, made, recorded>>

CheckDependencies(b) ==
  CheckDependency(b, "check", Goto(b, "logs") /\ UNCHANGED result,
                              Goto(b, "run") /\ UNCHANGED result)

ReadLogs(b) ==
  /\ pc[b] = "logs"
  /\ IF {"stdout.log", "stderr.log"} \subseteq entry.files
     THEN Goto(b, "verify") /\ UNCHANGED result
     ELSE Throw(b)
  /\ UNCHANGED <<disk, edits, began, entry, next, manifest, seen, made, recorded>>

FaultyStoredAsRecorded(b) == "outputs" \in entry.files

StoredAsRecorded(b) == "outputs" \in entry.files /\ entry.stored = manifest[b].digest

(* The stored output is digested before it is copied ...                   *)
VerifyStored(b) ==
  /\ pc[b] = "verify"
  /\ IF StoredAsRecorded(b) THEN Goto(b, "copy") /\ UNCHANGED result ELSE Throw(b)
  /\ UNCHANGED <<disk, edits, began, entry, next, manifest, seen, made, recorded>>

(* ... and the copy is digested again before it is used.                   *)
CopyOutput(b) ==
  /\ pc[b] = "copy"
  /\ IF StoredAsRecorded(b) THEN Finish(b, "hit", entry.stored) ELSE Throw(b)
  /\ UNCHANGED <<disk, edits, began, entry, next, manifest, seen, made, recorded>>

-----------------------------------------------------------------------------
(* The miss path of executeOrRestoreAction.                                *)

(* The tool opens the headers one after the other.                         *)
RunTool(b) ==
  /\ pc[b] = "run"
  /\ IF next[b] <= HeaderCount
     THEN /\ made' = [made EXCEPT ![b][next[b]] = disk[next[b]]]
          /\ Advance(b)
          /\ UNCHANGED pc
     ELSE /\ Restart(b)
          /\ Goto(b, "record") /\ UNCHANGED made
  /\ UNCHANGED <<disk, edits, began, entry, manifest, seen, recorded, result>>

(* undeclaredDependencies: once the tool has exited, the files its         *)
(* dependency list names are digested as they are by now.                  *)
RecordDependencies(b) ==
  /\ pc[b] = "record"
  /\ IF next[b] <= HeaderCount
     THEN /\ recorded' = [recorded EXCEPT ![b][next[b]] = disk[next[b]]]
          /\ Advance(b)
          /\ UNCHANGED pc
     ELSE Goto(b, "probe") /\ UNCHANGED <<recorded, next>>
  /\ UNCHANGED <<disk, edits, began, entry, manifest, seen, made, result>>

-----------------------------------------------------------------------------
(* publishActionToCache.                                                   *)

Probe(b) ==
  /\ pc[b] = "probe"
  /\ Goto(b, IF entry = NoEntry THEN "rename" ELSE "inspect")
  /\ UNCHANGED <<disk, edits, began, entry, next, manifest, seen, made, recorded, result>>

(* An entry whose manifest cannot be read counts as stale.                 *)
Inspect(b) ==
  /\ pc[b] = "inspect"
  /\ IF "manifest.json" \in entry.files
     THEN /\ manifest' = [manifest EXCEPT
                            ![b] = [recorded |-> entry.recorded, digest |-> entry.digest]]
          /\ Restart(b)
          /\ Goto(b, "recheck")
     ELSE Goto(b, "remove") /\ UNCHANGED <<manifest, next>>
  /\ UNCHANGED <<disk, edits, began, entry, seen, made, recorded, result>>

(* A fresh entry is kept and nothing is published.                         *)
Recheck(b) ==
  CheckDependency(b, "recheck", Finish(b, "executed", made[b]),
                                Goto(b, "remove") /\ UNCHANGED result)

(* What ends rm.                                                           *)
NothingLeft == entry = NoEntry

FaultyRemoveStale(b) ==
  /\ pc[b] = "remove"
  /\ \/ /\ NothingLeft
        /\ Finish(b, "executed", made[b]) /\ UNCHANGED entry
     \/ /\ entry # NoEntry /\ entry.files = {}
        /\ entry' = NoEntry /\ UNCHANGED <<pc, result>>
     \/ \E name \in entry.files \cap Files :
          entry' = [entry EXCEPT !.files = entry.files \ {name}] /\ UNCHANGED <<pc, result>>
  /\ UNCHANGED <<disk, edits, began, next, manifest, seen, made, recorded>>

(* rm of the stale entry, recursive: one name at a time, then the empty    *)
(* directory; it comes back for what it finds added meanwhile and ends     *)
(* when there is nothing at the path.                                      *)
RemoveStale(b) ==
  /\ pc[b] = "remove"
  /\ \/ /\ NothingLeft
        /\ Goto(b, "rename") /\ UNCHANGED entry
     \/ /\ entry # NoEntry /\ entry.files = {}
        /\ entry' = NoEntry /\ UNCHANGED pc
     \/ \E name \in entry.files \cap Files :
          entry' = [entry EXCEPT !.files = entry.files \ {name}] /\ UNCHANGED pc
  /\ UNCHANGED <<disk, edits, began, next, manifest, seen, made, recorded, result>>

(* rename replaces nothing but an absent or an empty directory.            *)
PathIsFree == entry = NoEntry \/ entry.files = {}

(* The contents of the temporary directory.                                *)
PublishedEntry(b) == Entry(Files, recorded[b], made[b], made[b])

(* The temporary directory, which only this build knows, is filled and     *)
(* renamed; EEXIST and ENOTEMPTY leave the winner in place.                *)
Publish(b) ==
  /\ pc[b] = "rename"
  /\ IF PathIsFree
     THEN /\ entry' = PublishedEntry(b)
          /\ Finish(b, "executed", made[b])
     ELSE Goto(b, "winner") /\ UNCHANGED <<entry, result>>
  /\ UNCHANGED <<disk, edits, began, next, manifest, seen, made, recorded>>

FaultyCheckWinner(b) ==
  /\ pc[b] = "winner"
  /\ Goto(b, "rename")
  /\ UNCHANGED <<disk, edits, began, entry, next, manifest, seen, made, recorded, result>>

FaultyAdoptWinner(b) ==
  /\ pc[b] = "winner"
  /\ IF entry # NoEntry THEN Finish(b, "executed", entry.stored) ELSE Throw(b)
  /\ UNCHANGED <<disk, edits, began, entry, next, manifest, seen, made, recorded>>

(* The loser's lstat of the winner: ENOENT is not expected here.           *)
CheckWinner(b) ==
  /\ pc[b] = "winner"
  /\ IF entry # NoEntry THEN Finish(b, "executed", made[b]) ELSE Throw(b)
  /\ UNCHANGED <<disk, edits, began, entry, next, manifest, seen, made, recorded>>

-----------------------------------------------------------------------------
(* The world outside.                                                      *)

(* Between the tool's first read and the digests of what it read.          *)
ToolIsReading(b) == pc[b] = "record" \/ (pc[b] = "run" /\ next[b] > 1)

EditHeader(h) ==
  /\ edits < MaxEdits
  /\ EditsDuringAction \/ ~\E b \in Builds : ToolIsReading(b)
  /\ edits' = edits + 1
  /\ disk' = [disk EXCEPT ![h] = disk[h] + 1]
  /\ UNCHANGED <<began, entry, pc, next, manifest, seen, made, recorded, result>>

Crash(b) ==
  /\ Crashes
  /\ pc[b] \notin {"done", "dead"}
  /\ Goto(b, "dead")
  /\ UNCHANGED <<disk, edits, began, entry, next, manifest, seen, made, recorded, result>>

Step(b) ==
  \/ Lookup(b) \/ CheckLayout(b) \/ ReadManifest(b) \/ CheckDependencies(b)
  \/ ReadLogs(b) \/ VerifyStored(b) \/ CopyOutput(b)
  \/ RunTool(b) \/ RecordDependencies(b)
  \/ Probe(b) \/ Inspect(b) \/ Recheck(b) \/ RemoveStale(b)
  \/ Publish(b) \/ CheckWinner(b)

Next ==
  \/ \E b \in Builds : Step(b) \/ Crash(b)
  \/ \E h \in Headers : EditHeader(h)

(* A build that has not died keeps making progress.                        *)
Spec == Init /\ [][Next]_vars /\ \A b \in Builds : WF_vars(Step(b))

-----------------------------------------------------------------------------
(* No build fails because of what another build does to the entry:         *)
(* "concurrent builds can race safely without observing partial data".     *)
NoFailedBuild == \A b \in Builds : result[b].status # "error"

(* An entry that can be restored holds one build's work: manifest and      *)
(* output of the same run.                                                 *)
EntryIsOneRun ==
  entry.files = Files => entry.stored = entry.digest
                         /\ \E b \in Builds : made[b] = entry.stored /\ recorded[b] = entry.recorded

(* A restored output is what the tool would make of the headers the        *)
(* restoring build has just compared: "the entry is only reused when every *)
(* file the tool read is still exactly what it was" - and what there is to *)
(* restore is one run.                                                     *)
HitIsCurrent ==
  /\ \A b \in Builds : result[b].status = "hit" => result[b].output = seen[b]
  /\ EntryIsOneRun

(* No build reports an output of headers older than its own start, whether *)
(* it restored an entry or made its own and lost the publication of it to  *)
(* a build that started, and read the headers, before.                     *)
NoStaleResult ==
  \A b \in Builds : result[b].status \in {"hit", "executed"} =>
    \A h \in Headers : result[b].output[h] >= began[b][h]

(* "One key, one entry": when all builds are over, none of them dead, and  *)
(* one has executed, a whole entry stands at the path, however removals of *)
(* what was judged stale and publications have crossed.                    *)
KeyKept ==
  (\A b \in Builds : pc[b] = "done") /\ (\E b \in Builds : result[b].status = "executed")
    => entry.files = Files

(* What a race for the key leaves: to each build its answer, and an entry. *)
RaceSettles == NoStaleResult /\ KeyKept

(* Every build ends, also when removals and publications chase each other. *)
EveryBuildEnds == \A b \in Builds : <>(pc[b] \in {"done", "dead"})
=============================================================================

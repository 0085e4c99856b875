----------------------------- MODULE RunCommand -----------------------------
(***************************************************************************)
(* runCommand of artifact-graph.ts: one promise over a sandboxed child     *)
(* process that a handful of events race for: the child's error and close, *)
(* the close and the error of the file that captures standard output, the  *)
(* deadline, and the caller's abort.                                       *)
(*                                                                         *)
(* The child process and the file are outside; their actions follow        *)
(* Node's contract: a failed spawn is reported by an "error" event on a    *)
(* later turn, "close" comes after the exit and the end of every pipe, a   *)
(* write stream closes after its end or its error, and an "error" event    *)
(* nobody listens to ends the build process.                               *)
(***************************************************************************)
EXTENDS Naturals

VARIABLES
  options,   \* which of standardOutputPath, timeoutMs and signal are given
  child,     \* "none", "spawning", "running", "exited", "closed"
  exitCode,  \* the exit status: "none", "zero" or "other" (code or signal)
  killSent,  \* SIGKILL or SIGTERM was sent
  stream,    \* the capture file: "none", "open", "failed" or "closed"
  handlers,  \* the child's and the streams' listeners are registered
  timer, listener,          \* the deadline and the abort listener
  processComplete, standardOutputComplete, settled,   \* the code's flags
  signalled, \* the caller's signal fired
  crashed    \* an unhandled error event ended the build process

commandVars ==
  <<options, child, exitCode, killSent, stream, handlers, timer, listener,
    processComplete, standardOutputComplete, settled, signalled, crashed>>

CommandTypeOK ==
  /\ options \in [file : BOOLEAN, timeout : BOOLEAN, signal : BOOLEAN]
  /\ child \in {"none", "spawning", "running", "exited", "closed"}
  /\ exitCode \in {"none", "zero", "other"}
  /\ stream \in {"none", "open", "failed", "closed"}
  /\ settled \in {"pending", "resolved", "rejected"}
  /\ {killSent, handlers, timer, listener, processComplete,
      standardOutputComplete, signalled, crashed} \subseteq BOOLEAN

CommandInit ==
  /\ options \in [file : BOOLEAN, timeout : BOOLEAN, signal : BOOLEAN]
  /\ child = "none" /\ exitCode = "none" /\ killSent = FALSE
  /\ stream = "none" /\ handlers = FALSE /\ timer = FALSE /\ listener = FALSE
  /\ processComplete = FALSE
  /\ standardOutputComplete = ~options.file
  /\ settled = "pending"
  /\ signalled \in {FALSE, options.signal}
  /\ crashed = FALSE

-----------------------------------------------------------------------------
(* The promise.  Definitions named Faulty... are bugs the code could have  *)
(* had; each run is also made with one of them in place of the definition  *)
(* that follows it, to show that the property in question notices.         *)

FaultyStopWaiting == timer' = FALSE /\ UNCHANGED listener

(* clearTimeout, and the abort listener is taken off the signal.           *)
StopWaiting == timer' = FALSE /\ listener' = FALSE

FaultyKillChild == UNCHANGED killSent

KillChild == killSent' = (killSent \/ child \in {"spawning", "running"})

(* fail: the first settlement wins.                                        *)
Fail ==
  IF settled # "pending" THEN UNCHANGED <<settled, timer, listener, killSent>>
  ELSE settled' = "rejected" /\ StopWaiting /\ KillChild

FaultyMaySucceedEarly(process, output) == settled = "pending" /\ process

MaySucceed(process, output) == settled = "pending" /\ process /\ output

(* succeedIfComplete, with the flags as the event has just set them.       *)
SucceedIfComplete(process, output) ==
  /\ processComplete' = process /\ standardOutputComplete' = output
  /\ IF MaySucceed(process, output)
     THEN settled' = "resolved" /\ StopWaiting
     ELSE UNCHANGED <<settled, timer, listener>>

FaultyArmTimer == timer' = (options.timeout /\ ~options.file)

ArmTimer == timer' = options.timeout

FaultyOutputStream == IF options.file THEN "open" ELSE "undefined"

OutputStream == IF options.file THEN "open" ELSE "none"

(* The promise executor: spawn, arm the deadline, look at the signal,      *)
(* register the listeners.  A signal that has fired skips the last two.    *)
Start ==
  /\ child = "none" /\ ~crashed
  /\ child' = "spawning"
  /\ IF signalled
     THEN /\ settled' = "rejected" /\ StopWaiting /\ killSent' = TRUE
          /\ UNCHANGED <<stream, handlers>>
     ELSE /\ ArmTimer /\ listener' = options.signal
          /\ handlers' = TRUE
          /\ stream' = OutputStream
          /\ UNCHANGED <<settled, killSent>>
  /\ UNCHANGED <<options, exitCode, processComplete, standardOutputComplete, signalled, crashed>>

(* The deadline.                                                           *)
Deadline ==
  /\ timer /\ ~crashed /\ Fail
  /\ UNCHANGED <<options, child, exitCode, stream, handlers, processComplete,
                 standardOutputComplete, signalled, crashed>>

(* The abort event, and cancel when it is listened to.                     *)
CommandAbort ==
  /\ options.signal /\ ~signalled /\ ~crashed
  /\ signalled' = TRUE
  /\ IF listener THEN Fail ELSE UNCHANGED <<settled, timer, listener, killSent>>
  /\ UNCHANGED <<options, child, exitCode, stream, handlers, processComplete,
                 standardOutputComplete, crashed>>

(* child.on("error"): the sandbox could not be started.                    *)
SpawnFails ==
  /\ child = "spawning" /\ ~crashed
  /\ child' = "exited" /\ exitCode' = "other"
  /\ IF handlers
     THEN Fail /\ UNCHANGED crashed
     ELSE crashed' = TRUE /\ UNCHANGED <<settled, timer, listener, killSent>>
  /\ UNCHANGED <<options, stream, handlers, processComplete, standardOutputComplete, signalled>>

(* child.on("close").                                                      *)
ChildCloses ==
  /\ child = "exited" /\ ~crashed
  /\ child' = "closed"
  /\ IF ~handlers
     THEN UNCHANGED <<settled, timer, listener, killSent, processComplete, standardOutputComplete>>
     ELSE IF exitCode = "zero"
     THEN SucceedIfComplete(TRUE, standardOutputComplete) /\ UNCHANGED killSent
     ELSE Fail /\ UNCHANGED <<processComplete, standardOutputComplete>>
  /\ UNCHANGED <<options, exitCode, stream, handlers, signalled, crashed>>

(* standardOutput.on("close"): after the pipe's end, or after an error.    *)
StreamCloses ==
  /\ ~crashed
  /\ stream = "failed" \/ (stream = "open" /\ child \in {"exited", "closed"})
  /\ stream' = "closed"
  /\ SucceedIfComplete(processComplete, TRUE)
  /\ UNCHANGED <<options, child, exitCode, killSent, handlers, signalled, crashed>>

(* standardOutput.on("error"): the child is sent SIGTERM, then fail.       *)
StreamFails ==
  /\ stream = "open" /\ ~crashed
  /\ stream' = "failed"
  /\ IF settled # "pending"
     THEN /\ killSent' = (killSent \/ child \in {"spawning", "running"})
          /\ UNCHANGED <<settled, timer, listener>>
     ELSE Fail
  /\ UNCHANGED <<options, child, exitCode, handlers, processComplete,
                 standardOutputComplete, signalled, crashed>>

-----------------------------------------------------------------------------
(* The child process itself.                                               *)
ChildStarts ==
  /\ child = "spawning" /\ child' = "running"
  /\ UNCHANGED <<options, exitCode, killSent, stream, handlers, timer, listener,
                 processComplete, standardOutputComplete, settled, signalled, crashed>>

ChildExits ==
  /\ child = "running" /\ child' = "exited"
  /\ exitCode' \in {"zero", "other"}
  /\ UNCHANGED <<options, killSent, stream, handlers, timer, listener,
                 processComplete, standardOutputComplete, settled, signalled, crashed>>

Killed ==
  /\ child = "running" /\ killSent
  /\ child' = "exited" /\ exitCode' = "other"
  /\ UNCHANGED <<options, killSent, stream, handlers, timer, listener,
                 processComplete, standardOutputComplete, settled, signalled, crashed>>

CommandNext ==
  \/ Start \/ Deadline \/ CommandAbort
  \/ SpawnFails \/ ChildCloses \/ StreamCloses \/ StreamFails
  \/ ChildStarts \/ ChildExits \/ Killed

(* The event loop delivers what is due; a tool need not exit on its own.   *)
CommandSpec ==
  /\ CommandInit /\ [][CommandNext]_commandVars
  /\ WF_commandVars(Start) /\ WF_commandVars(Deadline)
  /\ WF_commandVars(SpawnFails \/ ChildStarts) /\ WF_commandVars(ChildCloses)
  /\ WF_commandVars(StreamCloses) /\ WF_commandVars(Killed)

-----------------------------------------------------------------------------
(* Success is only reported for a child that exited with 0 and whose whole *)
(* standard output is in the file: a fast exit does not outrun the stream. *)
ResolvedIsWhole ==
  settled = "resolved" => exitCode = "zero" /\ (options.file => stream = "closed")

(* Whichever event settles the promise, neither the deadline nor the abort *)
(* listener is left behind: a signal outlives the commands it was given to *)
(* and would collect a listener of each.                                   *)
NothingWaits == settled # "pending" => ~ timer /\ ~ listener

(* What a settled promise stands for: the command is over for its caller.  *)
SettledIsDone == ResolvedIsWhole /\ NothingWaits

(* The child of a rejected command does not outlive it for good.           *)
RejectedChildEnds == settled = "rejected" ~> (child \in {"exited", "closed"} \/ crashed)

(* With a deadline the promise settles even if the tool never exits.       *)
DeadlineSettles == options.timeout ~> (settled # "pending" \/ crashed)
=============================================================================

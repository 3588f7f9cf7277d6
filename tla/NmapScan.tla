------------------------------- MODULE NmapScan -------------------------------
(***************************************************************************)
(* One attempt of the nmap_scan activity on a worker: run_nmap_scan's two  *)
(* passes, each an nmap process run by AsyncCommandExecutor, interrupted   *)
(* by its own timeout and by cancellation.  A cancellation is delivered at *)
(* whatever the coroutine awaits; the process obeys SIGTERM or does not.   *)
(*                                                                         *)
(* Time is counted in ticks while nmap runs; the grace period is not.      *)
(***************************************************************************)
EXTENDS Integers, FiniteSets

CONSTANTS
  Timeout,    \* budget of one pass
  MaxCancels  \* bound: cancellations delivered to the attempt

ASSUME NmapAssumption == Timeout \in Nat \ {0} /\ MaxCancels \in Nat

VARIABLES
  pc,         \* what the coroutine awaits
  pass,       \* "ports" or "service"
  services,   \* service_args is not None
  proc,       \* the nmap process of the pass
  why,        \* what _terminate was called for
  spent,      \* time the pass has run
  total,      \* time the attempt has run
  heartbeat,  \* the heartbeat task is running
  files,      \* temporary report files on disk
  orphans,    \* processes left behind alive
  interrupts, \* ghost: timeouts and cancellations so far
  cancels,    \* cancellations so far
  outcome     \* how the attempt ended

vars == <<pc, pass, services, proc, why, spent, total, heartbeat, files, orphans,
          interrupts, cancels, outcome>>
time == <<spent, total>>
attempt == <<pass, services>>

Passes == {"ports", "service"}

Init ==
  /\ pc = "start" /\ pass = "ports" /\ services \in BOOLEAN
  /\ proc = "none" /\ why = "none" /\ spent = 0 /\ total = 0
  /\ heartbeat = FALSE /\ files = {} /\ orphans = {}
  /\ interrupts = 0 /\ cancels = 0 /\ outcome = "none"

Alive == proc \in {"running", "terminating", "killed"}

-----------------------------------------------------------------------------
(* _run_nmap_pass starts: the temporary file, the process, the heartbeat.  *)
Spawn ==
  /\ pc = "start"
  /\ pc' = "communicate" /\ proc' = "running" /\ heartbeat' = TRUE
  /\ files' = files \cup {pass} /\ spent' = 0
  /\ UNCHANGED <<attempt, why, total, orphans, interrupts, cancels, outcome>>

(* No process comes of create_subprocess_exec: it fails, or is cancelled   *)
(* while it is awaited and then kills and reaps what it has started        *)
(* (asyncio).  The temporary file is removed; no heartbeat was started.    *)
NotStarted(result) ==
  /\ pc = "start"
  /\ pc' = "left" /\ outcome' = result
  /\ UNCHANGED <<attempt, proc, why, time, heartbeat, files, orphans>>

SpawnFails == NotStarted("error") /\ UNCHANGED <<interrupts, cancels>>

(* nmap exits by itself, on SIGTERM, or on SIGKILL.                        *)
Exit ==
  /\ Alive /\ proc' = "exited"
  /\ UNCHANGED <<pc, attempt, why, time, heartbeat, files, orphans, interrupts, cancels, outcome>>

Tick ==
  /\ pc = "communicate" /\ proc = "running" /\ spent < Timeout
  /\ spent' = spent + 1 /\ total' = total + 1
  /\ UNCHANGED <<pc, attempt, proc, why, heartbeat, files, orphans, interrupts, cancels, outcome>>

(* Slip: the temporary file is removed only when the pass succeeds.        *)
FilesAfter_OnSuccess(result) == IF result = "ok" THEN files \ {pass} ELSE files

(* The `finally' of _run_nmap_pass.                                        *)
FilesAfter(result) == files \ {pass}

(* executor.run returns or raises: both `finally' blocks run, and whatever *)
(* is still alive is on its own.                                           *)
Leave(result) ==
  /\ heartbeat' = FALSE
  /\ files' = FilesAfter(result)
  /\ orphans' = IF proc \in {"running", "terminating"} THEN orphans \cup {pass} ELSE orphans
  /\ proc' = "none"
  /\ pc' = "left" /\ outcome' = result
  /\ UNCHANGED <<attempt, why, time>>

(* communicate() returns: a non-zero status is an error.                   *)
Exited ==
  /\ pc = "communicate" /\ proc = "exited"
  /\ Leave("ok") \/ Leave("error")
  /\ UNCHANGED <<interrupts, cancels>>

(* Slip: the heartbeat is stopped before the process is.                   *)
Terminate_Silently(reason) ==
  IF proc = "exited"
  THEN Leave(reason)
  ELSE /\ proc' = "terminating" /\ pc' = "grace" /\ why' = reason /\ heartbeat' = FALSE
       /\ UNCHANGED <<attempt, time, files, orphans, outcome>>

(* _terminate: nothing to do for a process that has exited, else SIGTERM.  *)
Terminate(reason) ==
  IF proc = "exited"
  THEN Leave(reason)
  ELSE /\ proc' = "terminating" /\ pc' = "grace" /\ why' = reason
       /\ UNCHANGED <<attempt, time, heartbeat, files, orphans, outcome>>

(* Slip: the process is waited for without a timeout.                      *)
TimesOut_Off == FALSE

TimesOut ==
  /\ pc = "communicate" /\ spent = Timeout
  /\ Terminate("timeout")
  /\ interrupts' = interrupts + 1
  /\ UNCHANGED cancels

(* A cancellation while the `finally' of executor.run awaits the cancelled *)
(* heartbeat: it takes the place of the result.                            *)
Superseded ==
  /\ pc = "left" /\ outcome' = "cancelled"
  /\ UNCHANGED <<pc, attempt, proc, why, time, heartbeat, files, orphans>>

(* A cancellation, delivered through a heartbeat or by the worker shutting *)
(* down.  Raised while _terminate waits, it leaves _terminate.             *)
Cancel ==
  /\ cancels < MaxCancels
  /\ \/ NotStarted("cancelled")
     \/ pc = "communicate" /\ Terminate("cancelled")
     \/ pc \in {"grace", "reap"} /\ Leave("cancelled")
     \/ Superseded
  /\ interrupts' = interrupts + 1 /\ cancels' = cancels + 1

(* Slip: _terminate gives up after the grace period.                       *)
GraceOver_NoKill ==
  /\ pc = "grace" /\ proc = "terminating"
  /\ Leave(why)
  /\ UNCHANGED <<interrupts, cancels>>

GraceOver ==
  /\ pc = "grace" /\ proc = "terminating"
  /\ proc' = "killed" /\ pc' = "reap"
  /\ UNCHANGED <<attempt, why, time, heartbeat, files, orphans, interrupts, cancels, outcome>>

Reaped ==
  /\ pc \in {"grace", "reap"} /\ proc = "exited"
  /\ Leave(why)
  /\ UNCHANGED <<interrupts, cancels>>

(* run_nmap_scan: the service pass runs only on ports the first one found. *)
NextPass ==
  /\ pc = "left" /\ outcome = "ok" /\ pass = "ports" /\ services
  /\ pass' = "service" /\ pc' = "start"
  /\ UNCHANGED <<services, proc, why, time, heartbeat, files, orphans, interrupts, cancels, outcome>>

Done ==
  /\ pc = "left" /\ pc' = "done"
  /\ UNCHANGED <<attempt, proc, why, time, heartbeat, files, orphans, interrupts, cancels, outcome>>

OrphanExits ==
  /\ orphans # {}
  /\ \E p \in orphans : orphans' = orphans \ {p}
  /\ UNCHANGED <<pc, attempt, proc, why, time, heartbeat, files, interrupts, cancels, outcome>>

Next == \/ Spawn \/ SpawnFails \/ Exit \/ Tick \/ Exited \/ TimesOut \/ Cancel \/ GraceOver \/ Reaped
        \/ NextPass \/ Done \/ OrphanExits

Spec == Init /\ [][Next]_vars

(* The coroutine is scheduled and time passes.  nmap need not exit, but a  *)
(* killed process dies.                                                    *)
Fairness ==
  /\ WF_vars(Spawn \/ SpawnFails \/ Exited \/ TimesOut \/ GraceOver \/ Reaped \/ NextPass \/ Done)
  /\ WF_vars(Tick)
  /\ WF_vars(proc = "killed" /\ Exit)

FairSpec == Spec /\ Fairness

-----------------------------------------------------------------------------
(* Properties.                                                             *)

(* Types; a process of the pass exists exactly while executor.run awaits   *)
(* it, and the heartbeat lasts as long -- through the termination too.     *)
TypeOK ==
  /\ pc \in {"start", "communicate", "grace", "reap", "left", "done"}
  /\ pass \in Passes /\ services \in BOOLEAN
  /\ proc \in {"none", "running", "terminating", "killed", "exited"}
  /\ spent \in 0..Timeout /\ total \in 0..(2 * Timeout)
  /\ orphans \subseteq Passes /\ files \subseteq {pass}
  /\ cancels \in 0..MaxCancels
  /\ proc # "none" <=> pc \in {"communicate", "grace", "reap"}
  /\ heartbeat <=> proc # "none"

(* A timeout or a cancellation alone never leaves an nmap process alive:   *)
(* it takes a cancellation during the grace period of an earlier one.      *)
LeakNeedsTwoInterrupts == orphans # {} => interrupts >= 2

(* However the attempt ends, no report file and no heartbeat outlive it.   *)
CleansUp == pc = "done" => files = {} /\ ~heartbeat

(* The attempt ends, even if nmap hangs and ignores SIGTERM.               *)
AttemptEnds == <>(pc = "done")

(* nmap/executor.py: "On timeout or cancellation the process is sent       *)
(* SIGTERM, then SIGKILL after `grace_period_seconds` if it is still       *)
(* alive", and docs/INVARIANTS.md: skipping the kill step "leaks hung nmap *)
(* processes".                                                             *)
NeverLeaksProcess == pc = "done" => orphans = {}
=============================================================================

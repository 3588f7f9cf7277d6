---------------------------- MODULE NmapScanProofs ----------------------------
(***************************************************************************)
(* Theorems about NmapScan, for every timeout and every number of          *)
(* cancellations.                                                          *)
(***************************************************************************)
EXTENDS NmapScan, TLAPS

-----------------------------------------------------------------------------
(* Types.  The total time is bounded because each pass is and the second   *)
(* pass is the last: before it, what has run is one pass.  The files are   *)
(* those of the pass in progress, because none is left between passes.     *)

CleanInv == pc \in {"start", "left", "done"} => files = {}

TypeInv ==
  /\ TypeOK
  /\ CleanInv
  /\ pass = "ports" => total = spent
  /\ pass = "ports" /\ pc = "start" => spent = 0
  /\ pass = "service" => total <= Timeout + (IF pc = "start" THEN 0 ELSE spent)

(* The attempt starts well typed.                                          *)
LEMMA InitTypes == Init => TypeInv
BY NmapAssumption DEF NmapAssumption, Init, TypeInv, CleanInv, TypeOK, Passes

(* Leaving executor.run keeps the types, whatever it was awaiting.         *)
LEMMA LeaveTypes ==
  ASSUME TypeInv, NEW result, Leave(result), pc \in {"communicate", "grace", "reap"},
         cancels' \in 0..MaxCancels
  PROVE  TypeInv'
BY DEF TypeInv, CleanInv, TypeOK, Leave, attempt, time, FilesAfter, Passes

(* Starting the termination keeps the types: the heartbeat goes on.        *)
LEMMA TerminateTypes ==
  ASSUME TypeInv, NEW reason, Terminate(reason), pc = "communicate",
         cancels' \in 0..MaxCancels
  PROVE  TypeInv'
<1>1. CASE proc = "exited"
  BY <1>1, LeaveTypes DEF Terminate
<1>2. CASE proc # "exited"
  BY <1>2 DEF Terminate, TypeInv, CleanInv, TypeOK, attempt, time
<1> QED
  BY <1>1, <1>2

(* So does an attempt that never had a process, and one that no longer has *)
(* one.                                                                    *)
LEMMA NoProcessTypes ==
  ASSUME TypeInv, NEW result, NotStarted(result) \/ Superseded, cancels' \in 0..MaxCancels
  PROVE  TypeInv'
<1> USE NmapAssumption DEF NmapAssumption, TypeInv, CleanInv, TypeOK, Passes
<1>1. CASE NotStarted(result)
  BY <1>1 DEF NotStarted, attempt, time
<1>2. CASE Superseded
  BY <1>2 DEF Superseded, attempt, time
<1> QED
  BY <1>1, <1>2

(* Every step keeps the types.                                             *)
LEMMA NextTypes == TypeInv /\ [Next]_vars => TypeInv'
<1> SUFFICES ASSUME TypeInv, [Next]_vars
             PROVE  TypeInv'
  OBVIOUS
<1> USE NmapAssumption DEF NmapAssumption
<1>0. /\ cancels \in 0..MaxCancels
      /\ total \in 0..(2 * Timeout) /\ spent \in 0..Timeout
  BY DEF TypeInv, CleanInv, TypeOK
<1>1. CASE Spawn
  BY <1>1 DEF Spawn, TypeInv, CleanInv, TypeOK, attempt, Passes
<1>2. CASE Exit
  BY <1>2 DEF Exit, TypeInv, CleanInv, TypeOK, attempt, time, Alive
<1>3. CASE Tick
  <2>1. /\ spent' = spent + 1 /\ total' = total + 1 /\ spent < Timeout
        /\ pass' = pass /\ pc' = pc /\ pc = "communicate"
    BY <1>3 DEF Tick, attempt
  <2>2. spent' \in 0..Timeout
    BY <1>0, <2>1
  <2>3. pass = "ports" => total' = spent' /\ total' <= Timeout
    BY <1>0, <2>1, <2>2 DEF TypeInv
  <2>4. pass = "service" => total' <= Timeout + spent' /\ total' <= 2 * Timeout
    BY <1>0, <2>1, <2>2 DEF TypeInv
  <2>5. pass \in Passes
    BY DEF TypeInv, TypeOK
  <2>6. total' \in 0..(2 * Timeout)
    BY <1>0, <2>1, <2>3, <2>4, <2>5 DEF Passes
  <2> QED
    BY <1>3, <2>1, <2>2, <2>3, <2>4, <2>6 DEF Tick, TypeInv, CleanInv, TypeOK, attempt
<1>4. CASE Exited
  BY <1>0, <1>4, LeaveTypes DEF Exited
<1>5. CASE TimesOut
  BY <1>0, <1>5, TerminateTypes DEF TimesOut
<1>6. CASE Cancel
  <2>1. cancels' \in 0..MaxCancels
    BY <1>0, <1>6 DEF Cancel
  <2> QED
    BY <2>1, <1>6, LeaveTypes, TerminateTypes, NoProcessTypes DEF Cancel
<1>7. CASE GraceOver
  BY <1>7 DEF GraceOver, TypeInv, CleanInv, TypeOK, attempt, time
<1>8. CASE Reaped
  BY <1>0, <1>8, LeaveTypes DEF Reaped
<1>9. CASE NextPass
  BY <1>9 DEF NextPass, TypeInv, CleanInv, TypeOK, time, Passes
<1>10. CASE Done
  BY <1>10 DEF Done, TypeInv, CleanInv, TypeOK, attempt, time
<1>11. CASE OrphanExits
  BY <1>11 DEF OrphanExits, TypeInv, CleanInv, TypeOK, attempt, time
<1>12. CASE UNCHANGED vars
  BY <1>12 DEF vars, TypeInv, CleanInv, TypeOK
<1>13. CASE SpawnFails
  BY <1>0, <1>13, NoProcessTypes DEF SpawnFails
<1> QED
  BY <1>1, <1>2, <1>3, <1>4, <1>5, <1>6, <1>7, <1>8, <1>9, <1>10, <1>11, <1>12, <1>13 DEF Next

(* Every reachable state is well typed: in particular the heartbeat lasts  *)
(* exactly as long as executor.run, through the termination too.           *)
THEOREM HeartbeatCoversTheProcess == Spec => []TypeOK
<1>1. TypeInv => TypeOK
  BY DEF TypeInv
<1> QED
  BY <1>1, InitTypes, NextTypes, PTL DEF Spec

-----------------------------------------------------------------------------
(* Processes and files.                                                    *)

(* What has been interrupted accounts for what is left behind: a process   *)
(* is terminating only after one interruption, and only a second one makes *)
(* the coroutine leave it behind.                                          *)
LeakInv ==
  /\ interrupts \in Nat
  /\ pc = "communicate" => proc \in {"running", "exited"}
  /\ proc = "terminating" => pc = "grace"
  /\ pc = "reap" => proc \in {"killed", "exited"}
  /\ pc \in {"grace", "reap"} => interrupts >= 1
  /\ LeakNeedsTwoInterrupts

(* Every step accounts for the processes it leaves behind.                 *)
LEMMA NextLeak == TypeInv /\ LeakInv /\ [Next]_vars => LeakInv'
<1> SUFFICES ASSUME TypeInv, LeakInv, [Next]_vars
             PROVE  LeakInv'
  OBVIOUS
<1> USE DEF LeakInv, LeakNeedsTwoInterrupts
<1>0. proc = "none" <=> pc \notin {"communicate", "grace", "reap"}
  BY DEF TypeInv, TypeOK
<1>1. CASE Spawn
  BY <1>1 DEF Spawn
<1>2. CASE Exit
  BY <1>0, <1>2 DEF Exit, Alive
<1>3. CASE Tick
  BY <1>3 DEF Tick
<1>4. CASE Exited
  BY <1>4 DEF Exited, Leave
<1>5. CASE TimesOut
  BY <1>5 DEF TimesOut, Terminate, Leave
<1>6. CASE Cancel
  BY <1>0, <1>6 DEF Cancel, Terminate, Leave, NotStarted, Superseded
<1>7. CASE GraceOver
  BY <1>7 DEF GraceOver
<1>8. CASE Reaped
  BY <1>8 DEF Reaped, Leave
<1>9. CASE NextPass
  BY <1>0, <1>9 DEF NextPass
<1>10. CASE Done
  BY <1>0, <1>10 DEF Done
<1>11. CASE OrphanExits
  BY <1>11 DEF OrphanExits
<1>12. CASE UNCHANGED vars
  BY <1>12 DEF vars
<1>13. CASE SpawnFails
  BY <1>0, <1>13 DEF SpawnFails, NotStarted
<1> QED
  BY <1>1, <1>2, <1>3, <1>4, <1>5, <1>6, <1>7, <1>8, <1>9, <1>10, <1>11, <1>12, <1>13 DEF Next

(* An nmap process outlives its attempt only if the attempt was            *)
(* interrupted twice.                                                      *)
THEOREM OneInterruptNeverLeaks == Spec => []LeakNeedsTwoInterrupts
<1>1. Init => LeakInv
  BY DEF Init, LeakInv, LeakNeedsTwoInterrupts
<1>2. LeakInv => LeakNeedsTwoInterrupts
  BY DEF LeakInv
<1> QED
  BY <1>1, <1>2, InitTypes, NextTypes, NextLeak, PTL DEF Spec

(* However an attempt ends -- by itself, on a timeout, on cancellations at *)
(* any moment -- no report file and no heartbeat task outlive it.          *)
THEOREM AttemptCleansUp == Spec => []CleansUp
<1>1. TypeInv => CleansUp
  BY DEF TypeInv, CleanInv, TypeOK, CleansUp
<1> QED
  BY <1>1, InitTypes, NextTypes, PTL DEF Spec
=============================================================================

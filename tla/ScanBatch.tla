------------------------------ MODULE ScanBatch ------------------------------
(***************************************************************************)
(* One batch of a scan, from the tasks tasker builds for it to what ends   *)
(* up in scanledger: ScanBatchWorkflow fans the tasks out to a window of   *)
(* ScanWorkflow children, each child runs the nmap_scan activity and then  *)
(* upload_results, activities are retried by the Temporal server, uploads  *)
(* by the HTTP transport, and workers die.                                 *)
(*                                                                         *)
(* The Temporal server is external: an activity attempt is scheduled,      *)
(* picked up by a worker, and ends by a result, by a failure, or by a      *)
(* timeout the worker need not know of -- so an attempt may be running on  *)
(* a worker long after the server has given up on it.  The same holds of   *)
(* an HTTP request its sender has given up on.                             *)
(***************************************************************************)
EXTENDS Integers, Sequences, FiniteSets, SequencesExt, Reconcile, Ranges

CONSTANTS
  Targets,      \* addresses to scan
  Specs,        \* the request's port list, as ranges
  ShardsAsked,  \* the request's shard count
  Mode,         \* the request's import mode
  Truth,        \* [Targets -> port map]: what is open
  Names,        \* [Targets -> set of hostnames]
  Stores,       \* initial inventories
  Window,       \* children of a batch running at once
  MaxAttempts,  \* [scan, upload]: attempts per activity (2 and 4 in the code)
  MaxSends      \* times the transport sends one request (4 in the code)

ASSUME BatchAssumption ==
  /\ Window \in Nat \ {0} /\ MaxSends \in Nat \ {0}
  /\ \A step \in {"scan", "upload"} : MaxAttempts[step] \in Nat \ {0}

ShardCount(mode) == IF mode = "insert" THEN 1 ELSE ShardsAsked

(* _build_tasks: one task per address and shard, in any order (shuffled).  *)
Shards == R!ShardPorts(Specs, ShardCount(Mode))

Tasks == [ip : Targets, shard : DOMAIN Shards]

ASSUME TasksAssumption == IsFiniteSet(Tasks)

(* What a request and an inventory can be: a range does not end before it  *)
(* starts, nmap accepts the ports of each task, and what is open or stored *)
(* is an open port.                                                        *)
OpenPorts(ports) ==
  \A k \in DOMAIN ports :
    k[1] \in Int /\ ports[k] = [state |-> "open", service |-> ports[k].service]

ASSUME DataAssumption ==
  /\ Mode \in Modes /\ ShardsAsked \in Nat
  /\ Specs \in Seq(Int \X Int) /\ \A i \in DOMAIN Specs : Specs[i][1] <= Specs[i][2]
  /\ \A s \in DOMAIN Shards : \A r \in ToSet(Shards[s]) : r[1] <= r[2] /\ R!InBounds(r)
  /\ \A ip \in Targets : OpenPorts(Truth[ip])
  /\ \A s \in Stores : s = [ip \in Targets |-> s[ip]] /\ \A ip \in Targets : OpenPorts(s[ip].ports)

(* Slip: a report claims the ports of the whole request as its coverage.   *)
Coverage_Whole == [s \in DOMAIN Shards |-> R!MergedRanges(ToSet(Specs))]

(* The ranges the report of a shard covers.                                *)
Coverage == [s \in DOMAIN Shards |-> R!MergedRanges(ToSet(Shards[s]))]

Scanned(task) == ToSet(Shards[task.shard])

(* The report of a scan: the open ports among the ranges scanned, the      *)
(* hostnames it was given, the ranges it says it covered.                  *)
Found(ip, scanned, covered) ==
  [meta |-> "up", endtime |-> 1, hostnames |-> Names[ip], scanned_ports |-> covered,
   ports |-> [k \in {k \in DOMAIN Truth[ip] : InAnyRange(k[1], scanned)} |-> Truth[ip][k]]]

Report(task) == Found(task.ip, Scanned(task), Coverage[task.shard])

VARIABLES
  order,     \* the batch's tasks, as shuffled
  start,     \* the inventory when the batch starts
  store,     \* the inventory
  applied,   \* ghost: tasks whose report has been imported
  batch,     \* ScanBatchWorkflow
  child,     \* ScanWorkflow of each task
  execs,     \* activity attempts running on workers
  requests,  \* uploads sent and not yet processed by scanledger
  open,      \* tasks whose upload is processed and not yet committed
  lost       \* ghost: tasks an upload of which was processed, but not committed

ledger == <<store, applied, open, lost>>
vars == <<order, start, ledger, batch, child, execs, requests>>

-----------------------------------------------------------------------------
N == Len(order)

NotStarted == [status |-> "none", step |-> "scan", attempt |-> 1, picked |-> FALSE,
               cancel |-> FALSE, counted |-> FALSE]

Init ==
  /\ order \in Bijection(1..Cardinality(Tasks), Tasks)
  /\ start \in Stores /\ store = start
  /\ applied = {}
  /\ batch = [status |-> "running", next |-> 1, completed |-> 0, failed |-> 0, cancel |-> FALSE]
  /\ child = [i \in 1..N |-> NotStarted]
  /\ execs = {} /\ requests = {} /\ open = {} /\ lost = {}

Running(i) == child[i].status = "running"
HasClosed(i) == child[i].status \in {"completed", "failed", "canceled"}
Pending == {i \in 1..N : child[i].status # "none" /\ ~child[i].counted}

-----------------------------------------------------------------------------
(* ScanBatchWorkflow.run.                                                  *)

StartChild ==
  /\ batch.status = "running" /\ batch.next <= N /\ Cardinality(Pending) < Window
  /\ child' = [child EXCEPT ![batch.next].status = "running"]
  /\ batch' = [batch EXCEPT !.next = @ + 1]
  /\ UNCHANGED <<order, start, ledger, execs, requests>>

(* Slip: the cancellation of a child escapes `except Exception'.            *)
Count_Uncaught(i) ==
  /\ batch.status = "running" /\ HasClosed(i) /\ ~child[i].counted
  /\ batch' = CASE child[i].status = "completed" -> [batch EXCEPT !.completed = @ + 1]
                [] child[i].status = "failed"    -> [batch EXCEPT !.failed = @ + 1]
                [] OTHER                         -> batch
  /\ child' = [child EXCEPT ![i].counted = TRUE]
  /\ UNCHANGED <<order, start, ledger, execs, requests>>

(* run_child resumes: whatever is not a completion is a failure, the       *)
(* cancellation of the child included.                                     *)
Count(i) ==
  /\ batch.status = "running" /\ HasClosed(i) /\ ~child[i].counted
  /\ batch' = IF child[i].status = "completed" THEN [batch EXCEPT !.completed = @ + 1]
                                               ELSE [batch EXCEPT !.failed = @ + 1]
  /\ child' = [child EXCEPT ![i].counted = TRUE]
  /\ UNCHANGED <<order, start, ledger, execs, requests>>

(* Slip: the batch does not wait for the children it has started.          *)
Finish_Early ==
  /\ batch.status = "running" /\ batch.next > N
  /\ batch' = [batch EXCEPT !.status = "completed"]
  /\ UNCHANGED <<order, start, ledger, child, execs, requests>>

Finish ==
  /\ batch.status = "running" /\ batch.next > N /\ Pending = {}
  /\ batch' = [batch EXCEPT !.status = "completed"]
  /\ UNCHANGED <<order, start, ledger, child, execs, requests>>

(* tasker's cancel, as the server delivers it.  The batch closes when it   *)
(* handles the cancel, or is terminated after tasker's grace period, which *)
(* nobody tells apart; ParentClosePolicy.REQUEST_CANCEL then signals the   *)
(* children it has started.                                                *)
Signalled == [i \in 1..N |-> IF Running(i) THEN [child[i] EXCEPT !.cancel = TRUE] ELSE child[i]]

RequestCancel ==
  /\ batch.status = "running" /\ ~batch.cancel
  /\ batch' = [batch EXCEPT !.cancel = TRUE]
  /\ UNCHANGED <<order, start, ledger, child, execs, requests>>

CloseBatch ==
  /\ batch.status = "running" /\ batch.cancel
  /\ batch' = [batch EXCEPT !.status = "canceled"]
  /\ child' = Signalled
  /\ UNCHANGED <<order, start, ledger, execs, requests>>

-----------------------------------------------------------------------------
(* ScanWorkflow.run.                                                       *)

CancelIp(i) ==
  /\ Running(i) /\ ~child[i].cancel
  /\ child' = [child EXCEPT ![i].cancel = TRUE]
  /\ UNCHANGED <<order, start, ledger, batch, execs, requests>>

(* The activity the child awaits is asked to cancel and not waited for; a  *)
(* termination, which may follow, does not even ask.                       *)
CloseChild(i) ==
  /\ Running(i) /\ child[i].cancel
  /\ child' = [child EXCEPT ![i].status = "canceled"]
  /\ UNCHANGED <<order, start, ledger, batch, execs, requests>>

(* A worker picks up the child's scheduled activity.                       *)
Request(e) == [task |-> e.task, attempt |-> e.attempt, send |-> e.send]

Pick(i) ==
  /\ Running(i) /\ ~child[i].picked
  /\ LET e == [task |-> i, step |-> child[i].step, attempt |-> child[i].attempt, send |-> 1]
     IN  /\ execs' = execs \cup {e}
         /\ requests' = IF e.step = "upload" THEN requests \cup {Request(e)} ELSE requests
  /\ child' = [child EXCEPT ![i].picked = TRUE]
  /\ UNCHANGED <<order, start, ledger, batch>>

(* The attempt the server is waiting for.                                  *)
Current(e) ==
  /\ Running(e.task) /\ child[e.task].picked
  /\ child[e.task].step = e.step /\ child[e.task].attempt = e.attempt

(* Slip: an upload that has used up its attempts is not raised.            *)
AfterFailure_Swallowed(c) ==
  IF c.attempt < MaxAttempts[c.step]
  THEN [c EXCEPT !.attempt = @ + 1, !.picked = FALSE]
  ELSE [c EXCEPT !.status = IF c.step = "upload" THEN "completed" ELSE "failed"]

AfterFailure(c) ==
  IF c.attempt < MaxAttempts[c.step]
  THEN [c EXCEPT !.attempt = @ + 1, !.picked = FALSE]
  ELSE [c EXCEPT !.status = "failed"]

AfterSuccess(c) ==
  IF c.step = "scan"
  THEN [c EXCEPT !.step = "upload", !.attempt = 1, !.picked = FALSE]
  ELSE [c EXCEPT !.status = "completed"]

(* An attempt ends; if it is the one waited for, its child goes on as c.   *)
Ends(e, c) ==
  /\ execs' = execs \ {e}
  /\ child' = IF Current(e) THEN [child EXCEPT ![e.task] = c] ELSE child

ScanEnds(e) ==
  /\ e.step = "scan"
  /\ Ends(e, AfterSuccess(child[e.task])) \/ Ends(e, AfterFailure(child[e.task]))
  /\ UNCHANGED <<order, start, ledger, batch, requests>>

(* Slip: activities are started without timeouts.                          *)
AttemptTimesOut_Off(i) == FALSE

(* start_to_close_timeout, or no heartbeat for 30 seconds.                 *)
AttemptTimesOut(i) ==
  /\ Running(i) /\ child[i].picked
  /\ child' = [child EXCEPT ![i] = AfterFailure(@)]
  /\ UNCHANGED <<order, start, ledger, batch, execs, requests>>

(* Slip: nmap_scan does not heartbeat.                                     *)
HeartbeatCancels_Off(e) == FALSE

(* The next heartbeat of an attempt nobody waits for cancels it.  Only     *)
(* nmap_scan heartbeats.                                                   *)
HeartbeatCancels(e) ==
  /\ e.step = "scan" /\ ~Current(e)
  /\ execs' = execs \ {e}
  /\ UNCHANGED <<order, start, ledger, batch, child, requests>>

WorkerDies ==
  /\ execs # {} /\ execs' = {}
  /\ UNCHANGED <<order, start, ledger, batch, child, requests>>

-----------------------------------------------------------------------------
(* upload_results: POST /ips/import through RetryingTransport.             *)

(* The answer reaches the attempt that sent the request, or is lost.       *)
Answered(q, c) ==
  \/ \E e \in execs : e.step = "upload" /\ Request(e) = q /\ Ends(e, c)
  \/ UNCHANGED <<execs, child>>

(* scanledger processes the request, whoever still waits for the answer,   *)
(* and answers; get_session commits once the answer is on its way.  Until  *)
(* then another import of the address waits for its row or its unique key. *)
Serve(q) ==
  /\ q \in requests /\ requests' = requests \ {q}
  /\ \A i \in open : order[i].ip # order[q.task].ip
  /\ open' = open \cup {q.task}
  /\ Answered(q, AfterSuccess(child[q.task]))
  /\ UNCHANGED <<order, start, store, applied, lost, batch>>

Commit(i) ==
  /\ i \in open /\ open' = open \ {i}
  /\ LET ip == order[i].ip
     IN  store' = [store EXCEPT ![ip] =
                     StoredFrom(ApplyMode(Mode, store[ip], Report(order[i])))]
  /\ applied' = applied \cup {i}
  /\ UNCHANGED <<order, start, lost, batch, child, execs, requests>>

(* The API process or its connection dies before the commit.               *)
CommitLost(i) ==
  /\ i \in open /\ open' = open \ {i} /\ lost' = lost \cup {i}
  /\ UNCHANGED <<order, start, store, applied, batch, child, execs, requests>>

(* It fails and rolls back, or never gets the request: a 5xx is raised at  *)
(* once, a transport error is not.                                         *)
Refuse(q) ==
  /\ q \in requests /\ requests' = requests \ {q}
  /\ Answered(q, AfterFailure(child[q.task]))
  /\ UNCHANGED <<order, start, ledger, batch>>

(* No answer: the transport sends again, and gives up after MaxSends.      *)
NoAnswer(e) ==
  /\ e.step = "upload"
  /\ IF e.send < MaxSends
     THEN LET again == [e EXCEPT !.send = @ + 1]
          IN  /\ execs' = (execs \ {e}) \cup {again}
              /\ requests' = requests \cup {Request(again)}
              /\ UNCHANGED child
     ELSE Ends(e, AfterFailure(child[e.task])) /\ UNCHANGED requests
  /\ UNCHANGED <<order, start, ledger, batch>>

-----------------------------------------------------------------------------
BatchStep == StartChild \/ (\E i \in 1..N : Count(i)) \/ Finish \/ CloseBatch

Next ==
  \/ BatchStep \/ RequestCancel \/ WorkerDies
  \/ \E i \in 1..N : \/ CancelIp(i) \/ CloseChild(i) \/ Pick(i)
                     \/ AttemptTimesOut(i)
  \/ \E e \in execs : ScanEnds(e) \/ HeartbeatCancels(e) \/ NoAnswer(e)
  \/ \E q \in requests : Serve(q) \/ Refuse(q)
  \/ \E i \in open : Commit(i) \/ CommitLost(i)

Spec == Init /\ [][Next]_vars

(* Some worker polls the task queue, so workflow tasks and scheduled       *)
(* activities are picked up; the server's timers fire; a living attempt    *)
(* heartbeats and the transport's timeouts fire.  Nothing is assumed of    *)
(* nmap, of scanledger, or of the life of any one worker.                  *)
Fairness ==
  /\ WF_vars(BatchStep)
  /\ \A i \in 1..Cardinality(Tasks) :
       WF_vars(CloseChild(i)) /\ WF_vars(Pick(i)) /\ WF_vars(AttemptTimesOut(i))
  /\ WF_vars(\E e \in execs : HeartbeatCancels(e))
  /\ WF_vars(\E e \in execs : NoAnswer(e))

FairSpec == Spec /\ Fairness

-----------------------------------------------------------------------------
(* Properties.                                                             *)

Statuses == {"none", "running", "completed", "failed", "canceled"}

(* Types; the counters account for every child the batch has seen close.   *)
TypeOK ==
  /\ order \in [1..N -> Tasks]
  /\ batch.status \in Statuses \ {"none", "failed"} /\ batch.next \in 1..(N + 1)
  /\ \A i \in 1..N : /\ child[i].status \in Statuses
                     /\ child[i].attempt \in 1..MaxAttempts[child[i].step]
                     /\ i >= batch.next <=> child[i].status = "none"
  /\ batch.completed + batch.failed = Cardinality({i \in 1..N : child[i].counted})
  /\ \A e \in execs : e.send \in 1..MaxSends
  /\ applied \cup open \cup lost \subseteq 1..N

(* Whatever was retried, duplicated, reordered or given up on, the         *)
(* inventory is what one import of the ports scanned so far would have     *)
(* left: the shards of a host do not disturb each other, and a report that *)
(* arrives twice, or late, changes nothing.                                *)
ScannedSoFar(ip) == UNION {Scanned(order[i]) : i \in {j \in applied : order[j].ip = ip}}

InventoryIsOneImport ==
  \A ip \in Targets :
    store[ip] = IF \E i \in applied : order[i].ip = ip
                THEN StoredFrom(ApplyMode(Mode, start[ip],
                                          Found(ip, ScannedSoFar(ip), ScannedSoFar(ip))))
                ELSE start[ip]

(* The progress a batch reports is not ahead of scanledger: a child        *)
(* counted as completed has its report imported, or about to be committed  *)
(* -- unless scanledger lost the commit after it had answered.  At most    *)
(* Window children are on the network at once.                             *)
ProgressIsHonest ==
  /\ \A i \in 1..N : child[i].status = "completed" => i \in applied \cup open \cup lost
  /\ batch.completed <= Cardinality(applied \cup open \cup lost)
  /\ Cardinality({i \in 1..N : Running(i)}) <= Window

(* To those who query or cancel it, the batch is a BatchOutline: a task is *)
(* queued, a child, or counted once; the window holds; the batch completes *)
(* with nothing outstanding, and closes early only when asked to.  A child *)
(* that has closed counts as active until the batch has counted it.        *)
Active == IF batch.status = "running" THEN Pending ELSE {i \in 1..N : Running(i)}

View ==
  [status |-> batch.status, active |-> Active,
   queued |-> IF batch.status = "running" THEN {i \in 1..N : child[i].status = "none"} ELSE {},
   stopping |-> {i \in Active : child[i].cancel}, total |-> N,
   completed |-> batch.completed, failed |-> batch.failed, signalled |-> batch.cancel]

Outline == INSTANCE BatchOutline WITH Tasks <- 1..Cardinality(Tasks), view <- View

ImplementsOutline == Outline!Spec

(* A batch ends, whichever workers, scans and uploads fail.                *)
BatchEnds == <>(batch.status # "running")

(* Once a cancel is signalled, nothing of the batch is left running: no    *)
(* child, and no attempt that scans or uploads.  A request that scanledger *)
(* already has may still be served.                                        *)
CancelStopsEverything ==
  batch.cancel ~> (execs = {} /\ \A i \in 1..N : ~Running(i))
=============================================================================

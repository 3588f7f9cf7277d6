------------------------------- MODULE Campaign -------------------------------
(***************************************************************************)
(* tasker: concurrent run_scan requests, the batch workflows they start,   *)
(* and the cancels that stop them.  tasker keeps no state of its own but   *)
(* the requests being handled and the background tasks that terminate what *)
(* survives a cancel; everything else it reads from scanledger and from    *)
(* Temporal's visibility queries, at some moment of the request.           *)
(*                                                                         *)
(* Batches are BatchViews and take the steps of BatchOutline, which        *)
(* ScanBatch implements.  Hostnames, shards and DNS are abstracted: a      *)
(* request is a mode and a set of public addresses.                        *)
(* All requests are of one project, whose addresses may also be deleted.   *)
(***************************************************************************)
EXTENDS Integers, FiniteSets, FiniteSetsExt, Functions, BatchView

CONSTANTS
  Ips,         \* addresses
  Inventories, \* what scanledger may have at the start: sets of addresses
  Bodies,      \* the body [mode, ips] of each POST /scans
  MaxScans,    \* bound: run_scan requests
  ChunkSize,   \* tasks per batch
  Window,      \* children of a batch running at once
  Cancels,     \* queries that cancel requests may use
  MaxCancels,  \* bound: cancel requests
  MaxDeletes,  \* bound: addresses deleted in scanledger
  MaxFaults    \* bound: restarts of tasker and failed calls of Temporal

Modes == {"insert", "replace", "update", "append"}

ASSUME CampaignAssumption ==
  /\ IsFiniteSet(Ips) /\ ChunkSize \in Nat \ {0} /\ Window \in Nat \ {0}
  /\ {MaxScans, MaxCancels, MaxDeletes, MaxFaults} \subseteq Nat
  /\ Inventories \subseteq SUBSET Ips
  /\ Bodies \in [1..MaxScans -> [mode : Modes, ips : SUBSET Ips]]

Scans == 1..MaxScans
MostBatches(s) == (Cardinality(Bodies[s].ips) + ChunkSize - 1) \div ChunkSize
Batches == UNION {{s} \X (1..MostBatches(s)) : s \in Scans}

VARIABLES
  known,      \* addresses scanledger has
  reported,   \* ghost: those it has from a report, or lost while a request knew them
  handler,    \* run_scan of each scan
  batch,      \* batch workflows, as Temporal shows them
  background, \* per query, the tasks that wait to terminate: _terminate_after_grace_period
  asked,      \* the queries that were asked to stop what they match
  cancels,    \* cancel requests so far
  deletes,    \* addresses deleted so far
  faults,     \* faults so far
  report      \* get_scan_status: the request in progress

vars == <<known, reported, handler, batch, background, asked, cancels, deletes, faults, report>>

ledger == <<known, reported, deletes>>
stops == <<background, asked, cancels>>

-----------------------------------------------------------------------------
(* `before' is a ghost: the addresses scanledger had when the INSERT        *)
(* request came.                                                           *)
NoHandler == [pc |-> "idle", mode |-> "none", ips |-> {}, before |-> {},
              searched |-> FALSE, listed |-> FALSE, known |-> {}, running |-> {}, chunks |-> <<>>]

NoReport == [pc |-> "idle", executions |-> {}, state |-> "none"]

Init ==
  /\ known \in Inventories /\ reported = known /\ deletes = 0
  /\ handler = [s \in Scans |-> NoHandler]
  /\ batch = [b \in Batches |-> NoBatch]
  /\ background = [q \in Cancels |-> 0] /\ asked = {} /\ cancels = 0
  /\ faults = 0 /\ report = NoReport

RunningBatch(b) == IsRunning(batch[b])
ActiveIps == UNION {batch[b].active : b \in Batches}
Outstanding(b) == batch[b].queued \cup batch[b].active

-----------------------------------------------------------------------------
(* run_scan.                                                               *)

Begin(s) ==
  LET body == Bodies[s]
  IN  /\ handler[s].pc = "idle" /\ \A t \in Scans : t < s => handler[t].pc # "idle"
      /\ handler' = [handler EXCEPT ![s] =
                       [NoHandler EXCEPT
                          !.pc = IF body.mode = "insert" THEN "dedup" ELSE "build",
                          !.mode = body.mode, !.ips = body.ips,
                          !.before = IF body.mode = "insert" THEN known ELSE {}]]
  /\ UNCHANGED <<ledger, batch, stops, faults, report>>

(* _dedupe_insert_mode: the two reads run concurrently.  The second sees   *)
(* the ScanWorkflows running now, not the tasks still queued in a batch.   *)
SearchKnown(s) ==
  /\ handler[s].pc = "dedup" /\ ~handler[s].searched
  /\ handler' = [handler EXCEPT ![s].searched = TRUE, ![s].known = known \cap handler[s].ips]
  /\ UNCHANGED <<ledger, batch, stops, faults, report>>

ListRunning(s) ==
  /\ handler[s].pc = "dedup" /\ ~handler[s].listed
  /\ handler' = [handler EXCEPT ![s].listed = TRUE, ![s].running = ActiveIps \cap handler[s].ips]
  /\ UNCHANGED <<ledger, batch, stops, faults, report>>

(* InsertModeDedup.known_only and skipped_ips.                             *)

(* Slip: every skipped address is taken for a known one.                   *)
KnownOnly_Skipped(h) == h.known \cup h.running

KnownOnly(h) == h.known \ h.running

(* Slip: the mergeable addresses are taken for the skipped ones.           *)
SkippedIps_KnownOnly(h) == KnownOnly(h) \cup (h.running \ h.known)

SkippedIps(h) == h.known \cup h.running

(* _merge_known_hostnames: an INSERT import of the known addresses the     *)
(* request has hostnames for.                                              *)
Merge(s) ==
  /\ handler[s].pc = "dedup" /\ handler[s].searched /\ handler[s].listed
  /\ \E named \in SUBSET KnownOnly(handler[s]) : known' = known \cup named
  /\ handler' = [handler EXCEPT ![s].pc = "build"]
  /\ UNCHANGED <<reported, deletes, batch, stops, faults, report>>

(* _build_tasks shuffles, start_batch_workflows cuts into chunks.          *)
ToScan(h) == h.ips \ SkippedIps(h)

Chunks(order, n) ==
  [i \in 1..((n + ChunkSize - 1) \div ChunkSize) |->
     {order[j] : j \in {k \in 1..n : (k - 1) \div ChunkSize = i - 1}}]

(* What the request has read is not read again.                            *)
At(h, pc, chunks) ==
  [NoHandler EXCEPT !.pc = pc, !.mode = h.mode, !.before = h.before, !.chunks = chunks]

Build(s) ==
  /\ handler[s].pc = "build"
  /\ LET n == Cardinality(ToScan(handler[s]))
     IN  \E order \in Bijection(1..n, ToScan(handler[s])) :
           handler' = [handler EXCEPT ![s] =
                         IF n = 0 THEN At(@, "done", <<>>) ELSE At(@, "start", Chunks(order, n))]
  /\ UNCHANGED <<ledger, batch, stops, faults, report>>

(* start_batch_workflows: the starts run concurrently; one that fails      *)
(* fails the request and leaves the others to themselves.                  *)
Unstarted(s) == {i \in DOMAIN handler[s].chunks : handler[s].chunks[i] # {}}

Drop(h, i) == [h EXCEPT !.chunks[i] = {}]

StartBatch(s, i) ==
  /\ handler[s].pc \in {"start", "error"} /\ i \in Unstarted(s)
  /\ batch' = [batch EXCEPT ![<<s, i>>] = Started(handler[s].chunks[i])]
  /\ handler' = [handler EXCEPT ![s] = Drop(@, i)]
  /\ UNCHANGED <<ledger, stops, faults, report>>

StartFails(s, i) ==
  /\ handler[s].pc \in {"start", "error"} /\ i \in Unstarted(s) /\ faults < MaxFaults
  /\ handler' = [handler EXCEPT ![s] = [Drop(@, i) EXCEPT !.pc = "error"]]
  /\ faults' = faults + 1
  /\ UNCHANGED <<ledger, batch, stops, report>>

Respond(s) ==
  /\ handler[s].pc = "start" /\ Unstarted(s) = {}
  /\ handler' = [handler EXCEPT ![s] = At(@, "done", <<>>)]
  /\ UNCHANGED <<ledger, batch, stops, faults, report>>

-----------------------------------------------------------------------------
(* The batches, on workers that may or may not be there.                   *)

StartChild(b, ip) ==
  /\ CanStart(batch[b], ip, Window)
  /\ batch' = [batch EXCEPT ![b] = Start(@, ip)]
  /\ UNCHANGED <<ledger, handler, stops, faults, report>>

(* scanledger imports the report of an address; scanledger deletes one.    *)
Report(ip) ==
  /\ known' = known \cup {ip} /\ reported' = reported \cup {ip}
  /\ UNCHANGED deletes

HeldKnown(ip) ==
  \E s \in Scans : handler[s].pc = "dedup" /\ ip \in handler[s].known

Delete(ip) ==
  /\ deletes < MaxDeletes /\ ip \in known
  /\ known' = known \ {ip} /\ deletes' = deletes + 1
  /\ reported' = IF HeldKnown(ip) THEN reported ELSE reported \ {ip}
  /\ handler' = [s \in Scans |-> [handler[s] EXCEPT !.before = @ \ {ip}]]
  /\ UNCHANGED <<batch, stops, faults, report>>

ChildEnds(b, ip, ok) ==
  /\ ip \in batch[b].active
  /\ IF ok THEN Report(ip) ELSE UNCHANGED ledger
  /\ batch' = [batch EXCEPT ![b] = End(@, ip, ok)]
  /\ UNCHANGED <<handler, stops, faults, report>>

BatchCompletes(b) ==
  /\ CanComplete(batch[b])
  /\ batch' = [batch EXCEPT ![b].status = "completed"]
  /\ UNCHANGED <<ledger, handler, stops, faults, report>>

BatchCanceled(b) ==
  /\ RunningBatch(b) /\ batch[b].signalled
  /\ batch' = [batch EXCEPT ![b] = ClosedBy(@, "canceled")]
  /\ UNCHANGED <<ledger, handler, stops, faults, report>>

-----------------------------------------------------------------------------
(* Cancel: by scan, by project, by address.  A query is evaluated when the *)
(* batch operation runs, once to cancel and once more to terminate.        *)

(* Slip: a cancel by scan builds the query without the scan:               *)
(* running_batch_query in place of running_batch_by_scan_query.            *)
Matches_AnyScan(q, b) == q.kind \in {"scan", "project"} /\ RunningBatch(b)

Matches(q, b) ==
  /\ RunningBatch(b)
  /\ q.kind = "project" \/ (q.kind = "scan" /\ q.scan = b[1])

MatchesChild(q, b, ip) == q.kind = "ips" /\ ip \in q.ips /\ ip \in batch[b].active

Signalled(q) ==
  [b \in Batches |->
     [batch[b] EXCEPT !.signalled = @ \/ Matches(q, b),
                      !.stopping = @ \cup {ip \in batch[b].active : MatchesChild(q, b, ip)}]]

Terminated(q) ==
  [b \in Batches |->
     IF Matches(q, b) THEN ClosedBy(batch[b], "terminated")
     ELSE LET gone == {ip \in batch[b].active : MatchesChild(q, b, ip)}
          IN  [batch[b] EXCEPT
                 !.active = @ \ gone, !.stopping = @ \ gone,
                 !.failed = IF RunningBatch(b) THEN @ + Cardinality(gone) ELSE @]]

(* cancel_batches and cancel_by_ips.  When the cancel call fails, only the *)
(* latter still schedules the termination.                                 *)
Ask(q) ==
  /\ cancels < MaxCancels /\ cancels' = cancels + 1
  /\ asked' = asked \cup {q}

Cancel(q) ==
  /\ Ask(q)
  /\ batch' = Signalled(q)
  /\ background' = [background EXCEPT ![q] = @ + 1]
  /\ UNCHANGED <<ledger, handler, faults, report>>

CancelFails(q) ==
  /\ Ask(q) /\ faults < MaxFaults /\ faults' = faults + 1
  /\ background' = IF q.kind = "ips" THEN [background EXCEPT ![q] = @ + 1] ELSE background
  /\ UNCHANGED <<ledger, handler, batch, report>>

(* Slip: the background task is not kept and is garbage-collected.         *)
Terminate_Collected(q) ==
  /\ background[q] > 0 /\ background' = [background EXCEPT ![q] = @ - 1]
  /\ UNCHANGED <<ledger, handler, batch, asked, cancels, faults, report>>

(* _terminate_after_grace_period; a failing call is only logged.           *)
Terminate(q) ==
  /\ background[q] > 0 /\ background' = [background EXCEPT ![q] = @ - 1]
  /\ batch' = Terminated(q)
  /\ UNCHANGED <<ledger, handler, asked, cancels, faults, report>>

TerminateFails(q) ==
  /\ background[q] > 0 /\ background' = [background EXCEPT ![q] = @ - 1]
  /\ faults < MaxFaults /\ faults' = faults + 1
  /\ UNCHANGED <<ledger, handler, batch, asked, cancels, report>>

(* tasker restarts: requests and background tasks are lost.                *)
Restart ==
  /\ faults < MaxFaults /\ faults' = faults + 1
  /\ background' = [q \in Cancels |-> 0] /\ report' = NoReport
  /\ handler' = [s \in Scans |->
                   IF handler[s].pc \in {"idle", "done"} THEN handler[s]
                   ELSE At(handler[s], "lost", <<>>)]
  /\ UNCHANGED <<ledger, batch, asked, cancels>>

-----------------------------------------------------------------------------
(* get_scan_status: the state comes from one visibility query, the counts  *)
(* from querying each batch it listed, later; a failing query is left out. *)

(* Slip: one running batch among others does not make the scan running.    *)
StateOf_OnlyRunning(statuses) ==
  IF statuses = {"running"} THEN "running"
  ELSE IF statuses \cap {"canceled", "terminated"} # {} THEN "cancelled" ELSE "completed"

StateOf(statuses) ==
  IF "running" \in statuses THEN "running"
  ELSE IF statuses \cap {"canceled", "terminated"} # {} THEN "cancelled"
  ELSE IF statuses \cap {"failed", "timed_out"} # {} THEN "failed" ELSE "completed"

ListBatches(s) ==
  LET started == {b \in Batches : b[1] = s /\ batch[b].status # "none"}
  IN  /\ report.pc = "idle" /\ started # {}
      /\ report' = [NoReport EXCEPT
                      !.pc = "listed", !.executions = started,
                      !.state = StateOf({batch[b].status : b \in started})]
      /\ UNCHANGED <<ledger, handler, batch, stops, faults>>

Answer(answered) ==
  [state     |-> report.state,
   total     |-> MapThenSumSet(LAMBDA b : batch[b].total, answered),
   completed |-> MapThenSumSet(LAMBDA b : batch[b].completed, answered),
   failed    |-> MapThenSumSet(LAMBDA b : batch[b].failed, answered)]

(* Answers is what the request may be told if it gets its answer now; with *)
(* it the request ends.                                                    *)
Answers ==
  IF report.pc = "listed" THEN {Answer(answered) : answered \in SUBSET report.executions} ELSE {}

QueryProgress ==
  /\ Answers # {} /\ report' = NoReport
  /\ UNCHANGED <<ledger, handler, batch, stops, faults>>

-----------------------------------------------------------------------------
RequestStep(s) ==
  \/ Begin(s) \/ SearchKnown(s) \/ ListRunning(s) \/ Merge(s) \/ Build(s) \/ Respond(s)
  \/ \E i \in Unstarted(s) : StartBatch(s, i) \/ StartFails(s, i)

WorkerStep(b) ==
  \/ BatchCompletes(b) \/ BatchCanceled(b)
  \/ \E ip \in Ips : StartChild(b, ip) \/ ChildEnds(b, ip, TRUE) \/ ChildEnds(b, ip, FALSE)

Next ==
  \/ \E s \in Scans : RequestStep(s) \/ ListBatches(s)
  \/ \E b \in Batches : WorkerStep(b)
  \/ \E q \in Cancels : Cancel(q) \/ CancelFails(q) \/ Terminate(q) \/ TerminateFails(q)
  \/ Restart \/ QueryProgress
  \/ \E ip \in Ips : Delete(ip)

Spec == Init /\ [][Next]_vars

(* A background task wakes up after the grace period.  Nothing is assumed  *)
(* of workers: there may be none.                                          *)
FairSpec == Spec /\ \A q \in Cancels : WF_vars(Terminate(q))

-----------------------------------------------------------------------------
(* Properties.                                                             *)

(* Types; a batch that is closed has nothing queued, and every target of a *)
(* running batch is queued, active or counted.                             *)
TypeOK ==
  /\ known \subseteq Ips /\ background \in [Cancels -> 0..MaxCancels]
  /\ asked \subseteq Cancels /\ cancels \in 0..MaxCancels
  /\ deletes \in 0..MaxDeletes /\ faults \in 0..MaxFaults
  /\ \A s \in Scans : handler[s].pc \in {"idle", "dedup", "build", "start", "done", "error", "lost"}
  /\ \A b \in Batches :
       /\ batch[b].status \in {"none", "running", "completed", "canceled", "terminated"}
       /\ batch[b].stopping \subseteq batch[b].active
       /\ ~RunningBatch(b) => batch[b].queued = {}
       /\ RunningBatch(b) =>
            batch[b].completed + batch[b].failed + Cardinality(batch[b].active)
              + Cardinality(batch[b].queued) = batch[b].total

(* An INSERT scan never scans an address scanledger had when the request   *)
(* arrived, and still has, however its two reads interleave with other     *)
(* scans.                                                                  *)
KnownIsNotRescanned ==
  \A s \in Scans :
    handler[s].mode = "insert" =>
      \A b \in Batches : b[1] = s =>
        Outstanding(b) \cap handler[s].before = {}

(* scanledger knows an address from a report it has not deleted since: no  *)
(* scan marks as known, and thereby hides from every later INSERT scan,    *)
(* what no scan ever reported -- except an address deleted between a       *)
(* request's finding it known and its pushing the hostnames it resolved.   *)
KnownWasReported == known \subseteq reported

(* What is stopped is within the reach of a cancel somebody made, also     *)
(* when its query is evaluated anew after the grace period: a batch that   *)
(* was cancelled or terminated belongs to a scan that was cancelled by     *)
(* itself or with its project, and so does a child that is being stopped,  *)
(* unless a cancel was made for its address.  A cancel of the project      *)
(* reaches batches started within its grace period, too.                   *)
Made(q) == q \in asked

StopOfScan(s) ==
  \E q \in Cancels : Made(q) /\ (q.kind = "project" \/ (q.kind = "scan" /\ q.scan = s))

StopOfIp(ip) == \E q \in Cancels : Made(q) /\ q.kind = "ips" /\ ip \in q.ips

OnlyAskedWorkStops ==
  \A b \in Batches :
    /\ batch[b].status \in {"canceled", "terminated"} => StopOfScan(b[1])
    /\ \A ip \in batch[b].stopping : StopOfScan(b[1]) \/ StopOfIp(ip)

(* A scan reported as completed is reported with nothing outstanding, for  *)
(* the batches that answered.                                              *)
CompletedReportIsFinal ==
  \A told \in Answers :
    told.state = "completed" => told.completed + told.failed = told.total

(* A batch that was asked to stop stops, with or without workers -- unless *)
(* tasker restarts or a terminate call fails meanwhile.                    *)
SignalledBatchStops ==
  \A b \in Batches : batch[b].signalled ~> (batch[b].status # "running" \/ faults > 0)
=============================================================================

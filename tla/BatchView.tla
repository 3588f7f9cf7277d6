------------------------------ MODULE BatchView ------------------------------
(***************************************************************************)
(* A batch workflow as its clients see it, through visibility queries and  *)
(* progress queries: which of its tasks are queued, which run as children, *)
(* what it has counted, and what it was asked to do.                       *)
(***************************************************************************)
EXTENDS Integers, FiniteSets

NoBatch == [status |-> "none", queued |-> {}, active |-> {}, stopping |-> {},
            total |-> 0, completed |-> 0, failed |-> 0, signalled |-> FALSE]

Started(tasks) ==
  [NoBatch EXCEPT !.status = "running", !.queued = tasks, !.total = Cardinality(tasks)]

IsRunning(v) == v.status = "running"

CanStart(v, task, window) ==
  IsRunning(v) /\ task \in v.queued /\ Cardinality(v.active) < window

Start(v, task) == [v EXCEPT !.queued = @ \ {task}, !.active = @ \cup {task}]

(* Slip: a cancelled child is not counted as failed.                       *)
End_Uncounted(v, task, ok) ==
  [v EXCEPT !.active = @ \ {task}, !.stopping = @ \ {task},
            !.completed = IF IsRunning(v) /\ ok THEN @ + 1 ELSE @,
            !.failed = IF IsRunning(v) /\ ~ok /\ task \notin v.stopping THEN @ + 1 ELSE @]

(* A child ends: its report uploaded, or failed, or cancelled.  A batch    *)
(* that has closed no longer counts.                                       *)
End(v, task, ok) ==
  [v EXCEPT !.active = @ \ {task}, !.stopping = @ \ {task},
            !.completed = IF IsRunning(v) /\ ok THEN @ + 1 ELSE @,
            !.failed = IF IsRunning(v) /\ ~ok THEN @ + 1 ELSE @]

CanComplete(v) == IsRunning(v) /\ v.queued = {} /\ v.active = {}

(* A batch closes with its queue; its children are asked to stop.          *)
ClosedBy(v, status) == [v EXCEPT !.status = status, !.queued = {}, !.stopping = v.active]
=============================================================================

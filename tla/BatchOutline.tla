---------------------------- MODULE BatchOutline ----------------------------
(***************************************************************************)
(* What a batch workflow promises to those who only see its BatchView:     *)
(* Campaign's batches take these steps, ScanBatch shows that the workflow  *)
(* takes no others, however its activities and workers fail.               *)
(***************************************************************************)
EXTENDS BatchView

CONSTANTS
  Tasks,  \* the tasks of the batch
  Window  \* children running at once

VARIABLE view

Init == view = Started(Tasks)

StartChild == \E t \in Tasks : CanStart(view, t, Window) /\ view' = Start(view, t)

ChildEnds == \E t \in view.active, ok \in BOOLEAN : view' = End(view, t, ok)

Completes == CanComplete(view) /\ view' = [view EXCEPT !.status = "completed"]

AskBatch == IsRunning(view) /\ view' = [view EXCEPT !.signalled = TRUE]

AskChild == \E t \in view.active : view' = [view EXCEPT !.stopping = @ \cup {t}]

(* A batch closes early only if asked to; children that ended a moment ago *)
(* stay uncounted.                                                         *)
Closes ==
  /\ IsRunning(view) /\ view.signalled
  /\ \E left \in SUBSET view.active, status \in {"canceled", "terminated"} :
       view' = ClosedBy([view EXCEPT !.active = left], status)

Next == StartChild \/ ChildEnds \/ Completes \/ AskBatch \/ AskChild \/ Closes

Spec == Init /\ [][Next]_view
=============================================================================

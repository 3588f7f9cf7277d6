--------------------------- MODULE ScanBatchProofs ---------------------------
(***************************************************************************)
(* Theorems about ScanBatch, for any tasks, mode, inventory, window and    *)
(* any number of attempts and sends.                                       *)
(***************************************************************************)
EXTENDS ScanBatch, FoldProofs, FiniteSetTheorems, SequenceTheorems, TLAPS

-----------------------------------------------------------------------------
(* The inductive invariant.                                                *)

Steps == {"scan", "upload"}

Children ==
  [status : Statuses, step : Steps, attempt : Nat \ {0}, picked : BOOLEAN,
   cancel : BOOLEAN, counted : BOOLEAN]

Workflows ==
  [status : {"running", "completed", "canceled"}, next : Nat \ {0},
   completed : Nat, failed : Nat, cancel : BOOLEAN]

I == 1..Cardinality(Tasks)

(* What is running on workers, under way, and at scanledger.               *)
ServerInv ==
  /\ execs \subseteq [task : I, step : Steps, attempt : Nat, send : 1..MaxSends]
  /\ requests \subseteq [task : I, attempt : Nat, send : Nat]
  /\ applied \subseteq I /\ open \subseteq I /\ lost \subseteq I

TypeInv ==
  /\ order \in [I -> Tasks]
  /\ batch \in Workflows /\ batch.next <= Cardinality(Tasks) + 1
  /\ child \in [I -> Children]
  /\ \A i \in I : child[i].attempt <= MaxAttempts[child[i].step]
  /\ ServerInv

(* Children are started in order, once; only a closed one is counted, and  *)
(* what is counted has been counted as what it is.                         *)
CountedAs(success) ==
  {i \in I : child[i].counted /\ (child[i].status = "completed" <=> success)}

CountInv ==
  /\ \A i \in I : i >= batch.next <=> child[i].status = "none"
  /\ \A i \in I : child[i].counted => HasClosed(i)
  /\ batch.completed = Cardinality(CountedAs(TRUE))
  /\ batch.failed = Cardinality(CountedAs(FALSE))

(* The window: the running children of a running batch are among those it  *)
(* has not counted, of which there are at most Window.                     *)
RunningSet == {i \in I : child[i].status = "running"}
PendingSet == {i \in I : child[i].status # "none" /\ ~child[i].counted}

WindowInv ==
  /\ batch.status = "running" => Cardinality(PendingSet) <= Window
  /\ Cardinality(RunningSet) <= Window

(* A child completes only when its upload was processed.                   *)
Done == applied \cup open \cup lost

UploadInv == \A i \in I : child[i].status = "completed" => i \in Done

(* Nothing is asked to stop before it was started.                         *)
UnaskedInv == \A i \in I : child[i].status = "none" => ~child[i].cancel

IInv == TypeInv /\ CountInv /\ WindowInv /\ UploadInv /\ UnaskedInv

-----------------------------------------------------------------------------
(* The tasks: finitely many, numbered in the order they were shuffled to.  *)

LEMMA TasksFinite ==
  /\ Cardinality(Tasks) \in Nat /\ IsFiniteSet(I)
  /\ \A S : S \subseteq I => IsFiniteSet(S) /\ Cardinality(S) \in Nat
<1>1. Cardinality(Tasks) \in Nat
  BY TasksAssumption, FS_CardinalityType
<1>2. IsFiniteSet(1..Cardinality(Tasks))
  BY <1>1, FS_Interval
<1>3. IsFiniteSet(I)
  BY <1>2 DEF I
<1>4. \A S : S \subseteq I => IsFiniteSet(S) /\ Cardinality(S) \in Nat
  BY <1>3, FS_Subset, FS_CardinalityType
<1> QED
  BY <1>1, <1>3, <1>4

LEMMA OrderLength ==
  ASSUME order \in [I -> Tasks]
  PROVE  N = Cardinality(Tasks) /\ 1..N = I
<1>1. Cardinality(Tasks) \in Nat
  BY TasksFinite
<1>2. order \in Seq(Tasks)
  BY <1>1 DEF I
<1>3. Len(order) \in Nat /\ DOMAIN order = 1..Len(order)
  BY <1>2
<1>4. 1..Len(order) = 1..Cardinality(Tasks)
  BY <1>3 DEF I
<1>5. Len(order) = Cardinality(Tasks)
  BY <1>1, <1>3, <1>4
<1> QED
  BY <1>5 DEF N, I

(* A set of tasks is no smaller than a subset of it.                       *)
LEMMA Smaller ==
  ASSUME NEW S, NEW T, T \subseteq I, S \subseteq T
  PROVE  Cardinality(S) <= Cardinality(T)
BY TasksFinite, FS_Subset

(* A task more.                                                            *)
LEMMA OneTaskMore ==
  ASSUME NEW S, S \subseteq I, NEW i, i \notin S
  PROVE  Cardinality(S \cup {i}) = Cardinality(S) + 1
BY TasksFinite, FS_AddElement

(* Two sets without a common element.                                      *)
LEMMA DisjointUnion ==
  ASSUME NEW S, IsFiniteSet(S), NEW T, IsFiniteSet(T), S \cap T = {}
  PROVE  Cardinality(S \cup T) = Cardinality(S) + Cardinality(T)
<1>1. Cardinality(S \cup T) = Cardinality(S) + Cardinality(T) - Cardinality(S \cap T)
  BY FS_Union
<1>2. Cardinality(S \cap T) = 0
  BY FS_EmptySet
<1>3. Cardinality(S) \in Nat /\ Cardinality(T) \in Nat
  BY FS_CardinalityType
<1> QED
  BY <1>1, <1>2, <1>3

-----------------------------------------------------------------------------
(* How a running child goes on when an attempt of its activity ends, times *)
(* out or is given up: it keeps its flags, and it completes only when its  *)
(* upload is done.                                                         *)

Proceeds(i, c) ==
  /\ Running(i) /\ c \in Children /\ c.attempt <= MaxAttempts[c.step]
  /\ c.status # "none" /\ c.cancel = child[i].cancel /\ c.counted = child[i].counted

LEMMA AttemptsPositive ==
  \A step \in Steps : MaxAttempts[step] \in Nat \ {0}
BY BatchAssumption DEF BatchAssumption, Steps

LEMMA FailureProceeds ==
  ASSUME TypeInv, NEW i \in I, Running(i)
  PROVE  /\ Proceeds(i, AfterFailure(child[i]))
         /\ AfterFailure(child[i]).status # "completed"
<1>1. child[i] \in Children /\ child[i].attempt <= MaxAttempts[child[i].step]
      /\ child[i].status = "running"
  BY DEF TypeInv, Running
<1>2. child[i].attempt \in Nat /\ child[i].step \in Steps
      /\ MaxAttempts[child[i].step] \in Nat
  BY <1>1, AttemptsPositive DEF Children
<1>3. CASE child[i].attempt < MaxAttempts[child[i].step]
  <2> DEFINE n == child[i].attempt + 1
             c == [child[i] EXCEPT !.attempt = n, !.picked = FALSE]
  <2>1. AfterFailure(child[i]) = c
    BY <1>3 DEF AfterFailure
  <2>2. n = child[i].attempt + 1 /\ n \in Nat \ {0}
    BY <1>2
  <2> HIDE DEF n
  <2>3. /\ c \in Children /\ c.attempt = child[i].attempt + 1 /\ c.step = child[i].step
        /\ c.status = child[i].status /\ c.cancel = child[i].cancel
        /\ c.counted = child[i].counted
    BY <1>1, <2>2 DEF Children
  <2> HIDE DEF c
  <2>4. c.attempt <= MaxAttempts[c.step]
    BY <1>2, <1>3, <2>3
  <2> QED
    BY <1>1, <2>1, <2>3, <2>4 DEF Proceeds
<1>4. CASE ~(child[i].attempt < MaxAttempts[child[i].step])
  <2> DEFINE c == [child[i] EXCEPT !.status = "failed"]
  <2>1. AfterFailure(child[i]) = c
    BY <1>4 DEF AfterFailure
  <2>2. /\ c \in Children /\ c.attempt = child[i].attempt /\ c.step = child[i].step
        /\ c.status = "failed" /\ c.cancel = child[i].cancel
        /\ c.counted = child[i].counted
    BY <1>1 DEF Children, Statuses
  <2> HIDE DEF c
  <2> QED
    BY <1>1, <2>1, <2>2 DEF Proceeds, Running
<1> QED
  BY <1>3, <1>4

LEMMA SuccessProceeds ==
  ASSUME TypeInv, NEW i \in I, Running(i)
  PROVE  /\ Proceeds(i, AfterSuccess(child[i]))
         /\ AfterSuccess(child[i]).status = "completed" => child[i].step = "upload"
<1>1. child[i] \in Children /\ child[i].attempt <= MaxAttempts[child[i].step]
      /\ child[i].status = "running"
  BY DEF TypeInv, Running
<1>2. child[i].step \in Steps /\ MaxAttempts["upload"] \in Nat \ {0}
  BY <1>1, AttemptsPositive DEF Children, Steps
<1>3. CASE child[i].step = "scan"
  <2> DEFINE c == [child[i] EXCEPT !.step = "upload", !.attempt = 1, !.picked = FALSE]
  <2>1. AfterSuccess(child[i]) = c
    BY <1>3 DEF AfterSuccess
  <2>2. /\ c \in Children /\ c.attempt = 1 /\ c.step = "upload"
        /\ c.status = child[i].status /\ c.cancel = child[i].cancel
        /\ c.counted = child[i].counted
    <3>1. 1 \in Nat \ {0} /\ "upload" \in Steps
      BY DEF Steps
    <3> QED
      BY <1>1, <3>1 DEF Children
  <2> HIDE DEF c
  <2>3. c.attempt <= MaxAttempts[c.step]
    BY <1>2, <2>2
  <2> QED
    BY <1>1, <2>1, <2>2, <2>3 DEF Proceeds
<1>4. CASE child[i].step # "scan"
  <2> DEFINE c == [child[i] EXCEPT !.status = "completed"]
  <2>1. AfterSuccess(child[i]) = c
    BY <1>4 DEF AfterSuccess
  <2>2. /\ c \in Children /\ c.attempt = child[i].attempt /\ c.step = child[i].step
        /\ c.status = "completed" /\ c.cancel = child[i].cancel
        /\ c.counted = child[i].counted
    BY <1>1 DEF Children, Statuses
  <2> HIDE DEF c
  <2> QED
    BY <1>1, <1>2, <1>4, <2>1, <2>2 DEF Proceeds, Running, Steps
<1> QED
  BY <1>3, <1>4

ChildStep ==
  \/ UNCHANGED child
  \/ \E i \in I : \E c : /\ Proceeds(i, c) /\ child' = [child EXCEPT ![i] = c]
                         /\ c.status = "completed" => i \in Done'

(* A child that runs is not counted, and all running children were started.*)
LEMMA RunningFacts ==
  ASSUME IInv, NEW i \in I, Running(i)
  PROVE  /\ child[i] \in Children /\ child[i].status = "running" /\ ~child[i].counted
         /\ ~(i >= batch.next)
BY DEF IInv, TypeInv, CountInv, Running, HasClosed, Children

(* Such steps change neither what is counted nor what is pending, and set  *)
(* no child running.                                                       *)
LEMMA ChildStepSets ==
  ASSUME IInv, ChildStep
  PROVE  /\ CountedAs(TRUE)' = CountedAs(TRUE) /\ CountedAs(FALSE)' = CountedAs(FALSE)
         /\ PendingSet' = PendingSet /\ RunningSet' \subseteq RunningSet
         /\ \A j \in I : /\ child'[j].status = "none" <=> child[j].status = "none"
                         /\ child'[j].cancel = child[j].cancel
                         /\ child'[j].counted = child[j].counted
<1>1. CASE UNCHANGED child
  BY <1>1 DEF CountedAs, PendingSet, RunningSet
<1>2. ASSUME NEW i \in I, NEW c, Proceeds(i, c), child' = [child EXCEPT ![i] = c]
      PROVE  /\ CountedAs(TRUE)' = CountedAs(TRUE) /\ CountedAs(FALSE)' = CountedAs(FALSE)
             /\ PendingSet' = PendingSet /\ RunningSet' \subseteq RunningSet
             /\ \A j \in I : /\ child'[j].status = "none" <=> child[j].status = "none"
                             /\ child'[j].cancel = child[j].cancel
                             /\ child'[j].counted = child[j].counted
  <2>1. child[i].status = "running" /\ ~child[i].counted
    BY <1>2, RunningFacts DEF Proceeds
  <2>2. child'[i] = c /\ \A j \in I : j # i => child'[j] = child[j]
    BY <1>2 DEF IInv, TypeInv
  <2>3. c.status # "none" /\ ~c.counted /\ c.cancel = child[i].cancel
        /\ c.counted = child[i].counted
    BY <1>2, <2>1 DEF Proceeds
  <2>4. \A j \in I : /\ child'[j].status = "none" <=> child[j].status = "none"
                     /\ child'[j].cancel = child[j].cancel
                     /\ child'[j].counted = child[j].counted
                     /\ child[j].counted => child'[j].status = child[j].status
                     /\ child'[j].status = "running" => child[j].status = "running"
    BY <2>1, <2>2, <2>3
  <2>5. CountedAs(TRUE)' = CountedAs(TRUE) /\ CountedAs(FALSE)' = CountedAs(FALSE)
    BY <2>4 DEF CountedAs
  <2>6. PendingSet' = PendingSet /\ RunningSet' \subseteq RunningSet
    BY <2>4 DEF PendingSet, RunningSet
  <2> QED
    BY <2>4, <2>5, <2>6
<1> QED
  BY <1>1, <1>2 DEF ChildStep

LEMMA ChildStepInv ==
  ASSUME IInv, ChildStep, UNCHANGED <<order, batch>>, ServerInv', Done \subseteq Done'
  PROVE  IInv'
<1>1. TypeInv'
  <2>1. CASE UNCHANGED child
    BY <2>1 DEF IInv, TypeInv
  <2>2. ASSUME NEW i \in I, NEW c, Proceeds(i, c), child' = [child EXCEPT ![i] = c]
        PROVE  TypeInv'
    <3>1. child' \in [I -> Children]
      BY <2>2 DEF IInv, TypeInv, Proceeds
    <3>2. \A j \in I : child'[j].attempt <= MaxAttempts[child'[j].step]
      BY <2>2 DEF IInv, TypeInv, Proceeds
    <3> QED
      BY <3>1, <3>2 DEF IInv, TypeInv
  <2> QED
    BY <2>1, <2>2 DEF ChildStep
<1>2. CountInv'
  <2>1. \A i \in I : i >= batch'.next <=> child'[i].status = "none"
    BY ChildStepSets DEF IInv, CountInv
  <2>2. \A i \in I : child'[i].counted => HasClosed(i)'
    <3> SUFFICES ASSUME NEW i \in I, child'[i].counted
                 PROVE  HasClosed(i)'
      OBVIOUS
    <3>1. child[i].counted /\ ~Running(i)
      BY ChildStepSets, RunningFacts
    <3>2. child'[i] = child[i]
      BY <3>1 DEF ChildStep, Proceeds, IInv, TypeInv
    <3> QED
      BY <3>1, <3>2 DEF IInv, CountInv, HasClosed
  <2> QED
    BY <2>1, <2>2, ChildStepSets DEF IInv, CountInv
<1>3. WindowInv'
  <2>1. Cardinality(RunningSet') <= Cardinality(RunningSet)
    BY ChildStepSets, Smaller DEF RunningSet
  <2>2. Cardinality(RunningSet) \in Nat /\ Cardinality(RunningSet') \in Nat /\ Window \in Nat
    BY TasksFinite, BatchAssumption DEF BatchAssumption, RunningSet
  <2>3. Cardinality(RunningSet') <= Window
    BY <2>1, <2>2 DEF IInv, WindowInv
  <2>4. PendingSet' = PendingSet
    BY ChildStepSets
  <2> QED
    BY <2>3, <2>4 DEF IInv, WindowInv
<1>4. UploadInv'
  BY DEF ChildStep, IInv, UploadInv, TypeInv
<1>5. UnaskedInv'
  BY ChildStepSets DEF IInv, UnaskedInv
<1> QED
  BY <1>1, <1>2, <1>3, <1>4, <1>5 DEF IInv

-----------------------------------------------------------------------------
(* The steps of workers, of the server's timers and of scanledger are of   *)
(* this kind: at most one running child goes on.                           *)

Quiet == ChildStep /\ UNCHANGED <<order, batch>> /\ ServerInv' /\ Done \subseteq Done'

LEMMA ServerFacts ==
  ASSUME IInv
  PROVE  /\ execs \subseteq [task : I, step : Steps, attempt : Nat, send : 1..MaxSends]
         /\ requests \subseteq [task : I, attempt : Nat, send : Nat]
         /\ applied \subseteq I /\ open \subseteq I /\ lost \subseteq I
         /\ \A e \in execs : e.task \in I /\ e.step \in Steps /\ e.send \in 1..MaxSends
         /\ \A q \in requests : q.task \in I
         /\ MaxSends \in Nat
BY BatchAssumption DEF BatchAssumption, IInv, TypeInv, ServerInv

(* A child whose attempt ends goes on; others than the awaited one are     *)
(* ignored.                                                                *)
LEMMA EndsChild ==
  ASSUME IInv, NEW e \in execs, NEW c, Ends(e, c),
         Current(e) => Proceeds(e.task, c) /\ (c.status = "completed" => e.task \in Done')
  PROVE  ChildStep /\ execs' \subseteq execs
<1>1. CASE Current(e)
  BY <1>1, ServerFacts DEF Ends, ChildStep
<1>2. CASE ~Current(e)
  BY <1>2 DEF Ends, ChildStep
<1> QED
  BY <1>1, <1>2

LEMMA TypeOf == IInv => TypeInv
BY DEF IInv

LEMMA CloseChildQuiet ==
  ASSUME IInv, NEW i \in I, CloseChild(i)
  PROVE  Quiet
<1> DEFINE c == [child[i] EXCEPT !.status = "canceled"]
<1>1. child' = [child EXCEPT ![i] = c] /\ Running(i)
  BY DEF CloseChild
<1>2. child[i] \in Children /\ child[i].attempt <= MaxAttempts[child[i].step]
  BY DEF IInv, TypeInv
<1>3. /\ c \in Children /\ c.attempt = child[i].attempt /\ c.step = child[i].step
      /\ c.status = "canceled" /\ c.cancel = child[i].cancel /\ c.counted = child[i].counted
  BY <1>2 DEF Children, Statuses
<1> HIDE DEF c
<1>4. ChildStep
  BY <1>1, <1>2, <1>3 DEF ChildStep, Proceeds
<1> QED
  BY <1>4 DEF CloseChild, ledger, Quiet, Done, IInv, TypeInv, ServerInv

LEMMA PickQuiet ==
  ASSUME IInv, NEW i \in I, Pick(i)
  PROVE  Quiet
<1> DEFINE c == [child[i] EXCEPT !.picked = TRUE]
           e == [task |-> i, step |-> child[i].step, attempt |-> child[i].attempt, send |-> 1]
<1>1. child' = [child EXCEPT ![i] = c] /\ Running(i)
  BY DEF Pick
<1>2. child[i] \in Children /\ child[i].attempt <= MaxAttempts[child[i].step]
      /\ child[i].status = "running"
  BY <1>1 DEF IInv, TypeInv, Running
<1>3. /\ c \in Children /\ c.attempt = child[i].attempt /\ c.step = child[i].step
      /\ c.status = "running" /\ c.cancel = child[i].cancel /\ c.counted = child[i].counted
  BY <1>2 DEF Children
<1>4. ChildStep
  <2> HIDE DEF c
  <2> QED
    BY <1>1, <1>2, <1>3 DEF ChildStep, Proceeds
<1>5. MaxSends \in Nat \ {0} /\ child[i].step \in Steps /\ child[i].attempt \in Nat
  BY <1>2, BatchAssumption DEF BatchAssumption, Children
<1>6. e \in [task : I, step : Steps, attempt : Nat, send : 1..MaxSends]
      /\ Request(e) \in [task : I, attempt : Nat, send : Nat]
  BY <1>5 DEF Request
<1>7. /\ execs' = execs \cup {e}
      /\ requests' \subseteq requests \cup {Request(e)}
      /\ UNCHANGED <<order, start, ledger, batch>>
  BY DEF Pick
<1> HIDE DEF c, e
<1>8. ServerInv' /\ Done \subseteq Done'
  BY <1>6, <1>7 DEF ledger, IInv, TypeInv, ServerInv, Done
<1> QED
  BY <1>4, <1>7, <1>8 DEF Quiet

LEMMA AttemptTimesOutQuiet ==
  ASSUME IInv, NEW i \in I, AttemptTimesOut(i)
  PROVE  Quiet
<1>1. Running(i) /\ child' = [child EXCEPT ![i] = AfterFailure(child[i])]
      /\ UNCHANGED <<order, start, ledger, batch, execs, requests>>
  BY DEF AttemptTimesOut
<1>2. ChildStep
  BY <1>1, TypeOf, FailureProceeds DEF ChildStep
<1> QED
  BY <1>1, <1>2 DEF ledger, Quiet, Done, IInv, TypeInv, ServerInv

LEMMA ScanEndsQuiet ==
  ASSUME IInv, NEW e \in execs, ScanEnds(e)
  PROVE  Quiet
<1>1. e.task \in I
  BY ServerFacts
<1>2. /\ e.step = "scan" /\ UNCHANGED <<order, start, ledger, batch, requests>>
      /\ Ends(e, AfterSuccess(child[e.task])) \/ Ends(e, AfterFailure(child[e.task]))
  BY DEF ScanEnds
<1>3. CASE Ends(e, AfterSuccess(child[e.task]))
  <2>1. Current(e) => /\ Proceeds(e.task, AfterSuccess(child[e.task]))
                      /\ AfterSuccess(child[e.task]).status # "completed"
    BY <1>1, <1>2, TypeOf, SuccessProceeds DEF Current
  <2>2. ChildStep /\ execs' \subseteq execs
    BY <1>3, <2>1, EndsChild
  <2> QED
    BY <1>2, <2>2 DEF ledger, Quiet, Done, IInv, TypeInv, ServerInv
<1>4. CASE Ends(e, AfterFailure(child[e.task]))
  <2>1. Current(e) => /\ Proceeds(e.task, AfterFailure(child[e.task]))
                      /\ AfterFailure(child[e.task]).status # "completed"
    BY <1>1, TypeOf, FailureProceeds DEF Current
  <2>2. ChildStep /\ execs' \subseteq execs
    BY <1>4, <2>1, EndsChild
  <2> QED
    BY <1>2, <2>2 DEF ledger, Quiet, Done, IInv, TypeInv, ServerInv
<1> QED
  BY <1>2, <1>3, <1>4

(* Attempts that end unheard: a cancelling heartbeat, a dead worker.       *)
LEMMA UnheardQuiet ==
  ASSUME IInv, WorkerDies \/ \E e \in execs : HeartbeatCancels(e)
  PROVE  Quiet
<1>1. execs' \subseteq execs /\ UNCHANGED <<order, start, ledger, batch, child, requests>>
  BY DEF WorkerDies, HeartbeatCancels
<1> QED
  BY <1>1 DEF ledger, ChildStep, Quiet, Done, IInv, TypeInv, ServerInv

(* A request that is answered, by success or failure.                      *)
LEMMA AnsweredChild ==
  ASSUME IInv, NEW q \in requests, NEW c, Answered(q, c),
         Running(q.task) => Proceeds(q.task, c),
         Running(q.task) /\ child[q.task].step = "upload" /\ c.status = "completed" => q.task \in Done'
  PROVE  ChildStep /\ execs' \subseteq execs
<1>1. CASE UNCHANGED <<execs, child>>
  BY <1>1 DEF ChildStep
<1>2. ASSUME NEW e \in execs, e.step = "upload", Request(e) = q, Ends(e, c)
      PROVE  ChildStep /\ execs' \subseteq execs
  <2>1. e.task = q.task
    BY <1>2 DEF Request
  <2>2. Current(e) => Proceeds(e.task, c) /\ (c.status = "completed" => e.task \in Done')
    BY <1>2, <2>1 DEF Current
  <2> QED
    BY <1>2, <2>2, EndsChild
<1> QED
  BY <1>1, <1>2 DEF Answered

LEMMA ServeQuiet ==
  ASSUME IInv, NEW q \in requests, Serve(q)
  PROVE  Quiet
<1>1. /\ requests' = requests \ {q} /\ open' = open \cup {q.task}
      /\ Answered(q, AfterSuccess(child[q.task]))
      /\ UNCHANGED <<order, start, store, applied, lost, batch>>
  BY DEF Serve
<1>2. q.task \in I /\ q.task \in Done' /\ Done \subseteq Done'
  BY <1>1, ServerFacts DEF Done
<1>3. Running(q.task) => Proceeds(q.task, AfterSuccess(child[q.task]))
  BY <1>2, TypeOf, SuccessProceeds
<1>4. ChildStep /\ execs' \subseteq execs
  BY <1>1, <1>2, <1>3, AnsweredChild
<1>5. ServerInv'
  BY <1>1, <1>2, <1>4 DEF IInv, TypeInv, ServerInv
<1> QED
  BY <1>1, <1>2, <1>4, <1>5 DEF Quiet

LEMMA RefuseQuiet ==
  ASSUME IInv, NEW q \in requests, Refuse(q)
  PROVE  Quiet
<1>1. /\ requests' = requests \ {q}
      /\ Answered(q, AfterFailure(child[q.task]))
      /\ UNCHANGED <<order, start, ledger, batch>>
  BY DEF Refuse
<1>2. q.task \in I
  BY ServerFacts
<1>3. Running(q.task) => /\ Proceeds(q.task, AfterFailure(child[q.task]))
                         /\ AfterFailure(child[q.task]).status # "completed"
  BY <1>2, TypeOf, FailureProceeds
<1>4. ChildStep /\ execs' \subseteq execs
  BY <1>1, <1>3, AnsweredChild
<1> QED
  BY <1>1, <1>4 DEF ledger, Quiet, Done, IInv, TypeInv, ServerInv

LEMMA CommitQuiet ==
  ASSUME IInv, NEW i \in open, Commit(i) \/ CommitLost(i)
  PROVE  Quiet
<1>1. UNCHANGED <<order, start, batch, child, execs, requests>>
  BY DEF Commit, CommitLost
<1>2. ServerInv' /\ Done \subseteq Done'
  BY <1>1, ServerFacts DEF Commit, CommitLost, Done, IInv, TypeInv, ServerInv
<1> QED
  BY <1>1, <1>2 DEF Quiet, ChildStep

(* No answer: the request is sent again, or the attempt fails.             *)
LEMMA NoAnswerQuiet ==
  ASSUME IInv, NEW e \in execs, NoAnswer(e)
  PROVE  Quiet
<1>1. e \in [task : I, step : Steps, attempt : Nat, send : 1..MaxSends] /\ MaxSends \in Nat
      /\ e.task \in I
  BY ServerFacts
<1>2. UNCHANGED <<order, start, ledger, batch>>
  BY DEF NoAnswer
<1>3. CASE e.send < MaxSends
  <2> DEFINE again == [e EXCEPT !.send = @ + 1]
  <2>1. /\ execs' = (execs \ {e}) \cup {again}
        /\ requests' = requests \cup {Request(again)} /\ UNCHANGED child
    BY <1>3 DEF NoAnswer
  <2>2. again \in [task : I, step : Steps, attempt : Nat, send : 1..MaxSends]
    BY <1>1, <1>3
  <2>3. Request(again) \in [task : I, attempt : Nat, send : Nat]
    BY <1>1, <2>2 DEF Request
  <2> HIDE DEF again
  <2> QED
    BY <1>2, <2>1, <2>2, <2>3 DEF ledger, ChildStep, Quiet, Done, IInv, TypeInv, ServerInv
<1>4. CASE ~(e.send < MaxSends)
  <2>1. Ends(e, AfterFailure(child[e.task])) /\ UNCHANGED requests
    BY <1>4 DEF NoAnswer
  <2>2. Current(e) => /\ Proceeds(e.task, AfterFailure(child[e.task]))
                      /\ AfterFailure(child[e.task]).status # "completed"
    BY <1>1, TypeOf, FailureProceeds DEF Current
  <2>3. ChildStep /\ execs' \subseteq execs
    BY <2>1, <2>2, EndsChild
  <2> QED
    BY <1>2, <2>1, <2>3 DEF ledger, Quiet, Done, IInv, TypeInv, ServerInv
<1> QED
  BY <1>3, <1>4

-----------------------------------------------------------------------------
(* The invariant holds initially.                                          *)

LEMMA InitInv == Init => IInv
<1> SUFFICES ASSUME Init
             PROVE  IInv
  OBVIOUS
<1>1. order \in [I -> Tasks]
  BY DEF Init, Bijection, Injection, I
<1>2. child = [i \in I |-> NotStarted]
  BY <1>1, OrderLength DEF Init
<1>3. NotStarted \in Children
  BY DEF NotStarted, Children, Statuses, Steps
<1>4. \A i \in I : /\ child[i].status = "none" /\ ~child[i].counted
                   /\ child[i].attempt = 1 /\ child[i].step = "scan"
  BY <1>2 DEF NotStarted
<1>5. TypeInv
  <2>1. batch \in Workflows /\ batch.next <= Cardinality(Tasks) + 1
    BY TasksFinite DEF Init, Workflows
  <2>2. \A i \in I : child[i].attempt <= MaxAttempts[child[i].step]
    BY <1>4, AttemptsPositive DEF Steps
  <2>3. ServerInv
    BY DEF Init, ServerInv
  <2>4. child \in [I -> Children]
    BY <1>2, <1>3
  <2> QED
    BY <1>1, <2>1, <2>2, <2>3, <2>4 DEF TypeInv
<1>6. CountedAs(TRUE) = {} /\ CountedAs(FALSE) = {} /\ RunningSet = {} /\ PendingSet = {}
  BY <1>4 DEF CountedAs, RunningSet, PendingSet
<1>7. Cardinality({}) = 0
  BY FS_EmptySet
<1>8. CountInv
  <2>1. batch.next = 1 /\ batch.completed = 0 /\ batch.failed = 0
    BY DEF Init
  <2>2. \A i \in I : i >= 1
    BY TasksFinite DEF I
  <2>3. Cardinality(CountedAs(TRUE)) = 0 /\ Cardinality(CountedAs(FALSE)) = 0
    BY <1>6, <1>7
  <2> QED
    BY <2>1, <2>2, <2>3, <1>4 DEF CountInv
<1>9. WindowInv
  BY <1>6, <1>7, BatchAssumption DEF BatchAssumption, WindowInv
<1>10. UploadInv
  BY <1>4 DEF UploadInv
<1>11. UnaskedInv
  BY <1>2 DEF UnaskedInv, NotStarted
<1> QED
  BY <1>5, <1>8, <1>9, <1>10, <1>11 DEF IInv

-----------------------------------------------------------------------------
(* The steps of the batch workflow.                                        *)

(* The next child starts: within the window, and never twice.              *)
LEMMA StartChildFacts ==
  ASSUME IInv, StartChild
  PROVE  /\ batch.next \in I /\ child[batch.next].status = "none" /\ ~child[batch.next].counted
         /\ child'[batch.next] = [child[batch.next] EXCEPT !.status = "running"]
         /\ \A j \in I : j # batch.next => child'[j] = child[j]
         /\ batch' = [batch EXCEPT !.next = @ + 1] /\ batch'.next = batch.next + 1
         /\ batch.status = "running" /\ batch'.status = "running"
         /\ Pending = PendingSet /\ Cardinality(PendingSet) < Window
         /\ PendingSet' = PendingSet \cup {batch.next} /\ batch.next \notin PendingSet
         /\ UNCHANGED <<order, start, ledger, execs, requests>>
<1>1. N = Cardinality(Tasks) /\ 1..N = I /\ Cardinality(Tasks) \in Nat
  BY OrderLength, TasksFinite DEF IInv, TypeInv
<1>2. /\ batch.next <= N /\ batch.status = "running" /\ Cardinality(Pending) < Window
      /\ child' = [child EXCEPT ![batch.next].status = "running"]
      /\ batch' = [batch EXCEPT !.next = @ + 1]
      /\ UNCHANGED <<order, start, ledger, execs, requests>>
  BY DEF StartChild
<1>3. batch.next \in Nat \ {0} /\ batch \in Workflows
  BY DEF IInv, TypeInv, Workflows
<1>4. batch.next \in I
  BY <1>1, <1>2, <1>3 DEF I
<1>5. child[batch.next].status = "none" /\ child[batch.next] \in Children
  BY <1>3, <1>4 DEF IInv, CountInv, TypeInv
<1>6. ~child[batch.next].counted
  BY <1>4, <1>5 DEF IInv, CountInv, HasClosed
<1>7. /\ child'[batch.next] = [child[batch.next] EXCEPT !.status = "running"]
      /\ \A j \in I : j # batch.next => child'[j] = child[j]
  BY <1>2, <1>4 DEF IInv, TypeInv
<1>8. batch'.next = batch.next + 1 /\ batch'.status = "running"
  BY <1>2, <1>3 DEF Workflows
<1>9. Pending = PendingSet
  BY <1>1 DEF Pending, PendingSet
<1>10. child'[batch.next].status = "running" /\ ~child'[batch.next].counted
  BY <1>5, <1>6, <1>7 DEF Children
<1>11. PendingSet' = PendingSet \cup {batch.next} /\ batch.next \notin PendingSet
  BY <1>4, <1>5, <1>6, <1>7, <1>10 DEF PendingSet
<1> QED
  BY <1>2, <1>4, <1>5, <1>6, <1>7, <1>8, <1>9, <1>11

LEMMA StartChildInv ==
  ASSUME IInv, StartChild
  PROVE  IInv'
<1> DEFINE i == batch.next
<1>1. /\ i \in I /\ child[i].status = "none" /\ ~child[i].counted
      /\ \A j \in I : j # i => child'[j] = child[j]
      /\ batch.status = "running"
      /\ UNCHANGED <<order, ledger, execs, requests>>
  BY StartChildFacts
<1>2. child[i] \in Children /\ batch \in Workflows
  BY <1>1 DEF IInv, TypeInv
<1>3. /\ child'[i] \in Children /\ child'[i].status = "running"
      /\ child'[i].counted = child[i].counted
      /\ child'[i].step = child[i].step /\ child'[i].attempt = child[i].attempt
  BY <1>2, StartChildFacts DEF Children, Statuses
<1>4. /\ batch' \in Workflows /\ batch'.next = i + 1 /\ batch'.status = batch.status
      /\ batch'.completed = batch.completed /\ batch'.failed = batch.failed
  BY <1>2, StartChildFacts DEF Workflows
<1>5. i \in Nat /\ i <= Cardinality(Tasks) /\ Cardinality(Tasks) \in Nat
  BY <1>1, TasksFinite DEF I
<1>6. TypeInv'
  <2>1. child' \in [I -> Children] /\ \A j \in I : child'[j].attempt <= MaxAttempts[child'[j].step]
    <3>1. child' \in [I -> Children]
      BY <1>1, <1>3 DEF StartChild, IInv, TypeInv
    <3> QED
      BY <3>1, <1>1, <1>3 DEF IInv, TypeInv
  <2>2. batch'.next <= Cardinality(Tasks) + 1
    BY <1>4, <1>5
  <2>3. ServerInv'
    BY <1>1 DEF ledger, IInv, TypeInv, ServerInv
  <2> QED
    BY <1>1, <1>4, <2>1, <2>2, <2>3 DEF IInv, TypeInv
<1>7. CountInv'
  <2>1. \A j \in I : j >= batch'.next <=> child'[j].status = "none"
    <3> SUFFICES ASSUME NEW j \in I
                 PROVE  j >= batch'.next <=> child'[j].status = "none"
      OBVIOUS
    <3>1. j \in Nat /\ (j >= i <=> child[j].status = "none")
      BY DEF IInv, CountInv, I
    <3> QED
      BY <1>1, <1>3, <1>4, <1>5, <3>1
  <2>2. \A j \in I : child'[j].counted => HasClosed(j)'
    BY <1>1, <1>3 DEF IInv, CountInv, HasClosed
  <2>3. CountedAs(TRUE)' = CountedAs(TRUE) /\ CountedAs(FALSE)' = CountedAs(FALSE)
    BY <1>1, <1>3 DEF CountedAs
  <2> QED
    BY <1>4, <2>1, <2>2, <2>3 DEF IInv, CountInv
<1>8. WindowInv'
  <2>1. Cardinality(PendingSet') = Cardinality(PendingSet) + 1
    <3>1. PendingSet \subseteq I
      BY DEF PendingSet
    <3> QED
      BY <3>1, StartChildFacts, OneTaskMore
  <2>2. Cardinality(PendingSet) \in Nat /\ Window \in Nat
    BY TasksFinite, BatchAssumption DEF BatchAssumption, PendingSet
  <2>3. Cardinality(PendingSet') <= Window
    BY <2>1, <2>2, StartChildFacts
  <2>4. RunningSet' \subseteq PendingSet' /\ PendingSet' \subseteq I
    <3>1. \A j \in I : child[j].status = "running" => ~child[j].counted
      BY DEF IInv, CountInv, HasClosed
    <3> QED
      BY <3>1, <1>1, <1>3 DEF RunningSet, PendingSet
  <2>5. Cardinality(RunningSet') <= Cardinality(PendingSet')
    BY <2>4, Smaller
  <2>6. Cardinality(RunningSet') \in Nat /\ Cardinality(PendingSet') \in Nat
    BY <2>4, TasksFinite
  <2>7. Cardinality(RunningSet') <= Window
    BY <2>2, <2>3, <2>5, <2>6
  <2> QED
    BY <2>3, <2>7 DEF WindowInv
<1>9. UploadInv'
  BY <1>1, <1>3 DEF ledger, Done, IInv, UploadInv
<1>10. UnaskedInv'
  BY <1>1, <1>3 DEF IInv, UnaskedInv
<1> QED
  BY <1>6, <1>7, <1>8, <1>9, <1>10 DEF IInv

(* A closed child is counted, once, as what it is.                         *)
LEMMA CountFacts ==
  ASSUME IInv, NEW i \in I, Count(i)
  PROVE  /\ batch.status = "running" /\ batch'.status = "running" /\ HasClosed(i)
         /\ ~child[i].counted /\ child'[i].counted /\ child'[i].status = child[i].status
         /\ child'[i].cancel = child[i].cancel
         /\ child' \in [I -> Children] /\ batch' \in Workflows /\ batch'.next = batch.next
         /\ child'[i].step = child[i].step /\ child'[i].attempt = child[i].attempt
         /\ \A j \in I : j # i => child'[j] = child[j]
         /\ batch'.cancel = batch.cancel
         /\ batch'.completed = batch.completed + (IF child[i].status = "completed" THEN 1 ELSE 0)
         /\ batch'.failed = batch.failed + (IF child[i].status = "completed" THEN 0 ELSE 1)
         /\ UNCHANGED <<order, start, ledger, execs, requests>>
<1>1. /\ batch.status = "running" /\ HasClosed(i) /\ ~child[i].counted
      /\ batch' = IF child[i].status = "completed" THEN [batch EXCEPT !.completed = @ + 1]
                                                   ELSE [batch EXCEPT !.failed = @ + 1]
      /\ child' = [child EXCEPT ![i].counted = TRUE]
      /\ UNCHANGED <<order, start, ledger, execs, requests>>
  BY DEF Count
<1>2. child \in [I -> Children] /\ batch \in Workflows /\ child[i] \in Children
  BY DEF IInv, TypeInv
<1>3. /\ child' \in [I -> Children] /\ child'[i] = [child[i] EXCEPT !.counted = TRUE]
      /\ \A j \in I : j # i => child'[j] = child[j]
  BY <1>1, <1>2 DEF Children
<1>4. /\ child'[i].counted /\ child'[i].status = child[i].status
      /\ child'[i].cancel = child[i].cancel
      /\ child'[i].step = child[i].step /\ child'[i].attempt = child[i].attempt
  BY <1>2, <1>3 DEF Children
<1>5. /\ batch' \in Workflows /\ batch'.next = batch.next /\ batch'.status = batch.status
      /\ batch'.cancel = batch.cancel
      /\ batch'.completed = batch.completed + (IF child[i].status = "completed" THEN 1 ELSE 0)
      /\ batch'.failed = batch.failed + (IF child[i].status = "completed" THEN 0 ELSE 1)
  <2>1. CASE child[i].status = "completed"
    BY <2>1, <1>1, <1>2 DEF Workflows
  <2>2. CASE child[i].status # "completed"
    BY <2>2, <1>1, <1>2 DEF Workflows
  <2> QED
    BY <2>1, <2>2
<1> QED
  BY <1>1, <1>3, <1>4, <1>5

LEMMA CountStepInv ==
  ASSUME IInv, NEW i \in I, Count(i)
  PROVE  IInv'
<1>1. UNCHANGED <<order, ledger, execs, requests>>
  BY CountFacts
<1>2. TypeInv'
  <2>1. \A j \in I : child'[j].attempt <= MaxAttempts[child'[j].step]
    BY CountFacts DEF IInv, TypeInv
  <2>2. ServerInv'
    BY <1>1 DEF ledger, IInv, TypeInv, ServerInv
  <2> QED
    BY <1>1, <2>1, <2>2, CountFacts DEF IInv, TypeInv
<1>3. CountInv'
  <2>1. CASE child[i].status = "completed"
    <3>1. CountedAs(TRUE)' = CountedAs(TRUE) \cup {i} /\ i \notin CountedAs(TRUE)
          /\ CountedAs(FALSE)' = CountedAs(FALSE)
      BY <2>1, CountFacts DEF CountedAs
    <3>2. CountedAs(TRUE) \subseteq I
      BY DEF CountedAs
    <3>3. Cardinality(CountedAs(TRUE)') = Cardinality(CountedAs(TRUE)) + 1
      BY <3>1, <3>2, OneTaskMore
    <3>4. batch'.completed = batch.completed + 1 /\ batch'.failed = batch.failed
      BY <2>1, CountFacts DEF IInv, TypeInv, Workflows
    <3>5. batch'.completed = Cardinality(CountedAs(TRUE)')
          /\ batch'.failed = Cardinality(CountedAs(FALSE)')
      BY <3>1, <3>3, <3>4 DEF IInv, CountInv
    <3> QED
      BY <3>5, CountFacts DEF IInv, CountInv, HasClosed
  <2>2. CASE child[i].status # "completed"
    <3>1. CountedAs(FALSE)' = CountedAs(FALSE) \cup {i} /\ i \notin CountedAs(FALSE)
          /\ CountedAs(TRUE)' = CountedAs(TRUE)
      BY <2>2, CountFacts DEF CountedAs
    <3>2. CountedAs(FALSE) \subseteq I
      BY DEF CountedAs
    <3>3. Cardinality(CountedAs(FALSE)') = Cardinality(CountedAs(FALSE)) + 1
      BY <3>1, <3>2, OneTaskMore
    <3>4. batch'.failed = batch.failed + 1 /\ batch'.completed = batch.completed
      BY <2>2, CountFacts DEF IInv, TypeInv, Workflows
    <3>5. batch'.completed = Cardinality(CountedAs(TRUE)')
          /\ batch'.failed = Cardinality(CountedAs(FALSE)')
      BY <3>1, <3>3, <3>4 DEF IInv, CountInv
    <3> QED
      BY <3>5, CountFacts DEF IInv, CountInv, HasClosed
  <2> QED
    BY <2>1, <2>2
<1>4. WindowInv'
  <2>1. PendingSet' \subseteq PendingSet /\ RunningSet' = RunningSet
    BY CountFacts DEF PendingSet, RunningSet
  <2>2. PendingSet \subseteq I
    BY DEF PendingSet
  <2>3. /\ Cardinality(PendingSet') <= Cardinality(PendingSet)
        /\ Cardinality(PendingSet') \in Nat /\ Cardinality(PendingSet) \in Nat /\ Window \in Nat
    BY <2>1, <2>2, Smaller, TasksFinite, BatchAssumption DEF BatchAssumption
  <2>4. Cardinality(PendingSet) <= Window
    BY CountFacts DEF IInv, WindowInv
  <2>5. Cardinality(PendingSet') <= Window
    BY <2>3, <2>4
  <2> QED
    BY <2>1, <2>5 DEF IInv, WindowInv
<1>5. UploadInv'
  BY <1>1, CountFacts DEF ledger, Done, IInv, UploadInv
<1>6. UnaskedInv'
  BY CountFacts DEF IInv, UnaskedInv
<1> QED
  BY <1>2, <1>3, <1>4, <1>5, <1>6 DEF IInv

(* The batch completes, is asked to stop, or stops: no child goes on, but  *)
(* those that run may be asked to stop.                                    *)
LEMMA FlagsMove ==
  ASSUME IInv, UNCHANGED <<order, ledger, execs, requests>>,
         batch' \in Workflows, batch'.next = batch.next,
         batch'.completed = batch.completed, batch'.failed = batch.failed,
         batch'.status = "running" => batch.status = "running",
         child' \in [I -> Children],
         \A j \in I : /\ child'[j].status = child[j].status
                      /\ child'[j].counted = child[j].counted
                      /\ child'[j].step = child[j].step
                      /\ child'[j].attempt = child[j].attempt
                      /\ child'[j].cancel = child[j].cancel \/ child[j].status # "none"
  PROVE  IInv'
<1>1. ServerInv' /\ Done' = Done
  BY DEF ledger, Done, IInv, TypeInv, ServerInv
<1>2. TypeInv'
  BY <1>1 DEF IInv, TypeInv
<1>3. /\ PendingSet' = PendingSet /\ RunningSet' = RunningSet
      /\ CountedAs(TRUE)' = CountedAs(TRUE) /\ CountedAs(FALSE)' = CountedAs(FALSE)
  BY DEF PendingSet, RunningSet, CountedAs
<1>4. CountInv'
  BY <1>3 DEF IInv, CountInv, HasClosed
<1>5. WindowInv' /\ UploadInv'
  BY <1>1, <1>3 DEF IInv, WindowInv, UploadInv
<1>6. UnaskedInv'
  BY DEF IInv, UnaskedInv
<1> QED
  BY <1>2, <1>4, <1>5, <1>6 DEF IInv

LEMMA FinishInv ==
  ASSUME IInv, Finish \/ RequestCancel
  PROVE  IInv'
<1>1. batch \in Workflows /\ child \in [I -> Children]
  BY DEF IInv, TypeInv
<1>2. CASE Finish
  <2>1. batch' = [batch EXCEPT !.status = "completed"]
        /\ UNCHANGED <<order, start, ledger, child, execs, requests>>
    BY <1>2 DEF Finish
  <2>2. /\ batch' \in Workflows /\ batch'.next = batch.next /\ batch'.status = "completed"
        /\ batch'.completed = batch.completed /\ batch'.failed = batch.failed
    BY <1>1, <2>1 DEF Workflows
  <2> QED
    BY <1>1, <2>1, <2>2, FlagsMove
<1>3. CASE RequestCancel
  <2>1. batch' = [batch EXCEPT !.cancel = TRUE]
        /\ UNCHANGED <<order, start, ledger, child, execs, requests>>
    BY <1>3 DEF RequestCancel
  <2>2. /\ batch' \in Workflows /\ batch'.next = batch.next /\ batch'.status = batch.status
        /\ batch'.completed = batch.completed /\ batch'.failed = batch.failed
    BY <1>1, <2>1 DEF Workflows
  <2> QED
    BY <1>1, <2>1, <2>2, FlagsMove
<1> QED
  BY <1>2, <1>3

(* What a signal leaves of a child.                                        *)
LEMMA CancelFlag ==
  ASSUME NEW c \in Children
  PROVE  LET d == [c EXCEPT !.cancel = TRUE]
         IN  /\ d \in Children /\ d.cancel /\ d.status = c.status /\ d.counted = c.counted
             /\ d.step = c.step /\ d.attempt = c.attempt
BY DEF Children

LEMMA CloseBatchInv ==
  ASSUME IInv, CloseBatch
  PROVE  IInv'
<1>1. batch \in Workflows /\ child \in [I -> Children] /\ 1..N = I
  BY OrderLength DEF IInv, TypeInv
<1>2. batch' = [batch EXCEPT !.status = "canceled"] /\ child' = Signalled
      /\ UNCHANGED <<order, start, ledger, execs, requests>>
  BY DEF CloseBatch
<1>3. /\ batch' \in Workflows /\ batch'.next = batch.next /\ batch'.status = "canceled"
      /\ batch'.completed = batch.completed /\ batch'.failed = batch.failed
  BY <1>1, <1>2 DEF Workflows
<1>4. child' = [i \in I |-> IF Running(i) THEN [child[i] EXCEPT !.cancel = TRUE] ELSE child[i]]
  BY <1>1, <1>2 DEF Signalled
<1>5. \A j \in I : /\ child'[j] \in Children /\ child'[j].status = child[j].status
                   /\ child'[j].counted = child[j].counted
                   /\ child'[j].step = child[j].step
                   /\ child'[j].attempt = child[j].attempt
                   /\ child'[j].cancel = child[j].cancel \/ child[j].status # "none"
  BY <1>1, <1>4, CancelFlag DEF Running
<1>6. child' \in [I -> Children]
  BY <1>4, <1>5
<1> QED
  BY <1>2, <1>3, <1>5, <1>6, FlagsMove

LEMMA CancelIpInv ==
  ASSUME IInv, NEW i \in I, CancelIp(i)
  PROVE  IInv'
<1>1. batch \in Workflows /\ child \in [I -> Children] /\ child[i] \in Children
  BY DEF IInv, TypeInv
<1>2. child' = [child EXCEPT ![i].cancel = TRUE]
      /\ UNCHANGED <<order, start, ledger, batch, execs, requests>>
  BY DEF CancelIp
<1>3. child'[i] = [child[i] EXCEPT !.cancel = TRUE]
      /\ \A j \in I : j # i => child'[j] = child[j]
  BY <1>1, <1>2
<1>4. \A j \in I : /\ child'[j] \in Children /\ child'[j].status = child[j].status
                   /\ child'[j].counted = child[j].counted
                   /\ child'[j].step = child[j].step
                   /\ child'[j].attempt = child[j].attempt
                   /\ child'[j].cancel = child[j].cancel \/ child[j].status # "none"
  <2>1. /\ child'[i] \in Children /\ child'[i].status = child[i].status
        /\ child'[i].counted = child[i].counted
        /\ child'[i].step = child[i].step /\ child'[i].attempt = child[i].attempt
    BY <1>1, <1>3, CancelFlag
  <2>2. \A j \in I : child[j] \in Children
    BY <1>1
  <2>3. child[i].status # "none"
    BY DEF CancelIp, Running
  <2> QED
    BY <1>3, <2>1, <2>2, <2>3
<1>5. child' \in [I -> Children]
  <2>1. [child[i] EXCEPT !.cancel = TRUE] \in Children
    BY <1>1, CancelFlag
  <2>2. child' = [child EXCEPT ![i] = [child[i] EXCEPT !.cancel = TRUE]]
    BY <1>2
  <2> QED
    BY <1>1, <2>1, <2>2
<1>6. UNCHANGED <<order, ledger, execs, requests>> /\ UNCHANGED batch
  BY <1>2
<1> QED
  BY <1>1, <1>4, <1>5, <1>6, FlagsMove

-----------------------------------------------------------------------------
(* Every step keeps the invariant.                                         *)

(* The steps of workers, timers and scanledger.                            *)
QuietSteps ==
  \/ \E i \in I : CloseChild(i) \/ Pick(i) \/ AttemptTimesOut(i)
  \/ \E e \in execs : ScanEnds(e) \/ HeartbeatCancels(e) \/ NoAnswer(e)
  \/ \E q \in requests : Serve(q) \/ Refuse(q)
  \/ \E i \in open : Commit(i) \/ CommitLost(i)
  \/ WorkerDies

LEMMA QuietStepsQuiet == IInv /\ QuietSteps => Quiet
BY CloseChildQuiet, PickQuiet, AttemptTimesOutQuiet, ScanEndsQuiet, UnheardQuiet,
   NoAnswerQuiet, ServeQuiet, RefuseQuiet, CommitQuiet DEF QuietSteps

LEMMA StepCases ==
  ASSUME IInv, Next
  PROVE  \/ StartChild \/ Finish \/ CloseBatch \/ RequestCancel \/ QuietSteps
         \/ \E i \in I : Count(i) \/ CancelIp(i)
<1>1. 1..N = I
  BY OrderLength DEF IInv, TypeInv
<1> QED
  BY <1>1 DEF Next, BatchStep, QuietSteps

LEMMA NextInv == IInv /\ [Next]_vars => IInv'
<1> SUFFICES ASSUME IInv, [Next]_vars
             PROVE  IInv'
  OBVIOUS
<1>1. CASE UNCHANGED vars
  <2>1. ChildStep /\ UNCHANGED <<order, batch>> /\ ServerInv' /\ Done \subseteq Done'
    BY <1>1 DEF vars, ledger, ChildStep, IInv, TypeInv, ServerInv, Done
  <2> QED
    BY <2>1, ChildStepInv
<1>2. CASE Next
  <2>1. CASE QuietSteps
    BY <2>1, QuietStepsQuiet, ChildStepInv DEF Quiet
  <2> QED
    BY <1>2, <2>1, StepCases, StartChildInv, CountStepInv, FinishInv, CloseBatchInv, CancelIpInv
<1> QED
  BY <1>1, <1>2

(* The invariant always holds.                                             *)
LEMMA Invariant == Spec => []IInv
BY InitInv, NextInv, PTL DEF Spec

-----------------------------------------------------------------------------
(* Every reachable state is well typed: children start in order, no        *)
(* activity is attempted more often than allowed, and the two counters of  *)
(* the batch add up to the children it has counted.                        *)
THEOREM TypeCorrect == Spec => []TypeOK
<1>1. IInv => TypeOK
  <2> SUFFICES ASSUME IInv
               PROVE  TypeOK
    OBVIOUS
  <2>1. N = Cardinality(Tasks) /\ 1..N = I /\ Cardinality(Tasks) \in Nat
    BY OrderLength, TasksFinite DEF IInv, TypeInv
  <2>2. order \in [1..N -> Tasks]
    BY <2>1 DEF IInv, TypeInv
  <2>3. batch.status \in Statuses \ {"none", "failed"} /\ batch.next \in 1..(N + 1)
    BY <2>1 DEF IInv, TypeInv, Workflows, Statuses
  <2>4. ASSUME NEW i \in 1..N
        PROVE  /\ child[i].status \in Statuses
               /\ child[i].attempt \in 1..MaxAttempts[child[i].step]
               /\ i >= batch.next <=> child[i].status = "none"
    <3>1. /\ child[i] \in Children /\ child[i].attempt <= MaxAttempts[child[i].step]
          /\ (i >= batch.next <=> child[i].status = "none")
      BY <2>1 DEF IInv, TypeInv, CountInv
    <3>2. child[i].status \in Statuses /\ child[i].attempt \in Nat \ {0}
          /\ MaxAttempts[child[i].step] \in Nat
      BY <3>1, AttemptsPositive DEF Children
    <3> QED
      BY <3>1, <3>2
  <2>5. batch.completed + batch.failed = Cardinality({i \in 1..N : child[i].counted})
    <3>1. {i \in 1..N : child[i].counted} = CountedAs(TRUE) \cup CountedAs(FALSE)
          /\ CountedAs(TRUE) \cap CountedAs(FALSE) = {}
      BY <2>1 DEF CountedAs
    <3>2. CountedAs(TRUE) \subseteq I /\ CountedAs(FALSE) \subseteq I
      BY DEF CountedAs
    <3>3. IsFiniteSet(CountedAs(TRUE)) /\ IsFiniteSet(CountedAs(FALSE))
      BY <3>2, TasksFinite
    <3>4. Cardinality(CountedAs(TRUE) \cup CountedAs(FALSE)) =
            Cardinality(CountedAs(TRUE)) + Cardinality(CountedAs(FALSE))
      BY <3>1, <3>3, DisjointUnion
    <3> QED
      BY <3>1, <3>4 DEF IInv, CountInv
  <2>6. \A e \in execs : e.send \in 1..MaxSends
    BY ServerFacts
  <2>7. applied \cup open \cup lost \subseteq 1..N
    BY <2>1, ServerFacts
  <2> QED
    BY <2>2, <2>3, <2>4, <2>5, <2>6, <2>7 DEF TypeOK
<1> QED
  BY <1>1, Invariant, PTL

(* The progress a batch reports is not ahead of scanledger, and the window *)
(* holds, however attempts, uploads and workers fail.                      *)
THEOREM HonestProgress == Spec => []ProgressIsHonest
<1>1. IInv => ProgressIsHonest
  <2> SUFFICES ASSUME IInv
               PROVE  ProgressIsHonest
    OBVIOUS
  <2>1. 1..N = I
    BY OrderLength DEF IInv, TypeInv
  <2>2. \A i \in I : child[i].status = "completed" => i \in Done
    BY DEF IInv, UploadInv
  <2>3. CountedAs(TRUE) \subseteq Done /\ Done \subseteq I
    BY <2>2, ServerFacts DEF CountedAs, Done
  <2>4. batch.completed <= Cardinality(Done)
    BY <2>3, Smaller DEF IInv, CountInv
  <2>5. Cardinality({i \in I : Running(i)}) <= Window
    BY DEF IInv, WindowInv, RunningSet, Running
  <2> QED
    BY <2>1, <2>2, <2>4, <2>5 DEF ProgressIsHonest, Done
<1> QED
  BY <1>1, Invariant, PTL

-----------------------------------------------------------------------------
(* What the clients of the batch see of its steps.                         *)

Waiting == IF batch.status = "running" THEN {i \in I : child[i].status = "none"} ELSE {}
Outstanding == IF batch.status = "running" THEN PendingSet ELSE RunningSet
Asked == {i \in Outstanding : child[i].cancel}

(* A view is what its parts are.                                           *)
IsView(v) ==
  /\ DOMAIN v = {"status", "active", "queued", "stopping", "total", "completed", "failed",
                 "signalled"}
  /\ v = [part \in DOMAIN v |-> v[part]]

LEMMA SameView ==
  ASSUME NEW u, IsView(u), NEW v, IsView(v),
         /\ u.status = v.status /\ u.active = v.active /\ u.queued = v.queued
         /\ u.stopping = v.stopping /\ u.total = v.total /\ u.completed = v.completed
         /\ u.failed = v.failed /\ u.signalled = v.signalled
  PROVE  u = v
BY DEF IsView

LEMMA ViewOf ==
  ASSUME IInv, UNCHANGED order
  PROVE  /\ IsView(View) /\ IsView(View')
         /\ View.status = batch.status /\ View.active = Outstanding
         /\ View.queued = Waiting /\ View.stopping = Asked
         /\ View.total = Cardinality(Tasks) /\ View.completed = batch.completed
         /\ View.failed = batch.failed /\ View.signalled = batch.cancel
         /\ View'.status = batch'.status /\ View'.active = Outstanding'
         /\ View'.queued = Waiting' /\ View'.stopping = Asked'
         /\ View'.total = Cardinality(Tasks) /\ View'.completed = batch'.completed
         /\ View'.failed = batch'.failed /\ View'.signalled = batch'.cancel
<1>1. 1..N = I /\ N = Cardinality(Tasks) /\ N' = N
  BY OrderLength DEF IInv, TypeInv, N
<1>2. Active = Outstanding /\ Active' = Outstanding'
  BY <1>1 DEF Active, Outstanding, Pending, PendingSet, Running, RunningSet
<1>3. {i \in Active : child[i].cancel} = Asked
      /\ {i \in Active' : child'[i].cancel} = Asked'
  BY <1>2 DEF Asked
<1>4. IsView(View) /\ IsView(View')
  BY DEF IsView, View
<1>5. /\ View.status = batch.status /\ View.active = Outstanding
      /\ View.queued = Waiting /\ View.stopping = Asked
      /\ View.total = Cardinality(Tasks) /\ View.completed = batch.completed
      /\ View.failed = batch.failed /\ View.signalled = batch.cancel
  BY <1>1, <1>2, <1>3 DEF View, Waiting
<1>6. /\ View'.status = batch'.status /\ View'.active = Outstanding'
      /\ View'.queued = Waiting' /\ View'.stopping = Asked'
      /\ View'.total = Cardinality(Tasks) /\ View'.completed = batch'.completed
      /\ View'.failed = batch'.failed /\ View'.signalled = batch'.cancel
  BY <1>1, <1>2, <1>3 DEF View, Waiting
<1> QED
  BY <1>4, <1>5, <1>6

(* A view with the right parts is what a step of the outline leaves.       *)
LEMMA StartIs ==
  ASSUME NEW u, IsView(u), NEW v, IsView(v), NEW t,
         /\ u.status = v.status /\ u.active = v.active \cup {t} /\ u.queued = v.queued \ {t}
         /\ u.stopping = v.stopping /\ u.total = v.total /\ u.completed = v.completed
         /\ u.failed = v.failed /\ u.signalled = v.signalled
  PROVE  u = Outline!Start(v, t)
<1> DEFINE w == Outline!Start(v, t)
<1>1. IsView(w)
  BY DEF IsView, Outline!Start
<1>2. /\ w.status = v.status /\ w.active = v.active \cup {t} /\ w.queued = v.queued \ {t}
      /\ w.stopping = v.stopping /\ w.total = v.total /\ w.completed = v.completed
      /\ w.failed = v.failed /\ w.signalled = v.signalled
  BY DEF IsView, Outline!Start
<1> HIDE DEF w
<1>3. u = w
  BY <1>1, <1>2, SameView
<1> QED
  BY <1>3 DEF w

LEMMA EndIs ==
  ASSUME NEW u, IsView(u), NEW v, IsView(v), NEW t, NEW ok \in BOOLEAN,
         /\ u.status = v.status /\ u.active = v.active \ {t} /\ u.queued = v.queued
         /\ u.stopping = v.stopping \ {t} /\ u.total = v.total
         /\ u.completed = IF v.status = "running" /\ ok THEN v.completed + 1 ELSE v.completed
         /\ u.failed = IF v.status = "running" /\ ~ok THEN v.failed + 1 ELSE v.failed
         /\ u.signalled = v.signalled
  PROVE  u = Outline!End(v, t, ok)
<1> DEFINE w == Outline!End(v, t, ok)
<1>1. IsView(w)
  BY DEF IsView, Outline!End, Outline!IsRunning
<1>2. /\ w.status = v.status /\ w.active = v.active \ {t} /\ w.queued = v.queued
      /\ w.stopping = v.stopping \ {t} /\ w.total = v.total
      /\ w.completed = IF v.status = "running" /\ ok THEN v.completed + 1 ELSE v.completed
      /\ w.failed = IF v.status = "running" /\ ~ok THEN v.failed + 1 ELSE v.failed
      /\ w.signalled = v.signalled
  BY DEF IsView, Outline!End, Outline!IsRunning
<1> HIDE DEF w
<1>3. u = w
  BY <1>1, <1>2, SameView
<1> QED
  BY <1>3 DEF w

LEMMA ClosedByIs ==
  ASSUME NEW u, IsView(u), NEW v, IsView(v), NEW left, NEW status,
         /\ u.status = status /\ u.active = left /\ u.queued = {} /\ u.stopping = left
         /\ u.total = v.total /\ u.completed = v.completed /\ u.failed = v.failed
         /\ u.signalled = v.signalled
  PROVE  u = Outline!ClosedBy([v EXCEPT !.active = left], status)
<1> DEFINE w == Outline!ClosedBy([v EXCEPT !.active = left], status)
<1>1. IsView(w)
  BY DEF IsView, Outline!ClosedBy
<1>2. /\ w.status = status /\ w.active = left /\ w.queued = {} /\ w.stopping = left
      /\ w.total = v.total /\ w.completed = v.completed /\ w.failed = v.failed
      /\ w.signalled = v.signalled
  BY DEF IsView, Outline!ClosedBy
<1> HIDE DEF w
<1>3. u = w
  BY <1>1, <1>2, SameView
<1> QED
  BY <1>3 DEF w

(* Steps that change one part.                                             *)
LEMMA StatusMoves ==
  ASSUME NEW u, IsView(u), NEW v, IsView(v),
         /\ u.active = v.active /\ u.queued = v.queued /\ u.stopping = v.stopping /\ u.total = v.total
         /\ u.completed = v.completed /\ u.failed = v.failed /\ u.signalled = v.signalled
  PROVE  u = [v EXCEPT !.status = u.status]
BY DEF IsView

LEMMA SignalMoves ==
  ASSUME NEW u, IsView(u), NEW v, IsView(v),
         /\ u.status = v.status /\ u.active = v.active /\ u.queued = v.queued /\ u.stopping = v.stopping
         /\ u.total = v.total /\ u.completed = v.completed /\ u.failed = v.failed
  PROVE  u = [v EXCEPT !.signalled = u.signalled]
BY DEF IsView

LEMMA StopsMove ==
  ASSUME NEW u, IsView(u), NEW v, IsView(v),
         /\ u.status = v.status /\ u.active = v.active /\ u.queued = v.queued /\ u.total = v.total
         /\ u.completed = v.completed /\ u.failed = v.failed /\ u.signalled = v.signalled
  PROVE  u = [v EXCEPT !.stopping = u.stopping]
BY DEF IsView

(* BatchOutline has the same cardinalities.                                *)
LEMMA OutlineCardinality ==
  ASSUME NEW S
  PROVE  Outline!Cardinality(S) = Cardinality(S)
BY DEF Cardinality, Outline!Cardinality

(* A running child is outstanding, whether or not its batch is running.    *)
LEMMA RunningOutstanding ==
  ASSUME IInv
  PROVE  RunningSet \subseteq PendingSet /\ RunningSet \subseteq Outstanding
BY DEF IInv, CountInv, HasClosed, RunningSet, PendingSet, Outstanding

LEMMA StartChildSeen ==
  ASSUME IInv, StartChild
  PROVE  Outline!StartChild
<1> DEFINE t == batch.next
<1>1. /\ t \in I /\ batch.status = "running" /\ batch'.status = "running"
      /\ child[t].status = "none" /\ Cardinality(PendingSet) < Window
      /\ PendingSet' = PendingSet \cup {t} /\ UNCHANGED order
      /\ \A j \in I : j # t => child'[j] = child[j]
  BY StartChildFacts
<1>2. /\ batch'.completed = batch.completed /\ batch'.failed = batch.failed
      /\ batch'.cancel = batch.cancel
  BY StartChildFacts DEF IInv, TypeInv, Workflows
<1>3. child'[t].status = "running" /\ ~child'[t].cancel
  BY <1>1, StartChildFacts DEF IInv, TypeInv, UnaskedInv, Children
<1>4. /\ Outstanding = PendingSet /\ Outstanding' = Outstanding \cup {t}
      /\ t \in Waiting /\ Waiting' = Waiting \ {t}
  BY <1>1, <1>3 DEF Outstanding, Waiting
<1>5. Asked' = Asked
  <2>1. t \notin Outstanding
    BY <1>4, StartChildFacts
  <2> QED
    BY <1>1, <1>3, <1>4, <2>1 DEF Asked, PendingSet
<1> HIDE DEF t
<1>6. View' = Outline!Start(View, t)
  <2>1. IsView(View) /\ IsView(View')
    BY <1>1, ViewOf
  <2>2. /\ View'.status = View.status /\ View'.active = View.active \cup {t}
        /\ View'.queued = View.queued \ {t} /\ View'.stopping = View.stopping
        /\ View'.total = View.total /\ View'.completed = View.completed
        /\ View'.failed = View.failed /\ View'.signalled = View.signalled
    BY <1>1, <1>2, <1>4, <1>5, ViewOf
  <2> QED
    BY <2>1, <2>2, StartIs
<1>7. View.status = "running" /\ View.active = PendingSet /\ t \in View.queued
  BY <1>1, <1>4, ViewOf
<1> QED
  BY <1>1, <1>6, <1>7, OutlineCardinality
     DEF Outline!StartChild, Outline!CanStart, Outline!IsRunning, I

LEMMA CountSeen ==
  ASSUME IInv, NEW i \in I, Count(i)
  PROVE  Outline!ChildEnds
<1> DEFINE ok == child[i].status = "completed"
<1>1. /\ i \in PendingSet /\ PendingSet' = PendingSet \ {i}
      /\ \A j \in I : child'[j].status = child[j].status /\ child'[j].cancel = child[j].cancel
  BY CountFacts DEF PendingSet, HasClosed
<1>2. /\ Outstanding = PendingSet /\ Outstanding' = Outstanding \ {i}
      /\ Waiting' = Waiting
  BY <1>1, CountFacts DEF Outstanding, Waiting
<1>3. Asked' = Asked \ {i}
  BY <1>1, <1>2 DEF Asked, PendingSet
<1>4. /\ batch'.completed = IF ok THEN batch.completed + 1 ELSE batch.completed
      /\ batch'.failed = IF ~ok THEN batch.failed + 1 ELSE batch.failed
  BY CountFacts DEF IInv, TypeInv, Workflows
<1>5. ok \in BOOLEAN /\ UNCHANGED order /\ batch.status = "running"
      /\ batch'.status = "running" /\ batch'.cancel = batch.cancel
  BY CountFacts
<1> HIDE DEF ok
<1>6. View.status = "running"
  BY <1>5, ViewOf
<1>7. View' = Outline!End(View, i, ok)
  <2>1. IsView(View) /\ IsView(View')
    BY <1>5, ViewOf
  <2>2. /\ View'.status = View.status /\ View'.active = View.active \ {i}
        /\ View'.queued = View.queued /\ View'.stopping = View.stopping \ {i}
        /\ View'.total = View.total
        /\ View'.completed = IF ok THEN View.completed + 1 ELSE View.completed
        /\ View'.failed = IF ~ok THEN View.failed + 1 ELSE View.failed
        /\ View'.signalled = View.signalled
    BY <1>2, <1>3, <1>4, <1>5, ViewOf
  <2> QED
    BY <2>1, <2>2, <1>5, <1>6, EndIs
<1>8. i \in View.active
  BY <1>1, <1>2, <1>5, ViewOf
<1> QED
  BY <1>5, <1>7, <1>8 DEF Outline!ChildEnds

LEMMA FinishSeen ==
  ASSUME IInv, Finish
  PROVE  Outline!Completes
<1>1. /\ batch.status = "running" /\ batch.next > N /\ Pending = {}
      /\ batch' = [batch EXCEPT !.status = "completed"] /\ UNCHANGED <<order, child>>
  BY DEF Finish
<1>2. N = Cardinality(Tasks) /\ 1..N = I /\ Cardinality(Tasks) \in Nat
  BY OrderLength, TasksFinite DEF IInv, TypeInv
<1>3. /\ batch'.status = "completed" /\ batch'.completed = batch.completed
      /\ batch'.failed = batch.failed /\ batch'.cancel = batch.cancel
  BY <1>1 DEF IInv, TypeInv, Workflows
<1>4. PendingSet = {} /\ RunningSet = {}
  BY <1>1, <1>2, RunningOutstanding DEF Pending, PendingSet
<1>5. \A i \in I : child[i].status # "none"
  <2>1. batch.next \in Nat /\ \A i \in I : i \in Nat /\ i < batch.next
    BY <1>1, <1>2 DEF IInv, TypeInv, Workflows, I
  <2> QED
    BY <2>1 DEF IInv, CountInv
<1>6. Outstanding = {} /\ Outstanding' = {} /\ Waiting = {} /\ Waiting' = {}
  BY <1>1, <1>3, <1>4, <1>5 DEF Outstanding, Waiting, RunningSet
<1>7. Asked = {} /\ Asked' = {}
  BY <1>6 DEF Asked
<1>8. View' = [View EXCEPT !.status = "completed"]
  <2>1. IsView(View) /\ IsView(View')
    BY <1>1, ViewOf
  <2>2. /\ View'.status = "completed" /\ View'.active = View.active
        /\ View'.queued = View.queued /\ View'.stopping = View.stopping
        /\ View'.total = View.total /\ View'.completed = View.completed
        /\ View'.failed = View.failed /\ View'.signalled = View.signalled
    BY <1>1, <1>3, <1>6, <1>7, ViewOf
  <2> QED
    BY <2>1, <2>2, StatusMoves
<1>9. View.status = "running" /\ View.queued = {} /\ View.active = {}
  BY <1>1, <1>6, ViewOf
<1> QED
  BY <1>8, <1>9 DEF Outline!Completes, Outline!CanComplete, Outline!IsRunning

LEMMA RequestCancelSeen ==
  ASSUME IInv, RequestCancel
  PROVE  Outline!AskBatch
<1>1. /\ batch.status = "running" /\ batch' = [batch EXCEPT !.cancel = TRUE]
      /\ UNCHANGED <<order, child>>
  BY DEF RequestCancel
<1>2. /\ batch'.status = batch.status /\ batch'.completed = batch.completed
      /\ batch'.failed = batch.failed /\ batch'.cancel = TRUE
  BY <1>1 DEF IInv, TypeInv, Workflows
<1>3. Outstanding' = Outstanding /\ Waiting' = Waiting
  BY <1>1, <1>2 DEF Outstanding, Waiting, PendingSet, RunningSet
<1>4. Asked' = Asked
  BY <1>1, <1>3 DEF Asked
<1>5. View' = [View EXCEPT !.signalled = TRUE]
  <2>1. IsView(View) /\ IsView(View')
    BY <1>1, ViewOf
  <2>2. /\ View'.status = View.status /\ View'.active = View.active
        /\ View'.queued = View.queued /\ View'.stopping = View.stopping
        /\ View'.total = View.total /\ View'.completed = View.completed
        /\ View'.failed = View.failed /\ View'.signalled = TRUE
    BY <1>1, <1>2, <1>3, <1>4, ViewOf
  <2> QED
    BY <2>1, <2>2, SignalMoves
<1>6. View.status = "running"
  BY <1>1, ViewOf
<1> QED
  BY <1>5, <1>6 DEF Outline!AskBatch, Outline!IsRunning

(* Children that have closed but were not counted vanish with the batch.   *)
LEMMA CloseBatchSeen ==
  ASSUME IInv, CloseBatch
  PROVE  Outline!Closes
<1>1. /\ batch.status = "running" /\ batch.cancel /\ child' = Signalled
      /\ batch' = [batch EXCEPT !.status = "canceled"] /\ UNCHANGED order
  BY DEF CloseBatch
<1>2. 1..N = I /\ batch \in Workflows /\ child \in [I -> Children]
  BY OrderLength DEF IInv, TypeInv
<1>3. /\ batch'.status = "canceled" /\ batch'.completed = batch.completed
      /\ batch'.failed = batch.failed /\ batch'.cancel = batch.cancel
  BY <1>1, <1>2 DEF Workflows
<1>4. \A i \in I : /\ child'[i].status = child[i].status
                   /\ child[i].status = "running" => child'[i].cancel
  BY <1>1, <1>2, CancelFlag DEF Signalled, Running
<1>5. RunningSet' = RunningSet /\ Outstanding = PendingSet /\ Outstanding' = RunningSet
      /\ Waiting' = {} /\ RunningSet \subseteq Outstanding
  BY <1>1, <1>3, <1>4, RunningOutstanding DEF RunningSet, Outstanding, Waiting
<1>6. Asked' = RunningSet
  BY <1>4, <1>5 DEF Asked, RunningSet
<1>7. View' = Outline!ClosedBy([View EXCEPT !.active = RunningSet], "canceled")
  <2>1. IsView(View) /\ IsView(View')
    BY <1>1, ViewOf
  <2>2. /\ View'.status = "canceled" /\ View'.active = RunningSet /\ View'.queued = {}
        /\ View'.stopping = RunningSet
        /\ View'.total = View.total /\ View'.completed = View.completed
        /\ View'.failed = View.failed /\ View'.signalled = View.signalled
    BY <1>1, <1>3, <1>5, <1>6, ViewOf
  <2> QED
    BY <2>1, <2>2, ClosedByIs
<1>8. RunningSet \in SUBSET View.active /\ View.status = "running" /\ View.signalled
  BY <1>1, <1>5, ViewOf
<1> QED
  BY <1>7, <1>8 DEF Outline!Closes, Outline!IsRunning

LEMMA CancelIpSeen ==
  ASSUME IInv, NEW i \in I, CancelIp(i)
  PROVE  Outline!AskChild
<1>1. child' = [child EXCEPT ![i].cancel = TRUE] /\ UNCHANGED <<order, batch>>
      /\ child[i].status = "running"
  BY DEF CancelIp, Running
<1>2. child \in [I -> Children] /\ child[i] \in Children
  BY DEF IInv, TypeInv
<1>3. /\ child'[i].cancel /\ child'[i].status = child[i].status
      /\ child'[i].counted = child[i].counted
      /\ \A j \in I : j # i => child'[j] = child[j]
  BY <1>1, <1>2, CancelFlag
<1>4. i \in Outstanding
  BY <1>1, RunningOutstanding DEF RunningSet
<1>5. Outstanding' = Outstanding /\ Waiting' = Waiting
  BY <1>1, <1>3 DEF Outstanding, Waiting, PendingSet, RunningSet
<1>6. Asked' = Asked \cup {i}
  BY <1>3, <1>4, <1>5 DEF Asked, Outstanding, PendingSet, RunningSet
<1>7. View' = [View EXCEPT !.stopping = @ \cup {i}]
  BY <1>1, <1>5, <1>6, ViewOf, StopsMove
<1>8. i \in View.active
  BY <1>1, <1>4, ViewOf
<1> QED
  BY <1>7, <1>8 DEF Outline!AskChild

(* A step of one child: while the batch runs, it is the batch's counting   *)
(* that is seen; when it has closed, the end of the child is.              *)
LEMMA ChildStepSeen ==
  ASSUME IInv, ChildStep, UNCHANGED <<order, batch>>
  PROVE  Outline!ChildEnds \/ UNCHANGED View
<1>1. \A j \in I : /\ child'[j].status = "none" <=> child[j].status = "none"
                   /\ child'[j].cancel = child[j].cancel
  BY ChildStepSets
<1>2. Waiting' = Waiting
  BY <1>1 DEF Waiting
<1>3. Outstanding' = Outstanding \/ \E i \in Outstanding : Outstanding' = Outstanding \ {i}
  <2>1. CASE batch.status = "running"
    BY <2>1, ChildStepSets DEF Outstanding
  <2>2. CASE UNCHANGED child
    BY <2>2 DEF Outstanding, PendingSet, RunningSet
  <2>3. ASSUME batch.status # "running",
               NEW i \in I, NEW c, Proceeds(i, c), child' = [child EXCEPT ![i] = c]
        PROVE  Outstanding' = Outstanding \/ \E j \in Outstanding : Outstanding' = Outstanding \ {j}
    <3>1. i \in RunningSet /\ child'[i] = c /\ \A j \in I : j # i => child'[j] = child[j]
      BY <2>3 DEF Proceeds, Running, RunningSet, IInv, TypeInv
    <3>2. RunningSet' = RunningSet \/ RunningSet' = RunningSet \ {i}
      BY <3>1 DEF RunningSet
    <3> QED
      BY <2>3, <3>1, <3>2 DEF Outstanding
  <2> QED
    BY <2>1, <2>2, <2>3 DEF ChildStep
<1>4. CASE Outstanding' = Outstanding
  <2>1. Asked' = Asked
    BY <1>1, <1>4 DEF Asked, Outstanding, PendingSet, RunningSet
  <2> QED
    BY <1>2, <1>4, <2>1, ViewOf, SameView
<1>5. ASSUME NEW i \in Outstanding, Outstanding' = Outstanding \ {i}
      PROVE  Outline!ChildEnds
  <2>1. batch.status # "running"
    BY <1>5, ChildStepSets DEF Outstanding
  <2>2. Asked' = Asked \ {i}
    BY <1>1, <1>5 DEF Asked, Outstanding, PendingSet, RunningSet
  <2>3. View' = Outline!End(View, i, TRUE)
    <3>1. IsView(View) /\ IsView(View') /\ View.status # "running"
      BY <2>1, ViewOf
    <3>2. /\ View'.status = View.status /\ View'.active = View.active \ {i}
          /\ View'.queued = View.queued /\ View'.stopping = View.stopping \ {i}
          /\ View'.total = View.total /\ View'.completed = View.completed
          /\ View'.failed = View.failed /\ View'.signalled = View.signalled
      BY <1>2, <1>5, <2>1, <2>2, ViewOf
    <3> QED
      BY <3>1, <3>2, EndIs
  <2>4. i \in View.active
    BY <1>5, ViewOf
  <2> QED
    BY <2>3, <2>4 DEF Outline!ChildEnds
<1> QED
  BY <1>3, <1>4, <1>5

LEMMA InitSeen == Init => Outline!Init
<1> SUFFICES ASSUME Init
             PROVE  Outline!Init
  OBVIOUS
<1>1. order \in [I -> Tasks]
  BY InitInv DEF IInv, TypeInv
<1>2. N = Cardinality(Tasks) /\ 1..N = I /\ Cardinality(Tasks) \in Nat
  BY <1>1, OrderLength, TasksFinite
<1>3. /\ child = [i \in I |-> NotStarted]
      /\ batch = [status |-> "running", next |-> 1, completed |-> 0, failed |-> 0, cancel |-> FALSE]
  BY <1>2 DEF Init
<1>4. Pending = {} /\ {i \in I : child[i].status = "none"} = I
  BY <1>2, <1>3 DEF Pending, NotStarted
<1>5. Active = {} /\ {i \in Active : child[i].cancel} = {}
  BY <1>3, <1>4 DEF Active
<1>6. View = [status |-> "running", active |-> {}, queued |-> I, stopping |-> {},
              total |-> Cardinality(Tasks), completed |-> 0, failed |-> 0, signalled |-> FALSE]
  BY <1>2, <1>3, <1>4, <1>5 DEF View
<1>7. Cardinality(1..Cardinality(Tasks)) = Cardinality(Tasks)
  BY <1>2, FS_Interval
<1> DEFINE v == Outline!Started(I)
<1>8. IsView(v) /\ IsView(View)
  BY DEF IsView, View, Outline!Started, Outline!NoBatch
<1>9. /\ v.status = "running" /\ v.active = {} /\ v.queued = I /\ v.stopping = {}
      /\ v.completed = 0 /\ v.failed = 0 /\ v.signalled = FALSE
      /\ v.total = Cardinality(Tasks)
  BY <1>7, OutlineCardinality DEF I, Outline!Started, Outline!NoBatch
<1> HIDE DEF v
<1>10. View = v
  BY <1>6, <1>8, <1>9, SameView
<1> QED
  BY <1>10 DEF v, Outline!Init, I

LEMMA StepSeen == IInv /\ [Next]_vars => [Outline!Next]_View
<1> SUFFICES ASSUME IInv, [Next]_vars
             PROVE  Outline!Next \/ UNCHANGED View
  OBVIOUS
<1>1. CASE UNCHANGED vars
  BY <1>1 DEF vars, View, Active, Pending, Running, N
<1>2. CASE Next
  <2>1. CASE QuietSteps
    BY <2>1, QuietStepsQuiet, ChildStepSeen DEF Quiet, Outline!Next
  <2> QED
    BY <1>2, <2>1, StepCases, StartChildSeen, CountSeen, FinishSeen, RequestCancelSeen,
       CloseBatchSeen, CancelIpSeen DEF Outline!Next
<1> QED
  BY <1>1, <1>2

(* The batch workflow implements the outline its clients rely on: a task   *)
(* is queued, a child, or counted once; the window holds; the batch        *)
(* completes with nothing outstanding, and closes early only when asked.   *)
THEOREM Implements == Spec => ImplementsOutline
BY InitSeen, StepSeen, Invariant, PTL DEF Spec, ImplementsOutline, Outline!Spec

-----------------------------------------------------------------------------
(* What the imports of a batch leave of an address.                        *)

SeenPorts(ip, S) == {k \in DOMAIN Truth[ip] : InAnyRange(k[1], S)}

Kept(ports, ip, S) ==
  IF Mode = "insert" THEN DOMAIN ports
  ELSE IF Mode = "replace" THEN {k \in DOMAIN ports : ~InAnyRange(k[1], S)} \cup SeenPorts(ip, S)
  ELSE DOMAIN ports \cup SeenPorts(ip, S)

KeptPort(ports, ip, S, k) ==
  IF k \notin DOMAIN ports THEN Truth[ip][k]
  ELSE IF Mode \in {"update", "replace"} /\ k \in SeenPorts(ip, S)
  THEN RefreshPort(ports[k], Truth[ip][k])
  ELSE ports[k]

PortsAfter(ports, ip, S) == [k \in Kept(ports, ip, S) |-> KeptPort(ports, ip, S, k)]

(* A known address, and a new one, once the ranges S have been imported.   *)
Rescanned(st, ip, S) ==
  [known |-> TRUE,
   meta |-> IF Mode \in {"update", "replace"} THEN "up" ELSE st.meta,
   hostnames |-> st.hostnames \cup Names[ip],
   ports |-> PortsAfter(st.ports, ip, S)]

Discovered(ip, S) ==
  [known |-> TRUE, meta |-> "up", hostnames |-> Names[ip],
   ports |-> [k \in SeenPorts(ip, S) |-> Truth[ip][k]]]

SameRanges(S, T) == \A n \in Int : InAnyRange(n, S) <=> InAnyRange(n, T)

Imported(st, ip, S, C) == StoredFrom(ApplyMode(Mode, st, Found(ip, S, C)))

LEMMA TruthPorts ==
  ASSUME NEW ip \in Targets, NEW k \in DOMAIN Truth[ip]
  PROVE  /\ k[1] \in Int
         /\ Truth[ip][k] = [state |-> "open", service |-> Truth[ip][k].service]
         /\ IsOpen(Truth[ip][k])
BY DataAssumption DEF DataAssumption, OpenPorts, IsOpen

LEMMA ImportOfNew ==
  ASSUME NEW ip \in Targets, NEW S, NEW C, NEW st, ~st.known
  PROVE  Imported(st, ip, S, C) = Discovered(ip, S)
<1> DEFINE in == Found(ip, S, C)
           listed == {k \in DOMAIN in.ports : IsOpen(in.ports[k])}
<1>1. in.ports = [k \in SeenPorts(ip, S) |-> Truth[ip][k]] /\ in.meta = "up" /\ in.hostnames = Names[ip]
  BY DEF Found, SeenPorts
<1>2. StoredFrom(ApplyMode(Mode, st, in))
        = [known |-> TRUE, meta |-> in.meta, hostnames |-> in.hostnames,
           ports |-> [k \in listed |-> in.ports[k]]]
  BY DEF ApplyMode, Created, StoredFrom
<1> HIDE DEF in
<1>3. listed = SeenPorts(ip, S)
  BY <1>1, TruthPorts DEF SeenPorts
<1> HIDE DEF listed
<1>4. [k \in listed |-> in.ports[k]] = [k \in SeenPorts(ip, S) |-> Truth[ip][k]]
  BY <1>1, <1>3
<1> QED
  BY <1>1, <1>2, <1>4 DEF Discovered, Imported, in

LEMMA ImportOfKnown ==
  ASSUME NEW ip \in Targets, NEW S, NEW C, SameRanges(S, C),
         NEW st, st.known, OpenPorts(st.ports)
  PROVE  Imported(st, ip, S, C) = Rescanned(st, ip, S)
<1> DEFINE in        == Found(ip, S, C)
           policy    == Policy(Mode)
           opened    == IF policy.add_new_open THEN NewOpen(st.ports, in.ports) ELSE {}
           refreshed == IF policy.refresh_matched THEN Matched(st.ports, in.ports) ELSE {}
           closed    == {k \in Stale(st.ports, in.ports) :
                           policy.close_stale /\ Closes(k, in.ports, in.scanned_ports)}
           Value(k)  == IF k \in opened THEN in.ports[k]
                        ELSE IF k \in refreshed THEN RefreshPort(st.ports[k], in.ports[k])
                        ELSE st.ports[k]
<1>1. /\ in.ports = [k \in SeenPorts(ip, S) |-> Truth[ip][k]] /\ in.meta = "up"
      /\ in.hostnames = Names[ip] /\ in.scanned_ports = C
  BY DEF Found, SeenPorts
<1>2. StoredFrom(ApplyMode(Mode, st, in))
        = [known |-> TRUE,
           meta |-> IF policy.refresh_meta /\ in.meta # "" THEN in.meta ELSE st.meta,
           hostnames |-> st.hostnames \cup (in.hostnames \ st.hostnames),
           ports |-> [k \in (DOMAIN st.ports \cup opened) \ closed |-> Value(k)]]
  BY DEF ApplyMode, Updated, StoredFrom
<1> HIDE DEF in
<1>3. /\ DOMAIN in.ports = SeenPorts(ip, S)
      /\ \A k \in SeenPorts(ip, S) : IsOpen(in.ports[k]) /\ in.ports[k] = Truth[ip][k]
  BY <1>1, TruthPorts DEF SeenPorts
<1>4. NewOpen(st.ports, in.ports) = SeenPorts(ip, S) \ DOMAIN st.ports
  BY <1>3 DEF NewOpen
<1>5. Matched(st.ports, in.ports) = SeenPorts(ip, S) \cap DOMAIN st.ports
  BY <1>3 DEF Matched
<1>6. closed = IF Mode = "replace"
               THEN {k \in DOMAIN st.ports : k \notin SeenPorts(ip, S) /\ InAnyRange(k[1], S)} ELSE {}
  <2>1. \A k \in DOMAIN st.ports : InAnyRange(k[1], C) <=> InAnyRange(k[1], S)
    BY DEF SameRanges, OpenPorts
  <2>2. policy.close_stale <=> Mode = "replace"
    BY DEF Policy
  <2>3. \A k : k \in Stale(st.ports, in.ports) <=> k \in DOMAIN st.ports /\ k \notin SeenPorts(ip, S)
    BY <1>5 DEF Stale
  <2>4. ASSUME NEW k \in Stale(st.ports, in.ports)
        PROVE  Closes(k, in.ports, in.scanned_ports) <=> InAnyRange(k[1], S)
    BY <1>1, <1>3, <2>1, <2>3 DEF Closes
  <2> QED
    BY <2>2, <2>3, <2>4
<1>7. /\ opened = IF Mode = "insert" THEN {} ELSE SeenPorts(ip, S) \ DOMAIN st.ports
      /\ refreshed = IF Mode \in {"update", "replace"} THEN SeenPorts(ip, S) \cap DOMAIN st.ports ELSE {}
      /\ policy.refresh_meta <=> Mode \in {"update", "replace"}
  BY <1>4, <1>5, DataAssumption DEF DataAssumption, Policy, Modes
<1> HIDE DEF opened, refreshed, closed, policy
<1>8. (DOMAIN st.ports \cup opened) \ closed = Kept(st.ports, ip, S)
  <2>1. \A k \in SeenPorts(ip, S) : InAnyRange(k[1], S)
    BY DEF SeenPorts
  <2> HIDE DEF Value
  <2> QED
    BY <1>6, <1>7, <2>1 DEF Kept
<1>9. ASSUME NEW k \in Kept(st.ports, ip, S)
      PROVE  Value(k) = KeptPort(st.ports, ip, S, k)
  BY <1>3, <1>7, <1>9 DEF KeptPort, Kept
<1>10. [k \in (DOMAIN st.ports \cup opened) \ closed |-> Value(k)] = PortsAfter(st.ports, ip, S)
  <2> HIDE DEF Value
  <2> QED
    BY <1>8, <1>9 DEF PortsAfter
<1>11. /\ (IF policy.refresh_meta /\ in.meta # "" THEN in.meta ELSE st.meta)
            = IF Mode \in {"update", "replace"} THEN "up" ELSE st.meta
       /\ st.hostnames \cup (in.hostnames \ st.hostnames) = st.hostnames \cup Names[ip]
  BY <1>1, <1>7
<1> HIDE DEF Value
<1> QED
  BY <1>2, <1>10, <1>11 DEF Rescanned, Imported, in

(* A port that is open, or stored: what a service pass adds is settled.    *)
LEMMA RefreshTwice ==
  ASSUME NEW p, p = [state |-> "open", service |-> p.service],
         NEW q, q = [state |-> "open", service |-> q.service]
  PROVE  /\ RefreshPort(q, q) = q
         /\ RefreshPort(RefreshPort(p, q), q) = RefreshPort(p, q)
         /\ RefreshPort(p, q) = [state |-> "open", service |-> RefreshPort(p, q).service]
<1>1. RefreshPort(p, q)
        = [state |-> "open", service |-> IF q.service = "" THEN p.service ELSE q.service]
  <2> DEFINE service == IF q.service = "" THEN p.service ELSE q.service
  <2>1. RefreshPort(p, q) = [p EXCEPT !.service = service]
    BY DEF RefreshPort
  <2> HIDE DEF service
  <2>2. [p EXCEPT !.service = service] = [state |-> "open", service |-> service]
    OBVIOUS
  <2> QED
    BY <2>1, <2>2 DEF service
<1> DEFINE r == RefreshPort(p, q)
<1>2. r = [state |-> "open", service |-> r.service] /\ (q.service # "" => r.service = q.service)
  BY <1>1
<1> HIDE DEF r
<1>3. RefreshPort(r, q)
        = [state |-> "open", service |-> IF q.service = "" THEN r.service ELSE q.service]
  BY <1>2 DEF RefreshPort
<1>4. RefreshPort(r, q) = r
  BY <1>2, <1>3
<1>5. RefreshPort(q, q) = q
  BY DEF RefreshPort
<1> QED
  BY <1>2, <1>4, <1>5 DEF r

LEMMA SeenTogether ==
  ASSUME NEW ip, NEW S, NEW T
  PROVE  /\ SeenPorts(ip, S \cup T) = SeenPorts(ip, S) \cup SeenPorts(ip, T)
         /\ \A n : InAnyRange(n, S \cup T) <=> InAnyRange(n, S) \/ InAnyRange(n, T)
BY DEF SeenPorts, InAnyRange

LEMMA RescannedPorts ==
  ASSUME NEW ip \in Targets, NEW S, NEW ports, OpenPorts(ports)
  PROVE  OpenPorts(PortsAfter(ports, ip, S))
<1> SUFFICES ASSUME NEW k \in Kept(ports, ip, S)
             PROVE  /\ k[1] \in Int
                    /\ KeptPort(ports, ip, S, k) = [state |-> "open", service |-> KeptPort(ports, ip, S, k).service]
  BY DEF OpenPorts, PortsAfter
<1>1. CASE k \notin DOMAIN ports
  <2>1. k \in DOMAIN Truth[ip]
    BY <1>1 DEF Kept, SeenPorts
  <2> QED
    BY <1>1, <2>1, TruthPorts DEF KeptPort
<1>2. CASE k \in DOMAIN ports
  <2>1. k[1] \in Int /\ ports[k] = [state |-> "open", service |-> ports[k].service]
    BY <1>2 DEF OpenPorts
  <2>2. k \in SeenPorts(ip, S) => Truth[ip][k] = [state |-> "open", service |-> Truth[ip][k].service]
    BY TruthPorts DEF SeenPorts
  <2>3. k \in SeenPorts(ip, S) =>
          RefreshPort(ports[k], Truth[ip][k])
            = [state |-> "open", service |-> RefreshPort(ports[k], Truth[ip][k]).service]
    BY <2>1, <2>2, RefreshTwice
  <2> QED
    BY <1>2, <2>1, <2>3 DEF KeptPort
<1> QED
  BY <1>1, <1>2

(* One import after the other is one import of both.                       *)
LEMMA PortsTogether ==
  ASSUME NEW ip \in Targets, NEW S, NEW T, NEW ports, OpenPorts(ports)
  PROVE  PortsAfter(PortsAfter(ports, ip, S), ip, T) = PortsAfter(ports, ip, S \cup T)
<1> DEFINE once == PortsAfter(ports, ip, S)
<1>1. DOMAIN once = Kept(ports, ip, S) /\ \A k \in Kept(ports, ip, S) : once[k] = KeptPort(ports, ip, S, k)
  BY DEF PortsAfter
<1> HIDE DEF once
<1>2. Kept(once, ip, T) = Kept(ports, ip, S \cup T)
  <2>4. CASE Mode = "replace"
    <3>1. ASSUME NEW k
          PROVE  k \in Kept(once, ip, T) <=> k \in Kept(ports, ip, S \cup T)
      <4>1. k \in DOMAIN once <=> (k \in DOMAIN ports /\ ~InAnyRange(k[1], S)) \/ k \in SeenPorts(ip, S)
        BY <1>1, <2>4 DEF Kept
      <4>2. k \in Kept(once, ip, T) <=> (k \in DOMAIN once /\ ~InAnyRange(k[1], T)) \/ k \in SeenPorts(ip, T)
        BY <2>4 DEF Kept
      <4>3. k \in Kept(ports, ip, S \cup T)
              <=> (k \in DOMAIN ports /\ ~InAnyRange(k[1], S \cup T)) \/ k \in SeenPorts(ip, S \cup T)
        BY <2>4 DEF Kept
      <4> DEFINE inS == InAnyRange(k[1], S)
                 inT == InAnyRange(k[1], T)
                 inST == InAnyRange(k[1], S \cup T)
      <4>4. /\ k \in SeenPorts(ip, S) <=> k \in DOMAIN Truth[ip] /\ inS
            /\ k \in SeenPorts(ip, T) <=> k \in DOMAIN Truth[ip] /\ inT
        BY DEF SeenPorts
      <4>5. k \in SeenPorts(ip, S \cup T) <=> k \in SeenPorts(ip, S) \/ k \in SeenPorts(ip, T)
        BY SeenTogether
      <4>6. inST <=> inS \/ inT
        BY SeenTogether
      <4> HIDE DEF inS, inT, inST
      <4> QED
        BY <4>1, <4>2, <4>3, <4>4, <4>5, <4>6 DEF inS, inT, inST
    <3> QED
      BY <3>1
  <2>5. CASE Mode # "replace"
    <3>1. SeenPorts(ip, S \cup T) = SeenPorts(ip, S) \cup SeenPorts(ip, T)
      BY SeenTogether
    <3> QED
      BY <1>1, <2>5, <3>1 DEF Kept
  <2> QED
    BY <2>4, <2>5
<1>3. ASSUME NEW k \in Kept(ports, ip, S \cup T)
      PROVE  KeptPort(once, ip, T, k) = KeptPort(ports, ip, S \cup T, k)
  <2>1. \A j \in SeenPorts(ip, S) \cup SeenPorts(ip, T) :
          j \in DOMAIN Truth[ip] /\ Truth[ip][j] = [state |-> "open", service |-> Truth[ip][j].service]
    BY TruthPorts DEF SeenPorts
  <2>2. k \in SeenPorts(ip, S \cup T) <=> k \in SeenPorts(ip, S) \/ k \in SeenPorts(ip, T)
    BY SeenTogether
  <2>3. CASE k \in DOMAIN ports
    <3>1. /\ InAnyRange(k[1], S \cup T) <=> InAnyRange(k[1], S) \/ InAnyRange(k[1], T)
          /\ k \in SeenPorts(ip, S) <=> k \in DOMAIN Truth[ip] /\ InAnyRange(k[1], S)
          /\ k \in SeenPorts(ip, T) <=> k \in DOMAIN Truth[ip] /\ InAnyRange(k[1], T)
      BY SeenTogether DEF SeenPorts
    <3>2. k \in Kept(ports, ip, S)
      BY <1>3, <2>2, <2>3, <3>1 DEF Kept
    <3>3. ports[k] = [state |-> "open", service |-> ports[k].service]
      BY <2>3 DEF OpenPorts
    <3>4. k \in SeenPorts(ip, S) \cup SeenPorts(ip, T) =>
            RefreshPort(RefreshPort(ports[k], Truth[ip][k]), Truth[ip][k]) = RefreshPort(ports[k], Truth[ip][k])
      BY <2>1, <3>3, RefreshTwice
    <3>5. once[k] = KeptPort(ports, ip, S, k) /\ k \in DOMAIN once
      BY <1>1, <3>2
    <3> QED
      BY <2>2, <2>3, <3>4, <3>5 DEF KeptPort
  <2>4. CASE k \notin DOMAIN ports
    <3>1. k \in SeenPorts(ip, S) \/ k \in SeenPorts(ip, T)
      BY <1>3, <2>2, <2>4 DEF Kept
    <3>2. RefreshPort(Truth[ip][k], Truth[ip][k]) = Truth[ip][k]
      BY <2>1, <3>1, RefreshTwice
    <3>3. k \in DOMAIN once => once[k] = Truth[ip][k]
      BY <1>1, <2>4 DEF KeptPort
    <3> QED
      BY <2>4, <3>2, <3>3 DEF KeptPort
  <2> QED
    BY <2>3, <2>4
<1> QED
  BY <1>2, <1>3 DEF PortsAfter, once

LEMMA RescannedTogether ==
  ASSUME NEW ip \in Targets, NEW S, NEW T, NEW st, OpenPorts(st.ports)
  PROVE  Rescanned(Rescanned(st, ip, S), ip, T) = Rescanned(st, ip, S \cup T)
<1> DEFINE once == Rescanned(st, ip, S)
<1>1. /\ once.meta = IF Mode \in {"update", "replace"} THEN "up" ELSE st.meta
      /\ once.hostnames = st.hostnames \cup Names[ip]
      /\ once.ports = PortsAfter(st.ports, ip, S)
  BY DEF Rescanned
<1> HIDE DEF once
<1>2. PortsAfter(once.ports, ip, T) = PortsAfter(st.ports, ip, S \cup T)
  BY <1>1, PortsTogether
<1>3. once.hostnames \cup Names[ip] = st.hostnames \cup Names[ip]
  BY <1>1
<1>4. Rescanned(once, ip, T) = Rescanned(st, ip, S \cup T)
  BY <1>1, <1>2, <1>3 DEF Rescanned
<1> QED
  BY <1>4 DEF once

(* In INSERT mode, only what the first import covered.                     *)
LEMMA DiscoveredTogether ==
  ASSUME NEW ip \in Targets, NEW S, NEW T, Mode = "insert" => S \cup T = S
  PROVE  Rescanned(Discovered(ip, S), ip, T) = Discovered(ip, S \cup T)
<1> DEFINE once == Discovered(ip, S)
           both == [k \in SeenPorts(ip, S \cup T) |-> Truth[ip][k]]
<1>1. /\ once.meta = "up" /\ once.hostnames = Names[ip]
      /\ once.ports = [k \in SeenPorts(ip, S) |-> Truth[ip][k]]
  BY DEF Discovered
<1> HIDE DEF once
<1>2. SeenPorts(ip, S \cup T) = SeenPorts(ip, S) \cup SeenPorts(ip, T)
  BY SeenTogether
<1>3. Kept(once.ports, ip, T) = SeenPorts(ip, S \cup T)
  <2>1. CASE Mode = "insert"
    BY <1>1, <2>1 DEF Kept
  <2>2. CASE Mode = "replace"
    <3>1. \A k \in SeenPorts(ip, S) : InAnyRange(k[1], T) => k \in SeenPorts(ip, T)
      BY DEF SeenPorts
    <3> QED
      BY <1>1, <1>2, <2>2, <3>1 DEF Kept
  <2>3. CASE Mode \notin {"insert", "replace"}
    BY <1>1, <1>2, <2>3 DEF Kept
  <2> QED
    BY <2>1, <2>2, <2>3
<1>4. ASSUME NEW k \in SeenPorts(ip, S \cup T)
      PROVE  KeptPort(once.ports, ip, T, k) = Truth[ip][k]
  <2>1. k \in DOMAIN Truth[ip]
    BY DEF SeenPorts
  <2>2. RefreshPort(Truth[ip][k], Truth[ip][k]) = Truth[ip][k]
    BY <2>1, TruthPorts, RefreshTwice
  <2> QED
    BY <1>1, <2>2 DEF KeptPort
<1>5. PortsAfter(once.ports, ip, T) = both
  BY <1>3, <1>4 DEF PortsAfter
<1> HIDE DEF both
<1>6. once.hostnames \cup Names[ip] = Names[ip]
      /\ (IF Mode \in {"update", "replace"} THEN "up" ELSE once.meta) = "up"
  BY <1>1
<1>7. Rescanned(once, ip, T)
        = [known |-> TRUE, meta |-> "up", hostnames |-> Names[ip], ports |-> both]
  BY <1>5, <1>6 DEF Rescanned
<1> QED
  BY <1>7 DEF once, both, Discovered

LEMMA DiscoveredPorts ==
  ASSUME NEW ip \in Targets, NEW S
  PROVE  OpenPorts(Discovered(ip, S).ports)
BY TruthPorts DEF OpenPorts, Discovered, SeenPorts

(* An import on top of another, whatever it says it covered.               *)
LEMMA ImportedTogether ==
  ASSUME NEW ip \in Targets, NEW S, NEW T, NEW C, SameRanges(T, C),
         NEW st, OpenPorts(st.ports), Mode = "insert" => S \cup T = S
  PROVE  Imported(Imported(st, ip, S, S), ip, T, C) = Imported(st, ip, S \cup T, S \cup T)
<1> DEFINE once == Imported(st, ip, S, S)
<1>0. SameRanges(S, S) /\ SameRanges(S \cup T, S \cup T)
  BY DEF SameRanges
<1>1. CASE st.known
  <2>1. once = Rescanned(st, ip, S)
    BY <1>0, <1>1, ImportOfKnown
  <2>2. once.known /\ OpenPorts(once.ports)
    BY <2>1, RescannedPorts DEF Rescanned
  <2> HIDE DEF once
  <2>3. Imported(once, ip, T, C) = Rescanned(once, ip, T)
    BY <2>2, ImportOfKnown
  <2>4. Imported(st, ip, S \cup T, S \cup T) = Rescanned(st, ip, S \cup T)
    BY <1>0, <1>1, ImportOfKnown
  <2> QED
    BY <2>1, <2>3, <2>4, RescannedTogether DEF once
<1>2. CASE ~st.known
  <2>1. once = Discovered(ip, S)
    BY <1>2, ImportOfNew
  <2>2. once.known /\ OpenPorts(once.ports)
    BY <2>1, DiscoveredPorts DEF Discovered
  <2> HIDE DEF once
  <2>3. Imported(once, ip, T, C) = Rescanned(once, ip, T)
    BY <2>2, ImportOfKnown
  <2>4. Imported(st, ip, S \cup T, S \cup T) = Discovered(ip, S \cup T)
    BY <1>2, ImportOfNew
  <2> QED
    BY <2>1, <2>3, <2>4, DiscoveredTogether DEF once
<1> QED
  BY <1>1, <1>2

(* The ranges a report says it covered do not matter beyond their ports.   *)
LEMMA ImportedOnce ==
  ASSUME NEW ip \in Targets, NEW T, NEW C, SameRanges(T, C), NEW st, OpenPorts(st.ports)
  PROVE  Imported(st, ip, T, C) = Imported(st, ip, T, T)
<1>1. SameRanges(T, T)
  BY DEF SameRanges
<1>2. CASE st.known
  BY <1>1, <1>2, ImportOfKnown
<1>3. CASE ~st.known
  BY <1>3, ImportOfNew
<1> QED
  BY <1>2, <1>3

-----------------------------------------------------------------------------
(* The shards and what their reports cover.                                *)

LEMMA ShardTypes ==
  /\ Shards \in Seq(Seq(Pairs))
  /\ Mode = "insert" => Shards = <<Specs>>
<1>1. Specs \in Seq(Specified)
  <2>1. Specs \in Seq(Int \X Int) /\ \A i \in DOMAIN Specs : Specs[i][1] <= Specs[i][2]
    BY DataAssumption DEF DataAssumption
  <2>2. \A i \in 1..Len(Specs) : Specs[i] \in Specified
    BY <2>1 DEF Specified, Pairs
  <2>3. Len(Specs) \in Nat /\ Specs \in [1..Len(Specs) -> Specified]
    BY <2>1, <2>2
  <2> QED
    BY <2>3, SeqDef
<1>2. ShardCount(Mode) \in Nat
  BY DataAssumption DEF DataAssumption, ShardCount
<1>3. Shards \in Seq(Seq(Pairs))
  BY <1>1, <1>2, ShardPortsIs DEF Shards
<1>4. Mode = "insert" => Shards = <<Specs>>
  BY DEF Shards, ShardCount, R!ShardPorts
<1> QED
  BY <1>3, <1>4

LEMMA CoverageIsScanned ==
  ASSUME NEW task \in Tasks
  PROVE  SameRanges(Scanned(task), Coverage[task.shard])
<1> DEFINE list == Shards[task.shard]
           P == {list[i] : i \in DOMAIN list}
<1>1. task.shard \in DOMAIN Shards
  BY DEF Tasks
<1>2. list \in Seq(Pairs)
  BY <1>1, ShardTypes
<1>3. IsFiniteSet(P) /\ P \subseteq Pairs
  BY <1>2, ListedFinite
<1>4. \A r \in P : r[1] <= r[2] /\ R!InBounds(r)
  <2>1. \A r \in ToSet(Shards[task.shard]) : r[1] <= r[2] /\ R!InBounds(r)
    BY <1>1, DataAssumption DEF DataAssumption
  <2> QED
    BY <2>1 DEF ToSet
<1>5. Coverage[task.shard] = R!MergedRanges(P) /\ Scanned(task) = P
  BY <1>1 DEF Coverage, Scanned, ToSet
<1> HIDE DEF list, P
<1>6. P \subseteq Specified
  BY <1>3, <1>4 DEF Specified
<1> SUFFICES ASSUME NEW n \in Int
             PROVE  InAnyRange(n, Scanned(task)) <=> InAnyRange(n, Coverage[task.shard])
  BY DEF SameRanges
<1>7. (\E r \in R!MergedRanges(P) : Lies(n, r)) <=> (\E r \in P : Lies(n, r))
  BY <1>3, <1>4, <1>6, MergedCovers
<1> QED
  BY <1>5, <1>7 DEF InAnyRange, Lies

-----------------------------------------------------------------------------
(* The inventory.                                                          *)

StoreInv == start \in Stores /\ store = [ip \in Targets |-> store[ip]]

ImportInv == TypeInv /\ StoreInv /\ InventoryIsOneImport

LEMMA StoreTypes ==
  ASSUME NEW s \in Stores
  PROVE  s = [ip \in Targets |-> s[ip]] /\ \A ip \in Targets : OpenPorts(s[ip].ports)
BY DataAssumption DEF DataAssumption

LEMMA ReportImported ==
  ASSUME NEW task \in Tasks, NEW st
  PROVE  StoredFrom(ApplyMode(Mode, st, Report(task)))
           = Imported(st, task.ip, Scanned(task), Coverage[task.shard])
BY DEF Imported, Report

Covers(ip) == \E i \in applied : order[i].ip = ip

LEMMA OneImport ==
  InventoryIsOneImport <=>
    \A ip \in Targets :
      store[ip] = IF Covers(ip) THEN Imported(start[ip], ip, ScannedSoFar(ip), ScannedSoFar(ip))
                  ELSE start[ip]
BY DEF InventoryIsOneImport, Imported, Covers

LEMMA CommitImports ==
  ASSUME ImportInv, NEW i \in I, Commit(i)
  PROVE  StoreInv' /\ InventoryIsOneImport'
<1>0. PICK task : task = order[i]
  OBVIOUS
<1> DEFINE ip == task.ip
           T == Scanned(task)
           C == Coverage[task.shard]
<1>1. task \in Tasks /\ ip \in Targets /\ SameRanges(T, C)
  <2>1. task \in Tasks
    BY <1>0 DEF ImportInv, TypeInv
  <2>2. ip \in Targets
    BY <2>1 DEF Tasks
  <2> QED
    BY <2>1, <2>2, CoverageIsScanned
<1>2. /\ applied' = applied \cup {i} /\ order' = order /\ start' = start
      /\ store' = [store EXCEPT ![ip] = Imported(store[ip], ip, T, C)]
  BY <1>0, <1>1, ReportImported DEF Commit
<1>3. StoreInv'
  BY <1>2 DEF ImportInv, StoreInv
<1>4. OpenPorts(start[ip].ports)
  BY <1>1, StoreTypes DEF ImportInv, StoreInv
<1>5. Covers(ip)' /\ ScannedSoFar(ip)' = ScannedSoFar(ip) \cup T
  BY <1>0, <1>2 DEF Covers, ScannedSoFar
<1>6. ~Covers(ip) => ScannedSoFar(ip) = {}
  BY DEF Covers, ScannedSoFar
<1>7. Covers(ip) /\ Mode = "insert" => ScannedSoFar(ip) \cup T = ScannedSoFar(ip)
  <2> SUFFICES ASSUME Covers(ip), Mode = "insert"
               PROVE  T \subseteq ScannedSoFar(ip)
    OBVIOUS
  <2>1. PICK j \in applied : order[j].ip = ip
    BY DEF Covers
  <2>2. order[j] \in Tasks
    BY DEF ImportInv, TypeInv, ServerInv
  <2>3. order[j].shard = 1 /\ task.shard = 1
    <3>1. Shards = <<Specs>>
      BY ShardTypes
    <3> QED
      BY <1>1, <2>2, <3>1 DEF Tasks
  <2>4. Scanned(order[j]) = T
    BY <2>3 DEF Scanned
  <2> QED
    BY <2>1, <2>4 DEF ScannedSoFar
<1>8. store'[ip] = Imported(start[ip], ip, ScannedSoFar(ip)', ScannedSoFar(ip)')
  <2>1. store'[ip] = Imported(store[ip], ip, T, C)
    BY <1>1, <1>2 DEF ImportInv, StoreInv
  <2>2. CASE Covers(ip)
    <3>1. store[ip] = Imported(start[ip], ip, ScannedSoFar(ip), ScannedSoFar(ip))
      BY <1>1, <2>2, OneImport DEF ImportInv
    <3> QED
      BY <1>1, <1>4, <1>5, <1>7, <2>1, <2>2, <3>1, ImportedTogether
  <2>3. CASE ~Covers(ip)
    <3>1. store[ip] = start[ip]
      BY <1>1, <2>3, OneImport DEF ImportInv
    <3>2. ScannedSoFar(ip)' = T
      BY <1>5, <1>6, <2>3
    <3> QED
      BY <1>1, <1>4, <2>1, <3>1, <3>2, ImportedOnce
  <2> QED
    BY <2>2, <2>3
<1>9. \A a \in Targets :
         store'[a] = IF Covers(a)' THEN Imported(start[a], a, ScannedSoFar(a)', ScannedSoFar(a)')
                     ELSE start[a]
  <2> SUFFICES ASSUME NEW a \in Targets
               PROVE  store'[a] = IF Covers(a)' THEN Imported(start[a], a, ScannedSoFar(a)', ScannedSoFar(a)')
                                  ELSE start[a]
    OBVIOUS
  <2>1. CASE a = ip
    BY <1>5, <1>8, <2>1
  <2>2. CASE a # ip
    <3>1. store[a] = IF Covers(a) THEN Imported(start[a], a, ScannedSoFar(a), ScannedSoFar(a))
                     ELSE start[a]
      BY OneImport DEF ImportInv
    <3>2. store'[a] = store[a]
      BY <1>2, <2>2 DEF ImportInv, StoreInv
    <3>3. Covers(a)' <=> Covers(a)
      BY <1>0, <1>2, <2>2 DEF Covers
    <3>4. ScannedSoFar(a)' = ScannedSoFar(a)
      BY <1>0, <1>2, <2>2 DEF ScannedSoFar
    <3> QED
      BY <3>1, <3>2, <3>3, <3>4
  <2> QED
    BY <2>1, <2>2
<1>10. InventoryIsOneImport'
  BY <1>2, <1>9 DEF InventoryIsOneImport, Imported, Covers
<1> QED
  BY <1>3, <1>10


LEMMA ImportInit == Init => ImportInv
<1> SUFFICES ASSUME Init
             PROVE  ImportInv
  OBVIOUS
<1>1. TypeInv
  BY InitInv DEF IInv
<1>2. start \in Stores /\ store = start /\ applied = {}
  BY DEF Init
<1>3. StoreInv
  BY <1>2, StoreTypes DEF StoreInv
<1> QED
  BY <1>1, <1>2, <1>3 DEF ImportInv, InventoryIsOneImport

LEMMA OtherStepsKeep ==
  ASSUME [Next]_vars, \A i \in open : ~Commit(i)
  PROVE  UNCHANGED <<order, start, store, applied>>
BY DEF Next, BatchStep, StartChild, Count, Finish, CloseBatch, RequestCancel, WorkerDies,
       CancelIp, CloseChild, Pick, AttemptTimesOut, ScanEnds, HeartbeatCancels, NoAnswer,
       Serve, Refuse, CommitLost, vars, ledger

LEMMA ImportNext == IInv /\ ImportInv /\ [Next]_vars => ImportInv'
<1> SUFFICES ASSUME IInv, ImportInv, [Next]_vars
             PROVE  ImportInv'
  OBVIOUS
<1>1. TypeInv'
  BY NextInv DEF IInv
<1>2. CASE \E i \in open : Commit(i)
  <2>1. PICK i \in open : Commit(i)
    BY <1>2
  <2>2. i \in I
    BY DEF ImportInv, TypeInv, ServerInv
  <2> QED
    BY <1>1, <2>1, <2>2, CommitImports DEF ImportInv
<1>3. CASE \A i \in open : ~Commit(i)
  <2>1. UNCHANGED <<order, start, store, applied>>
    BY <1>3, OtherStepsKeep
  <2> QED
    BY <1>1, <2>1 DEF ImportInv, StoreInv, InventoryIsOneImport, ScannedSoFar
<1> QED
  BY <1>2, <1>3

(* Whatever was retried, duplicated, reordered, given up on or lost, the   *)
(* inventory of each address is what one import of the ports scanned so    *)
(* far would have left, in every mode, for any ports, shards and           *)
(* inventory: the shards of a host do not disturb each other.              *)
THEOREM InventoryOfOneImport == Spec => []InventoryIsOneImport
<1>1. Spec => []ImportInv
  BY ImportInit, ImportNext, Invariant, PTL DEF Spec
<1>2. ImportInv => InventoryIsOneImport
  BY DEF ImportInv
<1> QED
  BY <1>1, <1>2, PTL
=============================================================================

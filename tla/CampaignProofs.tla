---------------------------- MODULE CampaignProofs ----------------------------
(***************************************************************************)
(* Theorems about Campaign, for any addresses and requests, any number of  *)
(* scans, batches, cancels, deletions and faults, any chunk and window.    *)
(***************************************************************************)
EXTENDS Campaign, FiniteSetTheorems, FoldProofs

-----------------------------------------------------------------------------
(* The records: a handler, and a batch as its clients see it.              *)

Chunking == UNION {[D -> SUBSET Ips] : D \in SUBSET Int}

Handlers ==
  [pc : {"idle", "dedup", "build", "start", "done", "error", "lost"},
   mode : Modes \cup {"none"}, ips : SUBSET Ips, before : SUBSET Ips,
   searched : BOOLEAN, listed : BOOLEAN, known : SUBSET Ips, running : SUBSET Ips,
   chunks : Chunking]

Views ==
  [status : {"none", "running", "completed", "canceled", "terminated"},
   queued : SUBSET Ips, active : SUBSET Ips, stopping : SUBSET Ips,
   total : Nat, completed : Nat, failed : Nat, signalled : BOOLEAN]

(* A view whose counters add up: what is closed has nothing queued, and a  *)
(* running batch accounts for each of its targets once.                    *)
Accounted(v) ==
  /\ v.stopping \subseteq v.active /\ v.queued \cap v.active = {}
  /\ ~IsRunning(v) => v.queued = {}
  /\ IsRunning(v) => v.completed + v.failed + Cardinality(v.active) + Cardinality(v.queued) = v.total

-----------------------------------------------------------------------------
(* The inductive invariant, one part per question.                         *)

LedgerInv ==
  /\ known \subseteq Ips
  /\ asked \subseteq Cancels /\ cancels \in 0..MaxCancels
  /\ background \in [Cancels -> Nat] /\ \A q \in Cancels : background[q] <= cancels
  /\ deletes \in 0..MaxDeletes /\ faults \in 0..MaxFaults

HandlerInv == handler \in [Scans -> Handlers]

BatchInv == batch \in [Batches -> Views] /\ \A b \in Batches : Accounted(batch[b])

TypeInv == LedgerInv /\ HandlerInv /\ BatchInv

(* What a handler may still scan.                                          *)
Pending(h) == UNION {h.chunks[i] : i \in DOMAIN h.chunks}

(* The addresses an INSERT request must not scan are those of before: they *)
(* are in scanledger until it has searched, and among those it found from  *)
(* then on, so that no chunk and no batch gets one.                        *)
Deduped(h) ==
  h.mode = "insert" =>
    /\ h.pc = "dedup" /\ ~h.searched => h.before \subseteq known
    /\ h.pc \in {"dedup", "build"} /\ h.searched => h.before \cap h.ips \subseteq h.known
    /\ h.pc = "build" => h.searched
    /\ Pending(h) \cap h.before = {}

DedupInv == \A s \in Scans : Deduped(handler[s])

(* A scan has no batch before its request came.                            *)
UnstartedInv ==
  \A b \in Batches : handler[b[1]].pc = "idle" => Outstanding(b) = {}

(* A request finds known only what was reported.                           *)
ReportedInv ==
  /\ known \subseteq reported
  /\ \A s \in Scans : handler[s].pc = "dedup" => handler[s].known \subseteq reported

(* A signal, and a task that waits to terminate, come from a cancel.       *)
AskedInv ==
  /\ \A q \in Cancels : background[q] > 0 => Made(q)
  /\ \A b \in Batches : batch[b].signalled => StopOfScan(b[1])

IInv ==
  /\ TypeInv
  /\ DedupInv /\ UnstartedInv /\ KnownIsNotRescanned
  /\ ReportedInv
  /\ AskedInv /\ OnlyAskedWorkStops

-----------------------------------------------------------------------------
(* Lemmas about views, for every step a batch takes.                       *)

LEMMA IpsFinite ==
  ASSUME NEW S \in SUBSET Ips
  PROVE  IsFiniteSet(S) /\ Cardinality(S) \in Nat
BY CampaignAssumption, FS_Subset, FS_CardinalityType DEF CampaignAssumption

(* The targets of a view are finitely many, and its counters numbers.      *)
LEMMA ViewFields ==
  ASSUME NEW v \in Views
  PROVE  /\ v.queued \in SUBSET Ips /\ v.active \in SUBSET Ips /\ v.stopping \in SUBSET Ips
         /\ IsFiniteSet(v.queued) /\ IsFiniteSet(v.active)
         /\ Cardinality(v.queued) \in Nat /\ Cardinality(v.active) \in Nat
         /\ v.total \in Nat /\ v.completed \in Nat /\ v.failed \in Nat
<1>1. v.queued \in SUBSET Ips /\ v.active \in SUBSET Ips /\ v.stopping \in SUBSET Ips
  BY DEF Views
<1>2. v.total \in Nat /\ v.completed \in Nat /\ v.failed \in Nat
  BY DEF Views
<1> QED
  BY <1>1, <1>2, IpsFinite

(* A batch that was not started is accounted for.                          *)
LEMMA NoBatchView == NoBatch \in Views /\ Accounted(NoBatch)
BY DEF NoBatch, Views, Accounted, IsRunning

(* A batch starts with its whole chunk queued and counted.                 *)
LEMMA StartedView ==
  ASSUME NEW tasks \in SUBSET Ips
  PROVE  Started(tasks) \in Views /\ Accounted(Started(tasks))
<1> DEFINE w == Started(tasks)
<1>1. Cardinality(tasks) \in Nat
  BY IpsFinite
<1>2. /\ w.status = "running" /\ w.queued = tasks /\ w.active = {} /\ w.stopping = {}
      /\ w.total = Cardinality(tasks) /\ w.completed = 0 /\ w.failed = 0
  BY DEF Started, NoBatch
<1>3. w \in Views
  BY <1>1 DEF Started, NoBatch, Views
<1>4. Cardinality(w.active) = 0
  BY <1>2, FS_EmptySet
<1> HIDE DEF w
<1>5. Accounted(w)
  BY <1>1, <1>2, <1>4 DEF Accounted, IsRunning
<1> QED
  BY <1>3, <1>5 DEF w

(* Starting a task moves it from the queue to the children.                *)
LEMMA StartView ==
  ASSUME NEW v \in Views, Accounted(v), NEW ip \in Ips, CanStart(v, ip, Window)
  PROVE  Start(v, ip) \in Views /\ Accounted(Start(v, ip))
<1> DEFINE w == Start(v, ip)
<1>1. w \in Views
  BY DEF Start, Views
<1>2. /\ w.status = v.status /\ w.queued = v.queued \ {ip}
      /\ w.active = v.active \cup {ip} /\ w.stopping = v.stopping
      /\ w.total = v.total /\ w.completed = v.completed /\ w.failed = v.failed
  BY DEF Start, Views
<1>3. ip \in v.queued /\ ip \notin v.active /\ v.status = "running"
  BY DEF CanStart, Accounted, IsRunning
<1> HIDE DEF w
<1>4. /\ Cardinality(w.queued) = Cardinality(v.queued) - 1
      /\ Cardinality(w.active) = Cardinality(v.active) + 1
  <2>1. IsFiniteSet(v.queued) /\ IsFiniteSet(v.active)
    BY ViewFields
  <2>2. Cardinality(v.queued \ {ip}) = Cardinality(v.queued) - 1
    BY <2>1, <1>3, OneLess
  <2>3. Cardinality(v.active \cup {ip}) = Cardinality(v.active) + 1
    BY <2>1, <1>3, OneMore
  <2> QED
    BY <2>2, <2>3, <1>2
<1>5. Accounted(w)
  BY <1>2, <1>3, <1>4, ViewFields DEF Accounted, IsRunning
<1> QED
  BY <1>1, <1>5 DEF w

(* A child that ends leaves and, while the batch runs, is counted once.    *)
LEMMA EndView ==
  ASSUME NEW v \in Views, Accounted(v), NEW ip \in v.active, NEW ok \in BOOLEAN
  PROVE  End(v, ip, ok) \in Views /\ Accounted(End(v, ip, ok))
<1> DEFINE w == End(v, ip, ok)
<1>1. w \in Views
  <2> DEFINE completed == IF IsRunning(v) /\ ok THEN v.completed + 1 ELSE v.completed
             failed == IF IsRunning(v) /\ ~ok THEN v.failed + 1 ELSE v.failed
  <2>1. completed \in Nat /\ failed \in Nat
    BY ViewFields
  <2>2. w = [v EXCEPT !.active = @ \ {ip}, !.stopping = @ \ {ip},
                      !.completed = completed, !.failed = failed]
    BY DEF End
  <2> HIDE DEF completed, failed
  <2> QED
    BY <2>1, <2>2 DEF Views
<1>2. /\ w.status = v.status /\ w.queued = v.queued
      /\ w.active = v.active \ {ip} /\ w.stopping = v.stopping \ {ip} /\ w.total = v.total
  BY DEF End, Views
<1>3. v.status = "running" => w.completed + w.failed = v.completed + v.failed + 1
  <2>1. CASE ok
    BY <2>1, ViewFields DEF End, Views, IsRunning
  <2>2. CASE ~ok
    BY <2>2, ViewFields DEF End, Views, IsRunning
  <2> QED
    BY <2>1, <2>2
<1> HIDE DEF w
<1>4. Cardinality(w.active) = Cardinality(v.active) - 1
  <2>1. IsFiniteSet(v.active)
    BY ViewFields
  <2>2. Cardinality(v.active \ {ip}) = Cardinality(v.active) - 1
    BY <2>1, OneLess
  <2> QED
    BY <2>2, <1>2
<1>5. Accounted(w)
  BY <1>1, <1>2, <1>3, <1>4, ViewFields DEF Accounted, IsRunning
<1> QED
  BY <1>1, <1>5 DEF w

(* A batch that closes gives up its queue.                                 *)
LEMMA ClosedView ==
  ASSUME NEW v \in Views, NEW status \in {"canceled", "terminated"}
  PROVE  ClosedBy(v, status) \in Views /\ Accounted(ClosedBy(v, status))
BY DEF ClosedBy, Views, Accounted, IsRunning

(* A batch that completes has nothing queued.                              *)
LEMMA CompletedView ==
  ASSUME NEW v \in Views, Accounted(v), CanComplete(v)
  PROVE  /\ [v EXCEPT !.status = "completed"] \in Views
         /\ Accounted([v EXCEPT !.status = "completed"])
BY DEF CanComplete, Views, Accounted, IsRunning

(* A signal, to the batch or to some of its children, counts nothing.      *)
LEMMA SignalledView ==
  ASSUME NEW v \in Views, Accounted(v), NEW signalled \in BOOLEAN, NEW S \in SUBSET v.active
  PROVE  LET w == [v EXCEPT !.signalled = signalled, !.stopping = @ \cup S]
         IN  w \in Views /\ Accounted(w)
BY DEF Views, Accounted, IsRunning

(* Children that are terminated leave and, while the batch runs, count as  *)
(* failed.                                                                 *)
LEMMA TerminatedView ==
  ASSUME NEW v \in Views, Accounted(v), NEW gone \in SUBSET v.active
  PROVE  LET w == [v EXCEPT !.active = @ \ gone, !.stopping = @ \ gone,
                            !.failed = IF IsRunning(v) THEN @ + Cardinality(gone) ELSE @]
         IN  w \in Views /\ Accounted(w)
<1> DEFINE failed == IF IsRunning(v) THEN v.failed + Cardinality(gone) ELSE v.failed
           w == [v EXCEPT !.active = @ \ gone, !.stopping = @ \ gone, !.failed = failed]
<1>1. Cardinality(gone) \in Nat
  BY ViewFields, IpsFinite
<1>2. failed \in Nat /\ (IsRunning(v) => failed = v.failed + Cardinality(gone))
  BY <1>1, ViewFields
<1>3. failed = IF IsRunning(v) THEN v.failed + Cardinality(gone) ELSE v.failed
  OBVIOUS
<1> HIDE DEF failed
<1>4. /\ w \in Views /\ w.status = v.status /\ w.queued = v.queued
      /\ w.active = v.active \ gone /\ w.stopping = v.stopping \ gone
      /\ w.total = v.total /\ w.completed = v.completed /\ w.failed = failed
  BY <1>2 DEF Views
<1> HIDE DEF w
<1>5. v.active \cap gone = gone
  OBVIOUS
<1>6. Cardinality(w.active) = Cardinality(v.active) - Cardinality(gone)
  BY <1>4, <1>5, ViewFields, FS_Difference
<1>7. Accounted(w)
  BY <1>1, <1>2, <1>4, <1>6, ViewFields DEF Accounted, IsRunning
<1> QED
  BY <1>3, <1>4, <1>7 DEF w

-----------------------------------------------------------------------------
(* Lemmas about handlers.                                                  *)

(* Chunks are sets of addresses, and what is in one was to be scanned.     *)
LEMMA ChunksType ==
  ASSUME NEW S \in SUBSET Ips, NEW n, NEW order \in Bijection(1..n, S)
  PROVE  /\ Chunks(order, n) \in Chunking
         /\ \A i \in DOMAIN Chunks(order, n) : Chunks(order, n)[i] \subseteq S
<1> DEFINE c == Chunks(order, n)
           D == 1..((n + ChunkSize - 1) \div ChunkSize)
<1>1. order \in [1..n -> S]
  BY DEF Bijection, Injection
<1>2. DOMAIN c = D /\ c = [i \in D |-> c[i]]
  BY DEF Chunks
<1>3. \A i \in D : c[i] \subseteq S
  BY <1>1 DEF Chunks
<1>4. D \in SUBSET Int
  OBVIOUS
<1> HIDE DEF c, D
<1>5. c \in [D -> SUBSET Ips]
  BY <1>2, <1>3
<1>6. c \in Chunking
  BY <1>4, <1>5 DEF Chunking
<1> QED
  BY <1>2, <1>3, <1>6 DEF c

(* What a request keeps when it goes on: its mode and its ghost.           *)
LEMMA AtFields ==
  ASSUME NEW h \in Handlers, NEW pc \in {"start", "done", "lost"}, NEW chunks \in Chunking
  PROVE  /\ At(h, pc, chunks) \in Handlers
         /\ At(h, pc, chunks).pc = pc /\ At(h, pc, chunks).chunks = chunks
         /\ At(h, pc, chunks).mode = h.mode /\ At(h, pc, chunks).before = h.before
BY DEF At, NoHandler, Handlers

LEMMA EmptyChunking == <<>> \in Chunking /\ DOMAIN <<>> = {}
<1>1. <<>> \in [{} -> SUBSET Ips] /\ {} \in SUBSET Int
  OBVIOUS
<1> QED
  BY <1>1 DEF Chunking

(* Dropping a chunk changes nothing else.                                  *)
LEMMA DropFields ==
  ASSUME NEW h \in Handlers, NEW i
  PROVE  /\ Drop(h, i) \in Handlers
         /\ Drop(h, i).pc = h.pc /\ Drop(h, i).mode = h.mode /\ Drop(h, i).before = h.before
         /\ Pending(Drop(h, i)) \subseteq Pending(h)
<1> DEFINE chunks == [h.chunks EXCEPT ![i] = {}]
           d == Drop(h, i)
<1>1. h.chunks \in Chunking
  BY DEF Handlers
<1>2. PICK D \in SUBSET Int : h.chunks \in [D -> SUBSET Ips]
  BY <1>1 DEF Chunking
<1>3. /\ chunks \in [D -> SUBSET Ips] /\ DOMAIN chunks = DOMAIN h.chunks
      /\ \A j \in DOMAIN chunks : chunks[j] \subseteq h.chunks[j]
  BY <1>2
<1>4. chunks \in Chunking
  BY <1>3 DEF Chunking
<1>5. d = [h EXCEPT !.chunks = chunks]
  BY DEF Drop
<1> HIDE DEF chunks, d
<1>6. /\ d \in Handlers /\ d.chunks = chunks
      /\ d.pc = h.pc /\ d.mode = h.mode /\ d.before = h.before
  BY <1>4, <1>5 DEF Handlers
<1>7. Pending(d) \subseteq Pending(h)
  BY <1>3, <1>6 DEF Pending
<1> QED
  BY <1>6, <1>7 DEF d

-----------------------------------------------------------------------------
(* The invariant holds initially.                                          *)

LEMMA NoHandlerType == NoHandler \in Handlers /\ Pending(NoHandler) = {} /\ NoHandler.pc = "idle"
<1>1. <<>> \in Chunking /\ DOMAIN <<>> = {}
  BY EmptyChunking
<1>2. NoHandler.chunks = <<>>
  BY DEF NoHandler
<1>3. NoHandler \in Handlers /\ NoHandler.pc = "idle"
  BY <1>1 DEF NoHandler, Handlers
<1> QED
  BY <1>1, <1>2, <1>3 DEF Pending

LEMMA InitInv == Init => IInv
<1> SUFFICES ASSUME Init
             PROVE  IInv
  OBVIOUS
<1> USE DEF Init
<1>1. LedgerInv
  <2>1. known \in Inventories /\ Inventories \subseteq SUBSET Ips
        /\ MaxCancels \in Nat /\ MaxDeletes \in Nat /\ MaxFaults \in Nat
    BY CampaignAssumption DEF CampaignAssumption
  <2> QED
    BY <2>1 DEF LedgerInv
<1>2. HandlerInv
  BY NoHandlerType DEF HandlerInv
<1>3. BatchInv
  BY NoBatchView DEF BatchInv
<1>4. \A b \in Batches : /\ Outstanding(b) = {} /\ ~batch[b].signalled
                         /\ batch[b].status = "none" /\ batch[b].stopping = {}
  BY DEF Outstanding, NoBatch
<1>5. \A s \in Scans : handler[s].mode # "insert" /\ handler[s].pc # "dedup"
  BY DEF NoHandler
<1>6. DedupInv /\ UnstartedInv /\ KnownIsNotRescanned
  BY <1>4, <1>5 DEF DedupInv, Deduped, UnstartedInv, KnownIsNotRescanned
<1>7. ReportedInv
  BY <1>5 DEF ReportedInv
<1>8. AskedInv /\ OnlyAskedWorkStops
  <2>1. \A q \in Cancels : background[q] = 0
    OBVIOUS
  <2> QED
    BY <2>1, <1>4 DEF AskedInv, OnlyAskedWorkStops
<1> QED
  BY <1>1, <1>2, <1>3, <1>6, <1>7, <1>8 DEF IInv, TypeInv

-----------------------------------------------------------------------------
(* Steps that change one handler only.  The request has come and keeps its *)
(* mode and ghost, unless it comes now; what it holds is deduplicated and  *)
(* was reported.                                                           *)

LEMMA HandlerMoves ==
  ASSUME IInv, NEW s \in Scans, NEW h \in Handlers,
         handler' = [handler EXCEPT ![s] = h],
         h.pc # "idle", Deduped(h), h.pc = "dedup" => h.known \subseteq reported,
         handler[s].pc = "idle" \/ (h.mode = handler[s].mode /\ h.before = handler[s].before),
         UNCHANGED <<ledger, batch, stops>>, faults' \in 0..MaxFaults
  PROVE  IInv'
<1> USE DEF IInv, ledger, stops
<1>1. LedgerInv'
  BY DEF TypeInv, LedgerInv
<1>2. HandlerInv'
  BY DEF TypeInv, HandlerInv
<1>3. BatchInv'
  BY DEF TypeInv, BatchInv
<1>4. /\ handler'[s] = h
      /\ \A t \in Scans : t # s => handler'[t] = handler[t]
  BY DEF TypeInv, HandlerInv
<1>5. DedupInv'
  BY <1>4 DEF DedupInv, Deduped
<1>6. \A b \in Batches : Outstanding(b)' = Outstanding(b)
  BY DEF Outstanding
<1>7. \A b \in Batches : b[1] \in Scans
  BY DEF Batches
<1>8. UnstartedInv'
  BY <1>4, <1>6, <1>7 DEF UnstartedInv
<1>9. KnownIsNotRescanned'
  <2> SUFFICES ASSUME NEW t \in Scans, handler'[t].mode = "insert",
                      NEW b \in Batches, b[1] = t
               PROVE  Outstanding(b) \cap handler'[t].before = {}
    BY <1>6 DEF KnownIsNotRescanned
  <2>1. CASE t # s \/ handler[s].pc # "idle"
    BY <2>1, <1>4 DEF KnownIsNotRescanned
  <2>2. CASE t = s /\ handler[s].pc = "idle"
    BY <2>2 DEF UnstartedInv
  <2> QED
    BY <2>1, <2>2
<1>10. ReportedInv'
  BY <1>4 DEF ReportedInv
<1>11. AskedInv' /\ OnlyAskedWorkStops'
  BY DEF AskedInv, OnlyAskedWorkStops, StopOfScan, StopOfIp, Made
<1> QED
  BY <1>1, <1>2, <1>3, <1>5, <1>8, <1>9, <1>10, <1>11 DEF TypeInv

(* A request comes: before is what scanledger has now.                     *)
LEMMA BeginInv ==
  ASSUME IInv, NEW s \in Scans, Begin(s)
  PROVE  IInv'
<1> DEFINE body == Bodies[s]
           pc == IF body.mode = "insert" THEN "dedup" ELSE "build"
           before == IF body.mode = "insert" THEN known ELSE {}
           h == [NoHandler EXCEPT !.pc = pc, !.mode = body.mode, !.ips = body.ips,
                                  !.before = before]
<1>1. handler' = [handler EXCEPT ![s] = h] /\ handler[s].pc = "idle"
  BY DEF Begin
<1>2. body.mode \in Modes /\ body.ips \in SUBSET Ips /\ before \in SUBSET Ips
      /\ pc \in {"dedup", "build"} /\ (body.mode = "insert" => pc = "dedup" /\ before = known)
  BY CampaignAssumption DEF CampaignAssumption, Scans, IInv, TypeInv, LedgerInv
<1> HIDE DEF pc, before, body
<1>3. h \in Handlers
  BY <1>2, NoHandlerType DEF NoHandler, Handlers
<1>4. /\ h.pc = pc /\ h.mode = body.mode /\ h.before = before /\ ~h.searched
      /\ h.known = {} /\ h.chunks = <<>>
  BY DEF NoHandler
<1> HIDE DEF h
<1>5. Pending(h) = {}
  BY <1>4, EmptyChunking DEF Pending
<1>6. Deduped(h)
  BY <1>2, <1>4, <1>5 DEF Deduped
<1>7. UNCHANGED <<ledger, batch, stops>> /\ faults' \in 0..MaxFaults
  BY DEF Begin, IInv, TypeInv, LedgerInv
<1> QED
  BY <1>1, <1>2, <1>3, <1>4, <1>6, <1>7, HandlerMoves

(* The two reads of _dedupe_insert_mode.                                   *)
LEMMA SearchKnownInv ==
  ASSUME IInv, NEW s \in Scans, SearchKnown(s)
  PROVE  IInv'
<1> DEFINE h == [handler[s] EXCEPT !.searched = TRUE, !.known = known \cap handler[s].ips]
<1>1. handler[s] \in Handlers /\ known \subseteq Ips /\ Deduped(handler[s])
      /\ known \subseteq reported
  BY DEF IInv, TypeInv, LedgerInv, HandlerInv, DedupInv, ReportedInv
<1>2. handler' = [handler EXCEPT ![s] = h] /\ handler[s].pc = "dedup" /\ ~handler[s].searched
      /\ UNCHANGED <<ledger, batch, stops>> /\ faults' \in 0..MaxFaults
  BY DEF SearchKnown, IInv, TypeInv, LedgerInv
<1>3. /\ h \in Handlers
      /\ h.pc = "dedup" /\ h.mode = handler[s].mode /\ h.before = handler[s].before
      /\ h.ips = handler[s].ips /\ h.searched /\ h.known = known \cap h.ips
      /\ h.chunks = handler[s].chunks
  BY <1>1, <1>2 DEF Handlers
<1> HIDE DEF h
<1>4. Deduped(h)
  BY <1>1, <1>2, <1>3 DEF Deduped, Pending
<1> QED
  BY <1>1, <1>2, <1>3, <1>4, HandlerMoves

LEMMA ListRunningInv ==
  ASSUME IInv, NEW s \in Scans, ListRunning(s)
  PROVE  IInv'
<1> DEFINE h == [handler[s] EXCEPT !.listed = TRUE, !.running = ActiveIps \cap handler[s].ips]
<1>1. handler[s] \in Handlers /\ Deduped(handler[s]) /\ handler[s].pc = "dedup"
      /\ handler[s].known \subseteq reported
  BY DEF ListRunning, IInv, TypeInv, HandlerInv, DedupInv, ReportedInv
<1>2. handler' = [handler EXCEPT ![s] = h]
      /\ UNCHANGED <<ledger, batch, stops>> /\ faults' \in 0..MaxFaults
  BY DEF ListRunning, IInv, TypeInv, LedgerInv
<1>3. /\ h \in Handlers
      /\ h.pc = handler[s].pc /\ h.mode = handler[s].mode /\ h.before = handler[s].before
      /\ h.ips = handler[s].ips /\ h.searched = handler[s].searched
      /\ h.known = handler[s].known /\ h.chunks = handler[s].chunks
  BY <1>1 DEF Handlers
<1> HIDE DEF h
<1>4. Deduped(h)
  BY <1>1, <1>3 DEF Deduped, Pending
<1> QED
  BY <1>1, <1>2, <1>3, <1>4, HandlerMoves

(* What is built is what is to be scanned: nothing the request knows.      *)
LEMMA BuildInv ==
  ASSUME IInv, NEW s \in Scans, Build(s)
  PROVE  IInv'
<1> DEFINE n == Cardinality(ToScan(handler[s]))
<1>1. handler[s] \in Handlers /\ Deduped(handler[s]) /\ handler[s].pc = "build"
  BY DEF Build, IInv, TypeInv, HandlerInv, DedupInv
<1>2. ToScan(handler[s]) \in SUBSET Ips
  BY <1>1 DEF ToScan, Handlers
<1>3. PICK order \in Bijection(1..n, ToScan(handler[s])) :
        handler' = [handler EXCEPT ![s] =
                      IF n = 0 THEN At(handler[s], "done", <<>>)
                      ELSE At(handler[s], "start", Chunks(order, n))]
  BY DEF Build
<1> DEFINE chunks == IF n = 0 THEN <<>> ELSE Chunks(order, n)
           pc == IF n = 0 THEN "done" ELSE "start"
           h == At(handler[s], pc, chunks)
<1>4. handler' = [handler EXCEPT ![s] = h]
  BY <1>3
<1>5. chunks \in Chunking /\ \A i \in DOMAIN chunks : chunks[i] \subseteq ToScan(handler[s])
  BY <1>2, <1>3, ChunksType, EmptyChunking
<1>6. pc \in {"done", "start"}
  OBVIOUS
<1> HIDE DEF chunks, pc
<1>7. /\ h \in Handlers /\ h.pc = pc /\ h.chunks = chunks
      /\ h.mode = handler[s].mode /\ h.before = handler[s].before
  BY <1>1, <1>5, <1>6, AtFields
<1> HIDE DEF h
<1>8. Pending(h) \subseteq ToScan(handler[s])
  BY <1>5, <1>7 DEF Pending
<1>9. handler[s].mode = "insert" => ToScan(handler[s]) \cap handler[s].before = {}
  BY <1>1 DEF Deduped, ToScan, SkippedIps
<1>10. Deduped(h)
  BY <1>6, <1>7, <1>8, <1>9 DEF Deduped
<1>11. UNCHANGED <<ledger, batch, stops>> /\ faults' \in 0..MaxFaults
  BY DEF Build, IInv, TypeInv, LedgerInv
<1> QED
  BY <1>4, <1>6, <1>7, <1>10, <1>11, HandlerMoves

LEMMA RespondInv ==
  ASSUME IInv, NEW s \in Scans, Respond(s)
  PROVE  IInv'
<1> DEFINE h == At(handler[s], "done", <<>>)
<1>1. handler[s] \in Handlers
  BY DEF IInv, TypeInv, HandlerInv
<1>2. handler' = [handler EXCEPT ![s] = h]
      /\ UNCHANGED <<ledger, batch, stops>> /\ faults' \in 0..MaxFaults
  BY DEF Respond, IInv, TypeInv, LedgerInv
<1>3. /\ h \in Handlers /\ h.pc = "done" /\ h.chunks = <<>>
      /\ h.mode = handler[s].mode /\ h.before = handler[s].before
  BY <1>1, AtFields, EmptyChunking
<1> HIDE DEF h
<1>4. Pending(h) = {}
  BY <1>3, EmptyChunking DEF Pending
<1>5. Deduped(h)
  BY <1>3, <1>4 DEF Deduped
<1> QED
  BY <1>2, <1>3, <1>5, HandlerMoves

(* A start that fails drops its chunk.                                     *)
LEMMA StartFailsInv ==
  ASSUME IInv, NEW s \in Scans, NEW i, StartFails(s, i)
  PROVE  IInv'
<1> DEFINE d == Drop(handler[s], i)
           h == [d EXCEPT !.pc = "error"]
<1>1. handler[s] \in Handlers /\ Deduped(handler[s]) /\ handler[s].pc \in {"start", "error"}
  BY DEF StartFails, IInv, TypeInv, HandlerInv, DedupInv
<1>2. handler' = [handler EXCEPT ![s] = h]
  BY DEF StartFails
<1>3. /\ d \in Handlers /\ d.mode = handler[s].mode /\ d.before = handler[s].before
      /\ Pending(d) \subseteq Pending(handler[s])
  BY <1>1, DropFields
<1> HIDE DEF d
<1>4. /\ h \in Handlers /\ h.pc = "error" /\ h.chunks = d.chunks
      /\ h.mode = d.mode /\ h.before = d.before
  BY <1>3 DEF Handlers
<1> HIDE DEF h
<1>5. Deduped(h)
  BY <1>1, <1>3, <1>4 DEF Deduped, Pending
<1>6. UNCHANGED <<ledger, batch, stops>> /\ faults' \in 0..MaxFaults
  <2>1. faults \in 0..MaxFaults /\ MaxFaults \in Nat
    BY CampaignAssumption DEF CampaignAssumption, IInv, TypeInv, LedgerInv
  <2> QED
    BY <2>1 DEF StartFails
<1> QED
  BY <1>2, <1>3, <1>4, <1>5, <1>6, HandlerMoves

-----------------------------------------------------------------------------
(* Steps that change a handler and what it pushes: hostnames of addresses  *)
(* it found known, and a batch of its chunk.                               *)

LEMMA MergeInv ==
  ASSUME IInv, NEW s \in Scans, Merge(s)
  PROVE  IInv'
<1> DEFINE h == [handler[s] EXCEPT !.pc = "build"]
<1>1. handler[s] \in Handlers /\ Deduped(handler[s]) /\ handler[s].pc = "dedup"
      /\ handler[s].searched /\ handler[s].known \subseteq reported
  BY DEF Merge, IInv, TypeInv, HandlerInv, DedupInv, ReportedInv
<1>2. handler' = [handler EXCEPT ![s] = h]
      /\ UNCHANGED <<reported, deletes, batch, stops, faults, report>>
  BY DEF Merge
<1>3. PICK named \in SUBSET KnownOnly(handler[s]) : known' = known \cup named
  BY DEF Merge
<1>4. known \subseteq known' /\ known' \subseteq Ips /\ known' \subseteq reported
  <2>1. named \subseteq handler[s].known
    BY <1>3 DEF KnownOnly
  <2>2. known \subseteq Ips /\ known \subseteq reported /\ handler[s].known \subseteq Ips
    BY <1>1 DEF IInv, TypeInv, LedgerInv, ReportedInv, Handlers
  <2> QED
    BY <1>1, <1>3, <2>1, <2>2
<1>5. /\ h \in Handlers
      /\ h.pc = "build" /\ h.mode = handler[s].mode /\ h.before = handler[s].before
      /\ h.ips = handler[s].ips /\ h.searched = handler[s].searched
      /\ h.known = handler[s].known /\ h.chunks = handler[s].chunks
  BY <1>1 DEF Handlers
<1> HIDE DEF h
<1>6. Deduped(h)
  BY <1>1, <1>5 DEF Deduped, Pending
<1> USE DEF IInv, ledger, stops
<1>7. /\ handler'[s] = h
      /\ \A t \in Scans : t # s => handler'[t] = handler[t]
  BY <1>2 DEF TypeInv, HandlerInv
<1>8. LedgerInv' /\ HandlerInv' /\ BatchInv'
  BY <1>2, <1>4, <1>5 DEF TypeInv, LedgerInv, HandlerInv, BatchInv
<1>9. DedupInv'
  BY <1>4, <1>5, <1>6, <1>7 DEF DedupInv, Deduped, Pending
<1>10. UnstartedInv' /\ KnownIsNotRescanned'
  <2>1. \A b \in Batches : b[1] \in Scans /\ Outstanding(b)' = Outstanding(b)
    BY <1>2 DEF Batches, Outstanding
  <2>2. \A t \in Scans : /\ handler'[t].pc = "idle" => handler[t].pc = "idle"
                         /\ handler'[t].mode = handler[t].mode
                         /\ handler'[t].before = handler[t].before
    BY <1>5, <1>7
  <2> QED
    BY <2>1, <2>2 DEF UnstartedInv, KnownIsNotRescanned
<1>11. ReportedInv'
  BY <1>2, <1>4, <1>5, <1>7 DEF ReportedInv
<1>12. AskedInv' /\ OnlyAskedWorkStops'
  BY <1>2 DEF AskedInv, OnlyAskedWorkStops, StopOfScan, StopOfIp, Made
<1> QED
  BY <1>8, <1>9, <1>10, <1>11, <1>12 DEF TypeInv

(* A chunk becomes a batch: nothing in it was known before.                *)
LEMMA StartBatchInv ==
  ASSUME IInv, NEW s \in Scans, NEW i \in Unstarted(s), StartBatch(s, i)
  PROVE  IInv'
<1> DEFINE chunk == handler[s].chunks[i]
           h == Drop(handler[s], i)
<1>1. handler[s] \in Handlers /\ Deduped(handler[s]) /\ handler[s].pc \in {"start", "error"}
  BY DEF StartBatch, IInv, TypeInv, HandlerInv, DedupInv
<1>2. /\ handler' = [handler EXCEPT ![s] = h]
      /\ batch' = [batch EXCEPT ![<<s, i>>] = Started(chunk)]
      /\ UNCHANGED <<ledger, stops, faults, report>>
  BY DEF StartBatch
<1>3. chunk \in SUBSET Ips /\ chunk \subseteq Pending(handler[s])
  <2>1. handler[s].chunks \in Chunking /\ i \in DOMAIN handler[s].chunks
    BY <1>1 DEF Handlers, Unstarted
  <2> QED
    BY <2>1 DEF Chunking, Pending
<1>4. /\ Started(chunk) \in Views /\ Accounted(Started(chunk))
      /\ Started(chunk).queued = chunk /\ Started(chunk).active = {}
      /\ Started(chunk).stopping = {} /\ ~Started(chunk).signalled
      /\ Started(chunk).status = "running"
  <2>1. Started(chunk) \in Views /\ Accounted(Started(chunk))
    BY <1>3, StartedView
  <2> QED
    BY <2>1 DEF Started, NoBatch
<1>5. /\ h \in Handlers /\ h.pc = handler[s].pc /\ h.mode = handler[s].mode
      /\ h.before = handler[s].before /\ Pending(h) \subseteq Pending(handler[s])
  BY <1>1, DropFields
<1> HIDE DEF h, chunk
<1>6. Deduped(h)
  BY <1>1, <1>5 DEF Deduped
<1> USE DEF IInv, ledger, stops
<1>7. /\ handler'[s] = h
      /\ \A t \in Scans : t # s => handler'[t] = handler[t]
  BY <1>2 DEF TypeInv, HandlerInv
<1>8. \A b \in Batches : \/ batch'[b] = batch[b]
                         \/ b[1] = s /\ batch'[b] = Started(chunk)
  BY <1>2 DEF TypeInv, BatchInv
<1>9. LedgerInv' /\ HandlerInv'
  BY <1>2, <1>5 DEF TypeInv, LedgerInv, HandlerInv
<1>10. BatchInv'
  BY <1>2, <1>4 DEF TypeInv, BatchInv
<1>11. DedupInv'
  BY <1>2, <1>6, <1>7 DEF DedupInv, Deduped
<1>12. \A b \in Batches : \/ Outstanding(b)' = Outstanding(b)
                          \/ b[1] = s /\ Outstanding(b)' = chunk
  BY <1>4, <1>8 DEF Outstanding
<1>13. UnstartedInv'
  <2>1. \A b \in Batches : b[1] \in Scans
    BY DEF Batches
  <2> QED
    BY <1>1, <1>5, <1>7, <1>12, <2>1 DEF UnstartedInv
<1>14. KnownIsNotRescanned'
  BY <1>1, <1>3, <1>5, <1>7, <1>12 DEF KnownIsNotRescanned, Deduped
<1>15. ReportedInv'
  BY <1>1, <1>2, <1>5, <1>7 DEF ReportedInv
<1>16. AskedInv' /\ OnlyAskedWorkStops'
  BY <1>2, <1>4, <1>8 DEF AskedInv, OnlyAskedWorkStops, StopOfScan, StopOfIp, Made
<1> QED
  BY <1>9, <1>10, <1>11, <1>13, <1>14, <1>15, <1>16 DEF TypeInv

-----------------------------------------------------------------------------
(* Steps of the batches.  No step but StartBatch gives a batch anything to *)
(* scan.                                                                   *)

LEMMA BatchesMove ==
  ASSUME IInv, LedgerInv', BatchInv', ReportedInv', AskedInv', OnlyAskedWorkStops',
         UNCHANGED handler, known \subseteq known',
         \A b \in Batches : Outstanding(b)' \subseteq Outstanding(b)
  PROVE  IInv'
<1>1. HandlerInv' /\ DedupInv'
  BY DEF IInv, TypeInv, HandlerInv, DedupInv, Deduped
<1>2. UnstartedInv' /\ KnownIsNotRescanned'
  BY DEF IInv, UnstartedInv, KnownIsNotRescanned
<1> QED
  BY <1>1, <1>2 DEF IInv, TypeInv

(* The view of one batch changes, without a signal: it closes only after a *)
(* cancel of its scan, and stops children only for a cancel.               *)
LEMMA OneBatchMoves ==
  ASSUME IInv, NEW b \in Batches, NEW v \in Views, Accounted(v),
         batch' = [batch EXCEPT ![b] = v],
         LedgerInv', ReportedInv', UNCHANGED <<handler, stops>>, known \subseteq known',
         v.queued \cup v.active \subseteq Outstanding(b),
         v.signalled = batch[b].signalled,
         v.status \in {"canceled", "terminated"} => StopOfScan(b[1]),
         \A ip \in v.stopping : StopOfScan(b[1]) \/ StopOfIp(ip)
  PROVE  IInv'
<1>1. BatchInv'
  BY DEF IInv, TypeInv, BatchInv
<1>2. batch'[b] = v /\ \A c \in Batches : c # b => batch'[c] = batch[c]
  BY DEF IInv, TypeInv, BatchInv
<1>3. \A c \in Batches : Outstanding(c)' \subseteq Outstanding(c)
  BY <1>2 DEF Outstanding
<1>4. AskedInv' /\ OnlyAskedWorkStops'
  BY <1>2 DEF IInv, stops, AskedInv, OnlyAskedWorkStops, StopOfScan, StopOfIp, Made
<1> QED
  BY <1>1, <1>3, <1>4, BatchesMove

(* What the invariant says of one batch.                                   *)
LEMMA BatchFacts ==
  ASSUME IInv, NEW b \in Batches
  PROVE  /\ batch[b] \in Views /\ Accounted(batch[b])
         /\ batch[b].signalled => StopOfScan(b[1])
         /\ batch[b].status \in {"canceled", "terminated"} => StopOfScan(b[1])
         /\ \A ip \in batch[b].stopping : StopOfScan(b[1]) \/ StopOfIp(ip)
BY DEF IInv, TypeInv, BatchInv, AskedInv, OnlyAskedWorkStops

(* A step that leaves the ledger alone and counts no fault keeps its part. *)
LEMMA LedgerKept ==
  ASSUME IInv, UNCHANGED <<ledger, stops, faults>>
  PROVE  LedgerInv' /\ known \subseteq known'
BY DEF IInv, TypeInv, LedgerInv, ledger, stops

LEMMA ReportedKept ==
  ASSUME IInv, UNCHANGED <<ledger, handler>>
  PROVE  ReportedInv'
BY DEF IInv, ReportedInv, ledger

LEMMA StartChildInv ==
  ASSUME IInv, NEW b \in Batches, NEW ip \in Ips, StartChild(b, ip)
  PROVE  IInv'
<1> DEFINE v == Start(batch[b], ip)
<1>1. CanStart(batch[b], ip, Window) /\ batch' = [batch EXCEPT ![b] = v]
      /\ UNCHANGED <<ledger, handler, stops, faults>>
  BY DEF StartChild
<1>2. v \in Views /\ Accounted(v)
  BY <1>1, BatchFacts, StartView
<1>3. /\ v.queued \cup v.active \subseteq Outstanding(b)
      /\ v.signalled = batch[b].signalled /\ v.status = batch[b].status
      /\ v.stopping = batch[b].stopping
  BY <1>1, BatchFacts DEF Start, CanStart, Views, Outstanding
<1> HIDE DEF v
<1> QED
  BY <1>1, <1>2, <1>3, BatchFacts, LedgerKept, ReportedKept, OneBatchMoves

(* A report adds the address to both what is known and what was reported.  *)
LEMMA ChildEndsInv ==
  ASSUME IInv, NEW b \in Batches, NEW ip, NEW ok \in BOOLEAN, ChildEnds(b, ip, ok)
  PROVE  IInv'
<1> DEFINE v == End(batch[b], ip, ok)
<1>1. ip \in batch[b].active /\ batch' = [batch EXCEPT ![b] = v]
      /\ UNCHANGED <<handler, stops, faults>>
  BY DEF ChildEnds
<1>2. v \in Views /\ Accounted(v)
  BY <1>1, BatchFacts, EndView
<1>3. /\ v.queued = batch[b].queued /\ v.active \subseteq batch[b].active
      /\ v.signalled = batch[b].signalled /\ v.status = batch[b].status
      /\ v.stopping \subseteq batch[b].stopping
  BY BatchFacts DEF End, Views
<1>4. v.queued \cup v.active \subseteq Outstanding(b)
  BY <1>3 DEF Outstanding
<1> HIDE DEF v
<1>5. ip \in Ips
  BY <1>1, BatchFacts, ViewFields
<1>6. /\ \/ known' = known /\ reported' = reported
         \/ known' = known \cup {ip} /\ reported' = reported \cup {ip}
      /\ deletes' = deletes
  BY DEF ChildEnds, Report, ledger
<1>7. LedgerInv' /\ known \subseteq known'
  BY <1>1, <1>5, <1>6 DEF IInv, TypeInv, LedgerInv, stops
<1>8. ReportedInv'
  BY <1>1, <1>6 DEF IInv, ReportedInv
<1> QED
  BY <1>1, <1>2, <1>3, <1>4, <1>7, <1>8, BatchFacts, OneBatchMoves

LEMMA BatchCompletesInv ==
  ASSUME IInv, NEW b \in Batches, BatchCompletes(b)
  PROVE  IInv'
<1> DEFINE v == [batch[b] EXCEPT !.status = "completed"]
<1>1. CanComplete(batch[b]) /\ batch' = [batch EXCEPT ![b] = v]
      /\ UNCHANGED <<ledger, handler, stops, faults>>
  BY DEF BatchCompletes
<1>2. v \in Views /\ Accounted(v)
  BY <1>1, BatchFacts, CompletedView
<1>3. /\ v.queued \cup v.active \subseteq Outstanding(b)
      /\ v.signalled = batch[b].signalled /\ v.status = "completed"
      /\ v.stopping = batch[b].stopping
  BY BatchFacts DEF Views, Outstanding
<1> HIDE DEF v
<1> QED
  BY <1>1, <1>2, <1>3, BatchFacts, LedgerKept, ReportedKept, OneBatchMoves

(* A batch closes on a signal, and its children are asked to stop: both    *)
(* were asked for, by a cancel of the scan.                                *)
LEMMA BatchCanceledInv ==
  ASSUME IInv, NEW b \in Batches, BatchCanceled(b)
  PROVE  IInv'
<1> DEFINE v == ClosedBy(batch[b], "canceled")
<1>1. batch[b].signalled /\ batch' = [batch EXCEPT ![b] = v]
      /\ UNCHANGED <<ledger, handler, stops, faults>>
  BY DEF BatchCanceled
<1>2. v \in Views /\ Accounted(v)
  BY BatchFacts, ClosedView
<1>3. /\ v.queued \cup v.active \subseteq Outstanding(b)
      /\ v.signalled = batch[b].signalled
  BY BatchFacts DEF ClosedBy, Views, Outstanding
<1> HIDE DEF v
<1> QED
  BY <1>1, <1>2, <1>3, BatchFacts, LedgerKept, ReportedKept, OneBatchMoves

-----------------------------------------------------------------------------
(* Cancels.                                                                *)

(* What was asked for remains asked for.                                   *)
LEMMA AskedRemains ==
  ASSUME asked \subseteq asked'
  PROVE  /\ \A s : StopOfScan(s) => StopOfScan(s)'
         /\ \A ip : StopOfIp(ip) => StopOfIp(ip)'
BY DEF StopOfScan, StopOfIp, Made

(* A query that was asked stops only what it matches: the batches of its   *)
(* scan, or of the project, and the children of its addresses.             *)
LEMMA MatchesAsked ==
  ASSUME NEW q \in Cancels, Made(q), NEW b \in Batches
  PROVE  /\ Matches(q, b) => StopOfScan(b[1])
         /\ \A ip : MatchesChild(q, b, ip) => StopOfIp(ip) /\ ip \in batch[b].active
BY DEF Matches, MatchesChild, StopOfScan, StopOfIp

(* The batches a query signals, and those it terminates.                   *)
LEMMA SignalledBatches ==
  ASSUME IInv, NEW q \in Cancels, NEW b \in Batches
  PROVE  LET w == Signalled(q)[b]
         IN  /\ w \in Views /\ Accounted(w)
             /\ w.queued = batch[b].queued /\ w.active = batch[b].active
             /\ w.status = batch[b].status
             /\ w.signalled => batch[b].signalled \/ Matches(q, b)
             /\ \A ip \in w.stopping : ip \in batch[b].stopping \/ MatchesChild(q, b, ip)
<1> DEFINE S == {ip \in batch[b].active : MatchesChild(q, b, ip)}
           sig == batch[b].signalled \/ Matches(q, b)
           w == [batch[b] EXCEPT !.signalled = sig, !.stopping = @ \cup S]
<1>1. Signalled(q)[b] = w
  BY DEF Signalled
<1>2. batch[b] \in Views /\ Accounted(batch[b])
  BY BatchFacts
<1>3. sig \in BOOLEAN /\ S \in SUBSET batch[b].active
  BY <1>2 DEF Matches, Views
<1> HIDE DEF sig, S
<1>4. w \in Views /\ Accounted(w)
  BY <1>2, <1>3, SignalledView
<1>5. /\ w.queued = batch[b].queued /\ w.active = batch[b].active
      /\ w.status = batch[b].status /\ w.signalled = sig
      /\ w.stopping = batch[b].stopping \cup S
  BY <1>2 DEF Views
<1> HIDE DEF w
<1> QED
  BY <1>1, <1>4, <1>5 DEF sig, S

LEMMA TerminatedBatches ==
  ASSUME IInv, NEW q \in Cancels, NEW b \in Batches
  PROVE  LET w == Terminated(q)[b]
         IN  /\ w \in Views /\ Accounted(w)
             /\ w.queued \cup w.active \subseteq Outstanding(b)
             /\ w.signalled = batch[b].signalled
             /\ \/ Matches(q, b)
                \/ w.status = batch[b].status /\ w.stopping \subseteq batch[b].stopping
<1> DEFINE w == Terminated(q)[b]
<1>1. batch[b] \in Views /\ Accounted(batch[b])
  BY BatchFacts
<1>2. CASE Matches(q, b)
  <2>1. w = ClosedBy(batch[b], "terminated")
    BY <1>2 DEF Terminated
  <2>2. w \in Views /\ Accounted(w)
    BY <1>1, <2>1, ClosedView
  <2>3. w.queued = {} /\ w.active = batch[b].active /\ w.signalled = batch[b].signalled
    BY <1>1, <2>1 DEF ClosedBy, Views
  <2> HIDE DEF w
  <2>4. w.queued \cup w.active \subseteq Outstanding(b)
    BY <2>3 DEF Outstanding
  <2> QED
    BY <1>2, <2>2, <2>3, <2>4 DEF w
<1>3. CASE ~Matches(q, b)
  <2> DEFINE gone == {ip \in batch[b].active : MatchesChild(q, b, ip)}
             u == [batch[b] EXCEPT
                     !.active = @ \ gone, !.stopping = @ \ gone,
                     !.failed = IF IsRunning(batch[b]) THEN @ + Cardinality(gone) ELSE @]
  <2>1. w = u
    BY <1>3 DEF Terminated, RunningBatch
  <2>2. gone \in SUBSET batch[b].active
    OBVIOUS
  <2> HIDE DEF gone
  <2>3. u \in Views /\ Accounted(u)
    BY <1>1, <2>2, TerminatedView
  <2>4. /\ u.queued = batch[b].queued /\ u.active \subseteq batch[b].active
        /\ u.signalled = batch[b].signalled /\ u.status = batch[b].status
        /\ u.stopping \subseteq batch[b].stopping
    BY <1>1 DEF Views
  <2> HIDE DEF u, w
  <2>5. w.queued \cup w.active \subseteq Outstanding(b)
    BY <2>1, <2>4 DEF Outstanding
  <2> QED
    BY <2>1, <2>3, <2>4, <2>5 DEF w
<1> QED
  BY <1>2, <1>3

(* The bounds on what a cancel counts.                                     *)
LEMMA Bounds ==
  ASSUME IInv
  PROVE  /\ MaxCancels \in Nat /\ MaxFaults \in Nat /\ MaxDeletes \in Nat
         /\ cancels \in 0..MaxCancels /\ faults \in 0..MaxFaults /\ deletes \in 0..MaxDeletes
         /\ background \in [Cancels -> Nat] /\ \A q \in Cancels : background[q] <= cancels
         /\ known \subseteq Ips /\ asked \subseteq Cancels
BY CampaignAssumption DEF CampaignAssumption, IInv, TypeInv, LedgerInv

(* A request to cancel, whether or not its call fails, is one that was     *)
(* made; it may leave one more task that waits to terminate.               *)
LEMMA AskLedger ==
  ASSUME IInv, NEW q \in Cancels, Ask(q), UNCHANGED ledger, faults' \in 0..MaxFaults,
         background' \in {background, [background EXCEPT ![q] = @ + 1]}
  PROVE  /\ LedgerInv'
         /\ \A c \in Cancels : background'[c] > 0 => Made(c)'
         /\ Made(q)' /\ asked \subseteq asked'
<1>1. asked' = asked \cup {q} /\ cancels' = cancels + 1 /\ cancels' \in 0..MaxCancels
  BY Bounds DEF Ask
<1>2. /\ background' \in [Cancels -> Nat]
      /\ \A c \in Cancels : background'[c] <= background[c] + 1
      /\ \A c \in Cancels : c # q => background'[c] = background[c]
  BY Bounds
<1>3. \A c \in Cancels : background'[c] <= cancels'
  BY <1>1, <1>2, Bounds
<1>4. LedgerInv'
  BY <1>1, <1>2, <1>3, Bounds DEF LedgerInv, ledger
<1>5. \A c \in Cancels : background'[c] > 0 => Made(c)'
  BY <1>1, <1>2 DEF IInv, AskedInv, Made
<1> QED
  BY <1>1, <1>4, <1>5 DEF Made

LEMMA CancelInv ==
  ASSUME IInv, NEW q \in Cancels, Cancel(q)
  PROVE  IInv'
<1>1. Ask(q) /\ batch' = Signalled(q) /\ background' = [background EXCEPT ![q] = @ + 1]
      /\ UNCHANGED <<ledger, handler, faults>>
  BY DEF Cancel
<1>2. /\ LedgerInv' /\ Made(q)' /\ asked \subseteq asked'
      /\ \A c \in Cancels : background'[c] > 0 => Made(c)'
  BY <1>1, Bounds, AskLedger
<1>3. \A b \in Batches : Matches(q, b) => StopOfScan(b[1])'
  BY <1>2 DEF Matches, StopOfScan
<1>4. \A b \in Batches : \A ip : MatchesChild(q, b, ip) => StopOfIp(ip)'
  BY <1>2 DEF MatchesChild, StopOfIp
<1>5. BatchInv'
  <2>1. batch' = [b \in Batches |-> Signalled(q)[b]]
    BY <1>1 DEF Signalled
  <2> QED
    BY <2>1, SignalledBatches DEF BatchInv
<1>6. \A b \in Batches : Outstanding(b)' \subseteq Outstanding(b)
  BY <1>1, SignalledBatches DEF Outstanding
<1>7. AskedInv'
  <2>1. \A b \in Batches : batch'[b].signalled => StopOfScan(b[1])'
    BY <1>1, <1>2, <1>3, SignalledBatches, BatchFacts, AskedRemains
  <2> QED
    BY <1>2, <2>1 DEF AskedInv
<1>8. OnlyAskedWorkStops'
  <2> SUFFICES ASSUME NEW b \in Batches
               PROVE  /\ batch'[b].status \in {"canceled", "terminated"} => StopOfScan(b[1])'
                      /\ \A ip \in batch'[b].stopping : StopOfScan(b[1])' \/ StopOfIp(ip)'
    BY DEF OnlyAskedWorkStops
  <2>1. batch'[b].status \in {"canceled", "terminated"} => StopOfScan(b[1])'
    BY <1>1, <1>2, SignalledBatches, BatchFacts, AskedRemains
  <2>2. ASSUME NEW ip \in batch'[b].stopping
        PROVE  StopOfScan(b[1])' \/ StopOfIp(ip)'
    <3>1. ip \in batch[b].stopping \/ MatchesChild(q, b, ip)
      BY <1>1, <2>2, SignalledBatches
    <3> QED
      BY <1>2, <1>4, <3>1, BatchFacts, AskedRemains
  <2> QED
    BY <2>1, <2>2
<1>9. ReportedInv' /\ UNCHANGED handler /\ known \subseteq known'
  BY <1>1, ReportedKept DEF ledger
<1> QED
  BY <1>2, <1>5, <1>6, <1>7, <1>8, <1>9, BatchesMove

(* A step that touches no batch and asks for nothing less.                 *)
LEMMA StopsMove ==
  ASSUME IInv, LedgerInv', UNCHANGED <<ledger, handler, batch>>, asked \subseteq asked',
         \A c \in Cancels : background'[c] > 0 => Made(c)'
  PROVE  IInv'
<1>1. BatchInv' /\ \A b \in Batches : Outstanding(b)' \subseteq Outstanding(b)
  BY DEF IInv, TypeInv, BatchInv, Outstanding
<1>2. AskedInv'
  BY AskedRemains DEF IInv, AskedInv
<1>3. OnlyAskedWorkStops'
  BY AskedRemains DEF IInv, OnlyAskedWorkStops
<1>4. ReportedInv' /\ UNCHANGED handler /\ known \subseteq known'
  BY ReportedKept DEF ledger
<1> QED
  BY <1>1, <1>2, <1>3, <1>4, BatchesMove

LEMMA CancelFailsInv ==
  ASSUME IInv, NEW q \in Cancels, CancelFails(q)
  PROVE  IInv'
<1>1. Ask(q) /\ background' \in {background, [background EXCEPT ![q] = @ + 1]}
      /\ UNCHANGED <<ledger, handler, batch>> /\ faults' \in 0..MaxFaults
  BY Bounds DEF CancelFails
<1>2. /\ LedgerInv' /\ asked \subseteq asked'
      /\ \A c \in Cancels : background'[c] > 0 => Made(c)'
  BY <1>1, AskLedger
<1> QED
  BY <1>1, <1>2, StopsMove

(* A task that waited to terminate is done.                                *)
LEMMA DoneLedger ==
  ASSUME IInv, NEW q \in Cancels, background[q] > 0,
         background' = [background EXCEPT ![q] = @ - 1],
         UNCHANGED <<ledger, asked, cancels>>, faults' \in 0..MaxFaults
  PROVE  /\ LedgerInv' /\ Made(q)
         /\ \A c \in Cancels : background'[c] > 0 => Made(c)'
<1>1. /\ background' \in [Cancels -> Nat]
      /\ \A c \in Cancels : background'[c] <= background[c]
  BY Bounds
<1>2. \A c \in Cancels : background'[c] <= cancels
  BY <1>1, Bounds
<1>3. LedgerInv'
  BY <1>1, <1>2, Bounds DEF LedgerInv, ledger
<1> QED
  BY <1>1, <1>3, Bounds DEF IInv, AskedInv, Made

(* The query is evaluated anew, and closes what it matches now: batches    *)
(* that started after the cancel are of the scan it was made for.          *)
LEMMA TerminateInv ==
  ASSUME IInv, NEW q \in Cancels, Terminate(q)
  PROVE  IInv'
<1>1. background[q] > 0 /\ background' = [background EXCEPT ![q] = @ - 1]
      /\ batch' = Terminated(q) /\ UNCHANGED <<ledger, handler, asked, cancels, faults>>
  BY DEF Terminate
<1>2. /\ LedgerInv' /\ Made(q) /\ asked \subseteq asked'
      /\ \A c \in Cancels : background'[c] > 0 => Made(c)'
  BY <1>1, Bounds, DoneLedger
<1>3. BatchInv'
  <2>1. batch' = [b \in Batches |-> Terminated(q)[b]]
    BY <1>1 DEF Terminated
  <2> QED
    BY <2>1, TerminatedBatches DEF BatchInv
<1>4. \A b \in Batches : Outstanding(b)' \subseteq Outstanding(b)
  BY <1>1, TerminatedBatches DEF Outstanding
<1>5. \A b \in Batches : Matches(q, b) => StopOfScan(b[1])'
  BY <1>2, MatchesAsked, AskedRemains
<1>6. AskedInv'
  <2>1. \A b \in Batches : batch'[b].signalled => StopOfScan(b[1])'
    BY <1>1, <1>2, TerminatedBatches, BatchFacts, AskedRemains
  <2> QED
    BY <1>2, <2>1 DEF AskedInv
<1>7. OnlyAskedWorkStops'
  <2> SUFFICES ASSUME NEW b \in Batches, ~StopOfScan(b[1])'
               PROVE  /\ batch'[b].status \notin {"canceled", "terminated"}
                      /\ \A ip \in batch'[b].stopping : StopOfIp(ip)'
    BY DEF OnlyAskedWorkStops
  <2>1. ~StopOfScan(b[1])
    BY <1>2, AskedRemains
  <2>2. batch'[b].status = batch[b].status /\ batch'[b].stopping \subseteq batch[b].stopping
    BY <1>1, <1>5, TerminatedBatches
  <2> QED
    BY <1>2, <2>1, <2>2, BatchFacts, AskedRemains
<1>8. ReportedInv' /\ UNCHANGED handler /\ known \subseteq known'
  BY <1>1, ReportedKept DEF ledger
<1> QED
  BY <1>2, <1>3, <1>4, <1>6, <1>7, <1>8, BatchesMove

LEMMA TerminateFailsInv ==
  ASSUME IInv, NEW q \in Cancels, TerminateFails(q)
  PROVE  IInv'
<1>1. background[q] > 0 /\ background' = [background EXCEPT ![q] = @ - 1]
      /\ UNCHANGED <<ledger, handler, batch, asked, cancels>> /\ faults' \in 0..MaxFaults
  BY Bounds DEF TerminateFails
<1>2. LedgerInv' /\ \A c \in Cancels : background'[c] > 0 => Made(c)'
  BY <1>1, DoneLedger
<1> QED
  BY <1>1, <1>2, StopsMove

-----------------------------------------------------------------------------
(* What else happens: restarts, deletions, and reads of the state of a     *)
(* scan.                                                                   *)

(* A restart loses what a request held and every task that waited; the     *)
(* batches stay, and so does what was asked for.                           *)
LEMMA RestartInv ==
  ASSUME IInv, Restart
  PROVE  IInv'
<1> DEFINE h(s) == IF handler[s].pc \in {"idle", "done"} THEN handler[s]
                   ELSE At(handler[s], "lost", <<>>)
<1>1. /\ handler' = [s \in Scans |-> h(s)] /\ background' = [q \in Cancels |-> 0]
      /\ UNCHANGED <<known, reported, deletes, batch, asked, cancels>>
      /\ faults' \in 0..MaxFaults
  BY Bounds DEF Restart, ledger
<1>2. ASSUME NEW s \in Scans
      PROVE  /\ h(s) \in Handlers /\ Deduped(h(s)) /\ h(s).pc # "dedup"
             /\ h(s).pc = "idle" => handler[s].pc = "idle"
             /\ h(s).mode = handler[s].mode /\ h(s).before = handler[s].before
  <2>1. handler[s] \in Handlers /\ Deduped(handler[s])
    BY DEF IInv, TypeInv, HandlerInv, DedupInv
  <2>2. CASE handler[s].pc \in {"idle", "done"}
    BY <2>1, <2>2
  <2>3. CASE handler[s].pc \notin {"idle", "done"}
    <3>1. /\ h(s) \in Handlers /\ h(s).pc = "lost" /\ h(s).chunks = <<>>
          /\ h(s).mode = handler[s].mode /\ h(s).before = handler[s].before
      BY <2>1, <2>3, AtFields, EmptyChunking
    <3>2. Pending(h(s)) = {}
      BY <3>1, EmptyChunking DEF Pending
    <3> HIDE DEF h
    <3> QED
      BY <3>1, <3>2 DEF Deduped
  <2> QED
    BY <2>2, <2>3
<1> HIDE DEF h
<1>3. \A s \in Scans : handler'[s] = h(s)
  BY <1>1
<1>4. LedgerInv'
  BY <1>1, Bounds DEF LedgerInv
<1>5. HandlerInv' /\ BatchInv'
  BY <1>1, <1>2 DEF IInv, TypeInv, HandlerInv, BatchInv
<1>6. DedupInv'
  BY <1>1, <1>2, <1>3 DEF DedupInv, Deduped
<1>7. \A b \in Batches : b[1] \in Scans /\ Outstanding(b)' = Outstanding(b)
  BY <1>1 DEF Batches, Outstanding
<1>8. UnstartedInv' /\ KnownIsNotRescanned'
  BY <1>2, <1>3, <1>7 DEF IInv, UnstartedInv, KnownIsNotRescanned
<1>9. ReportedInv'
  BY <1>1, <1>2, <1>3 DEF IInv, ReportedInv
<1>10. AskedInv' /\ OnlyAskedWorkStops'
  BY <1>1, AskedRemains DEF IInv, AskedInv, OnlyAskedWorkStops
<1> QED
  BY <1>4, <1>5, <1>6, <1>8, <1>9, <1>10 DEF IInv, TypeInv

(* An address that is deleted leaves what is known and what a request had  *)
(* to skip; it stays reported while a request that found it may push it.   *)
LEMMA DeleteInv ==
  ASSUME IInv, NEW ip \in Ips, Delete(ip)
  PROVE  IInv'
<1> DEFINE h(s) == [handler[s] EXCEPT !.before = @ \ {ip}]
<1>1. /\ known' = known \ {ip} /\ deletes' \in 0..MaxDeletes
      /\ reported' = IF HeldKnown(ip) THEN reported ELSE reported \ {ip}
      /\ handler' = [s \in Scans |-> h(s)]
      /\ UNCHANGED <<batch, background, asked, cancels, faults>>
  BY Bounds DEF Delete, stops
<1>2. \A s \in Scans :
        /\ h(s) \in Handlers /\ h(s).pc = handler[s].pc /\ h(s).mode = handler[s].mode
        /\ h(s).ips = handler[s].ips /\ h(s).before = handler[s].before \ {ip}
        /\ h(s).searched = handler[s].searched /\ h(s).known = handler[s].known
        /\ h(s).chunks = handler[s].chunks
  BY DEF IInv, TypeInv, HandlerInv, Handlers
<1> HIDE DEF h
<1>3. \A s \in Scans : handler'[s] = h(s)
  BY <1>1
<1>4. LedgerInv'
  BY <1>1, Bounds DEF LedgerInv
<1>5. HandlerInv' /\ BatchInv'
  BY <1>1, <1>2 DEF IInv, TypeInv, HandlerInv, BatchInv
<1>6. DedupInv'
  <2> SUFFICES ASSUME NEW s \in Scans
               PROVE  Deduped(handler[s])'
    BY DEF DedupInv
  <2>1. Deduped(handler[s])
    BY DEF IInv, DedupInv
  <2> QED
    BY <2>1, <1>1, <1>2, <1>3 DEF Deduped, Pending
<1>7. \A b \in Batches : b[1] \in Scans /\ Outstanding(b)' = Outstanding(b)
  BY <1>1 DEF Batches, Outstanding
<1>8. UnstartedInv'
  BY <1>2, <1>3, <1>7 DEF IInv, UnstartedInv
<1>9. KnownIsNotRescanned'
  BY <1>2, <1>3, <1>7 DEF IInv, KnownIsNotRescanned
<1>10. ReportedInv'
  <2>1. known' \subseteq reported'
    BY <1>1 DEF IInv, ReportedInv
  <2>2. \A s \in Scans : handler'[s].pc = "dedup" => handler'[s].known \subseteq reported'
    BY <1>1, <1>2, <1>3 DEF IInv, ReportedInv, HeldKnown
  <2> QED
    BY <2>1, <2>2 DEF ReportedInv
<1>11. AskedInv' /\ OnlyAskedWorkStops'
  BY <1>1, AskedRemains DEF IInv, AskedInv, OnlyAskedWorkStops, Made
<1> QED
  BY <1>4, <1>5, <1>6, <1>8, <1>9, <1>10, <1>11 DEF IInv, TypeInv

(* A step that changes at most what a status request has read.             *)
LEMMA Unmoved ==
  ASSUME IInv, UNCHANGED <<ledger, handler, batch, stops, faults>>
  PROVE  IInv'
<1>1. LedgerInv' /\ asked \subseteq asked' /\ UNCHANGED <<ledger, handler, batch>>
  BY LedgerKept DEF stops
<1>2. \A c \in Cancels : background'[c] > 0 => Made(c)'
  BY DEF stops, IInv, AskedInv, Made
<1> QED
  BY <1>1, <1>2, StopsMove

-----------------------------------------------------------------------------
(* Every step keeps the invariant.                                         *)

LEMMA NextInv == IInv /\ [Next]_vars => IInv'
<1> SUFFICES ASSUME IInv, [Next]_vars
             PROVE  IInv'
  OBVIOUS
<1>1. CASE \E s \in Scans : RequestStep(s) \/ ListBatches(s)
  <2>1. PICK s \in Scans : RequestStep(s) \/ ListBatches(s)
    BY <1>1
  <2>2. CASE ListBatches(s)
    <3>1. UNCHANGED <<ledger, handler, batch, stops, faults>>
      BY <2>2 DEF ListBatches
    <3> QED
      BY <3>1, Unmoved
  <2>3. CASE \E i \in Unstarted(s) : StartBatch(s, i) \/ StartFails(s, i)
    BY <2>3, StartBatchInv, StartFailsInv
  <2> QED
    BY <2>1, <2>2, <2>3, BeginInv, SearchKnownInv, ListRunningInv, MergeInv, BuildInv, RespondInv
       DEF RequestStep
<1>2. CASE \E b \in Batches : WorkerStep(b)
  BY <1>2, BatchCompletesInv, BatchCanceledInv, StartChildInv, ChildEndsInv DEF WorkerStep
<1>3. CASE \E q \in Cancels : Cancel(q) \/ CancelFails(q) \/ Terminate(q) \/ TerminateFails(q)
  BY <1>3, CancelInv, CancelFailsInv, TerminateInv, TerminateFailsInv
<1>4. CASE Restart
  BY <1>4, RestartInv
<1>5. CASE QueryProgress
  <2>1. UNCHANGED <<ledger, handler, batch, stops, faults>>
    BY <1>5 DEF QueryProgress
  <2> QED
    BY <2>1, Unmoved
<1>6. CASE \E ip \in Ips : Delete(ip)
  BY <1>6, DeleteInv
<1>7. CASE UNCHANGED vars
  <2>1. UNCHANGED <<ledger, handler, batch, stops, faults>>
    BY <1>7 DEF vars, ledger, stops
  <2> QED
    BY <2>1, Unmoved
<1> QED
  BY <1>1, <1>2, <1>3, <1>4, <1>5, <1>6, <1>7 DEF Next

(* The invariant always holds.                                             *)
LEMMA Invariant == Spec => []IInv
BY InitInv, NextInv, PTL DEF Spec

-----------------------------------------------------------------------------
(* Every reachable state is well typed, and in every running batch each    *)
(* target is queued, active or counted exactly once, through cancels and   *)
(* terminations at any moment.                                             *)
THEOREM TypeCorrect == Spec => []TypeOK
<1>1. IInv => TypeOK
  <2> SUFFICES ASSUME IInv
               PROVE  TypeOK
    OBVIOUS
  <2>1. \A q \in Cancels : background[q] \in 0..MaxCancels
    BY Bounds
  <2>2. background \in [Cancels -> 0..MaxCancels]
    BY <2>1, Bounds
  <2>3. \A s \in Scans : handler[s].pc \in {"idle", "dedup", "build", "start", "done", "error", "lost"}
    BY DEF IInv, TypeInv, HandlerInv, Handlers
  <2>4. ASSUME NEW b \in Batches
        PROVE  /\ batch[b].status \in {"none", "running", "completed", "canceled", "terminated"}
               /\ batch[b].stopping \subseteq batch[b].active
               /\ ~RunningBatch(b) => batch[b].queued = {}
               /\ RunningBatch(b) =>
                    batch[b].completed + batch[b].failed + Cardinality(batch[b].active)
                      + Cardinality(batch[b].queued) = batch[b].total
    <3>1. Accounted(batch[b])
      BY BatchFacts
    <3>2. batch[b].status \in {"none", "running", "completed", "canceled", "terminated"}
      BY BatchFacts DEF Views
    <3> QED
      BY <3>1, <3>2 DEF Accounted, RunningBatch
  <2> QED
    BY <2>2, <2>3, <2>4, Bounds DEF TypeOK
<1> QED
  BY <1>1, Invariant, PTL

(* An INSERT scan never scans an address scanledger had when its request   *)
(* came and still has, however many requests overlap.                      *)
THEOREM InsertSkipsKnown == Spec => []KnownIsNotRescanned
<1>1. IInv => KnownIsNotRescanned
  BY DEF IInv
<1> QED
  BY <1>1, Invariant, PTL

(* No request makes known what nobody reported.                            *)
THEOREM MergeAddsNothing == Spec => []KnownWasReported
<1>1. IInv => KnownWasReported
  BY DEF IInv, ReportedInv, KnownWasReported
<1> QED
  BY <1>1, Invariant, PTL

(* Whatever was stopped was asked to stop, though the query is evaluated   *)
(* twice and batches start between the two evaluations.                    *)
THEOREM CancelStopsItsOwn == Spec => []OnlyAskedWorkStops
<1>1. IInv => OnlyAskedWorkStops
  BY DEF IInv
<1> QED
  BY <1>1, Invariant, PTL

-----------------------------------------------------------------------------
(* Status requests.  What one has read may be old when it answers, so that *)
(* a scan it saw completed must stay completed, with nothing outstanding.  *)

(* A completed batch has counted each of its targets, for good.            *)
Final(v) ==
  v.status = "completed" => v.active = {} /\ v.completed + v.failed = v.total

(* Whether the handler of a scan may still start a batch.                  *)
Waits(h, b) ==
  \/ h.pc \in {"idle", "dedup", "build"}
  \/ b[2] \in DOMAIN h.chunks /\ h.chunks[b[2]] # {}

(* No batch is started twice: it would leave what it has completed.        *)
FinalInv ==
  \A b \in Batches :
    /\ Final(batch[b])
    /\ Waits(handler[b[1]], b) => batch[b].status = "none"

ListedInv ==
  /\ report.executions \subseteq Batches
  /\ report.state = "completed" => \A b \in report.executions : batch[b].status = "completed"

StatusInv == IInv /\ FinalInv /\ ListedInv

(* What holds of the views of a batch before and after a step.             *)
Settled(v, w) ==
  /\ Final(w)
  /\ v.status = "none" => w.status = "none"
  /\ v.status = "completed" => w.status = "completed"

LEMMA SettledItself ==
  ASSUME NEW v, Final(v)
  PROVE  Settled(v, v)
BY DEF Settled

(* Batches that take steps of their own, and handlers that stay.           *)
LEMMA OneBatchSettles ==
  ASSUME StatusInv, NEW b \in Batches, NEW v, Settled(batch[b], v),
         batch' = [batch EXCEPT ![b] = v], UNCHANGED <<handler, report>>
  PROVE  FinalInv' /\ ListedInv'
<1>1. batch \in [Batches -> Views]
  BY DEF StatusInv, IInv, TypeInv, BatchInv
<1>2. \A c \in Batches : Settled(batch[c], batch'[c])
  BY <1>1, SettledItself DEF StatusInv, FinalInv
<1>3. FinalInv'
  BY <1>2 DEF StatusInv, FinalInv, Settled, Waits
<1>4. ListedInv'
  BY <1>2 DEF StatusInv, ListedInv, Settled
<1> QED
  BY <1>3, <1>4

LEMMA WorkerSettles ==
  ASSUME StatusInv, NEW b \in Batches, WorkerStep(b)
  PROVE  FinalInv' /\ ListedInv'
<1>1. batch[b] \in Views /\ Accounted(batch[b]) /\ Final(batch[b])
  BY BatchFacts DEF StatusInv, FinalInv
<1>2. CASE BatchCompletes(b)
  <2> DEFINE v == [batch[b] EXCEPT !.status = "completed"]
  <2>1. /\ batch[b].status = "running" /\ batch[b].queued = {} /\ batch[b].active = {}
        /\ batch' = [batch EXCEPT ![b] = v] /\ UNCHANGED <<handler, report>>
    BY <1>2 DEF BatchCompletes, CanComplete, IsRunning
  <2>2. Cardinality(batch[b].queued) = 0 /\ Cardinality(batch[b].active) = 0
    BY <2>1, FS_EmptySet
  <2>3. batch[b].completed + batch[b].failed = batch[b].total
    BY <1>1, <2>1, <2>2, ViewFields DEF Accounted, IsRunning
  <2>4. /\ v.active = batch[b].active /\ v.completed = batch[b].completed
        /\ v.failed = batch[b].failed /\ v.total = batch[b].total
    BY <1>1 DEF Views
  <2> HIDE DEF v
  <2>5. Settled(batch[b], v)
    BY <2>1, <2>3, <2>4 DEF Settled, Final
  <2> QED
    BY <2>1, <2>5, OneBatchSettles
<1>3. CASE BatchCanceled(b)
  <2> DEFINE v == ClosedBy(batch[b], "canceled")
  <2>1. /\ batch[b].status = "running" /\ v.status = "canceled"
        /\ batch' = [batch EXCEPT ![b] = v] /\ UNCHANGED <<handler, report>>
    BY <1>1, <1>3 DEF BatchCanceled, RunningBatch, IsRunning, ClosedBy, Views
  <2> HIDE DEF v
  <2>2. Settled(batch[b], v)
    BY <2>1 DEF Settled, Final
  <2> QED
    BY <2>1, <2>2, OneBatchSettles
<1>4. CASE \E ip \in Ips : StartChild(b, ip)
  <2> PICK ip \in Ips : StartChild(b, ip)
    BY <1>4
  <2> DEFINE v == Start(batch[b], ip)
  <2>1. /\ batch[b].status = "running" /\ v.status = "running"
        /\ batch' = [batch EXCEPT ![b] = v] /\ UNCHANGED <<handler, report>>
    BY <1>1 DEF StartChild, CanStart, IsRunning, Start, Views
  <2> HIDE DEF v
  <2>2. Settled(batch[b], v)
    BY <2>1 DEF Settled, Final
  <2> QED
    BY <2>1, <2>2, OneBatchSettles
<1>5. ASSUME NEW ip \in Ips, NEW ok \in BOOLEAN, ChildEnds(b, ip, ok)
      PROVE  FinalInv' /\ ListedInv'
  <2> DEFINE v == End(batch[b], ip, ok)
  <2>1. /\ batch[b].active # {} /\ v.status = batch[b].status
        /\ batch' = [batch EXCEPT ![b] = v] /\ UNCHANGED <<handler, report>>
    BY <1>1, <1>5 DEF ChildEnds, End, Views
  <2> HIDE DEF v
  <2>2. Settled(batch[b], v)
    BY <1>1, <2>1 DEF Settled, Final
  <2> QED
    BY <2>1, <2>2, OneBatchSettles
<1> QED
  BY <1>2, <1>3, <1>4, <1>5 DEF WorkerStep

(* A query that signals, or terminates, batches and children.              *)
LEMMA QuerySettles ==
  ASSUME StatusInv, NEW q \in Cancels, Cancel(q) \/ Terminate(q)
  PROVE  FinalInv' /\ ListedInv'
<1>1. UNCHANGED <<handler, report>> /\ batch' \in {Signalled(q), Terminated(q)}
  BY DEF Cancel, Ask, Terminate
<1>2. ASSUME NEW b \in Batches
      PROVE  Settled(batch[b], Signalled(q)[b])
  <2> DEFINE w == Signalled(q)[b]
  <2>1. batch[b] \in Views /\ Final(batch[b])
    BY <1>2, BatchFacts DEF StatusInv, FinalInv
  <2>2. /\ w.status = batch[b].status /\ w.active = batch[b].active /\ w.total = batch[b].total
        /\ w.completed = batch[b].completed /\ w.failed = batch[b].failed
    BY <2>1 DEF Signalled, Views
  <2> HIDE DEF w
  <2>3. Settled(batch[b], w)
    BY <2>1, <2>2 DEF Settled, Final
  <2> QED
    BY <2>3 DEF w
<1>3. ASSUME NEW b \in Batches
      PROVE  Settled(batch[b], Terminated(q)[b])
  <2> DEFINE gone == {ip \in batch[b].active : MatchesChild(q, b, ip)}
             w == Terminated(q)[b]
  <2>1. batch[b] \in Views /\ Final(batch[b])
    BY <1>3, BatchFacts DEF StatusInv, FinalInv
  <2>2. CASE Matches(q, b)
    <3>1. batch[b].status = "running" /\ w.status = "terminated"
      BY <2>1, <2>2 DEF Terminated, Matches, RunningBatch, IsRunning, ClosedBy, Views
    <3> HIDE DEF w
    <3>2. Settled(batch[b], w)
      BY <3>1 DEF Settled, Final
    <3> QED
      BY <3>2 DEF w
  <2>3. CASE ~Matches(q, b)
    <3>1. w = [batch[b] EXCEPT
                 !.active = @ \ gone, !.stopping = @ \ gone,
                 !.failed = IF RunningBatch(b) THEN @ + Cardinality(gone) ELSE @]
      BY <2>3 DEF Terminated
    <3>2. gone \subseteq batch[b].active
      OBVIOUS
    <3> HIDE DEF gone
    <3>3. /\ w.status = batch[b].status /\ w.active = batch[b].active \ gone
          /\ w.completed = batch[b].completed /\ w.total = batch[b].total
          /\ ~RunningBatch(b) => w.failed = batch[b].failed
      BY <2>1, <3>1 DEF Views
    <3> HIDE DEF w
    <3>4. Settled(batch[b], w)
      BY <2>1, <3>3 DEF Settled, Final, RunningBatch, IsRunning
    <3> QED
      BY <3>4 DEF w
  <2> QED
    BY <2>2, <2>3
<1>4. \A b \in Batches : Settled(batch[b], batch'[b])
  BY <1>1, <1>2, <1>3
<1>5. FinalInv'
  BY <1>1, <1>4 DEF StatusInv, FinalInv, Settled, Waits
<1>6. ListedInv'
  BY <1>1, <1>4 DEF StatusInv, ListedInv, Settled
<1> QED
  BY <1>5, <1>6

(* Requests that go on: a batch that can still be started could be before, *)
(* so that it has not been.                                                *)
LEMMA HandlersSettle ==
  ASSUME StatusInv, UNCHANGED <<batch, report>>,
         \A b \in Batches : Waits(handler'[b[1]], b) => Waits(handler[b[1]], b)
  PROVE  FinalInv' /\ ListedInv'
<1>1. FinalInv'
  BY DEF StatusInv, FinalInv, Final
<1>2. ListedInv'
  BY DEF StatusInv, ListedInv
<1> QED
  BY <1>1, <1>2

LEMMA OneHandlerSettles ==
  ASSUME StatusInv, NEW s \in Scans, NEW h, UNCHANGED <<batch, report>>,
         handler' = [handler EXCEPT ![s] = h],
         \A b \in Batches : Waits(h, b) => Waits(handler[s], b)
  PROVE  FinalInv' /\ ListedInv'
<1>1. handler \in [Scans -> Handlers]
  BY DEF StatusInv, IInv, TypeInv, HandlerInv
<1>2. \A b \in Batches : Waits(handler'[b[1]], b) => Waits(handler[b[1]], b)
  BY <1>1
<1> QED
  BY <1>2, HandlersSettle

LEMMA DropWaits ==
  ASSUME NEW h \in Handlers, NEW i \in DOMAIN h.chunks, h.pc \in {"start", "error"}, NEW b
  PROVE  /\ Waits(Drop(h, i), b) => Waits(h, b) /\ b[2] # i
         /\ Waits([Drop(h, i) EXCEPT !.pc = "error"], b) => Waits(h, b)
<1> DEFINE d == Drop(h, i)
           e == [d EXCEPT !.pc = "error"]
<1>1. d.pc = h.pc /\ d.chunks = [h.chunks EXCEPT ![i] = {}]
  BY DEF Drop, Handlers
<1>2. d \in Handlers
  BY DropFields
<1> HIDE DEF d
<1>3. e.pc = "error" /\ e.chunks = d.chunks
  BY <1>2 DEF Handlers
<1> HIDE DEF e
<1>4. Waits(d, b) => Waits(h, b) /\ b[2] # i
  BY <1>1 DEF Waits
<1>5. Waits(e, b) => Waits(h, b)
  BY <1>1, <1>3 DEF Waits
<1> QED
  BY <1>4, <1>5 DEF d, e

LEMMA RequestSettles ==
  ASSUME StatusInv, NEW s \in Scans, RequestStep(s)
  PROVE  FinalInv' /\ ListedInv'
<1>1. handler[s] \in Handlers /\ handler \in [Scans -> Handlers]
  BY DEF StatusInv, IInv, TypeInv, HandlerInv
<1>2. CASE Begin(s)
  <2>1. handler[s].pc = "idle" /\ UNCHANGED <<batch, report>>
    BY <1>2 DEF Begin
  <2>2. \E h : handler' = [handler EXCEPT ![s] = h]
    BY <1>2 DEF Begin
  <2> QED
    BY <2>1, <2>2, OneHandlerSettles DEF Waits
<1>3. CASE SearchKnown(s) \/ ListRunning(s) \/ Merge(s)
  <2>1. handler[s].pc = "dedup" /\ UNCHANGED <<batch, report>>
    BY <1>3 DEF SearchKnown, ListRunning, Merge
  <2>2. \E h : handler' = [handler EXCEPT ![s] = h]
    BY <1>3 DEF SearchKnown, ListRunning, Merge
  <2> QED
    BY <2>1, <2>2, OneHandlerSettles DEF Waits
<1>4. CASE Build(s)
  <2>1. handler[s].pc = "build" /\ UNCHANGED <<batch, report>>
    BY <1>4 DEF Build
  <2>2. \E h : handler' = [handler EXCEPT ![s] = h]
    BY <1>4 DEF Build
  <2> QED
    BY <2>1, <2>2, OneHandlerSettles DEF Waits
<1>5. CASE Respond(s)
  <2> DEFINE h == At(handler[s], "done", <<>>)
  <2>1. UNCHANGED <<batch, report>> /\ handler' = [handler EXCEPT ![s] = h]
    BY <1>5 DEF Respond
  <2>2. h.pc = "done" /\ DOMAIN h.chunks = {}
    BY <1>1, AtFields, EmptyChunking
  <2> HIDE DEF h
  <2>3. \A b \in Batches : ~Waits(h, b)
    BY <2>2 DEF Waits
  <2> QED
    BY <2>1, <2>3, OneHandlerSettles
<1>6. ASSUME NEW i \in Unstarted(s), StartFails(s, i)
      PROVE  FinalInv' /\ ListedInv'
  <2> DEFINE h == [Drop(handler[s], i) EXCEPT !.pc = "error"]
  <2>1. UNCHANGED <<batch, report>> /\ handler' = [handler EXCEPT ![s] = h]
    BY <1>6 DEF StartFails
  <2>2. i \in DOMAIN handler[s].chunks /\ handler[s].pc \in {"start", "error"}
    BY <1>6 DEF StartFails, Unstarted
  <2>3. \A b \in Batches : Waits(h, b) => Waits(handler[s], b)
    BY <1>1, <2>2, DropWaits
  <2> HIDE DEF h
  <2> QED
    BY <2>1, <2>3, OneHandlerSettles
<1>7. ASSUME NEW i \in Unstarted(s), StartBatch(s, i)
      PROVE  FinalInv' /\ ListedInv'
  <2> DEFINE v == Started(handler[s].chunks[i])
             d == Drop(handler[s], i)
  <2>1. /\ UNCHANGED report /\ handler' = [handler EXCEPT ![s] = d]
        /\ batch' = [batch EXCEPT ![<<s, i>>] = v]
    BY <1>7 DEF StartBatch
  <2>2. /\ i \in DOMAIN handler[s].chunks /\ handler[s].pc \in {"start", "error"}
        /\ handler[s].chunks[i] # {}
    BY <1>7 DEF StartBatch, Unstarted
  <2>3. \A b \in Batches : Waits(d, b) => Waits(handler[s], b) /\ b[2] # i
    BY <1>1, <2>2, DropWaits
  <2>4. v.status = "running"
    BY DEF Started, NoBatch
  <2> HIDE DEF v, d
  <2>5. batch \in [Batches -> Views]
    BY DEF StatusInv, IInv, TypeInv, BatchInv
  <2>6. ASSUME NEW b \in Batches, b # <<s, i>>
        PROVE  batch'[b] = batch[b]
    BY <2>1, <2>5, <2>6
  <2>7. ASSUME <<s, i>> \in Batches
        PROVE  batch[<<s, i>>].status = "none" /\ batch'[<<s, i>>] = v
    <3>1. Waits(handler[s], <<s, i>>)
      BY <2>2 DEF Waits
    <3> QED
      BY <2>1, <2>5, <2>7, <3>1 DEF StatusInv, FinalInv
  <2>8. FinalInv'
    <3> SUFFICES ASSUME NEW b \in Batches
                 PROVE  /\ Final(batch'[b])
                        /\ Waits(handler'[b[1]], b) => batch'[b].status = "none"
      BY DEF FinalInv, Final, Waits
    <3>1. CASE b = <<s, i>>
      <4>1. Final(batch'[b])
        BY <2>4, <2>7, <3>1 DEF Final
      <4>2. ~Waits(handler'[b[1]], b)
        BY <1>1, <2>1, <2>3, <3>1
      <4> QED
        BY <4>1, <4>2
    <3>2. CASE b # <<s, i>>
      <4>1. Waits(handler'[b[1]], b) => Waits(handler[b[1]], b)
        BY <1>1, <2>1, <2>3
      <4> QED
        BY <2>6, <3>2, <4>1 DEF StatusInv, FinalInv
    <3> QED
      BY <3>1, <3>2
  <2>9. ListedInv'
    <3>1. \A b \in Batches : batch[b].status = "completed" => batch'[b].status = "completed"
      BY <2>6, <2>7
    <3> QED
      BY <2>1, <3>1 DEF StatusInv, ListedInv
  <2> QED
    BY <2>8, <2>9
<1> QED
  BY <1>2, <1>3, <1>4, <1>5, <1>6, <1>7 DEF RequestStep

(* What a status request reads, it reads in one state.                     *)
LEMMA ListSettles ==
  ASSUME StatusInv, NEW s \in Scans, ListBatches(s)
  PROVE  FinalInv' /\ ListedInv'
<1> DEFINE started == {b \in Batches : b[1] = s /\ batch[b].status # "none"}
           state == StateOf({batch[b].status : b \in started})
<1>1. /\ UNCHANGED <<handler, batch>>
      /\ report' = [NoReport EXCEPT !.pc = "listed", !.executions = started, !.state = state]
  BY DEF ListBatches
<1>2. FinalInv'
  BY <1>1 DEF StatusInv, FinalInv, Final, Waits
<1>3. state = "completed" => \A b \in started : batch[b].status = "completed"
  <2>1. \A b \in Batches : batch[b].status \in {"none", "running", "completed", "canceled", "terminated"}
    BY BatchFacts DEF StatusInv, Views
  <2> QED
    BY <2>1 DEF StateOf
<1>4. started \subseteq Batches
  OBVIOUS
<1> HIDE DEF started, state
<1>5. report'.executions = started /\ report'.state = state
  BY <1>1 DEF NoReport
<1>6. ListedInv'
  BY <1>1, <1>3, <1>4, <1>5 DEF ListedInv
<1> QED
  BY <1>2, <1>6

LEMMA InitStatus == Init => StatusInv
<1> SUFFICES ASSUME Init
             PROVE  StatusInv
  OBVIOUS
<1>1. \A b \in Batches : batch[b].status = "none"
  BY DEF Init, NoBatch
<1>2. report.executions = {}
  BY DEF Init, NoReport
<1>3. FinalInv /\ ListedInv
  BY <1>1, <1>2 DEF FinalInv, Final, ListedInv
<1> QED
  BY <1>3, InitInv DEF StatusInv

LEMMA NextStatus == StatusInv /\ [Next]_vars => StatusInv'
<1> SUFFICES ASSUME StatusInv, [Next]_vars
             PROVE  FinalInv' /\ ListedInv'
  BY NextInv DEF StatusInv
<1>1. CASE \E s \in Scans : RequestStep(s) \/ ListBatches(s)
  BY <1>1, RequestSettles, ListSettles
<1>2. CASE \E b \in Batches : WorkerStep(b)
  BY <1>2, WorkerSettles
<1>3. CASE \E q \in Cancels : Cancel(q) \/ CancelFails(q) \/ Terminate(q) \/ TerminateFails(q)
  <2>1. PICK q \in Cancels : Cancel(q) \/ CancelFails(q) \/ Terminate(q) \/ TerminateFails(q)
    BY <1>3
  <2>2. CASE CancelFails(q) \/ TerminateFails(q)
    <3>1. UNCHANGED <<handler, batch, report>>
      BY <2>2 DEF CancelFails, TerminateFails
    <3> QED
      BY <3>1, HandlersSettle
  <2> QED
    BY <2>1, <2>2, QuerySettles
<1>4. CASE Restart
  <2> DEFINE h(s) == IF handler[s].pc \in {"idle", "done"} THEN handler[s]
                     ELSE At(handler[s], "lost", <<>>)
  <2>1. UNCHANGED batch /\ report' = NoReport /\ handler' = [s \in Scans |-> h(s)]
    BY <1>4 DEF Restart
  <2>2. \A s \in Scans : \A b : Waits(h(s), b) => Waits(handler[s], b)
    <3> SUFFICES ASSUME NEW s \in Scans, handler[s].pc \notin {"idle", "done"}, NEW b
                 PROVE  ~Waits(h(s), b)
      OBVIOUS
    <3>1. handler[s] \in Handlers
      BY DEF StatusInv, IInv, TypeInv, HandlerInv
    <3>2. h(s).pc = "lost" /\ DOMAIN h(s).chunks = {}
      BY <3>1, AtFields, EmptyChunking
    <3> HIDE DEF h
    <3> QED
      BY <3>2 DEF Waits
  <2> HIDE DEF h
  <2>3. \A b \in Batches : b[1] \in Scans
    BY DEF Batches
  <2>4. FinalInv'
    BY <2>1, <2>2, <2>3 DEF StatusInv, FinalInv, Final
  <2>5. ListedInv'
    BY <2>1 DEF ListedInv, NoReport
  <2> QED
    BY <2>4, <2>5
<1>5. CASE QueryProgress
  <2>1. UNCHANGED <<handler, batch>> /\ report' = NoReport
    BY <1>5 DEF QueryProgress
  <2>2. FinalInv'
    BY <2>1 DEF StatusInv, FinalInv, Final, Waits
  <2>3. ListedInv'
    BY <2>1 DEF ListedInv, NoReport
  <2> QED
    BY <2>2, <2>3
<1>6. CASE \E ip \in Ips : Delete(ip)
  <2>1. PICK ip \in Ips : Delete(ip)
    BY <1>6
  <2>2. /\ UNCHANGED <<batch, report>>
        /\ handler' = [s \in Scans |-> [handler[s] EXCEPT !.before = @ \ {ip}]]
    BY <2>1 DEF Delete
  <2>3. \A s \in Scans : /\ handler'[s].pc = handler[s].pc
                         /\ handler'[s].chunks = handler[s].chunks
    BY <2>2 DEF StatusInv, IInv, TypeInv, HandlerInv, Handlers
  <2>4. \A b \in Batches : b[1] \in Scans
    BY DEF Batches
  <2>5. \A b \in Batches : Waits(handler'[b[1]], b) => Waits(handler[b[1]], b)
    BY <2>3, <2>4 DEF Waits
  <2> QED
    BY <2>2, <2>5, HandlersSettle
<1>7. CASE UNCHANGED vars
  <2>1. UNCHANGED <<handler, batch, report>>
    BY <1>7 DEF vars
  <2> QED
    BY <2>1, HandlersSettle
<1> QED
  BY <1>1, <1>2, <1>3, <1>4, <1>5, <1>6, <1>7 DEF Next

LEMMA StatusInvariant == Spec => []StatusInv
BY InitStatus, NextStatus, PTL DEF Spec

-----------------------------------------------------------------------------
(* Sums over the batches that answered.                                    *)

(* The sums a status request answers with are such sums.                  *)
SumCompleted(vs, S) == MapThenSumSet(LAMBDA b : vs[b].completed, S)

LEMMA CompletedSums ==
  ASSUME NEW vs, NEW S, IsFiniteSet(S), NEW w, \A b \in S : w[b] = vs[b].completed
  PROVE  HasSum(w, S, SumCompleted(vs, S))
<1> DEFINE it == CHOOSE iter : iter = [s \in SUBSET S |->
                   IF s = {} THEN 0
                   ELSE vs[CHOOSE x \in s : TRUE].completed + iter[s \ {CHOOSE x \in s : TRUE}]]
<1>1. PICK f : SumsOf(f, w, SUBSET S)
  BY SumsExist
<1>2. \A s \in SUBSET S : s # {} =>
        w[CHOOSE x \in s : TRUE] = vs[CHOOSE x \in s : TRUE].completed
  OBVIOUS
<1>3. f = [s \in SUBSET S |->
             IF s = {} THEN 0
             ELSE vs[CHOOSE x \in s : TRUE].completed + f[s \ {CHOOSE x \in s : TRUE}]]
  BY <1>1, <1>2 DEF SumsOf
<1>4. it = [s \in SUBSET S |->
              IF s = {} THEN 0
              ELSE vs[CHOOSE x \in s : TRUE].completed + it[s \ {CHOOSE x \in s : TRUE}]]
  BY <1>3
<1>5. SumCompleted(vs, S) = it[S]
  BY DEF SumCompleted, MapThenSumSet, MapThenFoldSet
<1> HIDE DEF it
<1>6. SumsOf(it, w, SUBSET S)
  BY <1>2, <1>4 DEF SumsOf
<1> QED
  BY <1>5, <1>6 DEF HasSum

SumFailed(vs, S) == MapThenSumSet(LAMBDA b : vs[b].failed, S)

LEMMA FailedSums ==
  ASSUME NEW vs, NEW S, IsFiniteSet(S), NEW w, \A b \in S : w[b] = vs[b].failed
  PROVE  HasSum(w, S, SumFailed(vs, S))
<1> DEFINE it == CHOOSE iter : iter = [s \in SUBSET S |->
                   IF s = {} THEN 0
                   ELSE vs[CHOOSE x \in s : TRUE].failed + iter[s \ {CHOOSE x \in s : TRUE}]]
<1>1. PICK f : SumsOf(f, w, SUBSET S)
  BY SumsExist
<1>2. \A s \in SUBSET S : s # {} =>
        w[CHOOSE x \in s : TRUE] = vs[CHOOSE x \in s : TRUE].failed
  OBVIOUS
<1>3. f = [s \in SUBSET S |->
             IF s = {} THEN 0
             ELSE vs[CHOOSE x \in s : TRUE].failed + f[s \ {CHOOSE x \in s : TRUE}]]
  BY <1>1, <1>2 DEF SumsOf
<1>4. it = [s \in SUBSET S |->
              IF s = {} THEN 0
              ELSE vs[CHOOSE x \in s : TRUE].failed + it[s \ {CHOOSE x \in s : TRUE}]]
  BY <1>3
<1>5. SumFailed(vs, S) = it[S]
  BY DEF SumFailed, MapThenSumSet, MapThenFoldSet
<1> HIDE DEF it
<1>6. SumsOf(it, w, SUBSET S)
  BY <1>2, <1>4 DEF SumsOf
<1> QED
  BY <1>5, <1>6 DEF HasSum

SumTotal(vs, S) == MapThenSumSet(LAMBDA b : vs[b].total, S)

LEMMA TotalSums ==
  ASSUME NEW vs, NEW S, IsFiniteSet(S), NEW w, \A b \in S : w[b] = vs[b].total
  PROVE  HasSum(w, S, SumTotal(vs, S))
<1> DEFINE it == CHOOSE iter : iter = [s \in SUBSET S |->
                   IF s = {} THEN 0
                   ELSE vs[CHOOSE x \in s : TRUE].total + iter[s \ {CHOOSE x \in s : TRUE}]]
<1>1. PICK f : SumsOf(f, w, SUBSET S)
  BY SumsExist
<1>2. \A s \in SUBSET S : s # {} =>
        w[CHOOSE x \in s : TRUE] = vs[CHOOSE x \in s : TRUE].total
  OBVIOUS
<1>3. f = [s \in SUBSET S |->
             IF s = {} THEN 0
             ELSE vs[CHOOSE x \in s : TRUE].total + f[s \ {CHOOSE x \in s : TRUE}]]
  BY <1>1, <1>2 DEF SumsOf
<1>4. it = [s \in SUBSET S |->
              IF s = {} THEN 0
              ELSE vs[CHOOSE x \in s : TRUE].total + it[s \ {CHOOSE x \in s : TRUE}]]
  BY <1>3
<1>5. SumTotal(vs, S) = it[S]
  BY DEF SumTotal, MapThenSumSet, MapThenFoldSet
<1> HIDE DEF it
<1>6. SumsOf(it, w, SUBSET S)
  BY <1>2, <1>4 DEF SumsOf
<1> QED
  BY <1>5, <1>6 DEF HasSum

(* Counters that add up for each batch add up for all.                     *)
LEMMA SumsAdd ==
  ASSUME NEW S, IsFiniteSet(S), NEW u \in [S -> Int], NEW v \in [S -> Int], NEW w,
         \A b \in S : u[b] + v[b] = w[b],
         NEW x, HasSum(u, S, x), NEW y, HasSum(v, S, y), NEW z, HasSum(w, S, z)
  PROVE  x + y = z
<1>1. PICK f : SumsOf(f, u, SUBSET S) /\ f[S] = x
  BY DEF HasSum
<1>2. PICK g : SumsOf(g, v, SUBSET S) /\ g[S] = y
  BY DEF HasSum
<1>3. PICK h : SumsOf(h, w, SUBSET S) /\ h[S] = z
  BY DEF HasSum
<1> DEFINE Adds(s) == f[s] \in Int /\ g[s] \in Int /\ f[s] + g[s] = h[s]
           B == {n \in Nat : \A s \in Family(S, n) : Adds(s)}
<1>4. Adds({})
  <2>1. f[{}] = 0 /\ g[{}] = 0 /\ h[{}] = 0
    BY <1>1, <1>2, <1>3 DEF SumsOf
  <2> QED
    BY <2>1
<1>5. ASSUME NEW s \in SUBSET S, s # {}, Adds(s \ {Some(s)})
      PROVE  Adds(s)
  <2>1. Some(s) \in S
    BY <1>5, SomeElement
  <2>2. /\ f[s] = u[Some(s)] + f[s \ {Some(s)}]
        /\ g[s] = v[Some(s)] + g[s \ {Some(s)}]
        /\ h[s] = w[Some(s)] + h[s \ {Some(s)}]
    BY <1>1, <1>2, <1>3, <1>5 DEF SumsOf, Some
  <2>3. u[Some(s)] \in Int /\ v[Some(s)] \in Int /\ u[Some(s)] + v[Some(s)] = w[Some(s)]
    BY <2>1
  <2> QED
    BY <1>5, <2>2, <2>3
<1> HIDE DEF Adds
<1>6. 0 \in B
  <2> SUFFICES ASSUME NEW s \in SUBSET S, Cardinality(s) <= 0
               PROVE  s = {}
    BY <1>4 DEF Family
  <2> QED
    BY FS_Subset, FS_CardinalityType, FS_EmptySet
<1>7. ASSUME NEW n \in B
      PROVE  n + 1 \in B
  <2> SUFFICES ASSUME NEW s \in Family(S, n + 1)
               PROVE  Adds(s)
    BY <1>7
  <2> SUFFICES ASSUME s # {}
               PROVE  s \ {Some(s)} \in Family(S, n)
    BY <1>4, <1>5, <1>7 DEF Family
  <2> USE DEF Family
  <2>1. IsFiniteSet(s) /\ Cardinality(s) \in Nat
    BY FS_Subset, FS_CardinalityType
  <2>2. Cardinality(s \ {Some(s)}) = Cardinality(s) - 1
    BY <2>1, SomeElement, OneLess
  <2> QED
    BY <2>1, <2>2, <1>7 DEF Family
<1>8. B \in SUBSET Nat
  OBVIOUS
<1> HIDE DEF B
<1>9. B = Nat
  BY <1>6, <1>7, <1>8, SetInduction
<1>10. Cardinality(S) \in B /\ S \in Family(S, Cardinality(S))
  BY <1>9, FS_CardinalityType DEF Family
<1>11. Adds(S)
  BY <1>10 DEF B
<1> QED
  BY <1>1, <1>2, <1>3, <1>11 DEF Adds

LEMMA BatchesFinite == IsFiniteSet(Batches)
<1> DEFINE Of(s) == {s} \X (1..MostBatches(s))
<1>1. \A s \in Scans : IsFiniteSet(Of(s))
  <2> SUFFICES ASSUME NEW s \in Scans
               PROVE  IsFiniteSet(Of(s))
    OBVIOUS
  <2>1. Bodies[s].ips \in SUBSET Ips /\ ChunkSize \in Nat \ {0}
    BY CampaignAssumption DEF CampaignAssumption, Scans
  <2>2. Cardinality(Bodies[s].ips) \in Nat
    BY <2>1, IpsFinite
  <2>3. MostBatches(s) \in Int
    BY <2>1, <2>2 DEF MostBatches
  <2>4. IsFiniteSet(1..MostBatches(s))
    BY <2>3, FS_Interval
  <2>5. IsFiniteSet({s})
    BY FS_Singleton
  <2> QED
    BY <2>4, <2>5, FS_Product
<1>2. IsFiniteSet(Scans)
  BY CampaignAssumption, FS_Interval DEF CampaignAssumption, Scans
<1> HIDE DEF Of
<1>3. IsFiniteSet({Of(s) : s \in Scans})
  <2> DEFINE f == [s \in Scans |-> Of(s)]
             T == {Of(s) : s \in Scans}
  <2>1. f \in Surjection(Scans, T)
    BY DEF Surjection
  <2> QED
    BY <1>2, <2>1, FS_Surjection
<1>4. IsFiniteSet(UNION {Of(s) : s \in Scans})
  <2> DEFINE T == {Of(s) : s \in Scans}
  <2>1. \A x \in T : IsFiniteSet(x)
    BY <1>1
  <2> HIDE DEF T
  <2>2. IsFiniteSet(UNION T)
    BY <1>3, <2>1, FS_UNION DEF T
  <2> QED
    BY <2>2 DEF T
<1> QED
  BY <1>4 DEF Of, Batches

(* What a request that read "completed" may answer.                        *)
LEMMA CompletedAnswer ==
  ASSUME StatusInv, report.state = "completed", NEW S \in SUBSET report.executions
  PROVE  Answer(S).completed + Answer(S).failed = Answer(S).total
<1>1. S \subseteq Batches /\ \A b \in S : batch[b].status = "completed"
  BY DEF StatusInv, ListedInv
<1>2. IsFiniteSet(S)
  BY <1>1, BatchesFinite, FS_Subset
<1>3. \A b \in S : /\ batch[b].completed \in Int /\ batch[b].failed \in Int
                  /\ batch[b].completed + batch[b].failed = batch[b].total
  <2> SUFFICES ASSUME NEW b \in S
               PROVE  /\ batch[b].completed \in Int /\ batch[b].failed \in Int
                      /\ batch[b].completed + batch[b].failed = batch[b].total
    OBVIOUS
  <2>1. Final(batch[b]) /\ batch[b].status = "completed"
    BY <1>1 DEF StatusInv, FinalInv
  <2>2. batch[b].completed \in Nat /\ batch[b].failed \in Nat
    BY <1>1, BatchFacts, ViewFields DEF StatusInv
  <2> QED
    BY <2>1, <2>2 DEF Final
<1> DEFINE u == [b \in S |-> batch[b].completed]
           v == [b \in S |-> batch[b].failed]
           w == [b \in S |-> batch[b].total]
<1>4. /\ u \in [S -> Int] /\ v \in [S -> Int]
      /\ \A b \in S : u[b] + v[b] = w[b]
      /\ \A b \in S : u[b] = batch[b].completed /\ v[b] = batch[b].failed /\ w[b] = batch[b].total
  BY <1>3
<1> HIDE DEF u, v, w
<1>5. HasSum(u, S, SumCompleted(batch, S))
  BY <1>2, <1>4, CompletedSums
<1>6. HasSum(v, S, SumFailed(batch, S))
  BY <1>2, <1>4, FailedSums
<1>7. HasSum(w, S, SumTotal(batch, S))
  BY <1>2, <1>4, TotalSums
<1>8. SumCompleted(batch, S) + SumFailed(batch, S) = SumTotal(batch, S)
  BY <1>2, <1>4, <1>5, <1>6, <1>7, SumsAdd
<1> QED
  BY <1>8 DEF Answer, SumCompleted, SumFailed, SumTotal

(* A scan that is reported as completed is reported with every target of   *)
(* the batches that answered counted, however much later they answer.      *)
THEOREM CompletedMeansCounted == Spec => []CompletedReportIsFinal
<1>1. StatusInv => CompletedReportIsFinal
  <2> SUFFICES ASSUME StatusInv, NEW told \in Answers, told.state = "completed"
               PROVE  told.completed + told.failed = told.total
    BY DEF CompletedReportIsFinal
  <2>1. PICK S \in SUBSET report.executions : told = Answer(S)
    BY DEF Answers
  <2>2. report.state = "completed"
    BY <2>1 DEF Answer
  <2> QED
    BY <2>1, <2>2, CompletedAnswer
<1> QED
  BY <1>1, StatusInvariant, PTL
=============================================================================

------------------------------ MODULE ScanRequest ------------------------------
(***************************************************************************)
(* One scan request to tasker, from the hosts a caller lists to the tasks  *)
(* that are handed to Temporal: duplicates are removed, addresses and      *)
(* networks are classified, hostnames are resolved concurrently and with   *)
(* retries, targets that are known or under way are skipped, and what is   *)
(* left becomes one task per address and shard of the ports.               *)
(*                                                                         *)
(* An address is a number; a network of 2^k addresses starts at a multiple *)
(* of 2^k.  An entry of a request is an address, a network written with    *)
(* any of its addresses (strict=False), or a hostname.  Campaign takes     *)
(* over from here: what happens to known and running targets, and to the   *)
(* batches.                                                                *)
(***************************************************************************)
EXTENDS Integers, Sequences, FiniteSets, SequencesExt, Ranges

CONSTANTS
  Requests,  \* the bodies a caller may send
  MaxPort,   \* the largest port
  MaxSize,   \* addresses of the largest network a request may list
  Private,   \* the addresses that is_public_ip refuses
  Records,   \* the addresses behind each hostname: [names -> sets of addresses]
  Limit,     \* dns_resolve_semaphore_limit
  Retries    \* attempts per hostname

Names == DOMAIN Records

(* What an entry of a request can be.                                      *)
Entries ==
  [kind : {"ip"}, at : Nat, size : {1}] \cup [kind : {"cidr"}, at : Nat, size : Nat \ {0}]
    \cup [kind : {"name"}, name : Names]

ASSUME RequestAssumption ==
  /\ Limit \in Nat \ {0} /\ Retries \in Nat \ {0}
  /\ IsFiniteSet(Names) /\ \A n \in Names : IsFiniteSet(Records[n])
  /\ \A r \in Requests :
       r.hosts \in Seq(Entries) /\ r.ports \in Seq(Int \X Int) /\ r.shards \in Int

-----------------------------------------------------------------------------
(* schemas.py: what a request is refused for.  The end of a range is only  *)
(* compared with its start.  One shard stands for no sharding.             *)

ValidPort(r) == r[1] \in 1..MaxPort /\ r[1] <= r[2]

ValidHost(e) == e.kind = "cidr" => e.size <= MaxSize

Accepts(r) ==
  /\ \A i \in DOMAIN r.hosts : ValidHost(r.hosts[i])
  /\ r.ports # <<>> /\ \A i \in DOMAIN r.ports : ValidPort(r.ports[i])
  /\ r.shards >= 1

VARIABLES
  request,       \* the request
  pc,            \* "resolve", then "done" or "failed"
  lookup,        \* the lookup of each hostname
  resolved,      \* the hostnames found to stand for each address
  unresolvable,  \* hostnames given up
  answers,       \* ghost: what DNS answered for each hostname
  toScan,        \* the addresses whose tasks are started
  response       \* what the caller is told

vars == <<request, pc, lookup, resolved, unresolvable, answers, toScan, response>>

-----------------------------------------------------------------------------
(* targets.py                                                              *)

Network(e) == LET first == e.at - (e.at % e.size) IN first..(first + e.size - 1)

(* hosts(): all addresses but the first and the last, if there are others. *)
ExpandCidr(e) ==
  LET net == Network(e)
  IN  IF e.size <= 2 THEN net
      ELSE {a \in net : \E low, high \in net : low < a /\ a < high}

(* Slip: networks are compared by their first address.                     *)
Normalize_First(e) ==
  IF e.kind = "name" THEN <<"name", e.name>> ELSE <<"net", e.at - (e.at % e.size)>>

Normalize(e) == IF e.kind = "name" THEN <<"name", e.name>> ELSE <<"net", Network(e)>>

RemoveDuplicates(entries) ==
  FoldLeft(LAMBDA kept, e :
             IF \E k \in ToSet(kept) : Normalize(k) = Normalize(e) THEN kept ELSE Append(kept, e),
           <<>>, entries)

Literals(entries) == {e \in ToSet(entries) : e.kind # "name"}
Pending(entries)  == {e.name : e \in {e \in ToSet(entries) : e.kind = "name"}}

PublicIps(entries)  == (UNION {ExpandCidr(e) : e \in Literals(entries)}) \ Private
PrivateIps(entries) == (UNION {ExpandCidr(e) : e \in Literals(entries)}) \cap Private

-----------------------------------------------------------------------------
(* resolve.py.  A lookup holds the semaphore from its first attempt until  *)
(* it ends, sleeps included.                                               *)

Deduped == RemoveDuplicates(request.hosts)
Waiting == [state |-> "waiting", failed |-> 0]

Init ==
  /\ request \in {r \in Requests : Accepts(r)} /\ pc = "resolve"
  /\ lookup = [n \in Names |-> IF n \in Pending(Deduped) THEN Waiting
                               ELSE [Waiting EXCEPT !.state = "done"]]
  /\ resolved = [a \in UNION {Records[n] : n \in Names} |-> {}]
  /\ unresolvable = {} /\ answers = [n \in Names |-> {}]
  /\ toScan = {} /\ response = <<>>

InFlight == {n \in Names : lookup[n].state \in {"asking", "sleeping"}}

Acquire(n) == lookup[n].state = "waiting" /\ Cardinality(InFlight) < Limit

StartLookup(n) ==
  /\ Acquire(n)
  /\ lookup' = [lookup EXCEPT ![n].state = "asking"]
  /\ UNCHANGED <<request, pc, resolved, unresolvable, answers, toScan, response>>

(* Slip: the last hostname found for an address replaces the others.       *)
AddIp_Replaces(names, n) == {n}

AddIp(names, n) == names \cup {n}

(* Records in any order; single_resolve keeps the first.                   *)
Answer(n) ==
  /\ lookup[n].state = "asking" /\ Records[n] # {}
  /\ \E ips \in IF request.single THEN {{a} : a \in Records[n]} ELSE {Records[n]} :
       /\ answers' = [answers EXCEPT ![n] = ips]
       /\ resolved' = [a \in DOMAIN resolved |-> IF a \in ips THEN AddIp(resolved[a], n) ELSE resolved[a]]
  /\ lookup' = [lookup EXCEPT ![n].state = "done"]
  /\ UNCHANGED <<request, pc, unresolvable, toScan, response>>

(* An attempt without an address: sleep and try again, or give up.         *)
AttemptFails(n) ==
  /\ lookup[n].state = "asking"
  /\ LET last == lookup[n].failed + 1 = Retries
     IN  /\ lookup' = [lookup EXCEPT ![n] = [state |-> IF last THEN "done" ELSE "sleeping",
                                             failed |-> @.failed + 1]]
         /\ unresolvable' = IF last THEN unresolvable \cup {n} ELSE unresolvable
  /\ UNCHANGED <<request, pc, resolved, answers, toScan, response>>

NoAddress(n) == AttemptFails(n)

(* Slip: no timeout around the query.                                      *)
TimesOut_Off(n) == FALSE /\ AttemptFails(n)

TimesOut(n) == AttemptFails(n)

Wake(n) ==
  /\ lookup[n].state = "sleeping"
  /\ lookup' = [lookup EXCEPT ![n].state = "asking"]
  /\ UNCHANGED <<request, pc, resolved, unresolvable, answers, toScan, response>>

-----------------------------------------------------------------------------
(* service.py, run_scan, once every lookup has ended.                      *)

Resolved == pc = "resolve" /\ \A n \in Names : lookup[n].state = "done"

Named == {a \in DOMAIN resolved : resolved[a] # {}}
NamesOf(a) == IF a \in Named THEN resolved[a] ELSE {}

TargetIps == PublicIps(Deduped) \cup (Named \ Private)
PublicIpHostnames == [a \in TargetIps |-> NamesOf(a)]

(* The networks and hostnames that a private address comes from.           *)
PrivateIpSources ==
  [a \in PrivateIps(Deduped) \cup (Named \cap Private) |->
     [networks |-> {e \in Literals(Deduped) : e.kind = "cidr" /\ a \in ExpandCidr(e)},
      names    |-> NamesOf(a)]]

ShardCount == IF request.mode = "insert" THEN 1 ELSE request.shards

(* The tasks started, by address and shard.                                *)
Tasks ==
  LET shards == R!ShardPorts(request.ports, ShardCount)
  IN  [t \in toScan \X DOMAIN shards |->
         [ports |-> shards[t[2]], hostnames |-> PublicIpHostnames[t[1]]]]

(* known_only                                                              *)
CountKnown(known, running) == Cardinality(known \ running)

BuildSummary(known, running, started) ==
  [provided           |-> Len(request.hosts),
   duplicates_removed |-> Len(request.hosts) - Len(Deduped),
   target_ips         |-> Cardinality(TargetIps),
   attached_hostnames |-> Cardinality(UNION {NamesOf(a) : a \in TargetIps}),
   private_ip         |-> Cardinality(DOMAIN PrivateIpSources),
   unresolvable       |-> Cardinality(unresolvable),
   already_known      |-> CountKnown(known, running),
   already_running    |-> Cardinality(running),
   started            |-> started]

(* The addresses found known or running are some of those asked about; in  *)
(* the other modes nothing is asked.                                       *)
Start(known, running) ==
  /\ Resolved /\ pc' = "done"
  /\ request.mode # "insert" => known = {} /\ running = {}
  /\ toScan' = TargetIps \ (known \cup running)
  /\ response' = [summary |-> BuildSummary(known, running, Cardinality(toScan')),
                  skipped |-> known \cup running,
                  private |-> PrivateIpSources,
                  unresolvable |-> unresolvable]
  /\ UNCHANGED <<request, lookup, resolved, unresolvable, answers>>

(* scanledger or Temporal fails; neither is called when nothing is left.   *)
CallFails ==
  /\ Resolved /\ TargetIps # {} /\ pc' = "failed"
  /\ UNCHANGED <<request, lookup, resolved, unresolvable, answers, toScan, response>>

-----------------------------------------------------------------------------
Lookup(n) == StartLookup(n) \/ Answer(n) \/ NoAddress(n) \/ TimesOut(n) \/ Wake(n)

Finish ==
  \/ \E known \in SUBSET TargetIps, running \in SUBSET TargetIps : Start(known, running)
  \/ CallFails

Next == (\E n \in Names : Lookup(n)) \/ Finish

(* The event loop runs the lookups and their timers, and the calls that    *)
(* follow return or fail.  DNS need not answer.                            *)
Fairness ==
  /\ \A n \in Names : WF_vars(StartLookup(n)) /\ WF_vars(TimesOut(n)) /\ WF_vars(Wake(n))
  /\ WF_vars(Finish)

Spec == Init /\ [][Next]_vars /\ Fairness

-----------------------------------------------------------------------------
(* Properties.                                                             *)

Listed == UNION {ExpandCidr(request.hosts[i]) :
                   i \in {i \in DOMAIN request.hosts : request.hosts[i].kind # "name"}}
Wanted == Listed \cup UNION {answers[n] : n \in Names}

(* run_scan: however entries overlap and whatever DNS answers, each        *)
(* address a request stands for is accounted for once: it is scanned, it   *)
(* is skipped as known or running, or it is reported as private.  Nothing  *)
(* else is scanned.  Each hostname was answered or is reported, after as   *)
(* many attempts as there are.  The summary adds up as                     *)
(* ScanSummary._validate_math demands, which is evaluated after the        *)
(* batches have been started, so that a mismatch would fail a request      *)
(* whose scan runs.                                                        *)
TargetsAccounted ==
  pc = "done" =>
    LET scanned == {t[1] : t \in DOMAIN Tasks}
        sum     == response.summary
    IN  /\ scanned \cup response.skipped = Wanted \ Private
        /\ scanned \cap response.skipped = {}
        /\ DOMAIN response.private = Wanted \cap Private
        /\ \A n \in Pending(request.hosts) :
             /\ (answers[n] = {}) = (n \in response.unresolvable)
             /\ (answers[n] = {}) = (lookup[n].failed = Retries)
        /\ sum.started = sum.target_ips - (sum.already_known + sum.already_running)

(* _build_tasks with shard_ports: the tasks of an address, in the order of *)
(* their shards, scan exactly the ports of the request, each as often as   *)
(* its ranges list it; in INSERT mode by a single task.  There are never   *)
(* more shards than asked for, all have the same share of ports, but for   *)
(* the last.                                                               *)
(* Every one of them carries exactly the hostnames that were resolved to   *)
(* the address, however the lookups interleaved and also when the address  *)
(* is listed itself (resolve_targets, _merge_sources).                     *)
TasksMakeUpRequest ==
  \A t \in DOMAIN Tasks :
    LET shards  == {u[2] : u \in {u \in DOMAIN Tasks : u[1] = t[1]}}
        last    == Cardinality(shards)
        flat(s) == R!Flat(Tasks[<<t[1], s>>].ports)
        share   == R!Target(request.ports, ShardCount)
    IN  /\ FlattenSeq([s \in 1..last |-> flat(s)]) = R!Flat(request.ports)
        /\ Tasks[t].hostnames = {n \in Names : t[1] \in answers[n]}
        /\ last <= ShardCount /\ (request.mode = "insert" => last = 1)
        /\ \A s \in shards : flat(s) # <<>> /\ Len(flat(s)) <= share
        /\ \A s \in shards \ {last} : Len(flat(s)) = share

(* resolve_targets bounds each attempt by a timeout, and each hostname by  *)
(* its retries: a request ends although DNS never answers.                 *)
RequestEnds == <>(pc # "resolve")
=============================================================================

---------------------------- MODULE InventoryProofs ----------------------------
(***************************************************************************)
(* Theorems about the inventory, for any addresses, reports and lists, and *)
(* about reports on their way into it and out of it: the worker's merge of *)
(* its two passes, and the export of a project; and about its readers, for *)
(* any queries (Search).  The first part cites no assumption of Search.    *)
(*                                                                         *)
(* The two de-duplications are left folds.  What they return is proved by  *)
(* induction on the positions of the sequence, in two steps: the recursive *)
(* function that a fold stands for exists, and every value of it is good.  *)
(***************************************************************************)
EXTENDS Search, FoldProofs, FiniteSetTheorems, FunctionTheorems, TLAPS

-----------------------------------------------------------------------------
(* DedupPorts.                                                             *)

(* The fold is a chain of tables, one per port read.                       *)
PortChain(f, byKey, ports, n) ==
  /\ f[0] = byKey
  /\ \A k \in 1..n : f[k] = PutPort(f[k - 1], ports[k])
  /\ DedupPorts(byKey, ports) = f[n]

LEMMA DedupPortsChain ==
  ASSUME NEW byKey, NEW ports, NEW n \in Nat, DOMAIN ports = 1..n
  PROVE  \E f : PortChain(f, byKey, ports, n)
<1> DEFINE Value(f, s) == IF s = {} THEN byKey ELSE PutPort(f[s \ {Max(s)}], ports[Max(s)])
           Folds(f, k) == f = [s \in SUBSET (1..k) |-> Value(f, s)]
           B == {k \in Nat : \E f : Folds(f, k)}
<1>1. 0 \in B
  <2> DEFINE f == [s \in SUBSET (1..0) |-> byKey]
  <2>1. f = [s \in SUBSET (1..0) |-> Value(f, s)]
    OBVIOUS
  <2> QED BY <2>1
<1>2. ASSUME NEW k \in B PROVE k + 1 \in B
  <2>1. PICK f : f = [s \in SUBSET (1..k) |-> Value(f, s)]
    OBVIOUS
  <2> DEFINE g == [s \in SUBSET (1..(k + 1)) |-> Value(f, s)]
  <2>2. \A s \in SUBSET (1..k) : g[s] = f[s]
    <3>1. TAKE s \in SUBSET (1..k)
    <3>2. s \in SUBSET (1..(k + 1))
      OBVIOUS
    <3>3. g[s] = Value(f, s)
      BY <3>2
    <3>4. f[s] = Value(f, s)
      BY <2>1
    <3> QED BY <3>3, <3>4
  <2>3. \A s \in SUBSET (1..(k + 1)) : Value(g, s) = Value(f, s)
    <3>1. TAKE s \in SUBSET (1..(k + 1))
    <3>2. CASE s = {}
      BY <3>2
    <3>3. CASE s # {}
      <4>1. s \ {Max(s)} \in SUBSET (1..k)
        BY <3>3, WithoutLast, k \in Nat
      <4>2. g[s \ {Max(s)}] = f[s \ {Max(s)}]
        BY <4>1, <2>2
      <4> QED BY <4>2
    <3> QED BY <3>2, <3>3
  <2>4. Folds(g, k + 1)
    <3> HIDE DEF Value
    <3>1. g = [s \in SUBSET (1..(k + 1)) |-> Value(g, s)]
      BY <2>3
    <3> QED BY <3>1
  <2> HIDE DEF g, Folds
  <2> QED BY <2>4
<1>3. n \in B
  <2> HIDE DEF B
  <2>1. B \in SUBSET Nat
    BY DEF B
  <2> QED BY <1>1, <1>2, <2>1, SetInduction
<1> DEFINE it == CHOOSE f : f = [s \in SUBSET (1..n) |-> Value(f, s)]
<1>4. it = [s \in SUBSET (1..n) |-> Value(it, s)]
  <2> HIDE DEF Value
  <2> QED BY <1>3
<1>5. DedupPorts(byKey, ports) = it[1..n]
  BY DEF DedupPorts, FoldLeft, MapThenFoldSet, PutPort
<1> HIDE DEF it
<1> DEFINE chain == [k \in 0..n |-> it[1..k]]
<1>6. chain[0] = byKey
  <2>1. 1..0 = {} /\ {} \in SUBSET (1..n) /\ 0 \in 0..n
    OBVIOUS
  <2>2. it[{}] = byKey
    BY <2>1, <1>4
  <2> QED BY <2>1, <2>2
<1>7. ASSUME NEW k \in 1..n PROVE chain[k] = PutPort(chain[k - 1], ports[k])
  <2>1. k - 1 \in Nat /\ k = (k - 1) + 1 /\ k \in 0..n /\ k - 1 \in 0..n
    OBVIOUS
  <2>2. Max(1..k) = k /\ (1..k) \ {k} = 1..(k - 1)
    BY <2>1, LastOfInterval
  <2>3. 1..k \in SUBSET (1..n) /\ 1..k # {}
    <3>1. k \in Nat /\ k <= n /\ 1 <= k
      OBVIOUS
    <3>2. 1..k \subseteq 1..n
      BY <3>1
    <3>3. k \in 1..k
      BY <3>1
    <3> QED BY <3>2, <3>3
  <2>4. it[1..k] = Value(it, 1..k)
    BY <2>3, <1>4
  <2> QED BY <2>1, <2>2, <2>3, <2>4
<1>8. chain[n] = it[1..n]
  OBVIOUS
<1> HIDE DEF chain
<1>9. PortChain(chain, byKey, ports, n)
  BY <1>5, <1>6, <1>7, <1>8 DEF PortChain
<1> QED BY <1>9

IsPort(p) == p = [state |-> p.state, service |-> p.service]

PortTable(ports) == IsFiniteSet(DOMAIN ports) /\ \A k \in DOMAIN ports : IsPort(ports[k])

LEMMA DedupPortsTable ==
  ASSUME NEW byKey, NEW ports, PortTable(byKey), IsList(ports)
  PROVE  PortTable(DedupPorts(byKey, ports))
<1> DEFINE n == Len(ports)
<1>1. n \in Nat /\ DOMAIN ports = 1..n
  BY DEF IsList
<1> HIDE DEF n
<1> PICK f : PortChain(f, byKey, ports, n)
  BY <1>1, DedupPortsChain
<1>2. /\ f[0] = byKey
      /\ \A k \in 1..n : f[k] = PutPort(f[k - 1], ports[k])
      /\ DedupPorts(byKey, ports) = f[n]
  BY DEF PortChain
<1> DEFINE B == {k \in Nat : k <= n => PortTable(f[k])}
<1>3. 0 \in B
  BY <1>2 DEF PortTable
<1>4. ASSUME NEW k \in B PROVE k + 1 \in B
  <2>1. SUFFICES ASSUME k + 1 <= n PROVE PortTable(f[k + 1])
    OBVIOUS
  <2>2. k + 1 \in 1..n /\ (k + 1) - 1 = k /\ k <= n
    BY <1>1, <2>1
  <2>3. f[k + 1] = PutPort(f[k], ports[k + 1])
    BY <1>2, <2>2
  <2>4. PortTable(f[k])
    BY <2>2
  <2> DEFINE p == ports[k + 1]
             put == [state |-> p.state, service |-> p.service]
  <2>5. IsPort(put)
    BY DEF IsPort
  <2>6. PutPort(f[k], p) = Put(f[k], p.key, put)
    BY DEF PutPort
  <2> HIDE DEF put, p
  <2>7. PortTable(Put(f[k], p.key, put))
    <3>1. DOMAIN Put(f[k], p.key, put) = DOMAIN f[k] \cup {p.key}
      BY DEF Put
    <3>2. IsFiniteSet(DOMAIN f[k] \cup {p.key})
      BY <2>4, FS_AddElement DEF PortTable
    <3>3. \A j \in DOMAIN Put(f[k], p.key, put) : IsPort(Put(f[k], p.key, put)[j])
      BY <2>4, <2>5 DEF PortTable, Put
    <3> QED BY <3>1, <3>2, <3>3 DEF PortTable
  <2> QED BY <2>3, <2>6, <2>7 DEF p
<1>5. n \in B
  <2> HIDE DEF B
  <2>1. B \in SUBSET Nat
    BY DEF B
  <2> QED BY <1>1, <1>3, <1>4, <2>1, SetInduction
<1> QED BY <1>1, <1>2, <1>5

-----------------------------------------------------------------------------
(* DedupBatch.                                                             *)

(* The fold is a chain of tables, one per entry read.                       *)
LEMMA DedupBatchChain ==
  ASSUME NEW entries, NEW n \in Nat, DOMAIN entries = 1..n
  PROVE  \E f : /\ f[0] = <<>>
                /\ \A k \in 1..n : f[k] = PutEntry(f[k - 1], entries[k])
                /\ DedupBatch(entries) = f[n]
<1> DEFINE Value(f, s) == IF s = {} THEN <<>> ELSE PutEntry(f[s \ {Max(s)}], entries[Max(s)])
           Folds(f, k) == f = [s \in SUBSET (1..k) |-> Value(f, s)]
           B == {k \in Nat : \E f : Folds(f, k)}
<1>1. 0 \in B
  <2> DEFINE f == [s \in SUBSET (1..0) |-> <<>>]
  <2>1. f = [s \in SUBSET (1..0) |-> Value(f, s)]
    OBVIOUS
  <2> QED BY <2>1
<1>2. ASSUME NEW k \in B PROVE k + 1 \in B
  <2>1. PICK f : f = [s \in SUBSET (1..k) |-> Value(f, s)]
    OBVIOUS
  <2> DEFINE g == [s \in SUBSET (1..(k + 1)) |-> Value(f, s)]
  <2>2. \A s \in SUBSET (1..k) : g[s] = f[s]
    <3>1. TAKE s \in SUBSET (1..k)
    <3>2. s \in SUBSET (1..(k + 1))
      OBVIOUS
    <3>3. g[s] = Value(f, s)
      BY <3>2
    <3>4. f[s] = Value(f, s)
      BY <2>1
    <3> QED BY <3>3, <3>4
  <2>3. \A s \in SUBSET (1..(k + 1)) : Value(g, s) = Value(f, s)
    <3>1. TAKE s \in SUBSET (1..(k + 1))
    <3>2. CASE s = {}
      BY <3>2
    <3>3. CASE s # {}
      <4>1. s \ {Max(s)} \in SUBSET (1..k)
        BY <3>3, WithoutLast, k \in Nat
      <4>2. g[s \ {Max(s)}] = f[s \ {Max(s)}]
        BY <4>1, <2>2
      <4> QED BY <4>2
    <3> QED BY <3>2, <3>3
  <2>4. Folds(g, k + 1)
    <3> HIDE DEF Value
    <3>1. g = [s \in SUBSET (1..(k + 1)) |-> Value(g, s)]
      BY <2>3
    <3> QED BY <3>1
  <2> HIDE DEF g, Folds
  <2> QED BY <2>4
<1>3. n \in B
  <2> HIDE DEF B
  <2>1. B \in SUBSET Nat
    BY DEF B
  <2> QED BY <1>1, <1>2, <2>1, SetInduction
<1> DEFINE it == CHOOSE f : f = [s \in SUBSET (1..n) |-> Value(f, s)]
<1>4. it = [s \in SUBSET (1..n) |-> Value(it, s)]
  <2> HIDE DEF Value
  <2> QED BY <1>3
<1>5. DedupBatch(entries) = it[1..n]
  BY DEF DedupBatch, FoldLeft, MapThenFoldSet, PutEntry
<1> HIDE DEF it
<1> DEFINE chain == [k \in 0..n |-> it[1..k]]
<1>6. chain[0] = <<>>
  <2>1. 1..0 = {} /\ {} \in SUBSET (1..n) /\ 0 \in 0..n
    OBVIOUS
  <2>2. it[{}] = <<>>
    BY <2>1, <1>4
  <2> QED BY <2>1, <2>2
<1>7. ASSUME NEW k \in 1..n PROVE chain[k] = PutEntry(chain[k - 1], entries[k])
  <2>1. k - 1 \in Nat /\ k = (k - 1) + 1 /\ k \in 0..n /\ k - 1 \in 0..n
    OBVIOUS
  <2>2. Max(1..k) = k /\ (1..k) \ {k} = 1..(k - 1)
    BY <2>1, LastOfInterval
  <2>3. 1..k \in SUBSET (1..n) /\ 1..k # {}
    <3>1. k \in Nat /\ k <= n /\ 1 <= k
      OBVIOUS
    <3>2. 1..k \subseteq 1..n
      BY <3>1
    <3>3. k \in 1..k
      BY <3>1
    <3> QED BY <3>2, <3>3
  <2>4. it[1..k] = Value(it, 1..k)
    BY <2>3, <1>4
  <2> QED BY <2>1, <2>2, <2>3, <2>4
<1>8. chain[n] = it[1..n]
  OBVIOUS
<1> HIDE DEF chain
<1> QED BY <1>5, <1>6, <1>7, <1>8

(* What a parsed request is, with the least end time its entries have.     *)
Parsed(entries, least) ==
  /\ IsList(entries)
  /\ \A i \in DOMAIN entries :
       /\ entries[i].ip \in Ips /\ IsList(entries[i].ports)
       /\ entries[i].endtime \in Nat /\ least <= entries[i].endtime

GoodEntry(e, least) == PortTable(e.ports) /\ e.endtime \in Nat /\ least <= e.endtime

GoodBatch(batch, least) ==
  DOMAIN batch \subseteq Ips /\ \A ip \in DOMAIN batch : GoodEntry(batch[ip], least)

LEMMA MaxOfTwo ==
  ASSUME NEW x \in Nat, NEW y \in Nat
  PROVE  Max({x, y}) \in {x, y}
<1>1. \E z \in {x, y} : \A w \in {x, y} : z >= w
  OBVIOUS
<1> QED BY <1>1 DEF Max

LEMMA GoodPut ==
  ASSUME NEW least \in Nat, NEW merged, GoodBatch(merged, least), NEW e,
         e.ip \in Ips, IsList(e.ports), e.endtime \in Nat, least <= e.endtime
  PROVE  GoodBatch(PutEntry(merged, e), least)
<1> DEFINE entry == IF e.ip \in DOMAIN merged THEN FoldEntry(merged[e.ip], e) ELSE DedupOne(e)
<1>1. GoodEntry(entry, least)
  <2>1. CASE e.ip \in DOMAIN merged
    <3> DEFINE current == merged[e.ip]
               ports   == DedupPorts(current.ports, e.ports)
               endtime == Max({current.endtime, e.endtime})
    <3>1. GoodEntry(current, least)
      BY <2>1 DEF GoodBatch
    <3>2. PortTable(ports)
      BY <3>1, DedupPortsTable DEF GoodEntry
    <3>3. endtime \in Nat /\ least <= endtime
      BY <3>1, MaxOfTwo DEF GoodEntry
    <3>4. FoldEntry(current, e).ports = ports /\ FoldEntry(current, e).endtime = endtime
      BY DEF FoldEntry
    <3> HIDE DEF ports, endtime
    <3>5. GoodEntry(FoldEntry(current, e), least)
      BY <3>2, <3>3, <3>4 DEF GoodEntry
    <3> QED BY <2>1, <3>5
  <2>2. CASE e.ip \notin DOMAIN merged
    <3>1. PortTable(<<>>)
      BY FS_EmptySet DEF PortTable
    <3>2. PortTable(DedupPorts(<<>>, e.ports))
      BY <3>1, DedupPortsTable
    <3>3. DedupOne(e).ports = DedupPorts(<<>>, e.ports) /\ DedupOne(e).endtime = e.endtime
      BY DEF DedupOne
    <3>4. GoodEntry(DedupOne(e), least)
      BY <3>2, <3>3 DEF GoodEntry
    <3> QED BY <2>2, <3>4
  <2> QED BY <2>1, <2>2
<1>2. PutEntry(merged, e) = Put(merged, e.ip, entry)
  BY DEF PutEntry
<1> HIDE DEF entry
<1> QED BY <1>1, <1>2 DEF GoodBatch, Put

LEMMA DedupBatchGood ==
  ASSUME NEW least \in Nat, NEW entries, Parsed(entries, least)
  PROVE  GoodBatch(DedupBatch(entries), least)
<1> DEFINE n == Len(entries)
<1>1. n \in Nat /\ DOMAIN entries = 1..n
  BY DEF IsList, Parsed
<1> HIDE DEF n
<1>2. PICK f : /\ f[0] = <<>>
               /\ \A k \in 1..n : f[k] = PutEntry(f[k - 1], entries[k])
               /\ DedupBatch(entries) = f[n]
  BY <1>1, DedupBatchChain
<1> DEFINE B == {k \in Nat : k <= n => GoodBatch(f[k], least)}
<1>3. 0 \in B
  BY <1>2 DEF GoodBatch
<1>4. ASSUME NEW k \in B PROVE k + 1 \in B
  <2>1. SUFFICES ASSUME k + 1 <= n PROVE GoodBatch(f[k + 1], least)
    OBVIOUS
  <2>2. k + 1 \in 1..n /\ (k + 1) - 1 = k /\ k <= n
    BY <1>1, <2>1
  <2>3. f[k + 1] = PutEntry(f[k], entries[k + 1])
    BY <1>2, <2>2
  <2>4. GoodBatch(f[k], least)
    BY <2>2
  <2>5. /\ entries[k + 1].ip \in Ips /\ IsList(entries[k + 1].ports)
        /\ entries[k + 1].endtime \in Nat /\ least <= entries[k + 1].endtime
    BY <1>1, <2>2 DEF Parsed
  <2> QED BY <2>3, <2>4, <2>5, GoodPut
<1>5. n \in B
  <2> HIDE DEF B
  <2>1. B \in SUBSET Nat
    BY DEF B
  <2> QED BY <1>1, <1>3, <1>4, <2>1, SetInduction
<1> QED BY <1>1, <1>2, <1>5

(* Every report is a batch; one that parses has a time for each address.   *)
LEMMA ReportGood ==
  ASSUME NEW s \in Scans, NEW least \in {0, 1}, least = 1 => Parses(s.report)
  PROVE  GoodBatch(DedupBatch(ParseReport(s.report)), least)
<1> DEFINE hosts == s.report.hosts
           entries == ParseReport(s.report)
<1>1. /\ IsList(hosts) /\ s.report.finished \in Nat
      /\ \A i \in DOMAIN hosts :
           hosts[i].ip \in Ips /\ hosts[i].endtime \in Nat /\ IsList(hosts[i].ports)
  BY RequestsAssumption
<1>2. entries = [i \in DOMAIN hosts |-> ToIPIn(hosts[i], s.report)]
  BY DEF ParseReport
<1>3. IsList(entries)
  BY <1>1, <1>2 DEF IsList
<1>4. ASSUME NEW i \in DOMAIN hosts
      PROVE  /\ ToIPIn(hosts[i], s.report).ip = hosts[i].ip
             /\ ToIPIn(hosts[i], s.report).ports = hosts[i].ports
             /\ ToIPIn(hosts[i], s.report).endtime \in Nat
             /\ least <= ToIPIn(hosts[i], s.report).endtime
  <2>1. least = 1 => hosts[i].endtime # None \/ s.report.finished # None
    BY DEF Parses
  <2> DEFINE endtime == IF hosts[i].endtime # None THEN hosts[i].endtime ELSE s.report.finished
  <2>2. endtime \in Nat /\ least <= endtime
    BY <1>1, <2>1 DEF None
  <2>3. ToIPIn(hosts[i], s.report).endtime = endtime
    BY DEF ToIPIn
  <2>4. ToIPIn(hosts[i], s.report).ip = hosts[i].ip /\ ToIPIn(hosts[i], s.report).ports = hosts[i].ports
    BY DEF ToIPIn
  <2> HIDE DEF endtime
  <2> QED BY <2>2, <2>3, <2>4
<1>5. Parsed(entries, least)
  <2> HIDE DEF entries, hosts
  <2> QED BY <1>1, <1>2, <1>3, <1>4 DEF Parsed
<1> QED BY <1>5, DedupBatchGood

LEMMA ListGood ==
  ASSUME NEW l \in Lists
  PROVE  GoodBatch(DedupBatch(Validated(l)), 1)
<1> DEFINE entries == Validated(l)
           given == l.entries
<1>1. /\ IsList(given)
      /\ \A i \in DOMAIN given :
           /\ given[i] = [ip |-> given[i].ip, endtime |-> given[i].endtime, meta |-> given[i].meta,
                          hostnames |-> given[i].hostnames, ports |-> given[i].ports,
                          scanned_ports |-> given[i].scanned_ports]
           /\ given[i].ip \in Ips /\ IsList(given[i].ports)
           /\ given[i].endtime \in Nat /\ given[i].endtime # None
  BY RequestsAssumption
<1>2. entries = [i \in DOMAIN given |-> NormaliseRanges(given[i])]
  BY DEF Validated
<1> HIDE DEF entries, given
<1>3. IsList(entries)
  BY <1>1, <1>2 DEF IsList
<1>4. ASSUME NEW i \in DOMAIN given
      PROVE  /\ NormaliseRanges(given[i]).ip = given[i].ip
             /\ NormaliseRanges(given[i]).ports = given[i].ports
             /\ NormaliseRanges(given[i]).endtime = given[i].endtime
  BY <1>1 DEF NormaliseRanges
<1>5. Parsed(entries, 1)
  BY <1>1, <1>2, <1>3, <1>4 DEF Parsed, None
<1> QED BY <1>5, DedupBatchGood DEF entries

-----------------------------------------------------------------------------
(* One import mode, applied to one address.                                *)

OpenTable(ports) ==
  /\ ports = [k \in DOMAIN ports |-> ports[k]] /\ IsFiniteSet(DOMAIN ports)
  /\ \A k \in DOMAIN ports : IsPort(ports[k]) /\ IsOpen(ports[k])

LEMMA RefreshedPort ==
  ASSUME NEW p, IsPort(p), NEW q
  PROVE  /\ IsPort(RefreshPort(p, q))
         /\ RefreshPort(p, q).state = p.state
         /\ RefreshPort(p, q).service = IF q.service = "" THEN p.service ELSE q.service
<1> DEFINE service == IF q.service = "" THEN p.service ELSE q.service
           fresh   == RefreshPort(p, q)
<1>1. p = [state |-> p.state, service |-> p.service]
  BY DEF IsPort
<1>2. fresh \in [state : {p.state}, service : {service}]
  BY <1>1 DEF RefreshPort
<1> HIDE DEF service, fresh
<1>3. fresh.state = p.state /\ fresh.service = service
  BY <1>2
<1>4. IsPort(fresh)
  BY <1>2 DEF IsPort
<1> QED BY <1>3, <1>4 DEF service, fresh

(* The rows a change writes.                                               *)
LEMMA OpenedFields ==
  ASSUME NEW k
  PROVE  Opened(k).key = k /\ Opened(k).type = "state"
BY DEF Opened

LEMMA ClosedFields ==
  ASSUME NEW k, NEW observed
  PROVE  Closed(k, observed).key = k /\ Closed(k, observed).type = "state"
BY DEF Closed

LEMMA FieldChangeFields ==
  ASSUME NEW k, NEW x, NEW y
  PROVE  /\ \A c \in FieldChanges(k, x, y) : c.key = k /\ c.type = "service"
         /\ \A c, d \in FieldChanges(k, x, y) : c = d
<1> DEFINE row == [key |-> k, type |-> "service", old |-> x.service,
                   new |-> y.service, observed |-> ""]
<1>1. FieldChanges(k, x, y) \subseteq {row}
  BY DEF FieldChanges
<1>2. row.key = k /\ row.type = "service"
  OBVIOUS
<1> HIDE DEF row
<1> QED BY <1>1, <1>2

(* The parts of an update, named as the code names them.                   *)
OpenedBy(policy, st, in) ==
  IF policy.add_new_open THEN NewOpen(st.ports, in.ports) ELSE {}

RefreshedBy(policy, st, in) ==
  IF policy.refresh_matched THEN Matched(st.ports, in.ports) ELSE {}

ClosedBy(policy, st, in) ==
  {k \in Stale(st.ports, in.ports) :
     policy.close_stale /\ Closes(k, in.ports, in.scanned_ports)}

OpenRows(policy, st, in) == {Opened(k) : k \in OpenedBy(policy, st, in)}

ServiceRows(policy, st, in) ==
  UNION {FieldChanges(k, st.ports[k], in.ports[k]) : k \in RefreshedBy(policy, st, in)}

CloseRows(policy, st, in) ==
  {Closed(k, ObservedState(k, in.ports)) : k \in ClosedBy(policy, st, in)}

ChangesBy(policy, st, in) ==
  OpenRows(policy, st, in) \cup CloseRows(policy, st, in) \cup ServiceRows(policy, st, in)

MetaBy(policy, st, in) ==
  IF policy.refresh_meta /\ in.meta # "" THEN in.meta ELSE st.meta

PortsBy(policy, st, in) ==
  [k \in (DOMAIN st.ports \cup OpenedBy(policy, st, in)) \ ClosedBy(policy, st, in) |->
     IF k \in OpenedBy(policy, st, in) THEN in.ports[k]
     ELSE IF k \in RefreshedBy(policy, st, in) THEN RefreshPort(st.ports[k], in.ports[k])
     ELSE st.ports[k]]

LEMMA UpdatedParts ==
  ASSUME NEW policy, NEW st, NEW in
  PROVE  LET cs    == Updated(policy, st, in)
             names == in.hostnames \ st.hostnames
         IN  /\ cs.ports = PortsBy(policy, st, in)
             /\ cs.changes = ChangesBy(policy, st, in)
             /\ cs.meta = MetaBy(policy, st, in)
             /\ cs.hostnames = st.hostnames \cup names
             /\ cs.changed <=> \/ ChangesBy(policy, st, in) # {} \/ names # {}
                               \/ MetaBy(policy, st, in) # st.meta
             /\ cs.endtime = in.endtime
BY DEF Updated, PortsBy, ChangesBy, MetaBy, OpenedBy, RefreshedBy, ClosedBy,
       OpenRows, ServiceRows, CloseRows

LEMMA CreatedParts ==
  ASSUME NEW in
  PROVE  LET cs   == Created(in)
             open == {k \in DOMAIN in.ports : IsOpen(in.ports[k])}
         IN  /\ cs.ports = [k \in open |-> in.ports[k]]
             /\ cs.changes = {Opened(k) : k \in open}
             /\ cs.meta = in.meta
             /\ cs.hostnames = in.hostnames
             /\ cs.endtime = in.endtime
BY DEF Created

(* Nothing but open ports is ever stored.                                  *)
LEMMA OpenPortsOnly ==
  ASSUME NEW mode, NEW st, NEW in, st.known => OpenTable(st.ports), PortTable(in.ports)
  PROVE  OpenTable(ApplyMode(mode, st, in).ports)
<1>1. CASE st.known
  <2> DEFINE policy == Policy(mode)
  <2> HIDE DEF policy
  <2>1. OpenTable(PortsBy(policy, st, in))
    <3>1. SUFFICES ASSUME NEW k \in DOMAIN PortsBy(policy, st, in)
                   PROVE  IsPort(PortsBy(policy, st, in)[k]) /\ IsOpen(PortsBy(policy, st, in)[k])
      <4> DEFINE ports == PortsBy(policy, st, in)
      <4>1. ports = [k \in DOMAIN ports |-> ports[k]]
        BY DEF PortsBy
      <4>2. DOMAIN ports \in SUBSET (DOMAIN st.ports \cup DOMAIN in.ports)
        BY DEF PortsBy, OpenedBy, NewOpen
      <4>3. IsFiniteSet(DOMAIN st.ports \cup DOMAIN in.ports)
        BY <1>1, FS_Union DEF OpenTable, PortTable
      <4>4. IsFiniteSet(DOMAIN ports)
        BY <4>2, <4>3, FS_Subset
      <4> HIDE DEF ports
      <4> QED BY <4>1, <4>4 DEF OpenTable, ports
    <3>2. CASE k \in OpenedBy(policy, st, in)
      <4>1. k \in DOMAIN in.ports /\ IsOpen(in.ports[k])
        BY <3>2 DEF OpenedBy, NewOpen
      <4> QED BY <3>2, <4>1 DEF PortsBy, PortTable
    <3>3. CASE k \notin OpenedBy(policy, st, in)
      <4>1. k \in DOMAIN st.ports
        BY <3>3 DEF PortsBy
      <4>2. IsPort(st.ports[k]) /\ IsOpen(st.ports[k])
        BY <1>1, <4>1 DEF OpenTable
      <4>3. /\ IsPort(RefreshPort(st.ports[k], in.ports[k]))
            /\ RefreshPort(st.ports[k], in.ports[k]).state = st.ports[k].state
        BY <4>2, RefreshedPort
      <4>4. IsOpen(RefreshPort(st.ports[k], in.ports[k]))
        BY <4>2, <4>3 DEF IsOpen
      <4> QED BY <3>3, <4>2, <4>3, <4>4 DEF PortsBy
    <3> QED BY <3>2, <3>3
  <2>2. ApplyMode(mode, st, in) = Updated(policy, st, in)
    BY <1>1 DEF ApplyMode, policy
  <2>3. Updated(policy, st, in).ports = PortsBy(policy, st, in)
    BY UpdatedParts
  <2> QED BY <2>1, <2>2, <2>3
<1>2. CASE ~st.known
  <2> DEFINE open == {k \in DOMAIN in.ports : IsOpen(in.ports[k])}
  <2>1. ApplyMode(mode, st, in) = Created(in)
    BY <1>2 DEF ApplyMode
  <2>2. Created(in).ports = [k \in open |-> in.ports[k]]
    BY CreatedParts
  <2>3. OpenTable([k \in open |-> in.ports[k]])
    <3>1. IsFiniteSet(open)
      BY FS_Subset, open \in SUBSET DOMAIN in.ports DEF PortTable
    <3> QED BY <3>1 DEF OpenTable, PortTable
  <2> QED BY <2>1, <2>2, <2>3
<1> QED BY <1>1, <1>2

(* A change set has one change of a kind for each port.                    *)
LEMMA OneChangeEach ==
  ASSUME NEW mode, NEW st, NEW in,
         NEW c \in ApplyMode(mode, st, in).changes, NEW d \in ApplyMode(mode, st, in).changes,
         c.key = d.key, c.type = d.type
  PROVE  c = d
<1>1. CASE st.known
  <2> DEFINE policy == Policy(mode)
  <2> HIDE DEF policy
  <2>1. c \in ChangesBy(policy, st, in) /\ d \in ChangesBy(policy, st, in)
    BY <1>1, UpdatedParts DEF ApplyMode, policy
  <2>2. ASSUME NEW k \in OpenedBy(policy, st, in), NEW j \in ClosedBy(policy, st, in)
        PROVE  k # j
    BY DEF OpenedBy, ClosedBy, NewOpen, Stale
  <2>3. ASSUME NEW e \in ChangesBy(policy, st, in)
        PROVE  \/ /\ e.type = "state" /\ e = Opened(e.key)
                  /\ e.key \in OpenedBy(policy, st, in)
               \/ /\ e.type = "state" /\ e = Closed(e.key, ObservedState(e.key, in.ports))
                  /\ e.key \in ClosedBy(policy, st, in)
               \/ /\ e.type = "service" /\ e \in FieldChanges(e.key, st.ports[e.key], in.ports[e.key])
    <3>1. CASE \E k \in OpenedBy(policy, st, in) : e = Opened(k)
      BY <3>1, OpenedFields
    <3>2. CASE \E k \in ClosedBy(policy, st, in) : e = Closed(k, ObservedState(k, in.ports))
      <4>1. PICK k \in ClosedBy(policy, st, in) : e = Closed(k, ObservedState(k, in.ports))
        BY <3>2
      <4>2. e.key = k /\ e.type = "state"
        BY <4>1, ClosedFields
      <4> QED BY <4>1, <4>2
    <3>3. CASE \E k \in RefreshedBy(policy, st, in) :
                 e \in FieldChanges(k, st.ports[k], in.ports[k])
      <4>1. PICK k \in RefreshedBy(policy, st, in) :
                   e \in FieldChanges(k, st.ports[k], in.ports[k])
        BY <3>3
      <4>2. e.key = k /\ e.type = "service"
        BY <4>1, FieldChangeFields
      <4> QED BY <4>1, <4>2
    <3>4. \/ \E k \in OpenedBy(policy, st, in) : e = Opened(k)
          \/ \E k \in ClosedBy(policy, st, in) : e = Closed(k, ObservedState(k, in.ports))
          \/ \E k \in RefreshedBy(policy, st, in) :
               e \in FieldChanges(k, st.ports[k], in.ports[k])
      <4>1. CASE e \in OpenRows(policy, st, in)
        BY <4>1 DEF OpenRows
      <4>2. CASE e \in ServiceRows(policy, st, in)
        BY <4>2 DEF ServiceRows
      <4>3. CASE e \in CloseRows(policy, st, in)
        BY <4>3 DEF CloseRows
      <4> QED BY <4>1, <4>2, <4>3 DEF ChangesBy
    <3> QED BY <3>1, <3>2, <3>3, <3>4
  <2>4. CASE c.type = "service"
    <3>1. /\ c \in FieldChanges(c.key, st.ports[c.key], in.ports[c.key])
          /\ d \in FieldChanges(c.key, st.ports[c.key], in.ports[c.key])
      BY <2>1, <2>3, <2>4
    <3> QED BY <3>1, FieldChangeFields
  <2>5. CASE c.type # "service"
    BY <2>1, <2>2, <2>3, <2>5
  <2> QED BY <2>4, <2>5
<1>2. CASE ~st.known
  <2>1. ApplyMode(mode, st, in) = Created(in)
    BY <1>2 DEF ApplyMode
  <2>2. Created(in).changes = {Opened(k) : k \in {j \in DOMAIN in.ports : IsOpen(in.ports[j])}}
    BY CreatedParts
  <2>3. PICK k : c = Opened(k)
    BY <2>1, <2>2
  <2>4. PICK j : d = Opened(j)
    BY <2>1, <2>2
  <2>5. k = j
    BY <2>3, <2>4, OpenedFields
  <2> QED BY <2>3, <2>4, <2>5
<1> QED BY <1>1, <1>2

(* An entry applied to what applying it left: nothing more happens.        *)
LEMMA AppliedTwice ==
  ASSUME NEW mode, NEW st, NEW in, st.known => OpenTable(st.ports), PortTable(in.ports),
         NEW once, once = StoredFrom(ApplyMode(mode, st, in)),
         NEW again, again = ApplyMode(mode, once, in)
  PROVE  /\ StoredFrom(again) = once
         /\ again.changes = {} /\ ~again.changed
         /\ DOMAIN again.ports = DOMAIN once.ports
         /\ again.hostnames = once.hostnames
<1> DEFINE policy == Policy(mode)
<1> HIDE DEF policy
<1>1. /\ once.known = TRUE
      /\ once.ports = ApplyMode(mode, st, in).ports
      /\ once.hostnames = ApplyMode(mode, st, in).hostnames
      /\ once.meta = ApplyMode(mode, st, in).meta
  BY DEF StoredFrom
<1>2. again = Updated(policy, once, in)
  BY <1>1 DEF ApplyMode, policy
(* What the first application left of each port it names as open.          *)
<1>3. /\ policy.add_new_open => \A k \in DOMAIN in.ports :
           IsOpen(in.ports[k]) => k \in DOMAIN once.ports
      /\ policy.refresh_matched => \A k \in DOMAIN once.ports \cap DOMAIN in.ports :
           IsOpen(in.ports[k]) => in.ports[k].service \in {"", once.ports[k].service}
      /\ policy.close_stale => \A k \in DOMAIN once.ports :
           Closes(k, in.ports, in.scanned_ports) => k \in DOMAIN in.ports /\ IsOpen(in.ports[k])
      /\ in.hostnames \subseteq once.hostnames
      /\ policy.refresh_meta /\ in.meta # "" => in.meta = once.meta
      /\ OpenTable(once.ports)
      /\ once.ports = [k \in DOMAIN once.ports |-> once.ports[k]]
  <2>1. OpenTable(once.ports)
    BY <1>1, OpenPortsOnly
  <2>2. CASE st.known
    <3>1. ApplyMode(mode, st, in) = Updated(policy, st, in)
      BY <2>2 DEF ApplyMode, policy
    <3>2. once.ports = PortsBy(policy, st, in)
      BY <1>1, <3>1, UpdatedParts
    <3>3. once.hostnames = st.hostnames \cup (in.hostnames \ st.hostnames)
      BY <1>1, <3>1, UpdatedParts
    <3>4. once.meta = MetaBy(policy, st, in)
      BY <1>1, <3>1, UpdatedParts
    <3>5. DOMAIN once.ports =
            (DOMAIN st.ports \cup OpenedBy(policy, st, in)) \ ClosedBy(policy, st, in)
      BY <3>2 DEF PortsBy
    <3>6. ASSUME policy.add_new_open, NEW k \in DOMAIN in.ports, IsOpen(in.ports[k])
          PROVE  k \in DOMAIN once.ports
      BY <3>5, <3>6 DEF OpenedBy, ClosedBy, NewOpen, Stale, Matched
    <3>7. ASSUME policy.refresh_matched, NEW k \in DOMAIN once.ports \cap DOMAIN in.ports,
                 IsOpen(in.ports[k])
          PROVE  in.ports[k].service \in {"", once.ports[k].service}
      <4>1. CASE k \in OpenedBy(policy, st, in)
        BY <3>2, <4>1 DEF PortsBy
      <4>2. CASE k \notin OpenedBy(policy, st, in)
        <5>1. k \in DOMAIN st.ports
          BY <3>5, <4>2
        <5>2. k \in RefreshedBy(policy, st, in)
          BY <3>7, <5>1 DEF RefreshedBy, Matched
        <5>3. once.ports[k] = RefreshPort(st.ports[k], in.ports[k])
          BY <3>2, <4>2, <5>2 DEF PortsBy
        <5>4. IsPort(st.ports[k])
          BY <2>2, <5>1 DEF OpenTable
        <5>5. RefreshPort(st.ports[k], in.ports[k]).service =
                IF in.ports[k].service = "" THEN st.ports[k].service ELSE in.ports[k].service
          BY <5>4, RefreshedPort
        <5> QED BY <5>3, <5>5
      <4> QED BY <4>1, <4>2
    <3>8. ASSUME policy.close_stale, NEW k \in DOMAIN once.ports,
                 Closes(k, in.ports, in.scanned_ports)
          PROVE  k \in DOMAIN in.ports /\ IsOpen(in.ports[k])
      BY <3>5, <3>8 DEF OpenedBy, ClosedBy, NewOpen, Stale, Matched
    <3>9. once.ports = [k \in DOMAIN once.ports |-> once.ports[k]]
      BY <3>2 DEF PortsBy
    <3>10. policy.refresh_meta /\ in.meta # "" => in.meta = once.meta
      BY <3>4 DEF MetaBy
    <3> QED BY <2>1, <3>3, <3>6, <3>7, <3>8, <3>9, <3>10
  <2>3. CASE ~st.known
    <3> DEFINE open == {k \in DOMAIN in.ports : IsOpen(in.ports[k])}
    <3>1. ApplyMode(mode, st, in) = Created(in)
      BY <2>3 DEF ApplyMode
    <3>2. once.ports = [k \in open |-> in.ports[k]]
      BY <1>1, <3>1, CreatedParts
    <3>3. once.hostnames = in.hostnames /\ once.meta = in.meta
      BY <1>1, <3>1, CreatedParts
    <3>4. DOMAIN once.ports = open
      BY <3>2
    <3>5. \A k \in DOMAIN once.ports : once.ports[k] = in.ports[k]
      BY <3>2
    <3>6. once.ports = [k \in DOMAIN once.ports |-> once.ports[k]]
      BY <3>2
    <3> QED BY <2>1, <3>3, <3>4, <3>5, <3>6
  <2> QED BY <2>2, <2>3
<1>4. OpenedBy(policy, once, in) = {}
  BY <1>3 DEF OpenedBy, NewOpen
<1>5. ClosedBy(policy, once, in) = {}
  BY <1>3 DEF ClosedBy, Stale, Matched
<1>6. ASSUME NEW k \in RefreshedBy(policy, once, in)
      PROVE  /\ k \in DOMAIN once.ports
             /\ FieldChanges(k, once.ports[k], in.ports[k]) = {}
             /\ RefreshPort(once.ports[k], in.ports[k]) = once.ports[k]
  <2>1. /\ policy.refresh_matched /\ k \in DOMAIN once.ports \cap DOMAIN in.ports
        /\ IsOpen(in.ports[k])
    BY DEF RefreshedBy, Matched
  <2>2. in.ports[k].service \in {"", once.ports[k].service}
    BY <1>3, <2>1
  <2> DEFINE p == once.ports[k]
             fresh == RefreshPort(p, in.ports[k])
  <2>3. IsPort(p)
    BY <1>3, <2>1 DEF OpenTable
  <2>4. IsPort(fresh) /\ fresh.state = p.state /\ fresh.service = p.service
    BY <2>2, <2>3, RefreshedPort
  <2> HIDE DEF fresh
  <2>5. fresh = p
    BY <2>3, <2>4 DEF IsPort
  <2> QED BY <2>1, <2>2, <2>5 DEF FieldChanges, fresh
<1>7. ChangesBy(policy, once, in) = {}
  BY <1>4, <1>5, <1>6 DEF ChangesBy, OpenRows, ServiceRows, CloseRows
<1>8. PortsBy(policy, once, in) = once.ports
  <2>1. PortsBy(policy, once, in) = [k \in DOMAIN once.ports |-> once.ports[k]]
    BY <1>4, <1>5, <1>6 DEF PortsBy
  <2> QED BY <1>3, <2>1
<1>9. MetaBy(policy, once, in) = once.meta
  BY <1>3 DEF MetaBy
<1>10. in.hostnames \ once.hostnames = {}
  BY <1>3
<1>11. /\ again.ports = once.ports /\ again.changes = {} /\ again.meta = once.meta
       /\ again.hostnames = once.hostnames \cup {} /\ ~again.changed
  <2> DEFINE cs    == Updated(policy, once, in)
             names == in.hostnames \ once.hostnames
  <2>1. cs.ports = PortsBy(policy, once, in) /\ cs.changes = ChangesBy(policy, once, in)
    BY UpdatedParts
  <2>2. cs.meta = MetaBy(policy, once, in) /\ cs.hostnames = once.hostnames \cup names
    BY UpdatedParts
  <2>3. cs.changed <=> \/ ChangesBy(policy, once, in) # {} \/ names # {}
                       \/ MetaBy(policy, once, in) # once.meta
    BY UpdatedParts
  <2>4. names = {}
    BY <1>10
  <2> HIDE DEF cs, names
  <2>5. ~cs.changed
    BY <1>7, <1>9, <2>3, <2>4
  <2>6. again = cs
    BY <1>2 DEF cs
  <2> QED BY <1>7, <1>8, <1>9, <2>1, <2>2, <2>4, <2>5, <2>6
<1>12. once.hostnames \cup {} = once.hostnames
  OBVIOUS
<1>13. StoredFrom(again) = once
  <2>1. once = [known |-> TRUE, meta |-> once.meta, hostnames |-> once.hostnames,
                ports |-> once.ports]
    BY DEF StoredFrom
  <2> QED BY <1>11, <1>12, <2>1 DEF StoredFrom
<1> QED BY <1>11, <1>12, <1>13

(* What a replacing import leaves of an address: what the report says, and *)
(* what it says nothing about.                                             *)
LeftBy(in, st) ==
  {k \in DOMAIN st.ports \ DOMAIN in.ports : ~InAnyRange(k[1], in.scanned_ports)}

Settles(in, st, after) ==
  /\ DOMAIN after = OpenIn(in) \cup LeftBy(in, st)
  /\ \A k \in OpenIn(in) :
       after[k].service # in.ports[k].service =>
         in.ports[k].service = "" /\ after[k] = st.ports[k]
  /\ \A k \in LeftBy(in, st) : after[k] = st.ports[k]

LEMMA ReplacedPorts ==
  ASSUME NEW st, st.known => OpenTable(st.ports), ~st.known => st = Unknown,
         NEW in, PortTable(in.ports)
  PROVE  Settles(in, st, ApplyMode("replace", st, in).ports)
<1> DEFINE after == ApplyMode("replace", st, in).ports
           left  == LeftBy(in, st)
<1> SUFFICES Settles(in, st, after)
  OBVIOUS
<1>0. after = ApplyMode("replace", st, in).ports
  OBVIOUS
<1> HIDE DEF after
<1>1. CASE st.known
  <2> DEFINE policy == Policy("replace")
  <2>1. policy.add_new_open /\ policy.refresh_matched /\ policy.close_stale
    BY DEF Policy
  <2>2. ApplyMode("replace", st, in) = Updated(policy, st, in)
    BY <1>1 DEF ApplyMode
  <2> HIDE DEF policy
  <2>3. after = PortsBy(policy, st, in)
    BY <1>0, <2>2, UpdatedParts
  <2>4. DOMAIN after =
          (DOMAIN st.ports \cup OpenedBy(policy, st, in)) \ ClosedBy(policy, st, in)
    BY <2>3 DEF PortsBy
  <2>5. DOMAIN after = OpenIn(in) \cup left
    BY <2>1, <2>4
       DEF LeftBy, OpenIn, OpenedBy, ClosedBy, NewOpen, Stale, Matched, Closes
  <2>6. ASSUME NEW k \in OpenIn(in), after[k].service # in.ports[k].service
        PROVE  in.ports[k].service = "" /\ after[k] = st.ports[k]
    <3>1. k \in DOMAIN after /\ k \in DOMAIN in.ports /\ IsOpen(in.ports[k])
      BY <2>5 DEF OpenIn
    <3>2. k \notin OpenedBy(policy, st, in)
      BY <2>3, <2>6, <3>1 DEF PortsBy
    <3>3. k \in DOMAIN st.ports /\ k \in RefreshedBy(policy, st, in)
      BY <2>1, <2>4, <3>1, <3>2 DEF RefreshedBy, Matched
    <3> DEFINE p == st.ports[k]
               fresh == RefreshPort(p, in.ports[k])
    <3>4. after[k] = fresh
      BY <2>3, <3>1, <3>2, <3>3 DEF PortsBy
    <3>5. IsPort(p)
      BY <1>1, <3>3 DEF OpenTable
    <3>6. /\ IsPort(fresh) /\ fresh.state = p.state
          /\ fresh.service = IF in.ports[k].service = "" THEN p.service ELSE in.ports[k].service
      BY <3>5, RefreshedPort
    <3> HIDE DEF fresh
    <3>7. in.ports[k].service = "" /\ fresh.service = p.service
      BY <2>6, <3>4, <3>6
    <3>8. fresh = p
      BY <3>5, <3>6, <3>7 DEF IsPort
    <3> QED BY <3>4, <3>7, <3>8
  <2>7. ASSUME NEW k \in left PROVE after[k] = st.ports[k]
    <3>1. k \in DOMAIN after /\ k \notin DOMAIN in.ports
      BY <2>5 DEF LeftBy
    <3>2. k \notin OpenedBy(policy, st, in) /\ k \notin RefreshedBy(policy, st, in)
      BY <3>1 DEF OpenedBy, RefreshedBy, NewOpen, Matched
    <3> QED BY <2>3, <3>1, <3>2 DEF PortsBy
  <2> QED BY <2>5, <2>6, <2>7 DEF Settles
<1>2. CASE ~st.known
  <2>1. Unknown.ports = <<>>
    BY DEF Unknown
  <2>2. DOMAIN st.ports = {} /\ left = {}
    BY <1>2, <2>1 DEF LeftBy
  <2>3. ApplyMode("replace", st, in) = Created(in)
    BY <1>2 DEF ApplyMode
  <2>4. after = [k \in OpenIn(in) |-> in.ports[k]]
    BY <1>0, <2>3, CreatedParts DEF OpenIn
  <2> QED BY <2>2, <2>4 DEF Settles
<1> QED BY <1>1, <1>2

-----------------------------------------------------------------------------
(* The inventory.                                                          *)

(* What is needed to step: TypeOK, and that what is stored is a record     *)
(* with a finite table of ports and, once known, an end time.              *)
IsStored(st) ==
  /\ st = [known |-> st.known, meta |-> st.meta, hostnames |-> st.hostnames, ports |-> st.ports]
  /\ st.known \in BOOLEAN /\ OpenTable(st.ports)

InventoryInv ==
  TypeOK /\ \A ip \in Ips : /\ IsStored(stored[ip])
                            /\ stored[ip].known => seen[ip].last # None

LEMMA UnknownIsEmpty == IsStored(Unknown) /\ Unknown.known = FALSE
<1>1. Unknown.ports = <<>> /\ Unknown.known = FALSE
  BY DEF Unknown
<1>2. <<>> = [k \in DOMAIN <<>> |-> <<>>[k]]
  OBVIOUS
<1>3. OpenTable(Unknown.ports)
  BY <1>1, <1>2, FS_EmptySet DEF OpenTable
<1>4. Unknown = [known |-> Unknown.known, meta |-> Unknown.meta,
                 hostnames |-> Unknown.hostnames, ports |-> Unknown.ports]
  BY DEF Unknown
<1> QED BY <1>1, <1>3, <1>4 DEF IsStored

LEMMA InventoryInit == Init => InventoryInv
<1> SUFFICES ASSUME Init PROVE InventoryInv
  OBVIOUS
<1>1. \A ip \in Ips : stored[ip] = Unknown /\ seen[ip] = NeverSeen
  BY DEF Init
<1>2. \A ip \in Ips : IsStored(stored[ip]) /\ stored[ip].known = FALSE
  BY <1>1, UnknownIsEmpty
<1>3. requests \in 0..MaxRequests
  BY RequestsAssumption DEF Init
<1>4. \A row, other \in history : UniqueKey(row) = UniqueKey(other) => row = other
  BY DEF Init
<1>5. clean \subseteq Ips
  BY DEF Init
<1> QED BY <1>1, <1>2, <1>3, <1>4, <1>5 DEF InventoryInv, TypeOK, IsStored, OpenTable

(* Two rows of an import with one key are one row.                         *)
LEMMA ImportRowsDiffer ==
  ASSUME NEW mode, NEW batch, NEW row \in HistoryRows(mode, batch),
         NEW other \in HistoryRows(mode, batch), UniqueKey(row) = UniqueKey(other)
  PROVE  row = other
<1>1. ASSUME NEW r \in HistoryRows(mode, batch)
      PROVE  \E ip \in DOMAIN batch : \E c \in Change(mode, batch, ip).changes :
               r = [ip |-> ip, key |-> c.key, type |-> c.type, old |-> c.old, new |-> c.new,
                    observed |-> c.observed,
                    created_at |-> RowTime(ip, Change(mode, batch, ip))]
  BY DEF HistoryRows
<1> DEFINE Row(i, c) ==
             [ip |-> i, key |-> c.key, type |-> c.type, old |-> c.old, new |-> c.new,
              observed |-> c.observed, created_at |-> RowTime(i, Change(mode, batch, i))]
<1>2. \A i, c : /\ Row(i, c).ip = i /\ Row(i, c).key = c.key
                /\ Row(i, c).type = c.type
  OBVIOUS
<1>3. ASSUME NEW r \in HistoryRows(mode, batch)
      PROVE  \E i \in DOMAIN batch : \E c \in Change(mode, batch, i).changes : r = Row(i, c)
  BY <1>1
<1> HIDE DEF Row
<1>4. PICK ip \in DOMAIN batch : \E c \in Change(mode, batch, ip).changes : row = Row(ip, c)
  BY <1>3
<1>5. PICK c \in Change(mode, batch, ip).changes : row = Row(ip, c)
  BY <1>4
<1>6. PICK i \in DOMAIN batch : \E d \in Change(mode, batch, i).changes : other = Row(i, d)
  BY <1>3
<1>7. PICK d \in Change(mode, batch, i).changes : other = Row(i, d)
  BY <1>6
<1>8. row.ip = other.ip /\ row.key = other.key /\ row.type = other.type
  BY DEF UniqueKey
<1>9. ip = i /\ c.key = d.key /\ c.type = d.type
  BY <1>2, <1>5, <1>7, <1>8
<1>10. d \in Change(mode, batch, ip).changes
  BY <1>9
<1>11. c = d
  BY <1>9, <1>10, OneChangeEach DEF Change
<1> QED BY <1>5, <1>7, <1>9, <1>11

LEMMA ImportStep ==
  ASSUME InventoryInv, NEW mode, NEW tracked, NEW batch, GoodBatch(batch, 1),
         Import(mode, tracked, batch)
  PROVE  InventoryInv'
<1>1. /\ requests' \in 0..MaxRequests
  BY RequestsAssumption DEF Import, Request, InventoryInv, TypeOK
<1>2. clean' \subseteq Ips
  BY DEF Import, StillClean
<1>3. \A row, other \in history' : UniqueKey(row) = UniqueKey(other) => row = other
  <2>1. \A row, other \in history : UniqueKey(row) = UniqueKey(other) => row = other
    BY DEF InventoryInv, TypeOK
  <2>2. CASE tracked
    <3>1. history' = HistoryAfter(mode, batch)
      BY <2>2 DEF Import
    <3> QED BY <2>1, <3>1, ImportRowsDiffer DEF HistoryAfter
  <2>3. CASE ~tracked
    BY <2>1, <2>3 DEF Import
  <2> QED BY <2>2, <2>3
<1>4. ASSUME NEW ip \in Ips
      PROVE  /\ IsStored(stored'[ip]) /\ (stored'[ip].known => seen'[ip].last # None)
             /\ stored'[ip].known <=> seen'[ip] # NeverSeen
             /\ ~stored'[ip].known => stored'[ip] = Unknown
  <2>1. /\ IsStored(stored[ip]) /\ (stored[ip].known => seen[ip].last # None)
        /\ stored[ip].known <=> seen[ip] # NeverSeen
        /\ ~stored[ip].known => stored[ip] = Unknown
    BY DEF InventoryInv, TypeOK
  <2>2. CASE ip \notin DOMAIN batch
    <3>1. stored'[ip] = stored[ip] /\ seen'[ip] = seen[ip]
      BY <2>2 DEF Import, StoredAfter, SeenAfter
    <3> QED BY <2>1, <3>1
  <2>3. CASE ip \in DOMAIN batch
    <3> DEFINE cs == Change(mode, batch, ip)
               at == batch[ip].endtime
    <3>1. PortTable(batch[ip].ports) /\ at \in Nat /\ 1 <= at
      BY <2>3 DEF GoodBatch, GoodEntry
    <3>2. OpenTable(cs.ports)
      BY <2>1, <3>1, OpenPortsOnly DEF Change, IsStored
    <3>3. stored'[ip] = StoredFrom(cs)
      BY <2>3 DEF Import, StoredAfter
    <3>4. seen'[ip].last = at
      BY <2>3 DEF Import, SeenAfter
    <3>5. NeverSeen.last = 0
      BY DEF NeverSeen, None
    <3>6. stored'[ip].known = TRUE /\ IsStored(stored'[ip])
      BY <3>2, <3>3 DEF StoredFrom, IsStored
    <3> HIDE DEF cs, at
    <3> QED BY <3>1, <3>4, <3>5, <3>6 DEF None
  <2> QED BY <2>2, <2>3
<1> QED BY <1>1, <1>2, <1>3, <1>4 DEF InventoryInv, TypeOK, IsStored, OpenTable

LEMMA InventoryStep == InventoryInv /\ [Next]_vars => InventoryInv'
<1> SUFFICES ASSUME InventoryInv, [Next]_vars PROVE InventoryInv'
  OBVIOUS
<1>1. CASE ImportScan
  <2>1. PICK s \in Scans : /\ Parses(s.report)
                           /\ Import(s.mode, s.track_history, DedupBatch(ParseReport(s.report)))
    BY <1>1 DEF ImportScan
  <2>2. GoodBatch(DedupBatch(ParseReport(s.report)), 1)
    BY <2>1, ReportGood
  <2> QED BY <2>1, <2>2, ImportStep
<1>2. CASE CreateIps
  <2>1. PICK l \in Lists : Import(l.mode, l.track_history, DedupBatch(Validated(l)))
    BY <1>2 DEF CreateIps
  <2>2. GoodBatch(DedupBatch(Validated(l)), 1)
    BY ListGood
  <2> QED BY <2>1, <2>2, ImportStep
<1>3. CASE DeleteIps
  <2>1. PICK gone \in SUBSET Ips :
          /\ stored' = [ip \in Ips |-> IF ip \in gone THEN Unknown ELSE stored[ip]]
          /\ seen' = [ip \in Ips |-> IF ip \in gone THEN NeverSeen ELSE seen[ip]]
          /\ clean' = clean \ gone
    BY <1>3 DEF DeleteIps
  <2>2. /\ requests' \in 0..MaxRequests /\ history' = history
    BY <1>3, RequestsAssumption DEF DeleteIps, Request, InventoryInv, TypeOK
  <2>3. ASSUME NEW ip \in Ips
        PROVE  /\ IsStored(stored'[ip]) /\ (stored'[ip].known => seen'[ip].last # None)
               /\ stored'[ip].known <=> seen'[ip] # NeverSeen
               /\ ~stored'[ip].known => stored'[ip] = Unknown
    <3>1. CASE ip \in gone
      <4>1. stored'[ip] = Unknown /\ seen'[ip] = NeverSeen
        BY <2>1, <3>1
      <4> QED BY <4>1, UnknownIsEmpty
    <3>2. CASE ip \notin gone
      <4>1. stored'[ip] = stored[ip] /\ seen'[ip] = seen[ip]
        BY <2>1, <3>2
      <4> QED BY <4>1 DEF InventoryInv, TypeOK
    <3> QED BY <3>1, <3>2
  <2> QED BY <2>1, <2>2, <2>3 DEF InventoryInv, TypeOK, IsStored, OpenTable
<1>4. CASE DeleteHistory
  <2>1. /\ requests' \in 0..MaxRequests /\ history' = {} /\ clean' = {}
        /\ UNCHANGED <<stored, seen>>
    BY <1>4, RequestsAssumption DEF DeleteHistory, Request, InventoryInv, TypeOK
  <2> QED BY <2>1 DEF InventoryInv, TypeOK, IsStored, OpenTable, NeverSeen, Unknown
<1>5. CASE UNCHANGED vars
  BY <1>5 DEF vars, InventoryInv, TypeOK, OpenTable, UniqueKey
<1> QED BY <1>1, <1>2, <1>3, <1>4, <1>5 DEF Next

LEMMA InventoryInvHolds == Spec => []InventoryInv
<1> QED BY InventoryInit, InventoryStep, PTL DEF Spec

(* Only open ports are stored, an address has times exactly when it is     *)
(* stored, and no two log rows share a key, whatever is imported, listed   *)
(* or deleted (apply_import, dedup_batch, delete_ips).                     *)
THEOREM TypeCorrect == Spec => []TypeOK
<1>1. InventoryInv => TypeOK
  BY DEF InventoryInv
<1> QED BY <1>1, InventoryInvHolds, PTL

(* A report imported a second time, as a worker does that lost the answer, *)
(* changes, logs and tells nothing, in any mode and from any state.        *)
THEOREM RetryChangesNothing == Spec => []RetryIsHarmless
<1>1. InventoryInv => RetryIsHarmless
  <2>1. SUFFICES ASSUME InventoryInv, NEW s \in Scans,
                        NEW ip \in DOMAIN DedupBatch(ParseReport(s.report)),
                        NEW batch, batch = DedupBatch(ParseReport(s.report)),
                        NEW once, once = StoredFrom(Change(s.mode, batch, ip)),
                        NEW again, again = ApplyMode(s.mode, once, batch[ip])
                 PROVE  /\ StoredFrom(again) = once
                        /\ again.changes = {} /\ ~again.changed
                        /\ BuildEvent(ip, once, again) = {}
    BY DEF RetryIsHarmless
  <2>2. GoodBatch(batch, 0)
    BY <2>1, ReportGood
  <2>3. ip \in Ips /\ PortTable(batch[ip].ports)
    BY <2>1, <2>2 DEF GoodBatch, GoodEntry
  <2>4. OpenTable(stored[ip].ports)
    BY <2>1, <2>3 DEF InventoryInv, IsStored
  <2>5. once = StoredFrom(ApplyMode(s.mode, stored[ip], batch[ip]))
    BY <2>1 DEF Change
  <2>6. /\ StoredFrom(again) = once /\ again.changes = {} /\ ~again.changed
        /\ DOMAIN again.ports = DOMAIN once.ports
        /\ again.hostnames = once.hostnames
    BY <2>1, <2>3, <2>4, <2>5, AppliedTwice
  <2>7. BuildEvent(ip, once, again) = {}
    BY <2>6 DEF BuildEvent, Refs, ServiceChanges
  <2> QED BY <2>6, <2>7
<1> QED BY <1>1, InventoryInvHolds, PTL

(* After a replacing import the inventory of an address is the report      *)
(* within its coverage and what was stored outside it, whatever came       *)
(* before (ReplaceMode, diff_ports, close_stale_port).                     *)
THEOREM ReplaceSettles == Spec => []NewestReplaceWins
<1>1. InventoryInv => NewestReplaceWins
  <2>1. SUFFICES ASSUME InventoryInv, NEW s \in Scans,
                        NEW ip \in DOMAIN DedupBatch(ParseReport(s.report))
                 PROVE  LET batch == DedupBatch(ParseReport(s.report))
                        IN  Settles(batch[ip], stored[ip], Change("replace", batch, ip).ports)
    BY DEF NewestReplaceWins, Settles, LeftBy
  <2> DEFINE batch == DedupBatch(ParseReport(s.report))
  <2>2. GoodBatch(batch, 0)
    BY ReportGood
  <2>3. ip \in Ips /\ PortTable(batch[ip].ports)
    BY <2>2 DEF GoodBatch, GoodEntry
  <2>4. OpenTable(stored[ip].ports) /\ (~stored[ip].known => stored[ip] = Unknown)
    BY <2>1, <2>3 DEF InventoryInv, IsStored, TypeOK
  <2> HIDE DEF batch
  <2>5. Settles(batch[ip], stored[ip], ApplyMode("replace", stored[ip], batch[ip]).ports)
    BY <2>3, <2>4, ReplacedPorts
  <2> QED BY <2>5 DEF Change, batch
<1> QED BY <1>1, InventoryInvHolds, PTL

-----------------------------------------------------------------------------
(* The log tells the inventory.  The invariant follows one port of one     *)
(* address.  Its log is a list of open and close rows that alternate, with *)
(* service rows since the last; an import adds at most one row to it,      *)
(* newer than all of them.                                                 *)

(* What an import does to one port: it opens it, closes it, changes its    *)
(* service, or leaves it.                                                  *)

Of(changes, key, type) == {c \in changes : c.key = key /\ c.type = type}

Opens(st, cs, key) ==
  /\ Of(cs.changes, key, "state") = {Opened(key)} /\ Of(cs.changes, key, "service") = {}
  /\ key \notin DOMAIN st.ports /\ key \in DOMAIN cs.ports

Shuts(st, cs, key) ==
  /\ \E c : Of(cs.changes, key, "state") = {c} /\ c.new = "closed"
  /\ Of(cs.changes, key, "service") = {}
  /\ key \in DOMAIN st.ports /\ key \notin DOMAIN cs.ports

Renews(st, cs, key) ==
  /\ Of(cs.changes, key, "state") = {}
  /\ \E c : Of(cs.changes, key, "service") = {c} /\ cs.ports[key].service = c.new
  /\ key \in DOMAIN st.ports /\ key \in DOMAIN cs.ports

Leaves(st, cs, key) ==
  /\ Of(cs.changes, key, "state") = {} /\ Of(cs.changes, key, "service") = {}
  /\ key \in DOMAIN st.ports <=> key \in DOMAIN cs.ports
  /\ key \in DOMAIN st.ports => cs.ports[key].service = st.ports[key].service

LEMMA OnePortChange ==
  ASSUME NEW mode, NEW st, st.known => OpenTable(st.ports), ~st.known => st = Unknown,
         NEW in, NEW key, NEW cs, cs = ApplyMode(mode, st, in)
  PROVE  Opens(st, cs, key) \/ Shuts(st, cs, key) \/ Renews(st, cs, key) \/ Leaves(st, cs, key)
<1>1. CASE ~st.known
  <2> DEFINE open == {k \in DOMAIN in.ports : IsOpen(in.ports[k])}
  <2>1. cs = Created(in)
    BY <1>1 DEF ApplyMode
  <2>2. cs.ports = [k \in open |-> in.ports[k]] /\ cs.changes = {Opened(k) : k \in open}
    BY <2>1, CreatedParts
  <2>3. Unknown.ports = <<>>
    BY DEF Unknown
  <2>4. DOMAIN st.ports = {} /\ DOMAIN cs.ports = open
    BY <1>1, <2>2, <2>3
  <2> HIDE DEF open
  <2>5. Of(cs.changes, key, "service") = {}
    BY <2>2, OpenedFields DEF Of
  <2>6. CASE key \in open
    <3>1. Of(cs.changes, key, "state") = {Opened(key)}
      BY <2>2, <2>6, OpenedFields DEF Of
    <3> QED BY <2>4, <2>5, <2>6, <3>1 DEF Opens
  <2>7. CASE key \notin open
    <3>1. Of(cs.changes, key, "state") = {}
      BY <2>2, <2>7, OpenedFields DEF Of
    <3> QED BY <2>4, <2>5, <2>7, <3>1 DEF Leaves
  <2> QED BY <2>6, <2>7
<1>2. CASE st.known
  <2> DEFINE policy == Policy(mode)
  <2> HIDE DEF policy
  <2> DEFINE opened    == OpenedBy(policy, st, in)
             refreshed == RefreshedBy(policy, st, in)
             closed    == ClosedBy(policy, st, in)
  <2>1. cs = Updated(policy, st, in)
    BY <1>2 DEF ApplyMode, policy
  <2>2. cs.changes = ChangesBy(policy, st, in) /\ cs.ports = PortsBy(policy, st, in)
    BY <2>1, UpdatedParts
  <2>3. /\ DOMAIN cs.ports = (DOMAIN st.ports \cup opened) \ closed
        /\ \A k \in DOMAIN cs.ports :
             cs.ports[k] = IF k \in opened THEN in.ports[k]
                           ELSE IF k \in refreshed THEN RefreshPort(st.ports[k], in.ports[k])
                           ELSE st.ports[k]
    BY <2>2 DEF PortsBy
  <2>4. /\ opened \cap DOMAIN st.ports = {}
        /\ refreshed \subseteq DOMAIN st.ports /\ closed \subseteq DOMAIN st.ports
        /\ refreshed \cap closed = {}
    BY DEF OpenedBy, RefreshedBy, ClosedBy, NewOpen, Matched, Stale
  <2>5. Of(cs.changes, key, "state") =
          Of(OpenRows(policy, st, in), key, "state") \cup Of(CloseRows(policy, st, in), key, "state")
    <3>1. \A c \in ServiceRows(policy, st, in) : c.type = "service"
      BY FieldChangeFields DEF ServiceRows
    <3> QED BY <2>2, <3>1 DEF Of, ChangesBy
  <2>6. Of(cs.changes, key, "service") = Of(ServiceRows(policy, st, in), key, "service")
    <3>1. \A c \in OpenRows(policy, st, in) : c.type = "state"
      BY OpenedFields DEF OpenRows
    <3>2. \A c \in CloseRows(policy, st, in) : c.type = "state"
      BY ClosedFields DEF CloseRows
    <3> QED BY <2>2, <3>1, <3>2 DEF Of, ChangesBy
  <2>7. Of(OpenRows(policy, st, in), key, "state") =
          IF key \in opened THEN {Opened(key)} ELSE {}
    BY OpenedFields DEF Of, OpenRows
  <2>8. Of(CloseRows(policy, st, in), key, "state") =
          IF key \in closed THEN {Closed(key, ObservedState(key, in.ports))} ELSE {}
    BY ClosedFields DEF Of, CloseRows
  <2>9. Of(ServiceRows(policy, st, in), key, "service") =
          IF key \in refreshed THEN FieldChanges(key, st.ports[key], in.ports[key]) ELSE {}
    <3>1. \A c \in ServiceRows(policy, st, in) :
            \E k \in refreshed : c \in FieldChanges(k, st.ports[k], in.ports[k])
      BY DEF ServiceRows
    <3>2. \A k \in refreshed :
            FieldChanges(k, st.ports[k], in.ports[k]) \subseteq ServiceRows(policy, st, in)
      BY DEF ServiceRows
    <3>3. \A k \in refreshed : \A c \in FieldChanges(k, st.ports[k], in.ports[k]) :
            c.key = k /\ c.type = "service"
      BY FieldChangeFields
    <3> QED BY <3>1, <3>2, <3>3 DEF Of
  <2> HIDE DEF opened, refreshed, closed
  <2>10. CASE key \in opened
    BY <2>3, <2>4, <2>5, <2>6, <2>7, <2>8, <2>9, <2>10 DEF Opens
  <2>11. CASE key \in closed
    <3>1. Closed(key, ObservedState(key, in.ports)).new = "closed"
      BY DEF Closed
    <3>2. Of(cs.changes, key, "state") = {Closed(key, ObservedState(key, in.ports))}
      BY <2>4, <2>5, <2>7, <2>8, <2>11
    <3>3. Of(cs.changes, key, "service") = {}
      BY <2>4, <2>6, <2>9, <2>11
    <3> QED BY <2>3, <2>4, <2>11, <3>1, <3>2, <3>3 DEF Shuts
  <2>12. CASE key \notin opened /\ key \notin closed
    <3>1. Of(cs.changes, key, "state") = {}
      BY <2>5, <2>7, <2>8, <2>12
    <3>2. key \in DOMAIN st.ports <=> key \in DOMAIN cs.ports
      BY <2>3, <2>12
    <3>3. CASE key \in refreshed
      <4>1. key \in DOMAIN st.ports /\ key \in DOMAIN cs.ports
        BY <2>4, <3>2, <3>3
      <4>2. cs.ports[key] = RefreshPort(st.ports[key], in.ports[key])
        BY <2>3, <2>12, <3>3, <4>1
      <4>3. IsPort(st.ports[key])
        BY <1>2, <4>1 DEF OpenTable
      <4>4. cs.ports[key].service =
              IF in.ports[key].service = "" THEN st.ports[key].service ELSE in.ports[key].service
        <5>1. RefreshPort(st.ports[key], in.ports[key]).service =
                IF in.ports[key].service = "" THEN st.ports[key].service ELSE in.ports[key].service
          BY <4>3, RefreshedPort
        <5> QED BY <4>2, <5>1
      <4>5. CASE in.ports[key].service \in {"", st.ports[key].service}
        <5>1. FieldChanges(key, st.ports[key], in.ports[key]) = {}
          BY <4>5 DEF FieldChanges
        <5>2. Of(cs.changes, key, "service") = {}
          BY <2>6, <2>9, <5>1
        <5> QED BY <3>1, <3>2, <4>4, <4>5, <5>2 DEF Leaves
      <4>6. CASE in.ports[key].service \notin {"", st.ports[key].service}
        <5> DEFINE c == [key |-> key, type |-> "service", old |-> st.ports[key].service,
                         new |-> in.ports[key].service, observed |-> ""]
        <5>1. FieldChanges(key, st.ports[key], in.ports[key]) = {c}
          BY <4>6 DEF FieldChanges
        <5>2. c.new = in.ports[key].service
          OBVIOUS
        <5> HIDE DEF c
        <5>3. Of(cs.changes, key, "service") = {c}
          BY <2>6, <2>9, <3>3, <5>1
        <5> QED BY <3>1, <4>1, <4>4, <4>6, <5>2, <5>3 DEF Renews
      <4> QED BY <4>5, <4>6
    <3>4. CASE key \notin refreshed
      <4>1. Of(cs.changes, key, "service") = {}
        BY <2>6, <2>9, <3>4
      <4>2. key \in DOMAIN st.ports => cs.ports[key] = st.ports[key]
        BY <2>3, <2>12, <3>2, <3>4
      <4> QED BY <3>1, <3>2, <4>1, <4>2 DEF Leaves
    <3> QED BY <3>3, <3>4
  <2> QED BY <2>10, <2>11, <2>12
<1> QED BY <1>1, <1>2

-----------------------------------------------------------------------------
(* The log of one port.                                                    *)

Rows(log, ip, key, type) == {row \in log : row.ip = ip /\ row.key = key /\ row.type = type}

Tops(rows, top) == top \in rows /\ \A r \in rows : r.created_at <= top.created_at

Older(rows, row) == {r \in rows : r.created_at < row.created_at}

Since(rows, top) == {r \in rows : r.created_at >= top.created_at}

(* A state row says the opposite of the one before it.                     *)
Alternates(states, row) ==
  \/ Older(states, row) = {} /\ row.new = "open"
  \/ \E p : Tops(Older(states, row), p) /\ p.new = "closed" /\ row.new = "open"
  \/ \E p : Tops(Older(states, row), p) /\ p.new = "open" /\ row.new = "closed"

Told(log, ports, ip, key) ==
  LET states   == Rows(log, ip, key, "state")
      services == Rows(log, ip, key, "service")
  IN  /\ \A row \in states : Alternates(states, row)
      /\ states = {} => services = {} /\ key \notin DOMAIN ports
      /\ states # {} =>
           \E top : /\ Tops(states, top) /\ (top.new = "open" <=> key \in DOMAIN ports)
                    /\ Since(services, top) # {} =>
                         /\ top.new = "open"
                         /\ \E s : /\ Tops(Since(services, top), s)
                                   /\ ports[key].service = s.new

NewRow(ip, c, at) ==
  [ip |-> ip, key |-> c.key, type |-> c.type, old |-> c.old, new |-> c.new,
   observed |-> c.observed, created_at |-> at]

LEMMA NewRowFields ==
  ASSUME NEW ip, NEW c, NEW at
  PROVE  LET row == NewRow(ip, c, at)
         IN  /\ row.ip = ip /\ row.key = c.key /\ row.type = c.type /\ row.new = c.new
             /\ row.created_at = at
BY DEF NewRow

(* A row that is newer than all rows of a port leaves what was before each.*)
LEMMA NewerRow ==
  ASSUME NEW states, \A r \in states : r.created_at \in Nat,
         NEW at \in Nat, \A r \in states : r.created_at < at,
         NEW n, n.created_at = at
  PROVE  /\ Older(states \cup {n}, n) = states
         /\ \A row \in states : Older(states \cup {n}, row) = Older(states, row)
         /\ Tops(states \cup {n}, n)
BY DEF Older, Tops

(* An import adds what it did to a port to its log.                        *)
LEMMA ToldStep ==
  ASSUME NEW log, NEW later, NEW ip, NEW key, NEW st, NEW cs, NEW at \in Nat,
         \A r \in log : r.created_at \in Nat,
         \A r \in log : r.ip = ip => r.created_at < at,
         {r \in later : r.ip = ip} = {r \in log : r.ip = ip} \cup {NewRow(ip, c, at) : c \in cs.changes},
         Told(log, st.ports, ip, key),
         Opens(st, cs, key) \/ Shuts(st, cs, key) \/ Renews(st, cs, key) \/ Leaves(st, cs, key)
  PROVE  Told(later, cs.ports, ip, key)
<1> DEFINE states   == Rows(log, ip, key, "state")
           services == Rows(log, ip, key, "service")
           states2   == Rows(later, ip, key, "state")
           services2 == Rows(later, ip, key, "service")
<1>1. ASSUME NEW type
      PROVE  Rows(later, ip, key, type) =
               Rows(log, ip, key, type) \cup {NewRow(ip, c, at) : c \in Of(cs.changes, key, type)}
  <2>1. Rows(later, ip, key, type) = {r \in {r \in later : r.ip = ip} : r.key = key /\ r.type = type}
    BY DEF Rows
  <2>2. Rows(log, ip, key, type) = {r \in {r \in log : r.ip = ip} : r.key = key /\ r.type = type}
    BY DEF Rows
  <2>3. {r \in {NewRow(ip, c, at) : c \in cs.changes} : r.key = key /\ r.type = type} =
          {NewRow(ip, c, at) : c \in Of(cs.changes, key, type)}
    BY NewRowFields DEF Of
  <2> QED BY <2>1, <2>2, <2>3
<1>2. \A r \in states \cup services : r.created_at \in Nat /\ r.created_at < at
  BY DEF Rows
<1>3. /\ \A row \in states : Alternates(states, row)
      /\ states = {} => services = {} /\ key \notin DOMAIN st.ports
  BY DEF Told
<1>4. states # {} =>
        \E top : /\ Tops(states, top) /\ (top.new = "open" <=> key \in DOMAIN st.ports)
                 /\ Since(services, top) # {} =>
                      /\ top.new = "open"
                      /\ \E s : Tops(Since(services, top), s) /\ st.ports[key].service = s.new
  BY DEF Told
<1>5. states2 = states \cup {NewRow(ip, c, at) : c \in Of(cs.changes, key, "state")}
  BY <1>1
<1>6. services2 = services \cup {NewRow(ip, c, at) : c \in Of(cs.changes, key, "service")}
  BY <1>1
<1>7. SUFFICES
        /\ \A row \in states2 : Alternates(states2, row)
        /\ states2 = {} => services2 = {} /\ key \notin DOMAIN cs.ports
        /\ states2 # {} =>
             \E top : /\ Tops(states2, top) /\ (top.new = "open" <=> key \in DOMAIN cs.ports)
                      /\ Since(services2, top) # {} =>
                           /\ top.new = "open"
                           /\ \E s : Tops(Since(services2, top), s) /\ cs.ports[key].service = s.new
  BY DEF Told
<1> HIDE DEF states, services, states2, services2
<1>8. \A row \in states : row.new \in {"open", "closed"}
  BY <1>3 DEF Alternates
(* A state row is added.                                                   *)
<1>9. ASSUME NEW n, states2 = states \cup {n}, n.created_at = at, services2 = services,
             \/ n.new = "open" /\ key \notin DOMAIN st.ports /\ key \in DOMAIN cs.ports
             \/ n.new = "closed" /\ key \in DOMAIN st.ports /\ key \notin DOMAIN cs.ports
      PROVE  /\ \A row \in states2 : Alternates(states2, row)
             /\ states2 = {} => services2 = {} /\ key \notin DOMAIN cs.ports
             /\ states2 # {} =>
                  \E top : /\ Tops(states2, top) /\ (top.new = "open" <=> key \in DOMAIN cs.ports)
                           /\ Since(services2, top) # {} =>
                                /\ top.new = "open"
                                /\ \E s : Tops(Since(services2, top), s) /\ cs.ports[key].service = s.new
  <2>1. /\ Older(states2, n) = states
        /\ \A row \in states : Older(states2, row) = Older(states, row)
        /\ Tops(states2, n)
    <3>1. /\ \A r \in states : r.created_at \in Nat
          /\ \A r \in states : r.created_at < at
      BY <1>2
    <3>2. n.created_at = at
      BY <1>9
    <3>3. /\ Older(states \cup {n}, n) = states
          /\ \A row \in states : Older(states \cup {n}, row) = Older(states, row)
          /\ Tops(states \cup {n}, n)
      BY <3>1, <3>2, NewerRow
    <3> QED BY <1>9, <3>3
  <2>2. \A row \in states : Alternates(states2, row)
    BY <1>3, <2>1 DEF Alternates
  <2>3. Alternates(states2, n)
    <3>1. CASE states = {}
      BY <1>3, <1>9, <2>1, <3>1 DEF Alternates
    <3>2. CASE states # {}
      <4>1. PICK top : Tops(states, top) /\ (top.new = "open" <=> key \in DOMAIN st.ports)
        BY <1>4, <3>2
      <4>2. top.new \in {"open", "closed"}
        BY <1>8, <4>1 DEF Tops
      <4> QED BY <1>9, <2>1, <4>1, <4>2 DEF Alternates
    <3> QED BY <3>1, <3>2
  <2>4. Since(services2, n) = {}
    BY <1>2, <1>9 DEF Since
  <2>5. n.new = "open" <=> key \in DOMAIN cs.ports
    BY <1>9
  <2>6. \A row \in states2 : Alternates(states2, row)
    BY <1>9, <2>2, <2>3
  <2>7. states2 # {}
    BY <1>9
  <2> QED BY <2>1, <2>4, <2>5, <2>6, <2>7
<1>10. CASE Opens(st, cs, key)
  <2> DEFINE n == NewRow(ip, Opened(key), at)
  <2>1. n.created_at = at /\ n.new = Opened(key).new
    BY NewRowFields
  <2>2. Opened(key).new = "open"
    BY DEF Opened
  <2> HIDE DEF n
  <2>3. states2 = states \cup {n} /\ services2 = services
    BY <1>5, <1>6, <1>10 DEF Opens, n
  <2>4. n.new = "open" /\ key \notin DOMAIN st.ports /\ key \in DOMAIN cs.ports
    BY <1>10, <2>1, <2>2 DEF Opens
  <2> QED BY <1>9, <2>1, <2>3, <2>4
<1>11. CASE Shuts(st, cs, key)
  <2>1. PICK c : Of(cs.changes, key, "state") = {c} /\ c.new = "closed"
    BY <1>11 DEF Shuts
  <2> DEFINE n == NewRow(ip, c, at)
  <2>2. n.created_at = at /\ n.new = "closed"
    BY <2>1, NewRowFields
  <2>3. states2 = states \cup {n} /\ services2 = services
    BY <1>5, <1>6, <1>11, <2>1 DEF Shuts
  <2> HIDE DEF n
  <2>4. n.new = "closed" /\ key \in DOMAIN st.ports /\ key \notin DOMAIN cs.ports
    BY <1>11, <2>2 DEF Shuts
  <2> QED BY <1>9, <2>2, <2>3, <2>4
<1>12. CASE Renews(st, cs, key)
  <2>1. PICK c : Of(cs.changes, key, "service") = {c} /\ cs.ports[key].service = c.new
    BY <1>12 DEF Renews
  <2> DEFINE n == NewRow(ip, c, at)
  <2>2. n.created_at = at /\ n.new = c.new
    BY NewRowFields
  <2>3. services2 = services \cup {n} /\ states2 = states
    BY <1>5, <1>6, <1>12, <2>1 DEF Renews
  <2> HIDE DEF n
  <2>4. key \in DOMAIN st.ports /\ key \in DOMAIN cs.ports
    BY <1>12 DEF Renews
  <2>5. PICK top : Tops(states, top) /\ (top.new = "open" <=> key \in DOMAIN st.ports)
    BY <1>3, <1>4, <2>4
  <2>6. top.created_at \in Nat /\ top.created_at < at
    BY <1>2, <2>5 DEF Tops
  <2>7. Tops(Since(services2, top), n)
    BY <1>2, <2>2, <2>3, <2>6 DEF Tops, Since
  <2>8. cs.ports[key].service = n.new
    BY <2>1, <2>2
  <2>9. \A row \in states2 : Alternates(states2, row)
    BY <1>3, <2>3
  <2>10. states # {}
    BY <1>3, <2>4
  <2> QED BY <2>3, <2>4, <2>5, <2>7, <2>8, <2>9, <2>10
<1>13. CASE Leaves(st, cs, key)
  <2>1. states2 = states /\ services2 = services
    BY <1>5, <1>6, <1>13 DEF Leaves
  <2>2. key \in DOMAIN st.ports <=> key \in DOMAIN cs.ports
    BY <1>13 DEF Leaves
  <2>3. key \in DOMAIN st.ports => cs.ports[key].service = st.ports[key].service
    BY <1>13 DEF Leaves
  <2>4. states # {} =>
          \E top : /\ Tops(states, top) /\ (top.new = "open" <=> key \in DOMAIN cs.ports)
                   /\ Since(services, top) # {} =>
                        /\ top.new = "open"
                        /\ \E s : Tops(Since(services, top), s) /\ cs.ports[key].service = s.new
    <3>1. SUFFICES ASSUME states # {}
                   PROVE  \E top : /\ Tops(states, top) /\ (top.new = "open" <=> key \in DOMAIN cs.ports)
                                   /\ Since(services, top) # {} =>
                                        /\ top.new = "open"
                                        /\ \E s : /\ Tops(Since(services, top), s)
                                                  /\ cs.ports[key].service = s.new
      OBVIOUS
    <3>2. PICK top : /\ Tops(states, top) /\ (top.new = "open" <=> key \in DOMAIN st.ports)
                     /\ Since(services, top) # {} =>
                          /\ top.new = "open"
                          /\ \E s : /\ Tops(Since(services, top), s)
                                    /\ st.ports[key].service = s.new
      BY <1>4, <3>1
    <3>3. Since(services, top) # {} => cs.ports[key].service = st.ports[key].service
      BY <2>3, <3>2
    <3> QED BY <2>2, <3>2, <3>3
  <2> QED BY <1>3, <2>1, <2>2, <2>4
<1> QED BY <1>10, <1>11, <1>12, <1>13

-----------------------------------------------------------------------------
(* The log of every address it has followed.                               *)

LogInv ==
  /\ \A row \in history : row.created_at \in Nat /\ row.type \in {"state", "service"}
  /\ \A ip \in clean : \A key : Told(history, stored[ip].ports, ip, key)

HistoryInv == InventoryInv /\ LogInv

LEMMA HistoryInit == Init => HistoryInv
BY InventoryInit DEF HistoryInv, LogInv, Init

LEMMA ChangeKinds ==
  ASSUME NEW mode, NEW st, NEW in
  PROVE  /\ \A c \in ApplyMode(mode, st, in).changes : c.type \in {"state", "service"}
         /\ ApplyMode(mode, st, in).endtime = in.endtime
<1>1. CASE st.known
  <2> DEFINE policy == Policy(mode)
  <2>1. ApplyMode(mode, st, in) = Updated(policy, st, in)
    BY <1>1 DEF ApplyMode
  <2> HIDE DEF policy
  <2>2. /\ Updated(policy, st, in).changes = ChangesBy(policy, st, in)
        /\ Updated(policy, st, in).endtime = in.endtime
    BY UpdatedParts
  <2>3. \A c \in OpenRows(policy, st, in) : c.type = "state"
    BY OpenedFields DEF OpenRows
  <2>4. \A c \in CloseRows(policy, st, in) : c.type = "state"
    BY ClosedFields DEF CloseRows
  <2>5. \A c \in ServiceRows(policy, st, in) : c.type = "service"
    BY FieldChangeFields DEF ServiceRows
  <2> QED BY <2>1, <2>2, <2>3, <2>4, <2>5 DEF ChangesBy
<1>2. CASE ~st.known
  <2>1. ApplyMode(mode, st, in) = Created(in)
    BY <1>2 DEF ApplyMode
  <2>2. /\ Created(in).changes = {Opened(k) : k \in {j \in DOMAIN in.ports : IsOpen(in.ports[j])}}
        /\ Created(in).endtime = in.endtime
    BY CreatedParts
  <2>3. \A c \in Created(in).changes : c.type = "state"
    BY <2>2, OpenedFields
  <2> QED BY <2>1, <2>2, <2>3
<1> QED BY <1>1, <1>2

(* What an import writes about an address.                                 *)
LEMMA RowsWritten ==
  ASSUME NEW mode, NEW batch, NEW ip \in DOMAIN batch,
         \A row \in history : row.ip = ip => row.created_at < batch[ip].endtime,
         \A row \in history : row.created_at \in Nat, batch[ip].endtime \in Nat
  PROVE  {r \in HistoryAfter(mode, batch) : r.ip = ip} =
           {r \in history : r.ip = ip}
           \cup {NewRow(ip, c, batch[ip].endtime) : c \in Change(mode, batch, ip).changes}
<1> DEFINE at == batch[ip].endtime
           cs(i) == Change(mode, batch, i)
           Made(i) == {NewRow(i, c, RowTime(i, cs(i))) : c \in cs(i).changes}
<1>1. HistoryRows(mode, batch) = UNION {Made(i) : i \in DOMAIN batch}
  BY DEF HistoryRows, NewRow
<1>2. RowTime(ip, cs(ip)) = at
  <2> QED BY ChangeKinds DEF RowTime, Change
<1>3. \A i : \A r \in Made(i) : r.ip = i
  BY NewRowFields
<1> HIDE DEF Made, cs
<1>4. {r \in HistoryRows(mode, batch) : r.ip = ip} = Made(ip)
  BY <1>1, <1>3
<1>5. \A r \in Made(ip) : r.created_at = at
  BY <1>2, NewRowFields DEF Made
<1>6. \A r \in Made(ip) : \A old \in history : UniqueKey(old) # UniqueKey(r)
  <2>1. SUFFICES ASSUME NEW r \in Made(ip), NEW old \in history, UniqueKey(old) = UniqueKey(r)
                 PROVE  FALSE
    OBVIOUS
  <2>2. old.ip = ip /\ old.created_at = at
    BY <1>3, <1>5, <2>1 DEF UniqueKey
  <2>3. old.created_at < at /\ old.created_at \in Nat
    BY <2>2
  <2> QED BY <2>2, <2>3
<1>7. {r \in HistoryAfter(mode, batch) : r.ip = ip} = {r \in history : r.ip = ip} \cup Made(ip)
  <2> DEFINE new == {row \in HistoryRows(mode, batch) :
                       \A old \in history : UniqueKey(old) # UniqueKey(row)}
  <2>1. {r \in new : r.ip = ip} = Made(ip)
    BY <1>4, <1>6
  <2>2. HistoryAfter(mode, batch) = history \cup new
    BY DEF HistoryAfter
  <2> HIDE DEF new
  <2> QED BY <2>1, <2>2
<1>8. Made(ip) = {NewRow(ip, c, at) : c \in Change(mode, batch, ip).changes}
  BY <1>2 DEF Made, cs
<1> QED BY <1>7, <1>8

(* What is told of an address only depends on its rows.                    *)
LEMMA ToldOfRows ==
  ASSUME NEW log, NEW later, NEW ip, NEW key, NEW ports,
         {r \in later : r.ip = ip} = {r \in log : r.ip = ip},
         Told(log, ports, ip, key)
  PROVE  Told(later, ports, ip, key)
<1>1. ASSUME NEW type PROVE Rows(later, ip, key, type) = Rows(log, ip, key, type)
  <2>1. Rows(later, ip, key, type) = {r \in {r \in later : r.ip = ip} : r.key = key /\ r.type = type}
    BY DEF Rows
  <2>2. Rows(log, ip, key, type) = {r \in {r \in log : r.ip = ip} : r.key = key /\ r.type = type}
    BY DEF Rows
  <2> QED BY <2>1, <2>2
<1>2. /\ Rows(later, ip, key, "state") = Rows(log, ip, key, "state")
      /\ Rows(later, ip, key, "service") = Rows(log, ip, key, "service")
  BY <1>1
<1> QED BY <1>2 DEF Told

(* Of an address without rows and ports nothing is told.                   *)
LEMMA NothingTold ==
  ASSUME NEW log, NEW ip, NEW key, \A r \in log : r.ip # ip
  PROVE  Told(log, Unknown.ports, ip, key)
<1>1. \A type : Rows(log, ip, key, type) = {}
  BY DEF Rows
<1>2. Unknown.ports = <<>>
  BY DEF Unknown
<1>3. DOMAIN Unknown.ports = {}
  BY <1>2
<1>4. Rows(log, ip, key, "state") = {} /\ Rows(log, ip, key, "service") = {}
  BY <1>1
<1> QED BY <1>3, <1>4 DEF Told

LEMMA LogImportStep ==
  ASSUME HistoryInv, InventoryInv', NEW mode, NEW tracked, NEW batch, GoodBatch(batch, 1),
         Import(mode, tracked, batch)
  PROVE  LogInv'
<1>1. ASSUME NEW ip \in DOMAIN batch PROVE batch[ip].endtime \in Nat /\ ip \in Ips
  BY <1>1 DEF GoodBatch, GoodEntry
<1>2. \A row \in history' : row.created_at \in Nat /\ row.type \in {"state", "service"}
  <2>1. \A row \in history : row.created_at \in Nat /\ row.type \in {"state", "service"}
    BY DEF HistoryInv, LogInv
  <2>2. ASSUME NEW row \in HistoryRows(mode, batch)
        PROVE  row.created_at \in Nat /\ row.type \in {"state", "service"}
    <3>1. PICK ip \in DOMAIN batch : \E c \in Change(mode, batch, ip).changes :
                 row = NewRow(ip, c, RowTime(ip, Change(mode, batch, ip)))
      BY DEF HistoryRows, NewRow
    <3>2. PICK c \in Change(mode, batch, ip).changes :
                 row = NewRow(ip, c, RowTime(ip, Change(mode, batch, ip)))
      BY <3>1
    <3>3. row.created_at = RowTime(ip, Change(mode, batch, ip)) /\ row.type = c.type
      BY <3>2, NewRowFields
    <3>4. RowTime(ip, Change(mode, batch, ip)) = batch[ip].endtime
      BY ChangeKinds DEF RowTime, Change
    <3>5. c.type \in {"state", "service"}
      BY ChangeKinds DEF Change
    <3> QED BY <1>1, <3>3, <3>4, <3>5
  <2>3. history' = IF tracked THEN HistoryAfter(mode, batch) ELSE history
    BY DEF Import
  <2> QED BY <2>1, <2>2, <2>3 DEF HistoryAfter
<1>3. ASSUME NEW ip \in clean', NEW key PROVE Told(history', stored'[ip].ports, ip, key)
  <2>1. /\ ip \in Ips
        /\ ip \notin DOMAIN batch => ip \in clean
        /\ ip \in DOMAIN batch =>
             /\ tracked
             /\ \A row \in history : row.ip = ip => row.created_at < batch[ip].endtime
             /\ IF stored[ip].known THEN ip \in clean ELSE \A row \in history : row.ip # ip
    BY <1>3 DEF Import, StillClean
  <2>2. CASE ip \notin DOMAIN batch
    <3>1. Told(history, stored[ip].ports, ip, key)
      BY <2>1, <2>2 DEF HistoryInv, LogInv
    <3>2. stored'[ip] = stored[ip]
      BY <2>1, <2>2 DEF Import, StoredAfter
    <3>3. {r \in history' : r.ip = ip} = {r \in history : r.ip = ip}
      <4>1. \A r \in HistoryRows(mode, batch) : r.ip \in DOMAIN batch
        BY DEF HistoryRows
      <4>2. history' = history \/ history' = HistoryAfter(mode, batch)
        BY DEF Import
      <4> QED BY <2>2, <4>1, <4>2 DEF HistoryAfter
    <3> DEFINE later == history'
    <3> HIDE DEF later
    <3>4. Told(later, stored[ip].ports, ip, key)
      BY <3>1, <3>3, ToldOfRows DEF later
    <3> QED BY <3>2, <3>4 DEF later
  <2>3. CASE ip \in DOMAIN batch
    <3>0. {r \in HistoryAfter(mode, batch) : r.ip = ip} =
            {r \in history : r.ip = ip}
            \cup {NewRow(ip, c, batch[ip].endtime) : c \in Change(mode, batch, ip).changes}
      <4>1. \A row \in history : row.ip = ip => row.created_at < batch[ip].endtime
        BY <2>1, <2>3
      <4>2. \A row \in history : row.created_at \in Nat
        BY DEF HistoryInv, LogInv
      <4>3. batch[ip].endtime \in Nat
        BY <1>1, <2>3
      <4> QED BY <2>3, <4>1, <4>2, <4>3, RowsWritten
    <3> DEFINE at == batch[ip].endtime
               st == stored[ip]
               cs == Change(mode, batch, ip)
               log == history
               later == HistoryAfter(mode, batch)
    <3>1. history' = later /\ stored'[ip].ports = cs.ports
      BY <2>1, <2>3 DEF Import, StoredAfter, StoredFrom
    <3>2. /\ \A row \in log : row.created_at \in Nat
          /\ \A row \in log : row.ip = ip => row.created_at < at
          /\ at \in Nat
      BY <1>1, <2>1, <2>3 DEF HistoryInv, LogInv
    <3>3. {r \in later : r.ip = ip} =
            {r \in log : r.ip = ip} \cup {NewRow(ip, c, at) : c \in cs.changes}
      BY <3>0
    <3>4. OpenTable(st.ports) /\ (~st.known => st = Unknown)
      BY <2>1 DEF HistoryInv, InventoryInv, IsStored, TypeOK
    <3>5. Told(log, st.ports, ip, key)
      <4>1. CASE st.known
        BY <2>1, <2>3, <4>1 DEF HistoryInv, LogInv
      <4>2. CASE ~st.known
        <5>1. st.ports = Unknown.ports /\ \A row \in log : row.ip # ip
          BY <2>1, <2>3, <3>4, <4>2
        <5> HIDE DEF st, log
        <5>2. Told(log, Unknown.ports, ip, key)
          BY <5>1, NothingTold
        <5> QED BY <5>1, <5>2
      <4> QED BY <4>1, <4>2
    <3>6. cs = ApplyMode(mode, st, batch[ip])
      BY DEF Change
    <3> HIDE DEF at, st, cs, log, later
    <3>7. Opens(st, cs, key) \/ Shuts(st, cs, key) \/ Renews(st, cs, key) \/ Leaves(st, cs, key)
      BY <3>4, <3>6, OnePortChange
    <3>8. Told(later, cs.ports, ip, key)
      BY <3>2, <3>3, <3>5, <3>7, ToldStep
    <3> QED BY <3>1, <3>8
  <2> QED BY <2>2, <2>3
<1> QED BY <1>2, <1>3 DEF LogInv

LEMMA HistoryStep == HistoryInv /\ [Next]_vars => HistoryInv'
<1> SUFFICES ASSUME HistoryInv, [Next]_vars PROVE HistoryInv'
  OBVIOUS
<1>1. InventoryInv'
  BY InventoryStep DEF HistoryInv
<1>2. CASE ImportScan
  <2>1. PICK s \in Scans : /\ Parses(s.report)
                           /\ Import(s.mode, s.track_history, DedupBatch(ParseReport(s.report)))
    BY <1>2 DEF ImportScan
  <2>2. GoodBatch(DedupBatch(ParseReport(s.report)), 1)
    BY <2>1, ReportGood
  <2> QED BY <1>1, <2>1, <2>2, LogImportStep DEF HistoryInv
<1>3. CASE CreateIps
  <2>1. PICK l \in Lists : Import(l.mode, l.track_history, DedupBatch(Validated(l)))
    BY <1>3 DEF CreateIps
  <2>2. GoodBatch(DedupBatch(Validated(l)), 1)
    BY ListGood
  <2> QED BY <1>1, <2>1, <2>2, LogImportStep DEF HistoryInv
<1>4. CASE DeleteIps
  <2>1. PICK gone \in SUBSET Ips :
          /\ stored' = [ip \in Ips |-> IF ip \in gone THEN Unknown ELSE stored[ip]]
          /\ clean' = clean \ gone
    BY <1>4 DEF DeleteIps
  <2>2. history' = history
    BY <1>4 DEF DeleteIps
  <2>3. \A ip \in clean' : ip \in clean /\ stored'[ip] = stored[ip]
    BY <2>1 DEF HistoryInv, InventoryInv, TypeOK
  <2> QED BY <1>1, <2>2, <2>3 DEF HistoryInv, LogInv
<1>5. CASE DeleteHistory
  BY <1>1, <1>5 DEF DeleteHistory, HistoryInv, LogInv
<1>6. CASE UNCHANGED vars
  <2>1. history' = history /\ clean' = clean /\ stored' = stored
    BY <1>6 DEF vars
  <2> QED BY <1>1, <2>1 DEF HistoryInv, LogInv
<1> QED BY <1>2, <1>3, <1>4, <1>5, <1>6 DEF Next

LEMMA HistoryInvHolds == Spec => []HistoryInv
<1> QED BY HistoryInit, HistoryStep, PTL DEF Spec

(* Of rows of one port, the newest one.                                    *)
LEMMA NewestIsTop ==
  ASSUME NEW rows, \A r \in rows : r.created_at \in Nat,
         \A r, o \in rows : r.created_at = o.created_at => r = o,
         NEW top, Tops(rows, top)
  PROVE  Newest(rows) = top
<1>1. \A r \in rows : (\A o \in rows : o.created_at <= r.created_at) => r = top
  BY DEF Tops
<1>2. top \in rows /\ \A o \in rows : o.created_at <= top.created_at
  BY DEF Tops
<1> QED BY <1>1, <1>2 DEF Newest

(* The log of an address that is followed tells its open ports and their   *)
(* services: open and close rows alternate, the newest says whether the    *)
(* port is stored, the newest service row since then says what runs on it  *)
(* (ip_port_history, as apply_import writes it).                           *)
THEOREM LogTellsInventory == Spec => []HistoryTellsInventory
<1>1. HistoryInv => HistoryTellsInventory
  <2> DEFINE keys(ip) == {row.key : row \in {r \in history : r.ip = ip}}
             states(ip, key) == RowsOf(ip, key, "state")
             services(ip, key) == RowsOf(ip, key, "service")
             Fine(ip, key) ==
               LET newest == Newest(states(ip, key))
                   since  == {row \in services(ip, key) : row.created_at >= newest.created_at}
               IN  /\ states(ip, key) # {}
                   /\ \A row \in states(ip, key) :
                        LET earlier == {r \in states(ip, key) : r.created_at < row.created_at}
                        IN  row.new = IF earlier = {} \/ Newest(earlier).new = "closed"
                                      THEN "open" ELSE "closed"
                   /\ newest.new = "open" <=> key \in DOMAIN stored[ip].ports
                   /\ since # {} => stored[ip].ports[key].service = Newest(since).new
  <2>1. SUFFICES ASSUME HistoryInv, NEW ip \in clean
                 PROVE  /\ DOMAIN stored[ip].ports \subseteq keys(ip)
                        /\ \A key \in keys(ip) : Fine(ip, key)
    BY DEF HistoryTellsInventory
  <2>2. ASSUME NEW key PROVE Told(history, stored[ip].ports, ip, key)
    BY <2>1 DEF HistoryInv, LogInv
  <2>3. \A key : states(ip, key) = Rows(history, ip, key, "state")
    BY DEF RowsOf, Rows
  <2>4. \A key : services(ip, key) = Rows(history, ip, key, "service")
    BY DEF RowsOf, Rows
  <2>5. ASSUME NEW key \in DOMAIN stored[ip].ports PROVE key \in keys(ip)
    <3>1. Rows(history, ip, key, "state") # {}
      BY <2>2 DEF Told
    <3> QED BY <3>1 DEF Rows
  <2>6. ASSUME NEW key \in keys(ip) PROVE Fine(ip, key)
    <3> DEFINE S == Rows(history, ip, key, "state")
               V == Rows(history, ip, key, "service")
               ports == stored[ip].ports
    <3>1. /\ \A row \in S : Alternates(S, row)
          /\ S = {} => V = {} /\ key \notin DOMAIN ports
          /\ S # {} =>
               \E top : /\ Tops(S, top) /\ (top.new = "open" <=> key \in DOMAIN ports)
                        /\ Since(V, top) # {} =>
                             /\ top.new = "open"
                             /\ \E s : Tops(Since(V, top), s) /\ ports[key].service = s.new
      BY <2>2 DEF Told
    <3>2. \A r \in S \cup V : r.created_at \in Nat
      BY <2>1 DEF Rows, HistoryInv, LogInv
    <3>3. /\ \A r, o \in S : r.created_at = o.created_at => r = o
          /\ \A r, o \in V : r.created_at = o.created_at => r = o
      BY <2>1 DEF Rows, HistoryInv, InventoryInv, TypeOK, UniqueKey
    <3>4. S # {}
      <4>1. PICK row \in history : row.ip = ip /\ row.key = key
        BY <2>6
      <4>2. row.type \in {"state", "service"}
        BY <2>1 DEF HistoryInv, LogInv
      <4>3. row \in S \/ row \in V
        BY <4>1, <4>2 DEF Rows
      <4> QED BY <3>1, <4>3
    <3> HIDE DEF S, V, ports
    <3>5. PICK top : /\ Tops(S, top) /\ (top.new = "open" <=> key \in DOMAIN ports)
                     /\ Since(V, top) # {} =>
                          /\ top.new = "open"
                          /\ \E s : Tops(Since(V, top), s) /\ ports[key].service = s.new
      BY <3>1, <3>4
    <3>6. Newest(S) = top
      BY <3>2, <3>3, <3>5, NewestIsTop
    <3>7. ASSUME NEW row \in S
          PROVE  row.new = IF Older(S, row) = {} \/ Newest(Older(S, row)).new = "closed"
                           THEN "open" ELSE "closed"
      <4>1. \A p : Tops(Older(S, row), p) => Newest(Older(S, row)) = p
        <5>1. SUFFICES ASSUME NEW p, Tops(Older(S, row), p) PROVE Newest(Older(S, row)) = p
          OBVIOUS
        <5>2. /\ \A r \in Older(S, row) : r.created_at \in Nat
              /\ \A r, o \in Older(S, row) : r.created_at = o.created_at => r = o
          BY <3>2, <3>3 DEF Older
        <5> QED BY <5>1, <5>2, NewestIsTop
      <4>2. Alternates(S, row)
        BY <3>1
      <4> QED BY <4>1, <4>2 DEF Alternates, Tops
    <3>8. Since(V, top) # {} => ports[key].service = Newest(Since(V, top)).new
      <4>1. SUFFICES ASSUME Since(V, top) # {}
                     PROVE  ports[key].service = Newest(Since(V, top)).new
        OBVIOUS
      <4>2. PICK s : Tops(Since(V, top), s) /\ ports[key].service = s.new
        BY <3>5, <4>1
      <4>3. /\ \A r \in Since(V, top) : r.created_at \in Nat
            /\ \A r, o \in Since(V, top) : r.created_at = o.created_at => r = o
        BY <3>2, <3>3 DEF Since
      <4>4. Newest(Since(V, top)) = s
        BY <4>2, <4>3, NewestIsTop
      <4> QED BY <4>2, <4>4
    <3>9. states(ip, key) = S /\ services(ip, key) = V
      BY <2>3, <2>4 DEF S, V
    <3> HIDE DEF states, services
    <3> QED BY <3>4, <3>5, <3>6, <3>7, <3>8, <3>9 DEF Older, Since, ports
  <2> QED BY <2>5, <2>6
<1> QED BY <1>1, HistoryInvHolds, PTL

-----------------------------------------------------------------------------
(* Two lists of entries that differ in services and hostnames only.        *)

AlikePorts(ports, other) ==
  /\ DOMAIN ports = DOMAIN other
  /\ \A j \in DOMAIN ports : ports[j].key = other[j].key /\ ports[j].state = other[j].state

AlikeEntries(entries, other) ==
  /\ DOMAIN entries = DOMAIN other
  /\ \A i \in DOMAIN entries :
       /\ entries[i].ip = other[i].ip /\ entries[i].scanned_ports = other[i].scanned_ports
       /\ IsList(entries[i].ports) /\ AlikePorts(entries[i].ports, other[i].ports)

(* The tables they become, by key.                                         *)
AlikeTables(table, other) ==
  /\ DOMAIN table = DOMAIN other
  /\ \A k \in DOMAIN table : table[k].state = other[k].state

AlikeBatches(batch, other) ==
  /\ DOMAIN batch = DOMAIN other
  /\ \A ip \in DOMAIN batch : /\ AlikeTables(batch[ip].ports, other[ip].ports)
                              /\ batch[ip].scanned_ports = other[ip].scanned_ports

LEMMA AlikeDedupPorts ==
  ASSUME NEW byKey, NEW other, AlikeTables(byKey, other),
         NEW ports, NEW ports2, IsList(ports), AlikePorts(ports, ports2)
  PROVE  AlikeTables(DedupPorts(byKey, ports), DedupPorts(other, ports2))
<1> DEFINE n == Len(ports)
<1>1. n \in Nat /\ DOMAIN ports = 1..n
  BY DEF IsList
<1>2. DOMAIN ports2 = 1..n
  BY <1>1 DEF AlikePorts
<1>3. PICK f : PortChain(f, byKey, ports, n)
  BY <1>1, DedupPortsChain
<1>4. PICK g : PortChain(g, other, ports2, n)
  BY <1>1, <1>2, DedupPortsChain
<1> HIDE DEF n
<1> DEFINE B == {k \in Nat : k <= n => AlikeTables(f[k], g[k])}
<1>5. 0 \in B
  BY <1>3, <1>4 DEF PortChain
<1>6. ASSUME NEW k \in B PROVE k + 1 \in B
  <2>1. SUFFICES ASSUME k + 1 <= n PROVE AlikeTables(f[k + 1], g[k + 1])
    OBVIOUS
  <2>2. k + 1 \in 1..n /\ (k + 1) - 1 = k /\ k <= n
    BY <1>1, <2>1
  <2>3. f[k + 1] = PutPort(f[k], ports[k + 1]) /\ g[k + 1] = PutPort(g[k], ports2[k + 1])
    BY <1>3, <1>4, <2>2 DEF PortChain
  <2>4. AlikeTables(f[k], g[k])
    BY <2>2
  <2> DEFINE p == ports[k + 1]
             q == ports2[k + 1]
             put == [state |-> p.state, service |-> p.service]
             put2 == [state |-> q.state, service |-> q.service]
  <2>5. p.key = q.key /\ p.state = q.state
    BY <1>1, <2>2 DEF AlikePorts
  <2>6. put.state = put2.state
    BY <2>5
  <2>7. PutPort(f[k], p) = Put(f[k], p.key, put) /\ PutPort(g[k], q) = Put(g[k], q.key, put2)
    BY DEF PutPort
  <2> HIDE DEF put, put2, p, q
  <2>8. AlikeTables(Put(f[k], p.key, put), Put(g[k], q.key, put2))
    BY <2>4, <2>5, <2>6 DEF AlikeTables, Put
  <2> QED BY <2>3, <2>7, <2>8 DEF p, q
<1>7. n \in B
  <2> HIDE DEF B
  <2>1. B \in SUBSET Nat
    BY DEF B
  <2> QED BY <1>1, <1>5, <1>6, <2>1, SetInduction
<1> QED BY <1>1, <1>3, <1>4, <1>7 DEF PortChain

LEMMA AlikePut ==
  ASSUME NEW merged, NEW other, AlikeBatches(merged, other), NEW e, NEW g,
         e.ip = g.ip, e.scanned_ports = g.scanned_ports,
         IsList(e.ports), AlikePorts(e.ports, g.ports)
  PROVE  AlikeBatches(PutEntry(merged, e), PutEntry(other, g))
<1> DEFINE one == IF e.ip \in DOMAIN merged THEN FoldEntry(merged[e.ip], e) ELSE DedupOne(e)
           two == IF g.ip \in DOMAIN other THEN FoldEntry(other[g.ip], g) ELSE DedupOne(g)
<1>1. AlikeTables(one.ports, two.ports) /\ one.scanned_ports = two.scanned_ports
  <2>1. CASE e.ip \in DOMAIN merged
    <3>1. g.ip \in DOMAIN other
      BY <2>1 DEF AlikeBatches
    <3> DEFINE current == merged[e.ip]
               current2 == other[g.ip]
    <3>2. /\ AlikeTables(current.ports, current2.ports)
          /\ current.scanned_ports = current2.scanned_ports
      BY <2>1 DEF AlikeBatches
    <3>3. AlikeTables(DedupPorts(current.ports, e.ports), DedupPorts(current2.ports, g.ports))
      BY <3>2, AlikeDedupPorts
    <3>4. /\ FoldEntry(current, e).ports = DedupPorts(current.ports, e.ports)
          /\ FoldEntry(current2, g).ports = DedupPorts(current2.ports, g.ports)
      BY DEF FoldEntry
    <3>5. /\ FoldEntry(current, e).scanned_ports =
               R!MergedRanges(current.scanned_ports \cup e.scanned_ports)
          /\ FoldEntry(current2, g).scanned_ports =
               R!MergedRanges(current2.scanned_ports \cup g.scanned_ports)
      BY DEF FoldEntry
    <3> HIDE DEF current, current2
    <3>6. FoldEntry(current, e).scanned_ports = FoldEntry(current2, g).scanned_ports
      BY <3>2, <3>5
    <3> QED BY <2>1, <3>1, <3>3, <3>4, <3>6 DEF current, current2
  <2>2. CASE e.ip \notin DOMAIN merged
    <3>1. g.ip \notin DOMAIN other
      BY <2>2 DEF AlikeBatches
    <3>2. AlikeTables(<<>>, <<>>)
      BY DEF AlikeTables
    <3>3. AlikeTables(DedupPorts(<<>>, e.ports), DedupPorts(<<>>, g.ports))
      BY <3>2, AlikeDedupPorts
    <3>4. /\ DedupOne(e).ports = DedupPorts(<<>>, e.ports)
          /\ DedupOne(g).ports = DedupPorts(<<>>, g.ports)
          /\ DedupOne(e).scanned_ports = e.scanned_ports
          /\ DedupOne(g).scanned_ports = g.scanned_ports
      BY DEF DedupOne
    <3> QED BY <2>2, <3>1, <3>3, <3>4
  <2> QED BY <2>1, <2>2
<1>2. PutEntry(merged, e) = Put(merged, e.ip, one) /\ PutEntry(other, g) = Put(other, g.ip, two)
  BY DEF PutEntry
<1> HIDE DEF one, two
<1> QED BY <1>1, <1>2 DEF AlikeBatches, Put

LEMMA AlikeDedupBatch ==
  ASSUME NEW entries, NEW other, IsList(entries), AlikeEntries(entries, other)
  PROVE  AlikeBatches(DedupBatch(entries), DedupBatch(other))
<1> DEFINE n == Len(entries)
<1>1. n \in Nat /\ DOMAIN entries = 1..n /\ DOMAIN other = 1..n
  BY DEF IsList, AlikeEntries
<1> HIDE DEF n
<1>2. PICK f : /\ f[0] = <<>>
               /\ \A k \in 1..n : f[k] = PutEntry(f[k - 1], entries[k])
               /\ DedupBatch(entries) = f[n]
  BY <1>1, DedupBatchChain
<1>3. PICK g : /\ g[0] = <<>>
               /\ \A k \in 1..n : g[k] = PutEntry(g[k - 1], other[k])
               /\ DedupBatch(other) = g[n]
  BY <1>1, DedupBatchChain
<1> DEFINE B == {k \in Nat : k <= n => AlikeBatches(f[k], g[k])}
<1>4. 0 \in B
  BY <1>2, <1>3 DEF AlikeBatches
<1>5. ASSUME NEW k \in B PROVE k + 1 \in B
  <2>1. SUFFICES ASSUME k + 1 <= n PROVE AlikeBatches(f[k + 1], g[k + 1])
    OBVIOUS
  <2>2. k + 1 \in 1..n /\ (k + 1) - 1 = k /\ k <= n
    BY <1>1, <2>1
  <2>3. f[k + 1] = PutEntry(f[k], entries[k + 1]) /\ g[k + 1] = PutEntry(g[k], other[k + 1])
    BY <1>2, <1>3, <2>2
  <2>4. AlikeBatches(f[k], g[k])
    BY <2>2
  <2>5. /\ entries[k + 1].ip = other[k + 1].ip
        /\ entries[k + 1].scanned_ports = other[k + 1].scanned_ports
        /\ IsList(entries[k + 1].ports) /\ AlikePorts(entries[k + 1].ports, other[k + 1].ports)
    BY <1>1, <2>2 DEF AlikeEntries
  <2> QED BY <2>3, <2>4, <2>5, AlikePut
<1>6. n \in B
  <2> HIDE DEF B
  <2>1. B \in SUBSET Nat
    BY DEF B
  <2> QED BY <1>1, <1>4, <1>5, <2>1, SetInduction
<1> QED BY <1>1, <1>2, <1>3, <1>6

-----------------------------------------------------------------------------
(* What an entry does to an address depends on its keys, states and        *)
(* coverage alone, as far as ports opening and closing goes.               *)

LEMMA AlikePartition ==
  ASSUME NEW policy, NEW st, NEW in, NEW in2, AlikeTables(in.ports, in2.ports),
         in.scanned_ports = in2.scanned_ports
  PROVE  /\ OpenedBy(policy, st, in2) = OpenedBy(policy, st, in)
         /\ ClosedBy(policy, st, in2) = ClosedBy(policy, st, in)
         /\ OpenRows(policy, st, in2) = OpenRows(policy, st, in)
         /\ CloseRows(policy, st, in2) = CloseRows(policy, st, in)
<1>1. \A k : k \in DOMAIN in2.ports <=> k \in DOMAIN in.ports
  BY DEF AlikeTables
<1>2. \A k \in DOMAIN in.ports : in2.ports[k].state = in.ports[k].state
  BY DEF AlikeTables
<1>3. \A k \in DOMAIN in.ports : IsOpen(in2.ports[k]) <=> IsOpen(in.ports[k])
  BY <1>2 DEF IsOpen
<1>4. NewOpen(st.ports, in2.ports) = NewOpen(st.ports, in.ports)
  BY <1>1, <1>3 DEF NewOpen
<1>5. Stale(st.ports, in2.ports) = Stale(st.ports, in.ports)
  BY <1>1, <1>3 DEF Stale, Matched
<1>6. \A k : Closes(k, in2.ports, in2.scanned_ports) <=> Closes(k, in.ports, in.scanned_ports)
  BY <1>1, <1>3 DEF Closes
<1>7. \A k : ObservedState(k, in2.ports) = ObservedState(k, in.ports)
  BY <1>1, <1>2 DEF ObservedState
<1>8. OpenedBy(policy, st, in2) = OpenedBy(policy, st, in)
  BY <1>4 DEF OpenedBy
<1>9. ClosedBy(policy, st, in2) = ClosedBy(policy, st, in)
  BY <1>5, <1>6 DEF ClosedBy
<1>10. OpenRows(policy, st, in2) = OpenRows(policy, st, in)
  BY <1>8 DEF OpenRows
<1>11. CloseRows(policy, st, in2) = CloseRows(policy, st, in)
  BY <1>7, <1>9 DEF CloseRows
<1> QED BY <1>8, <1>9, <1>10, <1>11

(* The state rows of an update.                                            *)
LEMMA StateRows ==
  ASSUME NEW policy, NEW st, NEW in
  PROVE  StateChanges(Updated(policy, st, in)) =
           OpenRows(policy, st, in) \cup CloseRows(policy, st, in)
<1>1. Updated(policy, st, in).changes = ChangesBy(policy, st, in)
  BY UpdatedParts
<1>2. \A c \in OpenRows(policy, st, in) : c.type = "state"
  BY OpenedFields DEF OpenRows
<1>3. ASSUME NEW c \in CloseRows(policy, st, in) PROVE c.type = "state"
  <2>1. PICK k \in ClosedBy(policy, st, in) : c = Closed(k, ObservedState(k, in.ports))
    BY DEF CloseRows
  <2> QED BY <2>1, ClosedFields
<1>4. ASSUME NEW c \in ServiceRows(policy, st, in) PROVE c.type # "state"
  <2>1. PICK k \in RefreshedBy(policy, st, in) :
               c \in FieldChanges(k, st.ports[k], in.ports[k])
    BY DEF ServiceRows
  <2>2. c.type = "service"
    BY <2>1, FieldChangeFields
  <2> QED BY <2>2
<1> QED BY <1>1, <1>2, <1>3, <1>4 DEF StateChanges, ChangesBy

LEMMA SameEffect ==
  ASSUME NEW mode, NEW st, NEW in, NEW in2, AlikeTables(in.ports, in2.ports),
         in.scanned_ports = in2.scanned_ports
  PROVE  /\ DOMAIN ApplyMode(mode, st, in2).ports = DOMAIN ApplyMode(mode, st, in).ports
         /\ StateChanges(ApplyMode(mode, st, in2)) = StateChanges(ApplyMode(mode, st, in))
         /\ in2.hostnames \subseteq ApplyMode(mode, st, in2).hostnames
<1>1. CASE st.known
  <2> DEFINE policy == Policy(mode)
  <2>1. /\ ApplyMode(mode, st, in) = Updated(policy, st, in)
        /\ ApplyMode(mode, st, in2) = Updated(policy, st, in2)
    BY <1>1 DEF ApplyMode
  <2> HIDE DEF policy
  <2>2. /\ Updated(policy, st, in).ports = PortsBy(policy, st, in)
        /\ Updated(policy, st, in2).ports = PortsBy(policy, st, in2)
    BY UpdatedParts
  <2>3. /\ OpenedBy(policy, st, in2) = OpenedBy(policy, st, in)
        /\ ClosedBy(policy, st, in2) = ClosedBy(policy, st, in)
        /\ OpenRows(policy, st, in2) = OpenRows(policy, st, in)
        /\ CloseRows(policy, st, in2) = CloseRows(policy, st, in)
    BY AlikePartition
  <2>4. DOMAIN PortsBy(policy, st, in2) = DOMAIN PortsBy(policy, st, in)
    <3>1. /\ DOMAIN PortsBy(policy, st, in2) =
               (DOMAIN st.ports \cup OpenedBy(policy, st, in2)) \ ClosedBy(policy, st, in2)
          /\ DOMAIN PortsBy(policy, st, in) =
               (DOMAIN st.ports \cup OpenedBy(policy, st, in)) \ ClosedBy(policy, st, in)
      BY DEF PortsBy
    <3> QED BY <2>3, <3>1
  <2>5. /\ StateChanges(Updated(policy, st, in)) =
             OpenRows(policy, st, in) \cup CloseRows(policy, st, in)
        /\ StateChanges(Updated(policy, st, in2)) =
             OpenRows(policy, st, in2) \cup CloseRows(policy, st, in2)
    BY StateRows
  <2>6. Updated(policy, st, in2).hostnames =
          st.hostnames \cup (in2.hostnames \ st.hostnames)
    BY UpdatedParts
  <2> QED BY <2>1, <2>2, <2>3, <2>4, <2>5, <2>6
<1>2. CASE ~st.known
  <2> DEFINE open  == {k \in DOMAIN in.ports : IsOpen(in.ports[k])}
             open2 == {k \in DOMAIN in2.ports : IsOpen(in2.ports[k])}
  <2>1. /\ ApplyMode(mode, st, in) = Created(in)
        /\ ApplyMode(mode, st, in2) = Created(in2)
    BY <1>2 DEF ApplyMode
  <2>2. open = open2
    BY DEF AlikeTables, IsOpen
  <2>3. /\ Created(in).ports = [k \in open |-> in.ports[k]]
        /\ Created(in2).ports = [k \in open2 |-> in2.ports[k]]
    BY CreatedParts
  <2>4. /\ Created(in).changes = {Opened(k) : k \in open}
        /\ Created(in2).changes = {Opened(k) : k \in open2}
    BY CreatedParts
  <2>5. Created(in2).hostnames = in2.hostnames
    BY CreatedParts
  <2> HIDE DEF open, open2
  <2>6. DOMAIN Created(in).ports = open /\ DOMAIN Created(in2).ports = open2
    BY <2>3
  <2>7. StateChanges(Created(in)) = StateChanges(Created(in2))
    BY <2>2, <2>4 DEF StateChanges
  <2> QED BY <2>1, <2>2, <2>5, <2>6, <2>7
<1> QED BY <1>1, <1>2

-----------------------------------------------------------------------------
(* The worker's merge.                                                     *)

IsElement(p) == p = [key |-> p.key, state |-> p.state, service |-> p.service]

IsHost(h) ==
  /\ h = [ip |-> h.ip, endtime |-> h.endtime, meta |-> h.meta, hostnames |-> h.hostnames,
          ports |-> h.ports]
  /\ IsList(h.ports) /\ \A j \in DOMAIN h.ports : IsElement(h.ports[j])

IsReport(r) ==
  /\ r = [scaninfo |-> r.scaninfo, finished |-> r.finished, hosts |-> r.hosts]
  /\ IsList(r.hosts) /\ \A i \in DOMAIN r.hosts : IsHost(r.hosts[i])

(* What a merge leaves of a host: all but its hostnames and services.      *)
SameHost(h, other) == h.ip = other.ip /\ AlikePorts(h.ports, other.ports)

LEMMA PassReport ==
  ASSUME NEW p \in Passes
  PROVE  IsReport(p.base)
BY PassesAssumption DEF IsReport, IsHost, IsElement

LEMMA NamedHost ==
  ASSUME NEW h, IsHost(h), NEW target, NEW hostnames
  PROVE  /\ IsHost(SetHostnames(h, target, hostnames))
         /\ SameHost(h, SetHostnames(h, target, hostnames))
         /\ h.ip = target => SetHostnames(h, target, hostnames).hostnames = hostnames
<1>1. CASE h.ip = target
  <2> DEFINE ip == h.ip
             endtime == h.endtime
             meta == h.meta
             ports == h.ports
             named == [ip |-> ip, endtime |-> endtime, meta |-> meta, hostnames |-> hostnames,
                       ports |-> ports]
  <2>1. h = [ip |-> ip, endtime |-> endtime, meta |-> meta, hostnames |-> h.hostnames,
             ports |-> ports]
    BY DEF IsHost
  <2>2. SetHostnames(h, target, hostnames) = [h EXCEPT !.hostnames = hostnames]
    BY <1>1 DEF SetHostnames
  <2>3. IsList(ports) /\ \A j \in DOMAIN ports : IsElement(ports[j])
    BY DEF IsHost
  <2> HIDE DEF ip, endtime, meta, ports
  <2>4. [h EXCEPT !.hostnames = hostnames] = named
    BY <2>1
  <2>5. /\ named.ip = ip /\ named.endtime = endtime /\ named.meta = meta
        /\ named.hostnames = hostnames /\ named.ports = ports
    OBVIOUS
  <2>6. named = [ip |-> named.ip, endtime |-> named.endtime, meta |-> named.meta,
                 hostnames |-> named.hostnames, ports |-> named.ports]
    OBVIOUS
  <2> HIDE DEF named
  <2>7. IsHost(named)
    BY <2>3, <2>5, <2>6 DEF IsHost
  <2>8. SameHost(h, named)
    BY <2>5 DEF SameHost, AlikePorts, ip, ports
  <2> QED BY <2>2, <2>4, <2>5, <2>7, <2>8
<1>2. CASE h.ip # target
  <2>1. SetHostnames(h, target, hostnames) = h
    BY <1>2 DEF SetHostnames
  <2> QED BY <1>2, <2>1 DEF SameHost, AlikePorts
<1> QED BY <1>1, <1>2

LEMMA OverlaidPort ==
  ASSUME NEW p, IsElement(p), NEW ip, NEW index
  PROVE  Overlay(ip, p, index).key = p.key /\ Overlay(ip, p, index).state = p.state
<1> DEFINE service == index[<<ip, p.key>>].service
           key == p.key
           state == p.state
<1>1. p = [key |-> key, state |-> state, service |-> p.service]
  BY DEF IsElement
<1>2. \/ Overlay(ip, p, index) = p
      \/ Overlay(ip, p, index) = [p EXCEPT !.service = service]
  BY DEF Overlay
<1> HIDE DEF service, key, state
<1>3. [p EXCEPT !.service = service].key = key /\ [p EXCEPT !.service = service].state = state
  BY <1>1
<1> QED BY <1>2, <1>3 DEF key, state

LEMMA MergeKeepsPorts ==
  ASSUME NEW base, IsReport(base), NEW service
  PROVE  LET out == MergeServiceData(base, service)
         IN  /\ out.scaninfo = base.scaninfo /\ out.finished = base.finished
             /\ DOMAIN out.hosts = DOMAIN base.hosts
             /\ \A i \in DOMAIN base.hosts :
                  /\ SameHost(base.hosts[i], out.hosts[i])
                  /\ out.hosts[i].hostnames = base.hosts[i].hostnames
<1> DEFINE index == IndexPorts(service)
           merge(ip, port) == IF IndexPorts(base)[<<ip, port.key>>] = port
                              THEN Overlay(ip, port, index) ELSE port
           ports(h) == [j \in DOMAIN h.ports |-> merge(h.ip, h.ports[j])]
           host(h) == [h EXCEPT !.ports = ports(h)]
           hosts == [i \in DOMAIN base.hosts |-> host(base.hosts[i])]
<1>1. MergeServiceData(base, service) = [base EXCEPT !.hosts = hosts]
  BY DEF MergeServiceData
<1>2. ASSUME NEW ip, NEW p, IsElement(p)
      PROVE  merge(ip, p).key = p.key /\ merge(ip, p).state = p.state
  <2> HIDE DEF index
  <2> QED BY <1>2, OverlaidPort
<1> HIDE DEF merge
<1>3. ASSUME NEW h, IsHost(h)
      PROVE  /\ host(h).ip = h.ip /\ host(h).hostnames = h.hostnames
             /\ AlikePorts(h.ports, host(h).ports)
  <2> DEFINE list == ports(h)
             ip == h.ip
             hostnames == h.hostnames
  <2>1. h = [ip |-> ip, endtime |-> h.endtime, meta |-> h.meta, hostnames |-> hostnames,
             ports |-> h.ports]
    BY <1>3 DEF IsHost
  <2>2. AlikePorts(h.ports, list)
    BY <1>2, <1>3 DEF IsHost, AlikePorts
  <2> HIDE DEF list, ip, hostnames, ports
  <2>3. /\ [h EXCEPT !.ports = list].ip = ip /\ [h EXCEPT !.ports = list].ports = list
        /\ [h EXCEPT !.ports = list].hostnames = hostnames
    BY <2>1
  <2> QED BY <2>2, <2>3 DEF list, ip, hostnames
<1> HIDE DEF host
<1>4. \A i \in DOMAIN base.hosts :
        /\ SameHost(base.hosts[i], hosts[i]) /\ hosts[i].hostnames = base.hosts[i].hostnames
  BY <1>3 DEF IsReport, SameHost
<1>5. DOMAIN hosts = DOMAIN base.hosts
  OBVIOUS
<1> HIDE DEF hosts
<1> DEFINE scaninfo == base.scaninfo
           finished == base.finished
<1>6. base = [scaninfo |-> scaninfo, finished |-> finished, hosts |-> base.hosts]
  BY DEF IsReport
<1> HIDE DEF scaninfo, finished
<1>7. /\ [base EXCEPT !.hosts = hosts].scaninfo = scaninfo
      /\ [base EXCEPT !.hosts = hosts].finished = finished
      /\ [base EXCEPT !.hosts = hosts].hosts = hosts
  BY <1>6
<1> QED BY <1>1, <1>4, <1>5, <1>7 DEF scaninfo, finished

LEMMA EnrichKeepsPorts ==
  ASSUME NEW base, IsReport(base), NEW target, NEW hostnames, NEW passes
  PROVE  LET out == EnrichXml(base, target, hostnames, passes)
         IN  /\ out.scaninfo = base.scaninfo /\ out.finished = base.finished
             /\ DOMAIN out.hosts = DOMAIN base.hosts
             /\ \A i \in DOMAIN base.hosts :
                  /\ SameHost(base.hosts[i], out.hosts[i])
                  /\ base.hosts[i].ip = target => out.hosts[i].hostnames = hostnames
<1> DEFINE hosts == [i \in DOMAIN base.hosts |-> SetHostnames(base.hosts[i], target, hostnames)]
           named == [base EXCEPT !.hosts = hosts]
           service == CHOOSE r \in passes : TRUE
           out == EnrichXml(base, target, hostnames, passes)
<1>1. out = IF passes = {} THEN named ELSE MergeServiceData(named, service)
  BY DEF EnrichXml
<1>2. /\ DOMAIN hosts = DOMAIN base.hosts
      /\ \A i \in DOMAIN base.hosts :
           /\ IsHost(hosts[i]) /\ SameHost(base.hosts[i], hosts[i])
           /\ base.hosts[i].ip = target => hosts[i].hostnames = hostnames
  BY NamedHost DEF IsReport
<1>3. IsList(hosts)
  BY <1>2 DEF IsReport, IsList
<1> HIDE DEF hosts
<1> DEFINE scaninfo == base.scaninfo
           finished == base.finished
<1>4. base = [scaninfo |-> scaninfo, finished |-> finished, hosts |-> base.hosts]
  BY DEF IsReport
<1> HIDE DEF scaninfo, finished
<1>5. /\ named.scaninfo = scaninfo /\ named.finished = finished /\ named.hosts = hosts
      /\ named = [scaninfo |-> named.scaninfo, finished |-> named.finished,
                  hosts |-> named.hosts]
  BY <1>4
<1> HIDE DEF named, out, service
<1>6. IsReport(named)
  BY <1>2, <1>3, <1>5 DEF IsReport
<1>7. CASE passes = {}
  <2>1. out = named
    BY <1>1, <1>7
  <2> QED BY <1>2, <1>5, <2>1 DEF scaninfo, finished, out
<1>8. CASE passes # {}
  <2>1. out = MergeServiceData(named, service)
    BY <1>1, <1>8
  <2>2. /\ out.scaninfo = named.scaninfo /\ out.finished = named.finished
        /\ DOMAIN out.hosts = DOMAIN named.hosts
        /\ \A i \in DOMAIN named.hosts :
             /\ SameHost(named.hosts[i], out.hosts[i])
             /\ out.hosts[i].hostnames = named.hosts[i].hostnames
    BY <1>6, <2>1, MergeKeepsPorts
  <2>3. ASSUME NEW i \in DOMAIN base.hosts
        PROVE  /\ SameHost(base.hosts[i], out.hosts[i])
               /\ base.hosts[i].ip = target => out.hosts[i].hostnames = hostnames
    BY <1>2, <1>5, <2>2 DEF SameHost, AlikePorts
  <2>4. DOMAIN out.hosts = DOMAIN base.hosts
    BY <1>2, <1>5, <2>2
  <2>5. out.scaninfo = base.scaninfo /\ out.finished = base.finished
    BY <1>5, <2>2 DEF scaninfo, finished
  <2> QED BY <2>3, <2>4, <2>5 DEF out
<1> QED BY <1>7, <1>8

(* A name that every entry of an address has, its batch has.               *)
LEMMA NamesCarried ==
  ASSUME NEW entries, IsList(entries), NEW ip, NEW names,
         \A i \in DOMAIN entries : entries[i].ip = ip => names \subseteq entries[i].hostnames
  PROVE  ip \in DOMAIN DedupBatch(entries) => names \subseteq DedupBatch(entries)[ip].hostnames
<1> DEFINE n == Len(entries)
           Named(batch) == ip \in DOMAIN batch => names \subseteq batch[ip].hostnames
<1>1. n \in Nat /\ DOMAIN entries = 1..n
  BY DEF IsList
<1> HIDE DEF n
<1>2. PICK f : /\ f[0] = <<>>
               /\ \A k \in 1..n : f[k] = PutEntry(f[k - 1], entries[k])
               /\ DedupBatch(entries) = f[n]
  BY <1>1, DedupBatchChain
<1> DEFINE B == {k \in Nat : k <= n => Named(f[k])}
<1>3. 0 \in B
  BY <1>2
<1>4. ASSUME NEW k \in B PROVE k + 1 \in B
  <2>1. SUFFICES ASSUME k + 1 <= n PROVE Named(f[k + 1])
    OBVIOUS
  <2>2. k + 1 \in 1..n /\ (k + 1) - 1 = k /\ k <= n
    BY <1>1, <2>1
  <2> DEFINE e == entries[k + 1]
             merged == f[k]
             one == IF e.ip \in DOMAIN merged THEN FoldEntry(merged[e.ip], e) ELSE DedupOne(e)
  <2>3. f[k + 1] = Put(merged, e.ip, one)
    BY <1>2, <2>2 DEF PutEntry
  <2>4. Named(merged) /\ (e.ip = ip => names \subseteq e.hostnames)
    BY <1>1, <2>2
  <2>5. e.hostnames \subseteq one.hostnames
    <3>1. \A current : FoldEntry(current, e).hostnames = current.hostnames \cup e.hostnames
      BY DEF FoldEntry
    <3>2. DedupOne(e).hostnames = e.hostnames
      BY DEF DedupOne
    <3> HIDE DEF e, merged
    <3> QED BY <3>1, <3>2
  <2> HIDE DEF e, merged, one
  <2>6. Named(Put(merged, e.ip, one))
    BY <2>4, <2>5 DEF Put
  <2> QED BY <2>3, <2>6
<1>5. n \in B
  <2> HIDE DEF B
  <2>1. B \in SUBSET Nat
    BY DEF B
  <2> QED BY <1>1, <1>3, <1>4, <2>1, SetInduction
<1> QED BY <1>1, <1>2, <1>5

(* Whatever the service pass saw, the merged report opens and closes what  *)
(* the port scan alone would, in any mode and on any inventory, and names  *)
(* its target (enrich_xml, merge_service_data, apply_import).              *)
THEOREM MergeIsHarmless == Spec => []MergeOpensNothing
<1>1. MergeOpensNothing
  <2>1. SUFFICES ASSUME NEW p \in Passes, NEW mode \in Modes
                 PROVE  LET alone  == DedupBatch(ParseReport(p.base))
                            merged == DedupBatch(ParseReport(
                                        EnrichXml(p.base, p.target, p.hostnames, p.service)))
                        IN  /\ DOMAIN merged = DOMAIN alone
                            /\ \A ip \in DOMAIN alone :
                                 LET before == Change(mode, alone, ip)
                                     after  == Change(mode, merged, ip)
                                 IN  /\ DOMAIN after.ports = DOMAIN before.ports
                                     /\ StateChanges(after) = StateChanges(before)
                                     /\ ip = p.target => p.hostnames \subseteq after.hostnames
    BY DEF MergeOpensNothing
  <2> DEFINE base == p.base
             out == EnrichXml(base, p.target, p.hostnames, p.service)
             entries == ParseReport(base)
             entries2 == ParseReport(out)
             alone == DedupBatch(entries)
             merged == DedupBatch(entries2)
  <2>2. IsReport(base)
    BY PassReport
  <2>3. /\ out.scaninfo = base.scaninfo
        /\ DOMAIN out.hosts = DOMAIN base.hosts
        /\ \A i \in DOMAIN base.hosts :
             /\ SameHost(base.hosts[i], out.hosts[i])
             /\ base.hosts[i].ip = p.target => out.hosts[i].hostnames = p.hostnames
    BY <2>2, EnrichKeepsPorts
  <2> HIDE DEF base, out
  <2>4. /\ DOMAIN entries = DOMAIN base.hosts /\ DOMAIN entries2 = DOMAIN out.hosts
        /\ \A i \in DOMAIN base.hosts : entries[i] = ToIPIn(base.hosts[i], base)
        /\ \A i \in DOMAIN out.hosts : entries2[i] = ToIPIn(out.hosts[i], out)
    BY DEF ParseReport
  <2>5. \A h, r : /\ ToIPIn(h, r).ip = h.ip /\ ToIPIn(h, r).ports = h.ports
                  /\ ToIPIn(h, r).hostnames = h.hostnames
                  /\ ToIPIn(h, r).scanned_ports = ScannedPorts(r.scaninfo)
    BY DEF ToIPIn
  <2> HIDE DEF entries, entries2
  <2>6. IsList(entries) /\ IsList(entries2)
    BY <2>2, <2>3, <2>4 DEF IsReport, IsList
  <2>7. AlikeEntries(entries, entries2)
    <3>1. ASSUME NEW i \in DOMAIN entries
          PROVE  /\ entries[i].ip = entries2[i].ip
                 /\ entries[i].scanned_ports = entries2[i].scanned_ports
                 /\ IsList(entries[i].ports) /\ AlikePorts(entries[i].ports, entries2[i].ports)
      BY <2>2, <2>3, <2>4, <2>5 DEF IsReport, IsHost, SameHost
    <3> QED BY <2>3, <2>4, <3>1 DEF AlikeEntries
  <2>8. AlikeBatches(alone, merged)
    BY <2>6, <2>7, AlikeDedupBatch
  <2>9. \A i \in DOMAIN entries2 :
          entries2[i].ip = p.target => p.hostnames \subseteq entries2[i].hostnames
    BY <2>3, <2>4, <2>5 DEF SameHost
  <2>10. p.target \in DOMAIN merged => p.hostnames \subseteq merged[p.target].hostnames
    BY <2>6, <2>9, NamesCarried
  <2> HIDE DEF alone, merged
  <2>11. ASSUME NEW ip \in DOMAIN alone
         PROVE  /\ DOMAIN Change(mode, merged, ip).ports = DOMAIN Change(mode, alone, ip).ports
                /\ StateChanges(Change(mode, merged, ip)) = StateChanges(Change(mode, alone, ip))
                /\ ip = p.target => p.hostnames \subseteq Change(mode, merged, ip).hostnames
    <3> DEFINE in == alone[ip]
               in2 == merged[ip]
    <3>1. AlikeTables(in.ports, in2.ports) /\ in.scanned_ports = in2.scanned_ports
      BY <2>8 DEF AlikeBatches
    <3>2. ip = p.target => p.hostnames \subseteq in2.hostnames
      BY <2>8, <2>10 DEF AlikeBatches
    <3> HIDE DEF in, in2
    <3>3. /\ DOMAIN ApplyMode(mode, stored[ip], in2).ports =
               DOMAIN ApplyMode(mode, stored[ip], in).ports
          /\ StateChanges(ApplyMode(mode, stored[ip], in2)) =
               StateChanges(ApplyMode(mode, stored[ip], in))
          /\ in2.hostnames \subseteq ApplyMode(mode, stored[ip], in2).hostnames
      BY <3>1, SameEffect
    <3> QED BY <3>2, <3>3 DEF Change, in, in2
  <2>12. DOMAIN merged = DOMAIN alone
    BY <2>8 DEF AlikeBatches
  <2> QED BY <2>11, <2>12 DEF alone, merged, entries, entries2, out, base
<1> QED BY <1>1, PTL

-----------------------------------------------------------------------------
(* Sets written as sequences.                                              *)

Enumerates(list, S) ==
  /\ IsList(list)
  /\ \A i \in DOMAIN list : list[i] \in S
  /\ \A x \in S : \E i \in DOMAIN list : list[i] = x
  /\ \A i, j \in DOMAIN list : list[i] = list[j] => i = j

LEMMA SetToSeqLists ==
  ASSUME NEW S, IsFiniteSet(S)
  PROVE  Enumerates(SetToSeq(S), S)
<1> DEFINE n == Cardinality(S)
           list == SetToSeq(S)
<1>1. n \in Nat /\ ExistsBijection(1..n, S)
  BY FS_CardinalityType
<1> HIDE DEF n
<1>2. PICK f : f \in Bijection(1..n, S)
  BY <1>1 DEF ExistsBijection
<1>3. f \in [1..n -> S] /\ IsInjective(f)
  BY <1>2 DEF Bijection, Injection, IsInjective
<1>4. list \in [1..n -> S] /\ IsInjective(list)
  BY <1>3 DEF SetToSeq, n
<1>5. DOMAIN list = 1..n /\ Len(list) = n
  BY <1>1, <1>4
<1>6. list \in Injection(1..n, S)
  BY <1>4 DEF Injection, IsInjective
<1>7. IsFiniteSet(1..n) /\ Cardinality(1..n) = n
  BY <1>1, FS_Interval
<1>8. list \in Surjection(1..n, S)
  BY <1>6, <1>7, FS_Injection DEF n
<1> HIDE DEF list
<1>9. \A x \in S : \E i \in 1..n : list[i] = x
  BY <1>8 DEF Surjection
<1> QED BY <1>1, <1>4, <1>5, <1>9 DEF Enumerates, IsList, IsInjective, list

-----------------------------------------------------------------------------
(* De-duplication of a list that has nothing twice.                        *)

LEMMA DistinctPorts ==
  ASSUME NEW ports, IsList(ports), \A i, j \in DOMAIN ports : ports[i].key = ports[j].key => i = j
  PROVE  LET table == DedupPorts(<<>>, ports)
         IN  /\ table = [k \in DOMAIN table |-> table[k]]
             /\ \A k : k \in DOMAIN table <=> \E i \in DOMAIN ports : ports[i].key = k
             /\ \A i \in DOMAIN ports :
                  table[ports[i].key] = [state |-> ports[i].state, service |-> ports[i].service]
<1> DEFINE n == Len(ports)
           value(i) == [state |-> ports[i].state, service |-> ports[i].service]
           Tells(table, m) ==
             /\ table = [k \in DOMAIN table |-> table[k]]
             /\ \A k : k \in DOMAIN table <=> \E i \in 1..m : ports[i].key = k
             /\ \A i \in 1..m : table[ports[i].key] = value(i)
<1>1. n \in Nat /\ DOMAIN ports = 1..n
  BY DEF IsList
<1> HIDE DEF n, value
<1>2. PICK f : PortChain(f, <<>>, ports, n)
  BY <1>1, DedupPortsChain
<1> DEFINE B == {m \in Nat : m <= n => Tells(f[m], m)}
<1>3. 0 \in B
  <2>1. f[0] = <<>> /\ 1..0 = {}
    BY <1>2 DEF PortChain
  <2>2. <<>> = [k \in DOMAIN <<>> |-> <<>>[k]] /\ DOMAIN <<>> = {}
    OBVIOUS
  <2>3. Tells(<<>>, 0)
    BY <2>1, <2>2
  <2> HIDE DEF Tells
  <2> QED BY <2>1, <2>3
<1>4. ASSUME NEW m \in B PROVE m + 1 \in B
  <2>1. SUFFICES ASSUME m + 1 <= n PROVE Tells(f[m + 1], m + 1)
    OBVIOUS
  <2>2. m + 1 \in 1..n /\ (m + 1) - 1 = m /\ m <= n /\ m \in Nat
    BY <1>1, <2>1
  <2> DEFINE table == f[m]
             key == ports[m + 1].key
             put == value(m + 1)
  <2>3. f[m + 1] = Put(table, key, put)
    BY <1>2, <2>2 DEF PortChain, PutPort, value
  <2>4. Tells(table, m)
    BY <2>2
  <2> HIDE DEF table
  <2>5. \A i \in 1..m : i \in DOMAIN ports /\ m + 1 \in DOMAIN ports /\ ports[i].key # key
    BY <1>1, <2>2
  <2>6. \A i : i \in 1..(m + 1) <=> i \in 1..m \/ i = m + 1
    BY <2>2
  <2> HIDE DEF key, put
  <2> DEFINE next == Put(table, key, put)
  <2>7. next = [k \in DOMAIN next |-> next[k]]
    BY DEF Put
  <2>8. /\ DOMAIN next = {key} \cup DOMAIN table
        /\ \A k \in DOMAIN next : next[k] = IF k = key THEN put ELSE table[k]
    BY DEF Put
  <2> HIDE DEF next
  <2>9. ASSUME NEW k
        PROVE  k \in DOMAIN next <=> \E i \in 1..(m + 1) : ports[i].key = k
    BY <2>4, <2>6, <2>8 DEF key
  <2>10. ASSUME NEW i \in 1..(m + 1) PROVE next[ports[i].key] = value(i)
    <3>1. CASE i = m + 1
      BY <2>8, <3>1 DEF key, put
    <3>2. CASE i \in 1..m
      <4>1. ports[i].key \in DOMAIN table /\ ports[i].key # key
        BY <2>4, <2>5, <3>2
      <4>2. table[ports[i].key] = value(i)
        BY <2>4, <3>2
      <4> QED BY <2>8, <4>1, <4>2
    <3> QED BY <2>6, <3>1, <3>2
  <2> QED BY <2>3, <2>7, <2>9, <2>10 DEF next
<1>5. n \in B
  <2> HIDE DEF B
  <2>1. B \in SUBSET Nat
    BY DEF B
  <2> QED BY <1>1, <1>3, <1>4, <2>1, SetInduction
<1>6. Tells(DedupPorts(<<>>, ports), n)
  BY <1>1, <1>2, <1>5 DEF PortChain
<1> QED BY <1>1, <1>6 DEF value

LEMMA DistinctEntries ==
  ASSUME NEW entries, IsList(entries),
         \A i, j \in DOMAIN entries : entries[i].ip = entries[j].ip => i = j
  PROVE  LET batch == DedupBatch(entries)
         IN  /\ \A ip : ip \in DOMAIN batch <=> \E i \in DOMAIN entries : entries[i].ip = ip
             /\ \A i \in DOMAIN entries : batch[entries[i].ip] = DedupOne(entries[i])
<1> DEFINE n == Len(entries)
           Tells(batch, m) ==
             /\ \A ip : ip \in DOMAIN batch <=> \E i \in 1..m : entries[i].ip = ip
             /\ \A i \in 1..m : batch[entries[i].ip] = DedupOne(entries[i])
<1>1. n \in Nat /\ DOMAIN entries = 1..n
  BY DEF IsList
<1> HIDE DEF n
<1>2. PICK f : /\ f[0] = <<>>
               /\ \A k \in 1..n : f[k] = PutEntry(f[k - 1], entries[k])
               /\ DedupBatch(entries) = f[n]
  BY <1>1, DedupBatchChain
<1> DEFINE B == {m \in Nat : m <= n => Tells(f[m], m)}
<1>3. 0 \in B
  <2>1. f[0] = <<>> /\ 1..0 = {} /\ DOMAIN <<>> = {}
    BY <1>2
  <2>2. Tells(<<>>, 0)
    BY <2>1
  <2> HIDE DEF Tells
  <2> QED BY <2>1, <2>2
<1>4. ASSUME NEW m \in B PROVE m + 1 \in B
  <2>1. SUFFICES ASSUME m + 1 <= n PROVE Tells(f[m + 1], m + 1)
    OBVIOUS
  <2>2. m + 1 \in 1..n /\ (m + 1) - 1 = m /\ m <= n /\ m \in Nat
    BY <1>1, <2>1
  <2> DEFINE batch == f[m]
             e == entries[m + 1]
             ip == e.ip
  <2>3. Tells(batch, m)
    BY <2>2
  <2>4. \A i \in 1..m : entries[i].ip # ip
    BY <1>1, <2>2
  <2>5. ip \notin DOMAIN batch
    BY <2>3, <2>4
  <2>6. f[m + 1] = Put(batch, ip, DedupOne(e))
    BY <1>2, <2>2, <2>5 DEF PutEntry
  <2>7. \A i : i \in 1..(m + 1) <=> i \in 1..m \/ i = m + 1
    BY <2>2
  <2> HIDE DEF batch, ip
  <2> DEFINE next == Put(batch, ip, DedupOne(e))
  <2>8. /\ DOMAIN next = {ip} \cup DOMAIN batch
        /\ \A k \in DOMAIN next : next[k] = IF k = ip THEN DedupOne(e) ELSE batch[k]
    BY DEF Put
  <2> HIDE DEF next
  <2>9. ASSUME NEW k
        PROVE  k \in DOMAIN next <=> \E i \in 1..(m + 1) : entries[i].ip = k
    BY <2>3, <2>7, <2>8 DEF ip
  <2>10. ASSUME NEW i \in 1..(m + 1) PROVE next[entries[i].ip] = DedupOne(entries[i])
    <3>1. CASE i = m + 1
      BY <2>8, <3>1 DEF ip
    <3>2. CASE i \in 1..m
      BY <2>3, <2>4, <2>8, <3>2
    <3> QED BY <2>7, <3>1, <3>2
  <2> QED BY <2>6, <2>9, <2>10 DEF next
<1>5. n \in B
  <2> HIDE DEF B
  <2>1. B \in SUBSET Nat
    BY DEF B
  <2> QED BY <1>1, <1>3, <1>4, <2>1, SetInduction
<1>6. Tells(DedupBatch(entries), n)
  BY <1>1, <1>2, <1>5
<1> QED BY <1>1, <1>6

-----------------------------------------------------------------------------
(* merge_port_ranges.                                                      *)

(* A range has the ports between its bounds, whichever comes first.        *)
LEMMA LiesBetween ==
  ASSUME NEW r \in Pairs, NEW n \in Int
  PROVE  /\ n \in Between(r) <=> Lies(n, R!Ordered(r))
         /\ ~R!InBounds(r) <=> \E bound \in {r[1], r[2]} : bound < 0 \/ bound > 65535
<1> DEFINE low == r[1]
           high == r[2]
<1>1. low \in Int /\ high \in Int
  BY DEF Pairs
<1>2. R!Ordered(r)[1] = (IF high < low THEN high ELSE low)
      /\ R!Ordered(r)[2] = (IF high < low THEN low ELSE high)
  BY DEF R!Ordered
<1>3. Between(r) = low..high \cup high..low
  BY DEF Between
<1> HIDE DEF low, high
<1>4. n \in Between(r) <=> Lies(n, R!Ordered(r))
  BY <1>1, <1>2, <1>3 DEF Lies
<1>5. ~R!InBounds(r) <=> \E bound \in {low, high} : bound < 0 \/ bound > 65535
  BY <1>1, <1>2 DEF R!InBounds
<1> QED
  BY <1>4, <1>5 DEF low, high

LEMMA MergeMinimal == MinimalCover
<1> SUFFICES ASSUME NEW pairs \in Claims
             PROVE  /\ R!MergePortRanges(pairs) = {} <=>
                         \E r \in pairs : \E bound \in {r[1], r[2]} : bound < 0 \/ bound > 65535
                    /\ \A merged \in R!MergePortRanges(pairs) :
                         /\ R!Covered(merged) = UNION {Between(r) : r \in pairs}
                         /\ \A i \in 1..(Len(merged) - 1) : merged[i][2] + 1 < merged[i + 1][1]
  BY DEF MinimalCover
<1>1. IsFiniteSet(pairs) /\ pairs \subseteq Pairs
  BY ClaimsAssumption DEF Pairs
<1>2. R!MergePortRanges(pairs) = {} <=> \E r \in pairs : ~R!InBounds(r)
  BY <1>1, MergeIs
<1>3. R!MergePortRanges(pairs) = {} <=>
        \E r \in pairs : \E bound \in {r[1], r[2]} : bound < 0 \/ bound > 65535
  BY <1>1, <1>2, LiesBetween, 0 \in Int
<1>4. ASSUME NEW merged \in R!MergePortRanges(pairs)
      PROVE  /\ R!Covered(merged) = UNION {Between(r) : r \in pairs}
             /\ \A i \in 1..(Len(merged) - 1) : merged[i][2] + 1 < merged[i + 1][1]
  <2>1. /\ merged \in Seq(Pairs)
        /\ \A i \in 1..(Len(merged) - 1) : merged[i][2] + 1 < merged[i + 1][1]
        /\ \A n \in Int : (\E r \in R!ToSet(merged) : Lies(n, r))
                           <=> (\E r \in pairs : Lies(n, R!Ordered(r)))
    BY <1>1, MergeIs
  <2>2. \A n : n \in R!Covered(merged) <=> n \in Int /\ \E r \in R!ToSet(merged) : Lies(n, r)
    <3>1. \A i \in DOMAIN merged : merged[i][1] \in Int /\ merged[i][2] \in Int
      BY <2>1 DEF Pairs
    <3>2. \A i \in DOMAIN merged : merged[i][1]..merged[i][2] = {n \in Int : Lies(n, merged[i])}
      BY <3>1 DEF Lies
    <3> QED
      BY <3>2 DEF R!Covered, R!ToSet
  <2>3. \A n : n \in UNION {Between(r) : r \in pairs}
                 <=> n \in Int /\ \E r \in pairs : Lies(n, R!Ordered(r))
    <3>1. \A r \in pairs : Between(r) \subseteq Int
      BY DEF Between
    <3> QED
      BY <1>1, <3>1, LiesBetween
  <2>4. R!Covered(merged) = UNION {Between(r) : r \in pairs}
    BY <2>1, <2>2, <2>3
  <2> QED
    BY <2>1, <2>4
<1> QED
  BY <1>3, <1>4

(* A report closes the ports it claims and does not name.                  *)
LEMMA ClosesTheClaimed ==
  ASSUME NEW c \in Coverages, NEW k \in Int \X STRING
  PROVE  Closes(k, <<>>, c.scanned_ports) <=> \E r \in c.claimed : k[1] \in Between(r)
<1> DEFINE ranges == c.scanned_ports
           pairs == c.claimed
<1>1. /\ pairs \in Claims /\ R!MergePortRanges(pairs) # {}
      /\ ranges = R!MergedRanges(pairs)
  BY DEF Accepted, Coverages
<1>2. IsFiniteSet(pairs) /\ pairs \subseteq Pairs
  BY <1>1, ClaimsAssumption DEF Pairs
<1>3. \A n \in Int : (\E r \in ranges : Lies(n, r)) <=> (\E r \in pairs : Lies(n, R!Ordered(r)))
  <2>1. ASSUME NEW merged \in R!MergePortRanges(pairs), NEW n \in Int
        PROVE  (\E r \in R!ToSet(merged) : Lies(n, r)) <=> (\E r \in pairs : Lies(n, R!Ordered(r)))
    BY <1>2, MergeIs
  <2> QED
    BY <1>1, <2>1 DEF R!MergedRanges
<1> HIDE DEF ranges, pairs
<1>4. k[1] \in Int
  OBVIOUS
<1>5. InAnyRange(k[1], ranges) <=> \E r \in ranges : Lies(k[1], r)
  BY DEF InAnyRange, Lies
<1>6. \A r \in pairs : k[1] \in Between(r) <=> Lies(k[1], R!Ordered(r))
  BY <1>2, <1>4, LiesBetween
<1>7. k \notin DOMAIN <<>>
  OBVIOUS
<1>8. Closes(k, <<>>, ranges) <=> InAnyRange(k[1], ranges)
  BY <1>7 DEF Closes
<1> QED
  BY <1>3, <1>4, <1>5, <1>6, <1>8 DEF ranges, pairs

(* merge_port_ranges, on any finite set of ranges: it raises exactly when  *)
(* one names a port that does not exist, and otherwise returns the minimal *)
(* cover of the ports between their bounds, whichever is written first; so *)
(* an import closes just those of the ports that any inventory has.        *)
THEOREM MergeIsMinimal == Spec => []MergeIsMinimalCover
<1>1. MergeIsMinimalCover
  BY MergeMinimal, ClosesTheClaimed DEF MergeIsMinimalCover
<1> QED
  BY <1>1, PTL

-----------------------------------------------------------------------------
(* The export.                                                             *)

(* It covers nothing, so that it closes nothing.                           *)
LEMMA CoversNothing == ScannedPorts({}) = {}
<1>1. IsFiniteSet({}) /\ {} \subseteq Pairs
  BY FS_EmptySet
<1>2. Merged(R!Fuse({}), {})
  BY <1>1, MergeCovers
<1>3. R!Fuse({}) = <<>>
  BY <1>2 DEF Merged
<1>4. R!MergePortRanges({}) = {<<>>}
  <2>1. {R!Ordered(r) : r \in {}} = {}
    OBVIOUS
  <2> QED BY <1>3, <2>1 DEF R!MergePortRanges
<1>5. R!ToSet(<<>>) = {}
  BY DEF R!ToSet
<1>6. R!MergedRanges({}) = {}
  BY <1>4, <1>5 DEF R!MergedRanges
<1>7. Claimed({}) = {}
  BY DEF Claimed
<1> QED BY <1>6, <1>7 DEF ScannedPorts

Element(table, k) == [key |-> k, state |-> table[k].state, service |-> table[k].service]

Elements(table) == {Element(table, k) : k \in DOMAIN table}

(* A table of ports, written as a list and read again.                     *)
LEMMA TableRestored ==
  ASSUME NEW table, OpenTable(table)
  PROVE  /\ IsList(SetToSeq(Elements(table)))
         /\ DedupPorts(<<>>, SetToSeq(Elements(table))) = table
<1> DEFINE S == Elements(table)
           ports == SetToSeq(S)
           f == [k \in DOMAIN table |-> Element(table, k)]
<1>1. f \in Surjection(DOMAIN table, S)
  BY DEF Surjection, Elements
<1>2. IsFiniteSet(S)
  <2> HIDE DEF f, S
  <2> QED BY <1>1, FS_Surjection DEF OpenTable
<1> HIDE DEF S
<1>3. Enumerates(ports, S)
  BY <1>2, SetToSeqLists
<1> HIDE DEF ports
<1>4. \A k : /\ Element(table, k).key = k /\ Element(table, k).state = table[k].state
             /\ Element(table, k).service = table[k].service
  BY DEF Element
<1>5. \A x \in S : x.key \in DOMAIN table /\ x = Element(table, x.key)
  BY <1>4 DEF S, Elements
<1>6. \A i, j \in DOMAIN ports : ports[i].key = ports[j].key => i = j
  BY <1>3, <1>5 DEF Enumerates
<1> DEFINE read == DedupPorts(<<>>, ports)
<1>7. /\ read = [k \in DOMAIN read |-> read[k]]
      /\ \A k : k \in DOMAIN read <=> \E i \in DOMAIN ports : ports[i].key = k
      /\ \A i \in DOMAIN ports :
           read[ports[i].key] = [state |-> ports[i].state, service |-> ports[i].service]
  BY <1>3, <1>6, DistinctPorts DEF Enumerates
<1> HIDE DEF read
<1>8. ASSUME NEW k \in DOMAIN table
      PROVE  k \in DOMAIN read /\ read[k] = table[k]
  <2>1. Element(table, k) \in S
    BY DEF S, Elements
  <2>2. PICK i \in DOMAIN ports : ports[i] = Element(table, k)
    BY <1>3, <2>1 DEF Enumerates
  <2>3. table[k] = [state |-> table[k].state, service |-> table[k].service]
    BY DEF OpenTable, IsPort
  <2> QED BY <1>4, <1>7, <2>2, <2>3
<1>9. DOMAIN read = DOMAIN table
  <2>1. ASSUME NEW k \in DOMAIN read PROVE k \in DOMAIN table
    <3>1. PICK i \in DOMAIN ports : ports[i].key = k
      BY <1>7
    <3>2. ports[i] \in S
      BY <1>3 DEF Enumerates
    <3> QED BY <1>5, <3>1, <3>2
  <2> QED BY <1>8, <2>1
<1>10. table = [k \in DOMAIN table |-> table[k]]
  BY DEF OpenTable
<1>11. read = table
  BY <1>7, <1>8, <1>9, <1>10
<1> QED BY <1>3, <1>11 DEF Enumerates, S, ports, read

(* The entry an exported address becomes.                                  *)
EntryOf(ip, entry) ==
  /\ entry.meta = IF stored[ip].meta = "" THEN "up" ELSE stored[ip].meta
  /\ entry.hostnames = stored[ip].hostnames
  /\ entry.ports = stored[ip].ports
  /\ entry.endtime = seen[ip].last
  /\ entry.scanned_ports = {}

LEMMA ExportedEntries ==
  ASSUME InventoryInv
  PROVE  LET export == DedupBatch(ParseReport(DownloadReport(1)))
         IN  /\ DOMAIN export = {ip \in Ips : stored[ip].known}
             /\ \A ip \in DOMAIN export : EntryOf(ip, export[ip])
<1> DEFINE known == {ip \in Ips : stored[ip].known}
           host(ip) == ExportHost(IPOut(ip))
           S == {host(ip) : ip \in known}
           report == DownloadReport(1)
           entries == ParseReport(report)
           f == [ip \in known |-> host(ip)]
<1>1. f \in Surjection(known, S)
  BY DEF Surjection
<1>2. IsFiniteSet(S)
  <2>1. IsFiniteSet(known)
    BY FS_Subset, AddressesAssumption, known \in SUBSET Ips
  <2> HIDE DEF f, S, known
  <2> QED BY <1>1, <2>1, FS_Surjection
<1>3. report.scaninfo = {} /\ report.hosts = SetToSeq(S)
  <2>1. {ExportHost(out) : out \in {IPOut(ip) : ip \in known}} = S
    OBVIOUS
  <2> HIDE DEF S
  <2> QED BY <2>1 DEF DownloadReport, ExportReport
<1>4. Enumerates(report.hosts, S)
  BY <1>2, <1>3, SetToSeqLists
<1>5. ASSUME NEW ip
      PROVE  /\ host(ip).ip = ip /\ host(ip).endtime = seen[ip].last
             /\ host(ip).meta = IF stored[ip].meta = "" THEN "up" ELSE stored[ip].meta
             /\ host(ip).hostnames = stored[ip].hostnames
             /\ host(ip).ports = SetToSeq(Elements(stored[ip].ports))
  <2> DEFINE out == IPOut(ip)
  <2>1. /\ out.ip = ip /\ out.meta = stored[ip].meta /\ out.hostnames = stored[ip].hostnames
        /\ out.ports = stored[ip].ports /\ out.last_seen = seen[ip].last
    BY DEF IPOut
  <2> HIDE DEF out
  <2>2. /\ ExportHost(out).ip = out.ip /\ ExportHost(out).endtime = out.last_seen
        /\ ExportHost(out).meta = IF out.meta = "" THEN "up" ELSE out.meta
        /\ ExportHost(out).hostnames = out.hostnames
        /\ ExportHost(out).ports = SetToSeq(Elements(out.ports))
    BY DEF ExportHost, Elements, Element
  <2> QED BY <2>1, <2>2 DEF out
<1>6. \A x \in S : \E ip \in known : x = host(ip)
  OBVIOUS
<1>7. \A ip \in known : host(ip) \in S
  OBVIOUS
<1> HIDE DEF host, S, report
<1>8. /\ DOMAIN entries = DOMAIN report.hosts
      /\ \A i \in DOMAIN entries : entries[i] = ToIPIn(report.hosts[i], report)
  BY DEF ParseReport
<1>9. \A h, r : /\ ToIPIn(h, r).ip = h.ip /\ ToIPIn(h, r).ports = h.ports
                /\ ToIPIn(h, r).hostnames = h.hostnames /\ ToIPIn(h, r).meta = h.meta
                /\ h.endtime # None => ToIPIn(h, r).endtime = h.endtime
                /\ ToIPIn(h, r).scanned_ports = ScannedPorts(r.scaninfo)
  BY DEF ToIPIn
<1>10. IsList(entries)
  BY <1>4, <1>8 DEF Enumerates, IsList
<1> HIDE DEF entries
<1>11. ASSUME NEW i \in DOMAIN entries
       PROVE  /\ entries[i].ip \in known /\ report.hosts[i] = host(entries[i].ip)
              /\ EntryOf(entries[i].ip, DedupOne(entries[i]))
  <2> DEFINE e == entries[i]
  <2>1. report.hosts[i] \in S
    BY <1>4, <1>8 DEF Enumerates
  <2>2. PICK ip \in known : report.hosts[i] = host(ip)
    BY <1>6, <2>1
  <2> DEFINE h == host(ip)
  <2>3. e = ToIPIn(h, report)
    BY <1>8, <2>2
  <2>4. OpenTable(stored[ip].ports) /\ seen[ip].last # None
    BY DEF InventoryInv, IsStored
  <2>5. /\ h.ip = ip /\ h.endtime = seen[ip].last
        /\ h.meta = IF stored[ip].meta = "" THEN "up" ELSE stored[ip].meta
        /\ h.hostnames = stored[ip].hostnames
        /\ h.ports = SetToSeq(Elements(stored[ip].ports))
    BY <1>5
  <2> HIDE DEF e, h
  <2>6. /\ e.ip = h.ip /\ e.meta = h.meta /\ e.hostnames = h.hostnames /\ e.ports = h.ports
        /\ h.endtime # None => e.endtime = h.endtime
        /\ e.scanned_ports = ScannedPorts({})
    BY <1>3, <1>9, <2>3
  <2>7. /\ DedupOne(e).meta = e.meta /\ DedupOne(e).hostnames = e.hostnames
        /\ DedupOne(e).ports = DedupPorts(<<>>, e.ports) /\ DedupOne(e).endtime = e.endtime
        /\ DedupOne(e).scanned_ports = e.scanned_ports
    BY DEF DedupOne
  <2>8. DedupPorts(<<>>, SetToSeq(Elements(stored[ip].ports))) = stored[ip].ports
    BY <2>4, TableRestored
  <2>9. EntryOf(ip, DedupOne(e))
    BY <2>4, <2>5, <2>6, <2>7, <2>8, CoversNothing DEF EntryOf
  <2> QED BY <2>2, <2>5, <2>6, <2>9 DEF e
<1>12. \A i, j \in DOMAIN entries : entries[i].ip = entries[j].ip => i = j
  BY <1>4, <1>8, <1>11 DEF Enumerates
<1> DEFINE export == DedupBatch(entries)
<1>13. /\ \A ip : ip \in DOMAIN export <=> \E i \in DOMAIN entries : entries[i].ip = ip
       /\ \A i \in DOMAIN entries : export[entries[i].ip] = DedupOne(entries[i])
  BY <1>10, <1>12, DistinctEntries
<1> HIDE DEF export
<1>14. ASSUME NEW ip \in known PROVE ip \in DOMAIN export
  <2>1. PICK i \in DOMAIN report.hosts : report.hosts[i] = host(ip)
    BY <1>4, <1>7 DEF Enumerates
  <2> DEFINE h == host(ip)
  <2>2. h.ip = ip
    BY <1>5
  <2>3. entries[i] = ToIPIn(h, report)
    BY <1>8, <2>1
  <2> HIDE DEF h
  <2>4. entries[i].ip = ip
    BY <1>9, <2>2, <2>3
  <2> QED BY <1>8, <1>13, <2>1, <2>4
<1>15. ASSUME NEW ip \in DOMAIN export PROVE ip \in known /\ EntryOf(ip, export[ip])
  <2>1. PICK i \in DOMAIN entries : entries[i].ip = ip
    BY <1>13
  <2> QED BY <1>11, <1>13, <2>1
<1>16. DOMAIN export = known
  BY <1>14, <1>15
<1> QED BY <1>15, <1>16 DEF export, entries, report

(* The export of a project, imported into an empty one, restores every     *)
(* address; imported again over anything a scan left, it closes nothing    *)
(* (export_report, parse_report, apply_import).                            *)
THEOREM ExportComesBack == Spec => []ExportRestores
<1>1. ASSUME InventoryInv PROVE ExportRestores
  <2> DEFINE export == DedupBatch(ParseReport(DownloadReport(1)))
             later(ip) == {stored[ip]} \cup
               {StoredFrom(Change(s.mode, DedupBatch(ParseReport(s.report)), ip)) :
                  s \in {t \in Scans :
                           Parses(t.report) /\ ip \in DOMAIN DedupBatch(ParseReport(t.report))}}
  <2>1. /\ DOMAIN export = {ip \in Ips : stored[ip].known}
        /\ \A ip \in DOMAIN export : EntryOf(ip, export[ip])
    BY <1>1, ExportedEntries
  <2> HIDE DEF export
  <2>2. ASSUME NEW ip \in DOMAIN export, NEW mode
        PROVE  /\ StoredFrom(ApplyMode(mode, Unknown, export[ip])) = Restored(stored[ip])
               /\ ApplyMode(mode, Unknown, export[ip]).endtime = seen[ip].last
               /\ \A s \in later(ip) :
                    DOMAIN s.ports \subseteq DOMAIN ApplyMode(mode, s, export[ip]).ports
    <3> DEFINE st == stored[ip]
               in == export[ip]
               meta == IF st.meta = "" THEN "up" ELSE st.meta
    <3>1. st.known = TRUE /\ IsStored(st)
      BY <1>1, <2>1 DEF InventoryInv, IsStored
    <3>2. /\ in.meta = meta /\ in.hostnames = st.hostnames /\ in.ports = st.ports
          /\ in.endtime = seen[ip].last /\ in.scanned_ports = {}
      BY <2>1 DEF EntryOf
    <3> HIDE DEF in
    <3>3. ApplyMode(mode, Unknown, in) = Created(in)
      BY DEF ApplyMode, Unknown
    <3> DEFINE open == {k \in DOMAIN in.ports : IsOpen(in.ports[k])}
    <3>4. /\ Created(in).ports = [k \in open |-> in.ports[k]]
          /\ Created(in).meta = in.meta /\ Created(in).hostnames = in.hostnames
          /\ Created(in).endtime = in.endtime
      BY CreatedParts
    <3>5. Created(in).ports = st.ports
      <4>1. open = DOMAIN st.ports
        BY <3>1, <3>2 DEF IsStored, OpenTable
      <4>2. st.ports = [k \in DOMAIN st.ports |-> st.ports[k]]
        BY <3>1 DEF IsStored, OpenTable
      <4> HIDE DEF open, st
      <4> QED BY <3>2, <3>4, <4>1, <4>2
    <3>6. Restored(st) = [known |-> TRUE, meta |-> meta, hostnames |-> st.hostnames,
                          ports |-> st.ports]
      <4> DEFINE flag == st.known
                 hostnames == st.hostnames
                 ports == st.ports
                 old == [known |-> flag, meta |-> st.meta, hostnames |-> hostnames,
                         ports |-> ports]
                 new == [known |-> flag, meta |-> meta, hostnames |-> hostnames,
                         ports |-> ports]
      <4>1. st = old /\ flag = TRUE
        BY <3>1 DEF IsStored
      <4>2. Restored(st) = [st EXCEPT !.meta = meta]
        BY DEF Restored
      <4> HIDE DEF meta, hostnames, ports, flag, st
      <4>3. [old EXCEPT !.meta = meta] = new
        OBVIOUS
      <4> HIDE DEF old, new
      <4>4. Restored(st) = new
        BY <4>1, <4>2, <4>3
      <4> QED BY <4>1, <4>4 DEF new, hostnames, ports
    <3>7. StoredFrom(Created(in)) = Restored(st)
      <4> HIDE DEF st, meta
      <4> QED BY <3>2, <3>4, <3>5, <3>6 DEF StoredFrom
    <3>8. ASSUME NEW s \in later(ip)
          PROVE  DOMAIN s.ports \subseteq DOMAIN ApplyMode(mode, s, in).ports
      <4> DEFINE policy == Policy(mode)
      <4>1. s.known = TRUE
        BY <3>1, <3>8 DEF StoredFrom
      <4>2. ApplyMode(mode, s, in) = Updated(policy, s, in)
        BY <4>1 DEF ApplyMode
      <4> HIDE DEF policy
      <4>3. Updated(policy, s, in).ports = PortsBy(policy, s, in)
        BY UpdatedParts
      <4>4. ClosedBy(policy, s, in) = {}
        BY <3>1, <3>2 DEF ClosedBy, Closes, InAnyRange, IsStored, OpenTable
      <4>5. DOMAIN PortsBy(policy, s, in) =
              (DOMAIN s.ports \cup OpenedBy(policy, s, in)) \ ClosedBy(policy, s, in)
        BY DEF PortsBy
      <4> HIDE DEF later
      <4> QED BY <4>2, <4>3, <4>4, <4>5
    <3> QED BY <3>2, <3>3, <3>4, <3>7, <3>8 DEF in
  <2> QED BY <2>1, <2>2 DEF ExportRestores, export
<1> QED BY <1>1, InventoryInvHolds, PTL

-----------------------------------------------------------------------------
(* How many come before an address.                                        *)

(* A rank orders all addresses.                                            *)
LEMMA RankIs ==
  ASSUME NEW kind
  PROVE  /\ \A x \in Ips : Rank(kind)[x] \in Nat
         /\ \A x, y \in Ips : Rank(kind)[x] = Rank(kind)[y] => x = y
BY SearchAssumption DEF Rank, IsInjective

(* How many come before is a number, and not more than there are.          *)
LEMMA EarlierType ==
  ASSUME NEW kind, NEW all \in SUBSET Ips, NEW ip
  PROVE  Earlier(kind, all, ip) \in Nat /\ Earlier(kind, all, ip) <= Cardinality(all)
<1> DEFINE S == {x \in all : Before(kind, x, ip)}
<1>1. IsFiniteSet(all)
  BY AddressesAssumption, FS_Subset
<1>2. IsFiniteSet(S) /\ Cardinality(S) <= Cardinality(all)
  <2>1. S \in SUBSET all
    OBVIOUS
  <2> HIDE DEF S
  <2> QED
    BY <1>1, <2>1, FS_Subset
<1>3. Cardinality(S) \in Nat
  <2> HIDE DEF S
  <2> QED
    BY <1>2, FS_CardinalityType
<1> QED
  BY <1>2, <1>3 DEF Earlier

(* More of them, if those that come before are still there.                *)
LEMMA EarlierGrows ==
  ASSUME NEW kind, NEW all \in SUBSET Ips, NEW more \in SUBSET Ips, NEW ip,
         \A x \in all : Before(kind, x, ip) => x \in more
  PROVE  Earlier(kind, all, ip) <= Earlier(kind, more, ip)
<1> DEFINE S == {x \in all : Before(kind, x, ip)}
           T == {x \in more : Before(kind, x, ip)}
<1>1. S \in SUBSET T /\ T \in SUBSET Ips
  OBVIOUS
<1> HIDE DEF S, T
<1>2. Cardinality(S) <= Cardinality(T)
  BY <1>1, AddressesAssumption, FS_Subset
<1> QED
  BY <1>2 DEF Earlier, S, T

(* More come before the later one of two.                                  *)
LEMMA EarlierOrders ==
  ASSUME NEW kind, NEW all \in SUBSET Ips, NEW x \in all, NEW y \in Ips, Before(kind, x, y)
  PROVE  Earlier(kind, all, x) < Earlier(kind, all, y)
<1> DEFINE S == {z \in all : Before(kind, z, x)}
           T == {z \in all : Before(kind, z, y)}
<1>1. S \in SUBSET T /\ x \in T /\ x \notin S /\ T \in SUBSET Ips
  BY RankIs DEF Before
<1> HIDE DEF S, T
<1>2. IsFiniteSet(T) /\ IsFiniteSet(S) /\ Cardinality(S) <= Cardinality(T) /\ Cardinality(S) # Cardinality(T)
  BY <1>1, AddressesAssumption, FS_Subset
<1>3. Cardinality(S) \in Nat /\ Cardinality(T) \in Nat
  BY <1>2, FS_CardinalityType
<1>4. Cardinality(S) < Cardinality(T)
  BY <1>2, <1>3
<1> QED
  BY <1>4 DEF Earlier, S, T

(* Not all come before one of them.                                        *)
LEMMA EarlierBelow ==
  ASSUME NEW kind, NEW all \in SUBSET Ips, NEW ip \in all
  PROVE  Earlier(kind, all, ip) < Cardinality(all)
<1> DEFINE S == {x \in all : Before(kind, x, ip)}
<1>1. S \in SUBSET all /\ ip \notin S /\ IsFiniteSet(all)
  BY RankIs, AddressesAssumption, FS_Subset DEF Before
<1> HIDE DEF S
<1>2. IsFiniteSet(S) /\ Cardinality(S) <= Cardinality(all) /\ Cardinality(S) # Cardinality(all)
  BY <1>1, FS_Subset
<1>3. Cardinality(S) \in Nat /\ Cardinality(all) \in Nat
  BY <1>1, <1>2, FS_CardinalityType
<1>4. Cardinality(S) < Cardinality(all)
  BY <1>2, <1>3
<1> QED
  BY <1>4 DEF Earlier, S

(* There is an address at every offset.                                    *)
LEMMA EveryOffset ==
  ASSUME NEW kind, NEW all \in SUBSET Ips, NEW k \in 0..(Cardinality(all) - 1)
  PROVE  \E x \in all : Earlier(kind, all, x) = k
<1> DEFINE n == Cardinality(all)
           f == [x \in all |-> Earlier(kind, all, x)]
           T == {f[x] : x \in all}
<1>1. IsFiniteSet(all) /\ n \in Nat
  BY AddressesAssumption, FS_Subset, FS_CardinalityType
<1>2. f \in Surjection(all, T)
  BY DEF Surjection
<1>3. f \in Injection(all, T)
  <2>1. \A x, y \in all : x # y => Before(kind, x, y) \/ Before(kind, y, x)
    BY RankIs DEF Before
  <2>2. \A x, y \in all : Earlier(kind, all, x) \in Nat /\ (Before(kind, x, y) => Earlier(kind, all, x) < Earlier(kind, all, y))
    BY EarlierType, EarlierOrders
  <2>3. \A x, y \in all : x # y => f[x] # f[y]
    BY <2>1, <2>2
  <2> QED
    BY <2>3 DEF Injection, IsInjective
<1>4. T \in SUBSET (0..(n - 1))
  <2>1. \A x \in all : Earlier(kind, all, x) \in 0..(n - 1)
    BY <1>1, EarlierType, EarlierBelow
  <2> QED
    BY <2>1
<1> HIDE DEF n, f, T
<1>5. Cardinality(T) = n
  BY <1>1, <1>2, <1>3, FS_Surjection DEF n
<1>6. IsFiniteSet(0..(n - 1)) /\ Cardinality(0..(n - 1)) = n
  <2>1. n - 1 \in Int
    BY <1>1
  <2>2. IsFiniteSet(0..(n - 1)) /\ Cardinality(0..(n - 1)) = IF 0 > n - 1 THEN 0 ELSE (n - 1) - 0 + 1
    BY <2>1, FS_Interval
  <2> QED
    BY <1>1, <2>2
<1>7. T = 0..(n - 1)
  BY <1>4, <1>5, <1>6, FS_Subset
<1> QED
  BY <1>7 DEF T, f, n

-----------------------------------------------------------------------------
(* Queries and pages.                                                      *)

(* Where an address is in what a client goes through.                      *)
At(q, all, ip) ==
  IF q.kind = "known" THEN Place(q.filter.ip_in, ip) ELSE Earlier(q.kind, all, ip)

Position(q, ip) == At(q, Matching(q.filter), ip)

(* Candidates and answers to them are in one order.                        *)
LEMMA PlaceIsEarlier ==
  ASSUME NEW candidates, NEW ip
  PROVE  Place(candidates, ip) = Earlier("known", candidates, ip)
BY DEF Place, Earlier, Before, Rank

(* What clients ask.                                                       *)
LEMMA QueryIs ==
  ASSUME NEW q \in Queries
  PROVE  /\ q.kind \in {"search", "list", "known"} /\ q.limit \in Nat \ {0} /\ ChunkSize \in Nat \ {0}
         /\ q.kind = "known" => /\ q.filter = [ip_in |-> q.filter.ip_in] /\ ~q.matched_ports_only
                                /\ q.filter.ip_in # {} /\ q.filter.ip_in \subseteq Ips
BY SearchAssumption, QueriesAssumption

LEMMA MatchingIps == \A f : Matching(f) \in SUBSET Ips
BY DEF Matching

LEMMA PositionType ==
  ASSUME NEW q \in Queries, NEW ip
  PROVE  Position(q, ip) \in Nat
<1>1. CASE q.kind = "known"
  <2>1. q.filter.ip_in \in SUBSET Ips
    BY <1>1, QueryIs
  <2> QED
    BY <1>1, <2>1, PlaceIsEarlier, EarlierType DEF Position, At
<1>2. CASE q.kind # "known"
  BY <1>2, MatchingIps, EarlierType DEF Position, At
<1> QED
  BY <1>1, <1>2

(* Which of a non-empty list of addresses are stored.                      *)
LEMMA KnownMatching ==
  ASSUME NEW S \in SUBSET Ips, S # {}
  PROVE  Matching([ip_in |-> S]) = {ip \in S : stored[ip].known}
<1> DEFINE f == [ip_in |-> S]
<1>1. /\ DOMAIN f = {"ip_in"} /\ f.ip_in = S
  OBVIOUS
<1> HIDE DEF f
<1>2. \A ip : MeetsPorts(ip, f)
  BY <1>1 DEF MeetsPorts, Set
<1>3. \A ip : MeetsHost(ip, f) <=> ip \in S
  BY <1>1 DEF MeetsHost, Set
<1>4. Matching(f) = {ip \in S : stored[ip].known}
  BY <1>2, <1>3 DEF Matching
<1> QED
  BY <1>4 DEF f

(* A page in terms of positions.                                           *)
LEMMA PageOfList ==
  ASSUME NEW q \in Queries, q.kind # "known", NEW skip \in Nat
  PROVE  LET page == Slice(q.kind, Matching(q.filter), skip, q.limit)
         IN  /\ page \subseteq Matching(q.filter)
             /\ \A ip \in Matching(q.filter) :
                  ip \in page <=> Position(q, ip) >= skip /\ Position(q, ip) < skip + q.limit
<1> DEFINE all == Matching(q.filter)
<1>1. q.limit \in Nat
  BY QueryIs
<1>2. \A ip \in all : Position(q, ip) \in Nat /\ Position(q, ip) = Earlier(q.kind, all, ip)
  BY PositionType DEF Position, At
<1> HIDE DEF all
<1>3. \A ip \in all : Earlier(q.kind, all, ip) \in skip..(skip + q.limit - 1)
                        <=> Position(q, ip) >= skip /\ Position(q, ip) < skip + q.limit
  BY <1>1, <1>2
<1> QED
  BY <1>3 DEF Slice, all

(* A chunk in terms of positions.                                          *)
LEMMA ChunkIs ==
  ASSUME NEW q \in Queries, q.kind = "known", NEW skip \in Nat
  PROVE  /\ Chunk(q, skip) \subseteq q.filter.ip_in
         /\ \A ip \in q.filter.ip_in :
              ip \in Chunk(q, skip) <=> Position(q, ip) >= skip /\ Position(q, ip) < skip + ChunkSize
<1>1. ChunkSize \in Nat
  BY QueryIs
<1>2. \A ip \in q.filter.ip_in : Position(q, ip) \in Nat /\ Position(q, ip) = Place(q.filter.ip_in, ip)
  BY PositionType DEF Position, At
<1>3. \A ip \in q.filter.ip_in : Place(q.filter.ip_in, ip) \in skip..(skip + ChunkSize - 1)
                        <=> Position(q, ip) >= skip /\ Position(q, ip) < skip + ChunkSize
  BY <1>1, <1>2
<1> QED
  BY <1>3 DEF Chunk

(* A chunk is answered as a whole.                                         *)
LEMMA PageOfKnown ==
  ASSUME NEW q \in Queries, q.kind = "known", NEW skip \in Nat
  PROVE  LET chunk == Chunk(q, skip)
         IN  Slice(q.kind, Matching([ip_in |-> chunk]), 0, Cardinality(chunk))
               = {ip \in chunk : ip \in Matching(q.filter)}
<1> DEFINE chunk == Chunk(q, skip)
           all == Matching([ip_in |-> chunk])
           n == Cardinality(chunk)
<1>1. chunk \in SUBSET q.filter.ip_in /\ q.filter.ip_in \in SUBSET Ips /\ q.filter.ip_in # {}
  BY ChunkIs, QueryIs
<1>2. Matching(q.filter) = {ip \in q.filter.ip_in : stored[ip].known}
  <2>1. Matching([ip_in |-> q.filter.ip_in]) = {ip \in q.filter.ip_in : stored[ip].known}
    BY <1>1, KnownMatching
  <2> QED
    BY <2>1, QueryIs
<1>3. IsFiniteSet(chunk) /\ n \in Nat
  <2>1. chunk \in SUBSET Ips
    BY <1>1
  <2> QED
    BY <2>1, AddressesAssumption, FS_Subset, FS_CardinalityType
<1>4. CASE chunk = {}
  <2>1. n = 0
    BY <1>4, FS_EmptySet
  <2>2. Slice(q.kind, all, 0, 0) = {}
    <3> HIDE DEF all
    <3>1. 0..(0 + 0 - 1) = {}
      OBVIOUS
    <3> QED
      BY <3>1 DEF Slice
  <2> QED
    BY <1>4, <2>1, <2>2
<1>5. CASE chunk # {}
  <2>1. all = {ip \in chunk : stored[ip].known}
    <3>1. chunk \in SUBSET Ips
      BY <1>1
    <3> HIDE DEF chunk
    <3> QED
      BY <1>5, <3>1, KnownMatching
  <2> HIDE DEF chunk
  <2>2. all \in SUBSET chunk /\ all \in SUBSET Ips
    BY <1>1, <2>1
  <2> HIDE DEF all, n
  <2>3. Cardinality(all) <= n /\ Cardinality(all) \in Nat
    BY <1>3, <2>2, FS_Subset, FS_CardinalityType DEF n
  <2>4. \A ip \in all : Earlier(q.kind, all, ip) \in Nat /\ Earlier(q.kind, all, ip) < Cardinality(all)
    BY <2>2, EarlierType, EarlierBelow
  <2>5. \A ip \in all : Earlier(q.kind, all, ip) \in 0..(0 + n - 1)
    BY <1>3, <2>3, <2>4
  <2>6. Slice(q.kind, all, 0, n) = all
    BY <2>5 DEF Slice
  <2>7. all = {ip \in chunk : ip \in Matching(q.filter)}
    BY <1>1, <1>2, <2>1
  <2> QED
    BY <2>6, <2>7 DEF all, n, chunk
<1> QED
  BY <1>4, <1>5

-----------------------------------------------------------------------------
(* The page that a client is shown.                                        *)

Shown(r) == {row[1] : row \in r.rows}
Given(r) == r.told \cup Shown(r)

(* How far a client has come.                                              *)
Reached(r) == IF r.pc \in {"ports", "next", "done"} THEN r.skip + Step(r) ELSE r.skip

PageOf(r) == Slice(r.query.kind, Matching(Filter(r)), Offset(r), Limit(r))

LEMMA StepType ==
  ASSUME NEW r, r.query \in Queries
  PROVE  Step(r) \in Nat \ {0}
BY QueryIs DEF Step

(* What a page has of all that match, whoever asks.                        *)
LEMMA PageIs ==
  ASSUME NEW r, r.query \in Queries, r.skip \in Nat
  PROVE  /\ PageOf(r) \subseteq Matching(r.query.filter)
         /\ \A ip \in Matching(r.query.filter) :
              ip \in PageOf(r) <=> Position(r.query, ip) >= r.skip /\ Position(r.query, ip) < r.skip + Step(r)
<1> DEFINE q == r.query
<1>1. CASE q.kind = "known"
  <2>1. PageOf(r) = Slice(q.kind, Matching([ip_in |-> Chunk(q, r.skip)]), 0, Cardinality(Chunk(q, r.skip)))
    BY <1>1 DEF PageOf, Filter, Offset, Limit
  <2>2. PageOf(r) = {ip \in Chunk(q, r.skip) : ip \in Matching(q.filter)}
    BY <1>1, <2>1, PageOfKnown
  <2>3. Matching(q.filter) \subseteq q.filter.ip_in
    <3>1. Matching([ip_in |-> q.filter.ip_in]) = {ip \in q.filter.ip_in : stored[ip].known}
      BY <1>1, QueryIs, KnownMatching
    <3> QED
      BY <1>1, <3>1, QueryIs
  <2>4. \A ip \in q.filter.ip_in :
          ip \in Chunk(q, r.skip) <=> Position(q, ip) >= r.skip /\ Position(q, ip) < r.skip + ChunkSize
    BY <1>1, ChunkIs
  <2> QED
    BY <1>1, <2>2, <2>3, <2>4 DEF Step
<1>2. CASE q.kind # "known"
  <2>1. PageOf(r) = Slice(q.kind, Matching(q.filter), r.skip, q.limit)
    BY <1>2 DEF PageOf, Filter, Offset, Limit
  <2> QED
    BY <1>2, <2>1, PageOfList DEF Step
<1> QED
  BY <1>1, <1>2

(* If something comes after a page, the page is not the last one.          *)
LEMMA NotTheLast ==
  ASSUME NEW r, r.query \in Queries, r.skip \in Nat, NEW s, s.query = r.query, s.skip = r.skip,
         s.rows = {<<ip, id[ip]>> : ip \in PageOf(r)},
         NEW x \in Matching(r.query.filter), Position(r.query, x) >= r.skip + Step(r)
  PROVE  ~LastPage(s)
<1> DEFINE q == r.query
           all == Matching(q.filter)
<1>1. CASE q.kind = "known"
  <2>1. q.filter.ip_in \in SUBSET Ips /\ x \in q.filter.ip_in
    <3>1. Matching([ip_in |-> q.filter.ip_in]) = {ip \in q.filter.ip_in : stored[ip].known}
      BY <1>1, QueryIs, KnownMatching
    <3> QED
      BY <1>1, <3>1, QueryIs
  <2>2. Position(q, x) < Cardinality(q.filter.ip_in)
    BY <1>1, <2>1, PlaceIsEarlier, EarlierBelow DEF Position, At
  <2>3. Cardinality(q.filter.ip_in) \in Nat /\ Position(q, x) \in Nat /\ ChunkSize \in Nat
    BY <2>1, AddressesAssumption, FS_Subset, FS_CardinalityType, PositionType, QueryIs
  <2>4. Position(q, x) >= r.skip + ChunkSize
    BY <1>1 DEF Step
  <2>5. ~(r.skip + ChunkSize >= Cardinality(q.filter.ip_in))
    BY <2>2, <2>3, <2>4
  <2> QED
    BY <1>1, <2>5 DEF LastPage
<1>2. CASE q.kind # "known"
  <2> DEFINE last == r.skip + q.limit - 1
             place == [row \in s.rows |-> Position(q, row[1])]
  <2>1. all \in SUBSET Ips /\ q.limit \in Nat \ {0} /\ Position(q, x) >= r.skip + q.limit
    BY <1>2, MatchingIps, QueryIs DEF Step
  <2>2. \A ip : Position(q, ip) = Earlier(q.kind, all, ip) /\ Position(q, ip) \in Nat
    BY <1>2, PositionType DEF Position, At
  <2> HIDE DEF all
  <2>3. Earlier(q.kind, all, x) < Cardinality(all) /\ Cardinality(all) \in Nat /\ IsFiniteSet(all)
    BY <2>1, EarlierBelow, AddressesAssumption, FS_Subset, FS_CardinalityType DEF all
  <2>4. \A k \in r.skip..last : k \in 0..(Cardinality(all) - 1)
    <3>1. Position(q, x) \in Nat /\ Position(q, x) < Cardinality(all)
      BY <2>2, <2>3
    <3> DEFINE n == Cardinality(all)
               p == Position(q, x)
    <3>2. p \in Nat /\ p < n /\ p >= r.skip + q.limit /\ n \in Nat /\ q.limit \in Nat
      BY <2>1, <2>3, <3>1
    <3> HIDE DEF n, p
    <3> QED
      BY <3>2 DEF n
  <2>5. \A k \in r.skip..last : \E ip \in all : Position(q, ip) = k
    <3> SUFFICES ASSUME NEW k \in r.skip..last
                 PROVE  \E ip \in all : Position(q, ip) = k
      OBVIOUS
    <3>1. k \in 0..(Cardinality(all) - 1)
      BY <2>4
    <3>2. \E ip \in all : Earlier(q.kind, all, ip) = k
      BY <2>1, <3>1, EveryOffset
    <3> QED
      BY <2>2, <3>2
  <2>6. PageOf(r) \subseteq all /\ \A ip \in all : Position(q, ip) \in r.skip..last => ip \in PageOf(r)
    <3>1. Step(r) = q.limit
      BY <1>2 DEF Step
    <3>2. /\ PageOf(r) \subseteq all
          /\ \A ip \in all : ip \in PageOf(r) <=> Position(q, ip) >= r.skip /\ Position(q, ip) < r.skip + q.limit
      BY <3>1, PageIs DEF all
    <3>3. \A p \in Nat : p \in r.skip..last => p >= r.skip /\ p < r.skip + q.limit
      BY <2>1
    <3> QED
      BY <2>2, <3>2, <3>3
  <2>7. \A ip \in PageOf(r) : Position(q, ip) \in r.skip..last
    <3>1. Step(r) = q.limit
      BY <1>2 DEF Step
    <3>2. \A ip \in PageOf(r) : Position(q, ip) >= r.skip /\ Position(q, ip) < r.skip + q.limit
      BY <3>1, <2>6, PageIs DEF all
    <3> QED
      BY <2>1, <2>2, <3>2
  <2>8. IsFiniteSet(s.rows)
    <3> DEFINE row == [ip \in PageOf(r) |-> <<ip, id[ip]>>]
    <3>1. row \in Surjection(PageOf(r), s.rows)
      BY DEF Surjection
    <3>2. IsFiniteSet(PageOf(r))
      BY <2>3, <2>6, FS_Subset
    <3> HIDE DEF row
    <3> QED
      BY <3>1, <3>2, FS_Surjection
  <2>9. place \in Surjection(s.rows, r.skip..last)
    <3>1. \A t \in s.rows : place[t] \in r.skip..last
      BY <2>7
    <3>2. \A k \in r.skip..last : \E t \in s.rows : place[t] = k
      <4> SUFFICES ASSUME NEW k \in r.skip..last
                   PROVE  \E t \in s.rows : place[t] = k
        OBVIOUS
      <4>1. PICK ip \in all : Position(q, ip) = k
        BY <2>5
      <4>2. <<ip, id[ip]>> \in s.rows /\ <<ip, id[ip]>>[1] = ip
        BY <2>6, <4>1
      <4> QED
        BY <4>1, <4>2
    <3> HIDE DEF last
    <3> QED
      BY <3>1, <3>2 DEF Surjection
  <2>10. Cardinality(r.skip..last) = q.limit
    <3>1. last \in Int /\ ~(r.skip > last) /\ last - r.skip + 1 = q.limit
      BY <2>1
    <3> HIDE DEF last
    <3> QED
      BY <3>1, FS_Interval
  <2> HIDE DEF place, last
  <2>11. Cardinality(r.skip..last) <= Cardinality(s.rows) /\ Cardinality(s.rows) \in Nat
    BY <2>8, <2>9, FS_Surjection, FS_CardinalityType
  <2>12. ~(Cardinality(s.rows) < q.limit)
    BY <2>1, <2>10, <2>11
  <2> QED
    BY <1>2, <2>12 DEF LastPage
<1> QED
  BY <1>1, <1>2

-----------------------------------------------------------------------------
(* The client.                                                             *)

(* s is r but for the fields F.                                            *)
SameBut(r, s, F) ==
  DOMAIN s = DOMAIN NoReader /\ \A f \in DOMAIN NoReader \ F : s[f] = r[f]

LEMMA ReaderFields ==
  DOMAIN NoReader = {"pc", "query", "skip", "total", "rows", "items", "told", "twice",
                     "always", "ever", "left", "joined", "quiet"}
BY DEF NoReader

(* What the query of the client finds.                                     *)
Now == Matching(reader.query.filter)

LEMMA NowType == Now \in SUBSET Ips
BY MatchingIps DEF Now

(* It finds the same until something is written.                           *)
LEMMA NowStays ==
  ASSUME UNCHANGED vars, reader'.query = reader.query
  PROVE  Now' = Now
BY DEF Now, Matching, MeetsHost, MeetsPorts, PortExists, vars

LEMMA NowBegins ==
  ASSUME NEW f, f = reader'.query.filter, UNCHANGED vars
  PROVE  Now' = Matching(f)
<1>1. Now' = Matching(f)'
  BY DEF Now, Matching, MeetsHost, MeetsPorts, PortExists
<1>2. Matching(f)' = Matching(f)
  BY DEF Matching, MeetsHost, MeetsPorts, PortExists, vars
<1> QED
  BY <1>1, <1>2

(* What each action does to the client.                                    *)
LEMMA AskMoves ==
  ASSUME NEW q, Ask(q)
  PROVE  /\ SameBut(NoReader, reader', {"pc", "query", "always", "ever"})
         /\ reader.pc = "idle" /\ reader'.pc \in {"page", "count"} /\ reader'.query = q
         /\ reader'.always = Now' /\ reader'.ever = Now' /\ UNCHANGED <<vars, id>>
<1> DEFINE now == Matching(q.filter)
           pc == IF q.kind = "list" THEN "page" ELSE "count"
<1>1. /\ reader' = [NoReader EXCEPT !.pc = pc, !.query = q, !.always = now, !.ever = now]
      /\ reader.pc = "idle" /\ UNCHANGED <<vars, id>>
  BY DEF Ask
<1>2. pc \in {"page", "count"}
  OBVIOUS
<1> HIDE DEF now, pc
<1>3. /\ SameBut(NoReader, reader', {"pc", "query", "always", "ever"})
      /\ reader'.pc = pc /\ reader'.query = q /\ reader'.always = now /\ reader'.ever = now
  BY <1>1, ReaderFields DEF SameBut
<1>4. Now' = now
  <2> DEFINE f == q.filter
  <2>1. f = reader'.query.filter
    BY <1>3
  <2> HIDE DEF f
  <2>2. Now' = Matching(f)
    BY <1>1, <2>1, NowBegins
  <2> QED
    BY <2>2 DEF f, now
<1> QED
  BY <1>1, <1>2, <1>3, <1>4

LEMMA CountMoves ==
  ASSUME DOMAIN reader = DOMAIN NoReader, Count
  PROVE  /\ SameBut(reader, reader', {"pc", "quiet", "total"})
         /\ reader.pc = "count" /\ reader'.pc = "page"
         /\ UNCHANGED <<vars, id>>
BY ReaderFields DEF Count, SameBut

LEMMA PageMoves ==
  ASSUME DOMAIN reader = DOMAIN NoReader, Page
  PROVE  /\ SameBut(reader, reader', {"pc", "rows"})
         /\ reader.pc = "page" /\ reader'.pc = "ports"
         /\ reader'.rows = {<<ip, id[ip]>> : ip \in PageOf(reader)}
         /\ UNCHANGED <<vars, id>>
<1> DEFINE rows == {<<ip, id[ip]>> : ip \in PageOf(reader)}
<1>1. /\ reader' = [reader EXCEPT !.pc = "ports", !.rows = rows] /\ reader.pc = "page"
      /\ UNCHANGED <<vars, id>>
  BY DEF Page, PageOf
<1> HIDE DEF rows
<1>2. SameBut(reader, reader', {"pc", "rows"}) /\ reader'.pc = "ports" /\ reader'.rows = rows
  BY <1>1, ReaderFields DEF SameBut
<1> QED
  BY <1>1, <1>2 DEF rows

LEMMA PortsMoves ==
  ASSUME DOMAIN reader = DOMAIN NoReader, Ports
  PROVE  /\ SameBut(reader, reader', {"pc", "items", "told", "twice"})
         /\ reader.pc = "ports" /\ reader'.pc = IF LastPage(reader) THEN "done" ELSE "next"
         /\ reader'.items = {Item(row) : row \in reader.rows}
         /\ reader'.told = reader.told \cup Shown(reader)
         /\ reader'.twice = reader.twice \cup (reader.told \cap Shown(reader))
         /\ UNCHANGED <<vars, id>>
<1> DEFINE items == {Item(row) : row \in reader.rows}
           pc == IF LastPage(reader) THEN "done" ELSE "next"
           shown == Shown(reader)
<1>1. /\ reader' = [reader EXCEPT !.pc = pc, !.items = items, !.told = @ \cup shown,
                                  !.twice = @ \cup (reader.told \cap shown)]
      /\ reader.pc = "ports" /\ UNCHANGED <<vars, id>>
  BY DEF Ports, Shown
<1> HIDE DEF items, pc, shown
<1>2. /\ SameBut(reader, reader', {"pc", "items", "told", "twice"}) /\ reader'.pc = pc
      /\ reader'.items = items /\ reader'.told = reader.told \cup shown
      /\ reader'.twice = reader.twice \cup (reader.told \cap shown)
  BY <1>1, ReaderFields DEF SameBut
<1> QED
  BY <1>1, <1>2 DEF items, pc, shown

LEMMA ContinueMoves ==
  ASSUME DOMAIN reader = DOMAIN NoReader, Continue
  PROVE  /\ SameBut(reader, reader', {"pc", "skip", "rows", "items"})
         /\ reader.pc = "next" /\ reader'.pc \in {"page", "count"}
         /\ reader'.skip = reader.skip + Step(reader) /\ reader'.rows = {}
         /\ UNCHANGED <<vars, id>>
<1> DEFINE step == Step(reader)
           pc == IF reader.query.kind = "list" THEN "page" ELSE "count"
<1>1. /\ reader' = [reader EXCEPT !.pc = pc, !.skip = @ + step, !.rows = {}, !.items = {}]
      /\ reader.pc = "next" /\ UNCHANGED <<vars, id>>
  BY DEF Continue
<1> HIDE DEF step, pc
<1>2. /\ SameBut(reader, reader', {"pc", "skip", "rows", "items"}) /\ reader'.pc = pc
      /\ reader'.skip = reader.skip + step /\ reader'.rows = {}
  BY <1>1, ReaderFields DEF SameBut
<1> QED
  BY <1>1, <1>2 DEF pc, step

LEMMA WriteMoves ==
  ASSUME DOMAIN reader = DOMAIN NoReader, Write
  PROVE  \/ reader.pc \in {"idle", "done"} /\ reader' = reader
         \/ /\ reader.pc \notin {"idle", "done"}
            /\ SameBut(reader, reader', {"always", "ever", "quiet", "left", "joined"})
            /\ reader'.always = reader.always \cap Now' /\ reader'.ever = reader.ever \cup Now'
            /\ reader'.left = reader.left \cup (Now \ Now')
            /\ reader'.joined = reader.joined \cup (Now' \ Now)
            /\ reader'.quiet = FALSE
<1>1. PICK f \in {reader.query.filter} : reader' = Watched(Matching(f)')
  BY DEF Write
<1> DEFINE before == Matching(reader.query.filter)
           now == Matching(f)'
<1>2. f = reader.query.filter
  OBVIOUS
<1> HIDE DEF before, now
<1>3. reader' = IF reader.pc \in {"idle", "done"} THEN reader
                ELSE [reader EXCEPT !.always = @ \cap now, !.ever = @ \cup now, !.quiet = FALSE,
                                    !.left = @ \cup (before \ now), !.joined = @ \cup (now \ before)]
  BY <1>1, <1>2 DEF Watched, before, now
<1>4. CASE reader.pc \in {"idle", "done"}
  BY <1>3, <1>4
<1>5. CASE reader.pc \notin {"idle", "done"}
  <2>1. /\ SameBut(reader, reader', {"always", "ever", "quiet", "left", "joined"})
        /\ reader'.always = reader.always \cap now /\ reader'.ever = reader.ever \cup now
        /\ reader'.left = reader.left \cup (before \ now)
        /\ reader'.joined = reader.joined \cup (now \ before)
        /\ reader'.quiet = FALSE
    BY <1>3, <1>5, ReaderFields DEF SameBut
  <2>2. reader'.query = reader.query
    BY <2>1, ReaderFields DEF SameBut
  <2>3. now = Now'
    BY <1>2, <2>2 DEF now, Now, Matching, MeetsHost, MeetsPorts, PortExists
  <2>4. before = Now
    BY DEF before, Now
  <2> QED
    BY <1>5, <2>1, <2>3, <2>4
<1> QED
  BY <1>4, <1>5

-----------------------------------------------------------------------------
(* The inductive invariant.                                                *)

(* Something that is ordered before an address has moved it.               *)
Excused(q, moved, ip) ==
  q.kind # "known" /\ \E j \in moved : Rank(q.kind)[j] < Rank(q.kind)[ip]

ReaderType(r) ==
  /\ DOMAIN r = DOMAIN NoReader
  /\ r.pc \in {"idle", "count", "page", "ports", "next", "done"}
  /\ r.pc # "idle" => r.query \in Queries /\ r.skip \in Nat
  /\ r.pc \in {"count", "page"} => r.rows = {}
  /\ r.pc \in {"next", "done"} => Shown(r) \subseteq r.told

(* What the client was told and, while it is under way, what is ahead of   *)
(* it (all is what its query finds now) and what it has left behind.       *)
ToldInv(r) ==
  /\ r.told \subseteq r.ever /\ (r.pc = "idle" => r.twice = {})
  /\ \A ip \in r.twice : Excused(r.query, r.joined, ip)
  /\ r.pc = "done" => \A ip \in r.always \ r.told : Excused(r.query, r.left, ip)

Ahead(r, all) ==
  \A ip \in r.always \ Given(r) :
    \/ Excused(r.query, r.left, ip)
    \/ At(r.query, all, ip) >= Reached(r) /\ (r.pc = "ports" => ~LastPage(r))

Behind(r, all) ==
  \A ip \in Given(r) : Excused(r.query, r.joined, ip) \/ At(r.query, all, ip) < Reached(r)

UnderWay(r, all) ==
  r.pc \notin {"idle", "done"} =>
    /\ r.always \subseteq all /\ all \subseteq r.ever /\ Given(r) \subseteq r.ever
    /\ Given(r) \subseteq Ips
    /\ Ahead(r, all) /\ Behind(r, all)
    /\ r.pc = "ports" => \A ip \in r.told \cap Shown(r) : Excused(r.query, r.joined, ip)

(* The rows of a page are still the same hosts.                            *)
ShownInv ==
  reader.pc = "ports" /\ reader.quiet =>
    \A row \in reader.rows : row[1] \in Now /\ id[row[1]] = row[2]

ClientInv == ReaderType(reader) /\ ToldInv(reader) /\ UnderWay(reader, Now)

SearchInv == ClientInv /\ ShownInv /\ AnswerShowsItsReason

(* A position among any addresses.                                         *)
LEMMA AtType ==
  ASSUME NEW q \in Queries, NEW all \in SUBSET Ips, NEW ip
  PROVE  At(q, all, ip) \in Nat
<1>1. CASE q.kind = "known"
  <2>1. q.filter.ip_in \in SUBSET Ips
    BY <1>1, QueryIs
  <2> QED
    BY <1>1, <2>1, PlaceIsEarlier, EarlierType DEF At
<1>2. CASE q.kind # "known"
  BY <1>2, EarlierType DEF At
<1> QED
  BY <1>1, <1>2

(* An address moves up only if one before it went, down only if one came.  *)
LEMMA AtMoves ==
  ASSUME NEW q \in Queries, NEW all \in SUBSET Ips, NEW more \in SUBSET Ips, NEW ip
  PROVE  At(q, all, ip) <= At(q, more, ip) \/ Excused(q, all \ more, ip)
<1>1. CASE q.kind = "known"
  BY <1>1, AtType DEF At
<1>2. CASE q.kind # "known" /\ \A x \in all : Before(q.kind, x, ip) => x \in more
  BY <1>2, EarlierGrows DEF At
<1>3. CASE q.kind # "known" /\ \E x \in all : Before(q.kind, x, ip) /\ x \notin more
  BY <1>3 DEF Excused, Before
<1> QED
  BY <1>1, <1>2, <1>3

LEMMA ReachedType ==
  ASSUME NEW r, r.query \in Queries, r.skip \in Nat
  PROVE  Reached(r) \in Nat
BY StepType DEF Reached

-----------------------------------------------------------------------------
(* A write.                                                                *)
Rewritten(r, s, all, now) ==
  /\ SameBut(r, s, {"always", "ever", "quiet", "left", "joined"})
  /\ s.always = r.always \cap now /\ s.ever = r.ever \cup now
  /\ s.left = r.left \cup (all \ now) /\ s.joined = r.joined \cup (now \ all)

LEMMA RewrittenSame ==
  ASSUME NEW r, NEW s, NEW all, NEW now, Rewritten(r, s, all, now)
  PROVE  /\ s.pc = r.pc /\ s.query = r.query /\ s.skip = r.skip /\ s.rows = r.rows
         /\ s.told = r.told /\ s.twice = r.twice /\ s.items = r.items
         /\ Shown(s) = Shown(r) /\ Given(s) = Given(r) /\ Reached(s) = Reached(r)
         /\ LastPage(s) = LastPage(r)
<1>1. /\ s.pc = r.pc /\ s.query = r.query /\ s.skip = r.skip /\ s.rows = r.rows
      /\ s.told = r.told /\ s.twice = r.twice /\ s.items = r.items
  BY ReaderFields DEF Rewritten, SameBut
<1> QED
  BY <1>1 DEF Shown, Given, Reached, LastPage, Step

(* A write in between: what it moves has its excuse in left or joined.     *)
LEMMA WriteKeeps ==
  ASSUME NEW r, NEW s, NEW all \in SUBSET Ips, NEW now \in SUBSET Ips,
         r.pc \notin {"idle", "done"}, Rewritten(r, s, all, now),
         ReaderType(r), ToldInv(r), UnderWay(r, all)
  PROVE  ReaderType(s) /\ ToldInv(s) /\ UnderWay(s, now)
<1>1. /\ s.pc = r.pc /\ s.query = r.query /\ s.skip = r.skip /\ s.rows = r.rows
      /\ s.told = r.told /\ s.twice = r.twice /\ Shown(s) = Shown(r)
      /\ Given(s) = Given(r) /\ Reached(s) = Reached(r) /\ LastPage(s) = LastPage(r)
  BY RewrittenSame
<1>2. ReaderType(s)
  <2>1. DOMAIN s = DOMAIN NoReader
    BY DEF Rewritten, SameBut
  <2> QED
    BY <1>1, <2>1 DEF ReaderType
<1>3. /\ r.query \in Queries /\ r.skip \in Nat /\ Reached(r) \in Nat
  BY ReachedType DEF ReaderType
<1>4. \A ip : Excused(r.query, r.left, ip) => Excused(r.query, s.left, ip)
  BY DEF Excused, Rewritten
<1>5. \A ip : Excused(r.query, r.joined, ip) => Excused(r.query, s.joined, ip)
  BY DEF Excused, Rewritten
<1>6. ToldInv(s)
  BY <1>1, <1>5 DEF ToldInv, Rewritten
<1>7. Ahead(s, now)
  <2> SUFFICES ASSUME NEW ip \in s.always \ Given(s)
               PROVE  \/ Excused(s.query, s.left, ip)
                      \/ At(s.query, now, ip) >= Reached(s) /\ (s.pc = "ports" => ~LastPage(s))
    BY DEF Ahead
  <2>1. \/ Excused(r.query, r.left, ip)
        \/ At(r.query, all, ip) >= Reached(r) /\ (r.pc = "ports" => ~LastPage(r))
    BY <1>1 DEF UnderWay, Ahead, Rewritten
  <2>2. At(r.query, all, ip) <= At(r.query, now, ip) \/ Excused(r.query, all \ now, ip)
    BY <1>3, AtMoves
  <2>3. Excused(r.query, all \ now, ip) => Excused(r.query, s.left, ip)
    BY DEF Excused, Rewritten
  <2>4. At(r.query, all, ip) \in Nat /\ At(r.query, now, ip) \in Nat
    BY <1>3, AtType
  <2> QED
    BY <1>1, <1>3, <1>4, <2>1, <2>2, <2>3, <2>4
<1>8. Behind(s, now)
  <2> SUFFICES ASSUME NEW ip \in Given(s)
               PROVE  Excused(s.query, s.joined, ip) \/ At(s.query, now, ip) < Reached(s)
    BY DEF Behind
  <2>1. Excused(r.query, r.joined, ip) \/ At(r.query, all, ip) < Reached(r)
    BY <1>1 DEF UnderWay, Behind
  <2>2. At(r.query, now, ip) <= At(r.query, all, ip) \/ Excused(r.query, now \ all, ip)
    BY <1>3, AtMoves
  <2>3. Excused(r.query, now \ all, ip) => Excused(r.query, s.joined, ip)
    BY DEF Excused, Rewritten
  <2>4. At(r.query, all, ip) \in Nat /\ At(r.query, now, ip) \in Nat
    BY <1>3, AtType
  <2> QED
    BY <1>1, <1>3, <1>5, <2>1, <2>2, <2>3, <2>4
<1>9. UnderWay(s, now)
  <2>1. s.always \subseteq now /\ now \subseteq s.ever /\ Given(s) \subseteq s.ever /\ Given(s) \subseteq Ips
    BY <1>1 DEF UnderWay, Rewritten
  <2>2. s.pc = "ports" => \A ip \in s.told \cap Shown(s) : Excused(s.query, s.joined, ip)
    BY <1>1, <1>5 DEF UnderWay
  <2> QED
    BY <1>7, <1>8, <2>1, <2>2 DEF UnderWay
<1> QED
  BY <1>2, <1>6, <1>9

-----------------------------------------------------------------------------
(* A step of the client.                                                   *)
LEMMA AskKeeps ==
  ASSUME NEW s, NEW all \in SUBSET Ips, s.query \in Queries,
         SameBut(NoReader, s, {"pc", "query", "always", "ever"}),
         s.pc \in {"page", "count"}, s.always = all, s.ever = all
  PROVE  ReaderType(s) /\ ToldInv(s) /\ UnderWay(s, all)
<1>1. /\ s.skip = 0 /\ s.rows = {} /\ s.told = {} /\ s.twice = {} /\ DOMAIN s = DOMAIN NoReader
  BY ReaderFields DEF SameBut, NoReader
<1>2. Shown(s) = {} /\ Given(s) = {} /\ Reached(s) = 0
  BY <1>1 DEF Shown, Given, Reached
<1>3. Ahead(s, all) /\ Behind(s, all)
  <2>1. \A ip : At(s.query, all, ip) >= 0
    BY AtType
  <2> QED
    BY <1>2, <2>1 DEF Ahead, Behind
<1> QED
  BY <1>1, <1>2, <1>3 DEF ReaderType, ToldInv, UnderWay

LEMMA CountKeeps ==
  ASSUME NEW r, NEW s, NEW all \in SUBSET Ips, r.pc = "count", s.pc = "page",
         SameBut(r, s, {"pc", "quiet", "total"}),
         ReaderType(r), ToldInv(r), UnderWay(r, all)
  PROVE  ReaderType(s) /\ ToldInv(s) /\ UnderWay(s, all)
<1>1. /\ s.query = r.query /\ s.skip = r.skip /\ s.rows = r.rows /\ s.told = r.told
      /\ s.twice = r.twice /\ s.always = r.always /\ s.ever = r.ever /\ s.left = r.left
      /\ s.joined = r.joined /\ DOMAIN s = DOMAIN NoReader
  BY ReaderFields DEF SameBut
<1>2. Shown(s) = Shown(r) /\ Given(s) = Given(r) /\ Reached(s) = Reached(r)
  BY <1>1 DEF Shown, Given, Reached
<1> QED
  BY <1>1, <1>2 DEF ReaderType, ToldInv, UnderWay, Ahead, Behind

LEMMA ContinueKeeps ==
  ASSUME NEW r, NEW s, NEW all \in SUBSET Ips, r.pc = "next", s.pc \in {"page", "count"},
         SameBut(r, s, {"pc", "skip", "rows", "items"}), s.rows = {}, s.skip = r.skip + Step(r),
         ReaderType(r), ToldInv(r), UnderWay(r, all)
  PROVE  ReaderType(s) /\ ToldInv(s) /\ UnderWay(s, all)
<1>1. /\ s.query = r.query /\ s.told = r.told /\ s.twice = r.twice /\ s.always = r.always
      /\ s.ever = r.ever /\ s.left = r.left /\ s.joined = r.joined /\ DOMAIN s = DOMAIN NoReader
  BY ReaderFields DEF SameBut
<1>2. Shown(s) = {} /\ Given(s) = Given(r) /\ Reached(s) = Reached(r)
  BY <1>1 DEF Shown, Given, Reached, ReaderType
<1>3. s.skip \in Nat
  <2>1. r.query \in Queries /\ r.skip \in Nat
    BY DEF ReaderType
  <2> QED
    BY <2>1, StepType
<1> QED
  BY <1>1, <1>2, <1>3 DEF ReaderType, ToldInv, UnderWay, Ahead, Behind

LEMMA PortsKeeps ==
  ASSUME NEW r, NEW s, NEW all \in SUBSET Ips, r.pc = "ports",
         s.pc = IF LastPage(r) THEN "done" ELSE "next",
         SameBut(r, s, {"pc", "items", "told", "twice"}),
         s.told = r.told \cup Shown(r), s.twice = r.twice \cup (r.told \cap Shown(r)),
         ReaderType(r), ToldInv(r), UnderWay(r, all)
  PROVE  ReaderType(s) /\ ToldInv(s) /\ UnderWay(s, all)
<1>1. /\ s.query = r.query /\ s.skip = r.skip /\ s.rows = r.rows /\ s.always = r.always
      /\ s.ever = r.ever /\ s.left = r.left /\ s.joined = r.joined /\ DOMAIN s = DOMAIN NoReader
  BY ReaderFields DEF SameBut
<1>2. Shown(s) = Shown(r) /\ s.told = Given(r) /\ Given(s) = Given(r) /\ Reached(s) = Reached(r)
  <2>1. s.pc \in {"next", "done"} /\ Step(s) = Step(r)
    BY <1>1 DEF Step
  <2> QED
    BY <1>1, <2>1 DEF Shown, Given, Reached
<1>3. ReaderType(s)
  BY <1>1, <1>2 DEF ReaderType
<1>4. ToldInv(s)
  <2>1. s.told \subseteq s.ever
    BY <1>1, <1>2 DEF UnderWay
  <2>2. \A ip \in s.twice : Excused(s.query, s.joined, ip)
    BY <1>1 DEF UnderWay, ToldInv
  <2>3. s.pc = "done" => \A ip \in s.always \ s.told : Excused(s.query, s.left, ip)
    BY <1>1, <1>2 DEF UnderWay, Ahead
  <2> QED
    BY <2>1, <2>2, <2>3 DEF ToldInv
<1>5. UnderWay(s, all)
  BY <1>1, <1>2 DEF UnderWay, Ahead, Behind
<1> QED
  BY <1>3, <1>4, <1>5

(* A page tells all that is between its positions and nothing else.        *)
LEMMA PageKeeps ==
  ASSUME NEW r, NEW s, r.pc = "page", s.pc = "ports", SameBut(r, s, {"pc", "rows"}),
         s.rows = {<<ip, id[ip]>> : ip \in PageOf(r)},
         ReaderType(r), ToldInv(r), UnderWay(r, Matching(r.query.filter))
  PROVE  ReaderType(s) /\ ToldInv(s) /\ UnderWay(s, Matching(r.query.filter))
<1> DEFINE all == Matching(r.query.filter)
           q == r.query
<1>1. /\ s.query = r.query /\ s.skip = r.skip /\ s.told = r.told /\ s.twice = r.twice
      /\ s.always = r.always /\ s.ever = r.ever /\ s.left = r.left /\ s.joined = r.joined
      /\ DOMAIN s = DOMAIN NoReader
  BY ReaderFields DEF SameBut
<1>2. Shown(s) = PageOf(r)
  <2> DEFINE page == PageOf(r)
  <2>1. s.rows = {<<ip, id[ip]>> : ip \in page}
    OBVIOUS
  <2> HIDE DEF page
  <2>2. ASSUME NEW row \in s.rows
        PROVE  row[1] \in page
    <3>1. PICK ip \in page : row = <<ip, id[ip]>>
      BY <2>1
    <3> QED
      BY <3>1
  <2>3. ASSUME NEW ip \in page
        PROVE  \E row \in s.rows : row[1] = ip
    <3>1. <<ip, id[ip]>> \in s.rows
      BY <2>1
    <3>2. <<ip, id[ip]>>[1] = ip
      OBVIOUS
    <3> QED
      BY <3>1, <3>2
  <2>4. \A ip : ip \in Shown(s) <=> ip \in page
    BY <2>2, <2>3 DEF Shown
  <2> QED
    BY <2>4 DEF page
<1>3. /\ q \in Queries /\ r.skip \in Nat /\ r.rows = {} /\ all \in SUBSET Ips
  BY MatchingIps DEF ReaderType
<1>4. /\ PageOf(r) \subseteq all
      /\ \A ip \in all : ip \in PageOf(r) <=> At(q, all, ip) >= r.skip /\ At(q, all, ip) < r.skip + Step(r)
  BY <1>3, PageIs DEF Position
<1>5. /\ Given(r) = r.told /\ Reached(r) = r.skip
      /\ Given(s) = r.told \cup PageOf(r) /\ Reached(s) = r.skip + Step(r)
  <2>1. Step(s) = Step(r)
    BY <1>1 DEF Step
  <2> QED
    BY <1>1, <1>2, <1>3, <2>1 DEF Given, Shown, Reached
<1>6. Step(r) \in Nat \ {0}
  BY <1>3, StepType
<1>7. \A x \in all : At(q, all, x) >= r.skip + Step(r) => ~LastPage(s)
  BY <1>1, <1>3, NotTheLast DEF Position
<1> HIDE DEF all, q
<1>8. UnderWay(r, all) /\ q = r.query
  BY DEF all, q
<1>9. Ahead(s, all)
  <2> SUFFICES ASSUME NEW ip \in s.always \ Given(s)
               PROVE  \/ Excused(s.query, s.left, ip)
                      \/ At(s.query, all, ip) >= Reached(s) /\ (s.pc = "ports" => ~LastPage(s))
    BY DEF Ahead
  <2>1. Excused(q, r.left, ip) \/ At(q, all, ip) >= r.skip
    BY <1>1, <1>5, <1>8 DEF UnderWay, Ahead
  <2>2. ip \in all /\ ip \notin PageOf(r)
    BY <1>1, <1>5, <1>8 DEF UnderWay
  <2>3. At(q, all, ip) \in Nat
    BY <1>3, AtType
  <2>4. At(q, all, ip) >= r.skip => At(q, all, ip) >= r.skip + Step(r)
    BY <1>3, <1>4, <1>6, <2>2, <2>3
  <2> QED
    BY <1>1, <1>5, <1>7, <1>8, <2>1, <2>2, <2>4
<1>10. Behind(s, all)
  <2> SUFFICES ASSUME NEW ip \in Given(s)
               PROVE  Excused(s.query, s.joined, ip) \/ At(s.query, all, ip) < Reached(s)
    BY DEF Behind
  <2>1. CASE ip \in PageOf(r)
    BY <1>1, <1>4, <1>5, <1>8, <2>1
  <2>2. CASE ip \in r.told
    <3>1. Excused(q, r.joined, ip) \/ At(q, all, ip) < r.skip
      BY <1>5, <1>8, <2>2 DEF UnderWay, Behind
    <3>2. At(q, all, ip) < r.skip => At(q, all, ip) < r.skip + Step(r)
      BY <1>3, <1>6, AtType
    <3> QED
      BY <1>1, <1>5, <1>8, <3>1, <3>2
  <2> QED
    BY <1>5, <2>1, <2>2
<1>11. \A ip \in s.told \cap Shown(s) : Excused(s.query, s.joined, ip)
  <2> SUFFICES ASSUME NEW ip \in r.told, ip \in PageOf(r)
               PROVE  Excused(q, r.joined, ip)
    BY <1>1, <1>2, <1>8
  <2>1. Excused(q, r.joined, ip) \/ At(q, all, ip) < r.skip
    BY <1>5, <1>8 DEF UnderWay, Behind
  <2>2. At(q, all, ip) >= r.skip /\ At(q, all, ip) \in Nat
    BY <1>3, <1>4, AtType
  <2> QED
    BY <1>3, <2>1, <2>2
<1>12. UnderWay(s, all)
  <2>1. /\ s.always \subseteq all /\ all \subseteq s.ever /\ Given(s) \subseteq s.ever
        /\ Given(s) \subseteq Ips
    BY <1>1, <1>3, <1>4, <1>5, <1>8 DEF UnderWay
  <2> QED
    BY <1>9, <1>10, <1>11, <2>1 DEF UnderWay
<1> QED
  BY <1>1, <1>12 DEF ReaderType, ToldInv, all

-----------------------------------------------------------------------------
(* The answer.                                                             *)
Reasoned(item, groups) ==
  /\ \A c \in groups.all_of : Witnessed(item, c)
  /\ groups.any_of # {} => \E c \in groups.any_of : Witnessed(item, c)
  /\ groups.all_of \cup groups.any_of # {} /\ (\A c \in groups.any_of : Conditions(c) # {})
       => DOMAIN item.ports # {}

(* An address that matches comes with the ports that made it match.        *)
LEMMA ItemReasoned ==
  ASSUME NEW row, row[1] \in Now, id[row[1]] = row[2], reader.query.matched_ports_only,
         Set(reader.query.filter, "ports")
  PROVE  Reasoned(Item(row), reader.query.filter.ports)
<1> DEFINE f == reader.query.filter
           s == stored[row[1]]
           all == f.ports.all_of
           any == f.ports.any_of
           clauses == {c \in all \cup any : Conditions(c) # {}}
           item == Item(row)
<1>1. /\ \A c \in all : PortExists(s, c)
      /\ any # {} => \E c \in any : PortExists(s, c)
  <2>1. MeetsPorts(row[1], f)
    BY DEF Now, Matching
  <2> QED
    BY <2>1 DEF MeetsPorts
<1>2. item.ports = [k \in {key \in DOMAIN s.ports : Returned(key, s.ports[key], clauses)} |-> s.ports[k]]
  BY DEF Item, MatchedPortFilter
<1> HIDE DEF item, s, all, any
<1>3. \A k \in DOMAIN s.ports :
        Returned(k, s.ports[k], clauses) => k \in DOMAIN item.ports /\ item.ports[k] = s.ports[k]
  BY <1>2
<1>4. \A c \in all \cup any : PortExists(s, c) => Witnessed(item, c)
  <2> SUFFICES ASSUME NEW c \in all \cup any, PortExists(s, c), Conditions(c) # {}
               PROVE  \E k \in DOMAIN item.ports : MeetsClause(k, item.ports[k], c)
    BY DEF Witnessed
  <2>1. PICK k \in DOMAIN s.ports : MeetsClause(k, s.ports[k], c)
    BY DEF PortExists
  <2>2. Returned(k, s.ports[k], clauses)
    BY <2>1 DEF Returned
  <2> QED
    BY <1>3, <2>1, <2>2
<1>5. ASSUME all \cup any # {}, \A c \in any : Conditions(c) # {}
      PROVE  DOMAIN item.ports # {}
  <2>1. PICK c \in all \cup any : PortExists(s, c) /\ (Conditions(c) # {} \/ clauses = {})
    BY <1>1, <1>5
  <2>2. CASE Conditions(c) # {}
    BY <1>4, <2>1, <2>2 DEF Witnessed
  <2>3. CASE clauses = {}
    <3>1. PICK k \in DOMAIN s.ports : MeetsClause(k, s.ports[k], c)
      BY <2>1 DEF PortExists
    <3> QED
      BY <1>3, <2>3, <3>1 DEF Returned
  <2> QED
    BY <2>1, <2>2, <2>3
<1> QED
  BY <1>1, <1>4, <1>5 DEF Reasoned, item, all, any, f

-----------------------------------------------------------------------------
(* Every step keeps the invariant.                                         *)

LEMMA SearchInvInit == SearchInit => SearchInv
<1> SUFFICES ASSUME SearchInit PROVE SearchInv
  OBVIOUS
<1>1. reader = NoReader
  BY DEF SearchInit
<1>2. /\ reader.pc = "idle" /\ reader.told = {} /\ reader.twice = {} /\ DOMAIN reader = DOMAIN NoReader
  BY <1>1 DEF NoReader
<1> QED
  BY <1>2 DEF SearchInv, ClientInv, ShownInv, AnswerShowsItsReason, ReaderType, ToldInv, UnderWay

LEMMA AskStep ==
  ASSUME SearchInv, NEW q \in Queries, Ask(q)
  PROVE  SearchInv'
<1>1. /\ SameBut(NoReader, reader', {"pc", "query", "always", "ever"})
      /\ reader'.pc \in {"page", "count"} /\ reader'.query \in Queries
      /\ reader'.always = Now' /\ reader'.ever = Now'
  BY AskMoves
<1>2. Now' \in SUBSET Ips
  BY DEF Now, Matching
<1> DEFINE s == reader'
           all == Now'
<1> HIDE DEF s, all
<1>3. ReaderType(s) /\ ToldInv(s) /\ UnderWay(s, all)
  BY <1>1, <1>2, AskKeeps DEF s, all
<1>4. ClientInv'
  BY <1>3 DEF ClientInv, s, all
<1> QED
  BY <1>1, <1>4 DEF SearchInv, ShownInv, AnswerShowsItsReason

LEMMA CountStep ==
  ASSUME SearchInv, Count
  PROVE  SearchInv'
<1>1. /\ SameBut(reader, reader', {"pc", "quiet", "total"})
      /\ reader.pc = "count" /\ reader'.pc = "page" /\ UNCHANGED <<vars, id>>
  BY CountMoves DEF SearchInv, ClientInv, ReaderType
<1>2. reader'.query = reader.query
  BY <1>1, ReaderFields DEF SameBut
<1>3. Now' = Now
  BY <1>1, <1>2, NowStays
<1> DEFINE s == reader'
           all == Now
<1> HIDE DEF s, all
<1>4. ReaderType(s) /\ ToldInv(s) /\ UnderWay(s, all)
  BY <1>1, NowType, CountKeeps DEF SearchInv, ClientInv, s, all
<1>5. ClientInv'
  BY <1>3, <1>4 DEF ClientInv, s, all
<1> QED
  BY <1>1, <1>5 DEF SearchInv, ShownInv, AnswerShowsItsReason

LEMMA ContinueStep ==
  ASSUME SearchInv, Continue
  PROVE  SearchInv'
<1>1. /\ SameBut(reader, reader', {"pc", "skip", "rows", "items"})
      /\ reader.pc = "next" /\ reader'.pc \in {"page", "count"}
      /\ reader'.skip = reader.skip + Step(reader) /\ reader'.rows = {}
      /\ UNCHANGED <<vars, id>>
  BY ContinueMoves DEF SearchInv, ClientInv, ReaderType
<1>2. reader'.query = reader.query
  BY <1>1, ReaderFields DEF SameBut
<1>3. Now' = Now
  BY <1>1, <1>2, NowStays
<1> DEFINE s == reader'
           all == Now
<1> HIDE DEF s, all
<1>4. ReaderType(s) /\ ToldInv(s) /\ UnderWay(s, all)
  BY <1>1, NowType, ContinueKeeps DEF SearchInv, ClientInv, s, all
<1>5. ClientInv'
  BY <1>3, <1>4 DEF ClientInv, s, all
<1> QED
  BY <1>1, <1>5 DEF SearchInv, ShownInv, AnswerShowsItsReason

LEMMA PageStep ==
  ASSUME SearchInv, Page
  PROVE  SearchInv'
<1>1. /\ SameBut(reader, reader', {"pc", "rows"})
      /\ reader.pc = "page" /\ reader'.pc = "ports"
      /\ reader'.rows = {<<ip, id[ip]>> : ip \in PageOf(reader)}
      /\ UNCHANGED <<vars, id>>
  BY PageMoves DEF SearchInv, ClientInv, ReaderType
<1>2. reader'.query = reader.query
  BY <1>1, ReaderFields DEF SameBut
<1>3. Now' = Now
  BY <1>1, <1>2, NowStays
<1> DEFINE s == reader'
<1> HIDE DEF s
<1>4. ReaderType(s) /\ ToldInv(s) /\ UnderWay(s, Matching(reader.query.filter))
  BY <1>1, PageKeeps DEF SearchInv, ClientInv, Now, s
<1>5. ClientInv'
  <2>1. ReaderType(s) /\ ToldInv(s) /\ UnderWay(s, Now)
    BY <1>4 DEF Now
  <2> QED
    BY <1>3, <2>1 DEF ClientInv, s
<1>6. ShownInv'
  <2>1. PageOf(reader) \subseteq Now
    BY <1>1, PageIs DEF SearchInv, ClientInv, ReaderType, Now
  <2> SUFFICES ASSUME NEW row \in reader'.rows
               PROVE  row[1] \in Now' /\ id'[row[1]] = row[2]
    BY DEF ShownInv
  <2>2. PICK ip \in PageOf(reader) : row = <<ip, id[ip]>>
    BY <1>1
  <2>3. row[1] = ip /\ row[2] = id[ip]
    BY <2>2
  <2>4. row[1] \in Now /\ id[row[1]] = row[2]
    BY <2>1, <2>2, <2>3
  <2> QED
    BY <1>1, <1>3, <2>4
<1> QED
  BY <1>1, <1>5, <1>6 DEF SearchInv, AnswerShowsItsReason

LEMMA PortsStep ==
  ASSUME SearchInv, Ports
  PROVE  SearchInv'
<1>1. /\ SameBut(reader, reader', {"pc", "items", "told", "twice"})
      /\ reader.pc = "ports" /\ reader'.pc = IF LastPage(reader) THEN "done" ELSE "next"
      /\ reader'.items = {Item(row) : row \in reader.rows}
      /\ reader'.told = reader.told \cup Shown(reader)
      /\ reader'.twice = reader.twice \cup (reader.told \cap Shown(reader))
      /\ UNCHANGED <<vars, id>>
  BY PortsMoves DEF SearchInv, ClientInv, ReaderType
<1>2. reader'.query = reader.query /\ reader'.quiet = reader.quiet
  BY <1>1, ReaderFields DEF SameBut
<1>3. Now' = Now
  BY <1>1, <1>2, NowStays
<1> DEFINE s == reader'
           all == Now
<1> HIDE DEF s, all
<1>4. ReaderType(s) /\ ToldInv(s) /\ UnderWay(s, all)
  BY <1>1, NowType, PortsKeeps DEF SearchInv, ClientInv, s, all
<1>5. ClientInv'
  BY <1>3, <1>4 DEF ClientInv, s, all
<1>6. AnswerShowsItsReason'
  <2> SUFFICES ASSUME reader.quiet, reader.query.matched_ports_only, Set(reader.query.filter, "ports"),
                      NEW item \in reader'.items
               PROVE  Reasoned(item, reader.query.filter.ports)
    BY <1>2 DEF AnswerShowsItsReason, Reasoned
  <2>1. PICK row \in reader.rows : item = Item(row)
    BY <1>1
  <2>2. row[1] \in Now /\ id[row[1]] = row[2]
    BY <1>1 DEF SearchInv, ShownInv
  <2> QED
    BY <2>1, <2>2, ItemReasoned
<1> QED
  BY <1>1, <1>5, <1>6 DEF SearchInv, ShownInv

LEMMA WriteStep ==
  ASSUME SearchInv, Write
  PROVE  SearchInv'
<1>1. CASE reader.pc \in {"idle", "done"} /\ reader' = reader
  <2>1. ClientInv'
    BY <1>1 DEF SearchInv, ClientInv, UnderWay
  <2>2. AnswerShowsItsReason'
    BY <1>1 DEF SearchInv, AnswerShowsItsReason
  <2> QED
    BY <1>1, <2>1, <2>2 DEF SearchInv, ShownInv
<1>2. CASE /\ reader.pc \notin {"idle", "done"} /\ Rewritten(reader, reader', Now, Now')
           /\ reader'.quiet = FALSE
  <2> DEFINE s == reader'
             all == Now
             now == Now'
  <2>1. all \in SUBSET Ips /\ now \in SUBSET Ips
    BY DEF Now, Matching
  <2> HIDE DEF s, all, now
  <2>2. ReaderType(s) /\ ToldInv(s) /\ UnderWay(s, now)
    BY <1>2, <2>1, WriteKeeps DEF SearchInv, ClientInv, s, all, now
  <2>3. ClientInv'
    BY <2>2 DEF ClientInv, s, now
  <2> QED
    BY <1>2, <2>3 DEF SearchInv, ShownInv, AnswerShowsItsReason
<1>3. DOMAIN reader = DOMAIN NoReader
  BY DEF SearchInv, ClientInv, ReaderType
<1> QED
  BY <1>1, <1>2, <1>3, WriteMoves DEF Rewritten

LEMMA SearchInvStep == SearchInv /\ [SearchNext]_allVars => SearchInv'
<1> SUFFICES ASSUME SearchInv, [SearchNext]_allVars PROVE SearchInv'
  OBVIOUS
<1>1. CASE UNCHANGED allVars
  <2>1. UNCHANGED <<vars, id, reader>>
    BY <1>1 DEF allVars
  <2>2. Now' = Now
    BY <2>1, NowStays
  <2>3. ClientInv'
    BY <2>1, <2>2 DEF SearchInv, ClientInv
  <2> QED
    BY <2>1, <2>2, <2>3 DEF SearchInv, ShownInv, AnswerShowsItsReason
<1> QED
  BY <1>1, WriteStep, AskStep, CountStep, PageStep, PortsStep, ContinueStep DEF SearchNext

LEMMA SearchInvHolds == SearchSpec => []SearchInv
<1> QED
  BY SearchInvInit, SearchInvStep, PTL DEF SearchSpec

(* Whatever is written between the statements of a client and whatever it  *)
(* asks, a host that matches throughout is missed only if one before it    *)
(* left, and by tasker's known check never (search_ips, list_ips,          *)
(* ScanledgerClient.search_ips).                                           *)
THEOREM NothingMissed == SearchSpec => []NothingIsMissed
<1>1. SearchInv => NothingIsMissed
  <2> SUFFICES ASSUME SearchInv, reader.pc = "done", NEW ip \in reader.always \ reader.told
               PROVE  Paging /\ \E l \in reader.left : Rank(reader.query.kind)[l] < Rank(reader.query.kind)[ip]
    BY DEF NothingIsMissed
  <2>1. Excused(reader.query, reader.left, ip)
    BY DEF SearchInv, ClientInv, ToldInv
  <2>2. reader.query.kind \in {"search", "list", "known"}
    BY QueryIs DEF SearchInv, ClientInv, ReaderType
  <2> QED
    BY <2>1, <2>2 DEF Excused, Paging
<1> QED
  BY <1>1, SearchInvHolds, PTL

(* A host is told twice only if one before it came, by the known check     *)
(* never, and no host is told that matched at no time (search_ips,         *)
(* list_ips, ScanledgerClient.search_ips).                                 *)
THEOREM NothingRepeated == SearchSpec => []NothingIsRepeated
<1>1. SearchInv => NothingIsRepeated
  <2> SUFFICES ASSUME SearchInv PROVE NothingIsRepeated
    OBVIOUS
  <2>1. ASSUME NEW ip \in reader.twice
        PROVE  Paging /\ \E j \in reader.joined : Rank(reader.query.kind)[j] < Rank(reader.query.kind)[ip]
    <3>1. Excused(reader.query, reader.joined, ip)
      BY DEF SearchInv, ClientInv, ToldInv
    <3>2. reader.query.kind \in {"search", "list", "known"}
      <4>1. reader.pc # "idle"
        BY DEF SearchInv, ClientInv, ToldInv
      <4> QED
        BY <4>1, QueryIs DEF SearchInv, ClientInv, ReaderType
    <3> QED
      BY <3>1, <3>2 DEF Excused, Paging
  <2>2. reader.told \subseteq reader.ever
    BY DEF SearchInv, ClientInv, ToldInv
  <2> QED
    BY <2>1, <2>2 DEF NothingIsRepeated
<1> QED
  BY <1>1, SearchInvHolds, PTL

(* With matched_ports_only and no write in between, the ports of a host    *)
(* show why it is in the answer, whatever the clauses                      *)
(* (build_search_conditions, matched_port_filter, _load_ports).            *)
THEOREM AnswersReasoned == SearchSpec => []AnswerShowsItsReason
<1>1. SearchInv => AnswerShowsItsReason
  BY DEF SearchInv
<1> QED
  BY <1>1, SearchInvHolds, PTL

-----------------------------------------------------------------------------
(* A filter with one more port clause.                                     *)
Groups(f) == IF Set(f, "ports") THEN f.ports ELSE [all_of |-> {}, any_of |-> {}, none_of |-> {}]

Extended(groups, group, clause) == [groups EXCEPT ![group] = @ \cup {clause}]

IsGroups(g) == g = [all_of |-> g.all_of, any_of |-> g.any_of, none_of |-> g.none_of]

(* A filter has all three groups.                                          *)
LEMMA GroupsIs ==
  ASSUME NEW q \in Queries
  PROVE  IsGroups(Groups(q.filter))
BY QueriesAssumption DEF Groups, IsGroups, Set

(* One more port clause asks nothing else of the host.                     *)
LEMMA WithHost ==
  ASSUME NEW f, NEW group, NEW clause, NEW ip
  PROVE  MeetsHost(ip, With(f, group, clause)) <=> MeetsHost(ip, f)
<1> DEFINE g == With(f, group, clause)
<1>1. \A x \in {"cidr", "ip_in", "os_ilike", "first_seen_gte", "first_seen_lt", "last_seen_gte",
                "last_seen_lt", "has_hostname", "hostname_ilike_any"} :
        (x \in DOMAIN g <=> x \in DOMAIN f) /\ (x \in DOMAIN f => g[x] = f[x])
  BY DEF With
<1> HIDE DEF g
<1>2. MeetsHost(ip, g) <=> MeetsHost(ip, f)
  BY <1>1 DEF MeetsHost, Set
<1> QED
  BY <1>2 DEF g

LEMMA WithGroups ==
  ASSUME NEW f, NEW group, NEW clause
  PROVE  /\ Set(With(f, group, clause), "ports")
         /\ With(f, group, clause).ports = Extended(Groups(f), group, clause)
<1> DEFINE g == Extended(Groups(f), group, clause)
<1>1. With(f, group, clause) = [x \in DOMAIN f \cup {"ports"} |-> IF x = "ports" THEN g ELSE f[x]]
  BY DEF With, Groups, Extended
<1> HIDE DEF g
<1>2. Set(With(f, group, clause), "ports") /\ With(f, group, clause).ports = g
  BY <1>1 DEF Set
<1> QED
  BY <1>2 DEF g

MeetsGroups(ip, g) ==
  /\ \A c \in g.all_of : PortExists(stored[ip], c)
  /\ \A c \in g.none_of : ~PortExists(stored[ip], c)
  /\ g.any_of # {} => \E c \in g.any_of : PortExists(stored[ip], c)

LEMMA GroupsMet ==
  ASSUME NEW f, NEW ip
  PROVE  MeetsPorts(ip, f) <=> MeetsGroups(ip, Groups(f))
BY DEF MeetsPorts, MeetsGroups, Groups

(* One more clause in all_of, and in none_of.                              *)
LEMMA WithAll ==
  ASSUME NEW q \in Queries, NEW clause
  PROVE  Matching(With(q.filter, "all_of", clause))
           = {ip \in Matching(q.filter) : PortExists(stored[ip], clause)}
<1> DEFINE f == q.filter
           w == With(f, "all_of", clause)
           g == Groups(f)
           h == Extended(g, "all_of", clause)
<1>1. Groups(w) = h /\ IsGroups(g)
  <2>1. Set(w, "ports") /\ w.ports = h
    BY WithGroups
  <2> QED
    BY <2>1, GroupsIs DEF Groups
<1> HIDE DEF w, g
<1>2. h.all_of = g.all_of \cup {clause} /\ h.any_of = g.any_of /\ h.none_of = g.none_of
  BY <1>1 DEF IsGroups, Extended
<1> HIDE DEF h
<1>3. \A ip : MeetsGroups(ip, h) <=> MeetsGroups(ip, g) /\ PortExists(stored[ip], clause)
  BY <1>2 DEF MeetsGroups
<1>4. \A ip : MeetsPorts(ip, w) <=> MeetsPorts(ip, f) /\ PortExists(stored[ip], clause)
  BY <1>1, <1>3, GroupsMet DEF g
<1>5. \A ip : MeetsHost(ip, w) <=> MeetsHost(ip, f)
  BY WithHost DEF w
<1>6. Matching(w) = {ip \in Matching(f) : PortExists(stored[ip], clause)}
  BY <1>4, <1>5 DEF Matching
<1> QED
  BY <1>6 DEF w

LEMMA WithNone ==
  ASSUME NEW q \in Queries, NEW clause
  PROVE  Matching(With(q.filter, "none_of", clause))
           = {ip \in Matching(q.filter) : ~PortExists(stored[ip], clause)}
<1> DEFINE f == q.filter
           w == With(f, "none_of", clause)
           g == Groups(f)
           h == Extended(g, "none_of", clause)
<1>1. Groups(w) = h /\ IsGroups(g)
  <2>1. Set(w, "ports") /\ w.ports = h
    BY WithGroups
  <2> QED
    BY <2>1, GroupsIs DEF Groups
<1> HIDE DEF w, g
<1>2. h.none_of = g.none_of \cup {clause} /\ h.any_of = g.any_of /\ h.all_of = g.all_of
  BY <1>1 DEF IsGroups, Extended
<1> HIDE DEF h
<1>3. \A ip : MeetsGroups(ip, h) <=> MeetsGroups(ip, g) /\ ~PortExists(stored[ip], clause)
  BY <1>2 DEF MeetsGroups
<1>4. \A ip : MeetsPorts(ip, w) <=> MeetsPorts(ip, f) /\ ~PortExists(stored[ip], clause)
  BY <1>1, <1>3, GroupsMet DEF g
<1>5. \A ip : MeetsHost(ip, w) <=> MeetsHost(ip, f)
  BY WithHost DEF w
<1>6. Matching(w) = {ip \in Matching(f) : ~PortExists(stored[ip], clause)}
  BY <1>4, <1>5 DEF Matching
<1> QED
  BY <1>6 DEF w

-----------------------------------------------------------------------------
(* The clauses for a service.                                              *)

(* NULL or one text.                                                       *)
IsColumn(value) == \E text : value = Text(text)

(* A port meets the clause for a service if it runs that service.          *)
LEMMA ClauseMet ==
  ASSUME NEW value, IsColumn(value), NEW key, NEW port
  PROVE  MeetsClause(key, port, ClauseOf(value)) <=> Text(port.service) = value
<1> DEFINE clause == ClauseOf(value)
<1>1. CASE value = {}
  <2>1. Conditions(clause) = {"service_is_null"} /\ clause["service_is_null"] = TRUE
    BY <1>1 DEF Conditions, ClauseOf, ListFields
  <2> HIDE DEF clause
  <2>2. MeetsClause(key, port, clause) <=> Meets("service_is_null", Text(port.service), TRUE)
    BY <2>1 DEF MeetsClause, Column
  <2> QED
    BY <1>1, <2>2 DEF Meets, clause
<1>2. CASE value # {}
  <2>1. Conditions(clause) = {"service_in"} /\ clause["service_in"] = value
    BY <1>2 DEF Conditions, ClauseOf, ListFields
  <2> HIDE DEF clause
  <2>2. MeetsClause(key, port, clause) <=> Meets("service_in", Text(port.service), value)
    BY <2>1 DEF MeetsClause, Column
  <2>3. MeetsClause(key, port, clause) <=> Text(port.service) \cap value # {}
    BY <2>2 DEF Meets, Excludes
  <2>4. Text(port.service) \cap value # {} <=> Text(port.service) = value
    BY <1>2 DEF IsColumn, Text
  <2> QED
    BY <2>3, <2>4 DEF clause
<1> QED
  BY <1>1, <1>2

LEMMA ProductClauseMet ==
  ASSUME NEW value, IsColumn(value), value # {}, NEW key, NEW port
  PROVE  MeetsClause(key, port, [product_not_in |-> value]) <=> Text(port.service) # value
<1> DEFINE clause == [product_not_in |-> value]
<1>1. Conditions(clause) = {"product_not_in"} /\ clause["product_not_in"] = value
  BY DEF Conditions, ListFields
<1> HIDE DEF clause
<1>2. MeetsClause(key, port, clause) <=> Meets("product_not_in", Text(port.service), value)
  BY <1>1 DEF MeetsClause, Column
<1>3. MeetsClause(key, port, clause) <=> Text(port.service) \cap value = {}
  BY <1>2 DEF Meets, Excludes
<1>4. Text(port.service) \cap value = {} <=> Text(port.service) # value
  BY DEF IsColumn, Text
<1> QED
  BY <1>3, <1>4 DEF clause

(* The bucket of a service counts what a search for it finds.              *)
LEMMA ServiceFacets ==
  ASSUME NEW q \in Queries, NEW facet \in Facets(q.filter, "service", q.limit), NEW value \in DOMAIN facet
  PROVE  LET having == Matching(With(q.filter, "all_of", ClauseOf(value)))
         IN  /\ facet[value] = Cardinality(having)
             /\ Matching(q.filter) \ having
                  = Matching(With(q.filter, "none_of", ClauseOf(value)))
             /\ value # {} =>
                  Matching(With(q.filter, "all_of", [product_not_in |-> value]))
                    = {ip \in Matching(q.filter) : ServicesOf(ip) \ {value} # {}}
<1> DEFINE all == Matching(q.filter)
           having == Matching(With(q.filter, "all_of", ClauseOf(value)))
<1>1. facet[value] = HostCount(q.filter, "service", value) /\ value \in Buckets(q.filter, "service")
  BY DEF Facets
<1>2. \A ip : ValuesOf(ip, "service") = ServicesOf(ip)
  BY DEF ValuesOf, FacetColumn, ServicesOf
<1>3. IsColumn(value)
  <2>1. PICK ip \in all : value \in ServicesOf(ip)
    BY <1>1, <1>2 DEF Buckets
  <2> QED
    BY <2>1 DEF ServicesOf, IsColumn
<1>4. \A ip : PortExists(stored[ip], ClauseOf(value)) <=> value \in ServicesOf(ip)
  BY <1>3, ClauseMet DEF PortExists, ServicesOf
<1>5. having = {ip \in all : value \in ServicesOf(ip)}
  BY <1>4, WithAll
<1>6. facet[value] = Cardinality(having)
  BY <1>1, <1>2, <1>5 DEF HostCount
<1>7. all \ having = Matching(With(q.filter, "none_of", ClauseOf(value)))
  BY <1>4, <1>5, WithNone
<1>8. ASSUME value # {}
      PROVE  Matching(With(q.filter, "all_of", [product_not_in |-> value]))
               = {ip \in all : ServicesOf(ip) \ {value} # {}}
  <2>1. \A ip : PortExists(stored[ip], [product_not_in |-> value]) <=> ServicesOf(ip) \ {value} # {}
    BY <1>3, <1>8, ProductClauseMet DEF PortExists, ServicesOf
  <2> QED
    BY <2>1, WithAll
<1> QED
  BY <1>6, <1>7, <1>8

-----------------------------------------------------------------------------
(* The hosts of all the buckets of os are the hosts that match.            *)

SumFacet(facet, S) == MapThenSumSet(LAMBDA value : facet[value], S)

(* The sum over the buckets is a sum of their values.                      *)
LEMMA FacetSums ==
  ASSUME NEW facet, NEW S, IsFiniteSet(S)
  PROVE  HasSum(facet, S, SumFacet(facet, S))
<1> DEFINE it == CHOOSE iter : iter = [s \in SUBSET S |->
                   IF s = {} THEN 0
                   ELSE facet[CHOOSE x \in s : TRUE] + iter[s \ {CHOOSE x \in s : TRUE}]]
<1>1. PICK f : SumsOf(f, facet, SUBSET S)
  BY SumsExist
<1>2. it = [s \in SUBSET S |->
              IF s = {} THEN 0
              ELSE facet[CHOOSE x \in s : TRUE] + it[s \ {CHOOSE x \in s : TRUE}]]
  BY <1>1 DEF SumsOf
<1>3. SumFacet(facet, S) = it[S]
  BY DEF SumFacet, MapThenSumSet, MapThenFoldSet
<1> HIDE DEF it
<1>4. SumsOf(it, facet, SUBSET S)
  BY <1>2 DEF SumsOf
<1> QED
  BY <1>3, <1>4 DEF HasSum

(* Each element of A is in one class: the classes add up to A.             *)
Classified(A, class, S, w) ==
  /\ IsFiniteSet(A) /\ IsFiniteSet(S) /\ \A a \in A : class[a] \in S
  /\ \A v \in S : w[v] = Cardinality({a \in A : class[a] = v})

LEMMA ClassesAddUp ==
  ASSUME NEW A, NEW class, NEW S, NEW w, Classified(A, class, S, w), NEW x, HasSum(w, S, x)
  PROVE  x = Cardinality(A)
<1>0. /\ IsFiniteSet(A) /\ IsFiniteSet(S) /\ \A a \in A : class[a] \in S
      /\ \A v \in S : w[v] = Cardinality({a \in A : class[a] = v})
  BY DEF Classified
<1>1. PICK f : SumsOf(f, w, SUBSET S) /\ f[S] = x
  BY DEF HasSum
<1> DEFINE Members(s) == {a \in A : class[a] \in s}
           Adds(s) == f[s] = Cardinality(Members(s))
           B == {n \in Nat : \A s \in Family(S, n) : Adds(s)}
<1>2. Adds({})
  <2>1. f[{}] = 0
    BY <1>1 DEF SumsOf
  <2>2. Members({}) = {}
    OBVIOUS
  <2> QED
    BY <2>1, <2>2, FS_EmptySet
<1>3. ASSUME NEW s \in SUBSET S, s # {}, Adds(s \ {Some(s)})
      PROVE  Adds(s)
  <2> DEFINE v == Some(s)
             rest == Members(s \ {v})
             one == {a \in A : class[a] = v}
  <2>1. v \in s /\ v \in S
    BY <1>3, SomeElement
  <2>2. f[s] = w[v] + f[s \ {v}]
    BY <1>1, <1>3 DEF SumsOf, Some
  <2> HIDE DEF v
  <2>3. Members(s) = one \cup rest /\ one \cap rest = {} /\ one \in SUBSET A /\ rest \in SUBSET A
    BY <2>1
  <2>4. w[v] = Cardinality(one) /\ f[s \ {v}] = Cardinality(rest)
    BY <1>0, <1>3, <2>1 DEF v
  <2> DEFINE all == Members(s)
  <2>5. all = one \cup rest
    BY <2>3
  <2> HIDE DEF one, rest, all
  <2>6. /\ IsFiniteSet(one) /\ IsFiniteSet(rest)
        /\ Cardinality(one) \in Nat /\ Cardinality(rest) \in Nat
    BY <1>0, <2>3, FS_Subset, FS_CardinalityType
  <2>7. Cardinality(all) = Cardinality(one) + Cardinality(rest) - Cardinality(one \cap rest)
    BY <2>5, <2>6, FS_Union
  <2>8. Cardinality(one \cap rest) = 0
    BY <2>3, FS_EmptySet
  <2>9. Cardinality(all) = Cardinality(one) + Cardinality(rest)
    BY <2>6, <2>7, <2>8
  <2> QED
    BY <2>2, <2>4, <2>9 DEF all
<1>4. 0 \in B
  <2>1. \A s \in Family(S, 0) : s = {}
    <3> SUFFICES ASSUME NEW s \in SUBSET S, Cardinality(s) <= 0
                 PROVE  s = {}
      BY DEF Family
    <3> QED
      BY <1>0, FS_Subset, FS_CardinalityType, FS_EmptySet
  <2> QED
    BY <1>2, <2>1
<1>5. ASSUME NEW n \in B
      PROVE  n + 1 \in B
  <2>1. n \in Nat /\ \A s \in Family(S, n) : Adds(s)
    BY <1>5
  <2> SUFFICES ASSUME NEW s \in Family(S, n + 1)
               PROVE  Adds(s)
    BY <2>1
  <2>2. IsFiniteSet(s) /\ Cardinality(s) \in Nat /\ Cardinality(s) <= n + 1 /\ s \in SUBSET S
    BY <1>0, FS_Subset, FS_CardinalityType DEF Family
  <2>3. CASE s # {}
    <3>1. Cardinality(s \ {Some(s)}) = Cardinality(s) - 1
      BY <2>2, <2>3, SomeElement, OneLess
    <3>2. Cardinality(s \ {Some(s)}) <= n
      BY <2>1, <2>2, <3>1
    <3>3. s \ {Some(s)} \in Family(S, n)
      BY <2>2, <3>2 DEF Family
    <3> HIDE DEF Adds
    <3>4. Adds(s \ {Some(s)})
      BY <2>1, <3>3
    <3> QED
      BY <1>3, <2>2, <2>3, <3>4
  <2> QED
    BY <1>2, <2>3
<1> HIDE DEF Adds
<1>6. B \in SUBSET Nat
  OBVIOUS
<1> HIDE DEF B
<1>7. B = Nat
  BY <1>4, <1>5, <1>6, SetInduction
<1>8. S \in Family(S, Cardinality(S)) /\ Cardinality(S) \in Nat
  BY <1>0, FS_CardinalityType DEF Family
<1>9. Adds(S)
  BY <1>7, <1>8 DEF B
<1>10. Members(S) = A
  BY <1>0
<1>11. f[S] = Cardinality(A)
  BY <1>9, <1>10 DEF Adds
<1> QED
  BY <1>1, <1>11

(* No value of os is capped away, so the buckets hold every host.          *)
LEMMA OsFacets ==
  ASSUME NEW f, NEW facet \in Facets(f, "os", Cardinality(Ips))
  PROVE  SumFacet(facet, DOMAIN facet) = Cardinality(Matching(f))
<1> DEFINE all == Matching(f)
           buckets == Buckets(f, "os")
           class == [ip \in all |-> Text(stored[ip].meta)]
           n == Min({Cardinality(Ips), Cardinality(buckets)})
<1>1. /\ DOMAIN facet \in SUBSET buckets /\ Cardinality(DOMAIN facet) = n
      /\ \A value \in DOMAIN facet : facet[value] = HostCount(f, "os", value)
  BY DEF Facets
<1>2. \A ip : ValuesOf(ip, "os") = {Text(stored[ip].meta)}
  BY DEF ValuesOf
<1>3. all \in SUBSET Ips /\ IsFiniteSet(all) /\ Cardinality(all) <= Cardinality(Ips)
  BY MatchingIps, AddressesAssumption, FS_Subset
<1>4. buckets = {class[ip] : ip \in all}
  BY <1>2 DEF Buckets
<1>5. \A value : HostCount(f, "os", value) = Cardinality({ip \in all : class[ip] = value})
  <2>1. \A value : {ip \in all : value \in ValuesOf(ip, "os")} = {ip \in all : class[ip] = value}
    BY <1>2
  <2> QED
    BY <2>1 DEF HostCount
<1>6. class \in Surjection(all, buckets)
  <2>1. \A ip \in all : class[ip] \in buckets
    BY <1>4
  <2>2. \A b \in buckets : \E ip \in all : class[ip] = b
    BY <1>4
  <2> QED
    BY <2>1, <2>2 DEF Surjection
<1> HIDE DEF all, buckets, class
<1>7. IsFiniteSet(buckets) /\ Cardinality(buckets) <= Cardinality(all)
  BY <1>3, <1>6, FS_Surjection
<1>8. /\ Cardinality(buckets) \in Nat /\ Cardinality(Ips) \in Nat /\ Cardinality(all) \in Nat
  BY <1>3, <1>7, AddressesAssumption, FS_CardinalityType
<1>9. n = Cardinality(buckets)
  <2>1. Cardinality(buckets) <= Cardinality(Ips)
    BY <1>3, <1>7, <1>8
  <2> DEFINE b == Cardinality(buckets)
             m == Cardinality(Ips)
  <2>2. b \in Nat /\ m \in Nat /\ b <= m
    BY <1>8, <2>1
  <2> HIDE DEF b, m
  <2>3. Min({m, b}) = b
    BY <2>2 DEF Min
  <2> QED
    BY <2>3 DEF b, m
<1>10. DOMAIN facet = buckets
  BY <1>1, <1>7, <1>9, FS_Subset
<1>11. \A ip \in all : class[ip] \in buckets
  BY <1>4
<1>12. \A v \in buckets : facet[v] = Cardinality({ip \in all : class[ip] = v})
  BY <1>1, <1>5, <1>10
<1>13. HasSum(facet, buckets, SumFacet(facet, buckets))
  BY <1>7, FacetSums
<1> DEFINE x == SumFacet(facet, buckets)
<1> HIDE DEF x
<1>14. HasSum(facet, buckets, x)
  BY <1>13 DEF x
<1>15. Classified(all, class, buckets, facet)
  BY <1>3, <1>7, <1>11, <1>12 DEF Classified
<1>16. x = Cardinality(all)
  BY <1>14, <1>15, ClassesAddUp
<1> QED
  BY <1>10, <1>16 DEF all, x

(* A facet counts what a search would find, for any inventory, query and   *)
(* limit: the buckets of a service and its clauses, in all_of and none_of, *)
(* and the buckets of os, each host in one of them (get_facets,            *)
(* _clause_conditions).                                                    *)
THEOREM FacetsAgree == SearchSpec => []FacetsAgreeWithSearch
<1>1. FacetsAgreeWithSearch
  <2> SUFFICES ASSUME NEW q \in Queries
               PROVE  /\ \A facet \in Facets(q.filter, "service", q.limit) : \A value \in DOMAIN facet :
                           LET having == Matching(With(q.filter, "all_of", ClauseOf(value)))
                           IN  /\ facet[value] = Cardinality(having)
                               /\ Matching(q.filter) \ having
                                    = Matching(With(q.filter, "none_of", ClauseOf(value)))
                               /\ value # {} =>
                                    Matching(With(q.filter, "all_of", [product_not_in |-> value]))
                                      = {ip \in Matching(q.filter) : ServicesOf(ip) \ {value} # {}}
                      /\ \A facet \in Facets(q.filter, "os", Cardinality(Ips)) :
                           SumFacet(facet, DOMAIN facet) = Cardinality(Matching(q.filter))
    BY DEF FacetsAgreeWithSearch, SumFacet
  <2>1. ASSUME NEW facet \in Facets(q.filter, "os", Cardinality(Ips))
        PROVE  SumFacet(facet, DOMAIN facet) = Cardinality(Matching(q.filter))
    BY OsFacets
  <2> QED
    BY <2>1, ServiceFacets
<1> QED
  BY <1>1, PTL
=============================================================================

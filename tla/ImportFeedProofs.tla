--------------------------- MODULE ImportFeedProofs ---------------------------
(***************************************************************************)
(* Theorems about ImportFeed, for every set of addresses, sessions and     *)
(* requests, every number of transactions and every page size: types and   *)
(* the feed; what locks protect, and from it that every transaction is one *)
(* atomic step of InventoryLog; and the order of events, and what circles  *)
(* of waits are about, among imports of one address each.                  *)
(***************************************************************************)
EXTENDS ImportFeed, FiniteSetTheorems, SequenceTheorems, TLAPS

-----------------------------------------------------------------------------
(* Helpers: port maps and what one import leaves stored.                   *)

(* The record of an address that is not stored is a stored IP.             *)
LEMMA UnknownType == Unknown \in StoredIP
<1>1. <<>> \in [{} -> Port]
  OBVIOUS
<1>2. <<>> \in PortMap
  BY <1>1 DEF PortMap
<1>3. QED
  BY <1>2, ConstantsAssumption DEF Unknown, StoredIP

(* A function from some of the port keys to ports is a port map.           *)
LEMMA PortMapIntro ==
  ASSUME NEW K \in SUBSET PortKeys, NEW f \in [K -> Port]
  PROVE  f \in PortMap
BY DEF PortMap

(* A port map is defined on port keys and yields ports.                    *)
LEMMA PortMapElim ==
  ASSUME NEW f \in PortMap
  PROVE  DOMAIN f \subseteq PortKeys /\ f \in [DOMAIN f -> Port]
BY DEF PortMap

(* refresh_port yields a port.                                             *)
LEMMA RefreshType ==
  ASSUME NEW s \in Port, NEW i \in Port
  PROVE  /\ RefreshPort(s, i) \in Port
         /\ RefreshPort(s, i).service = IF i.service = "" THEN s.service ELSE i.service
<1> DEFINE new(f) == IF f = "state" \/ i[f] = "" THEN s[f] ELSE i[f]
<1>1. DOMAIN s = {"state", "service", "detail"}
  BY DEF Port
<1>2. RefreshPort(s, i) = [f \in {"state", "service", "detail"} |-> new(f)]
  BY <1>1 DEF RefreshPort
<1>3. /\ new("state") \in {"open", "closed", "filtered"}
      /\ new("service") \in Texts /\ new("detail") \in Texts
  BY DEF Port
<1>4. new("service") = IF i.service = "" THEN s.service ELSE i.service
  OBVIOUS
<1> HIDE DEF new
<1> QED
  BY <1>2, <1>3, <1>4 DEF Port

(* What one import leaves stored is again a stored IP, and the hostnames   *)
(* it adds are hostnames.                                                  *)
LEMMA ApplyModeType ==
  ASSUME NEW mode, NEW s \in StoredIP, NEW in \in IPIn
  PROVE  /\ StoredFrom(ApplyMode(mode, s, in)) \in StoredIP
         /\ ApplyMode(mode, s, in).new_hostnames \subseteq Hostnames
<1>1. in.ports \in PortMap /\ s.ports \in PortMap /\ in.meta \in Texts /\ s.meta \in Texts
      /\ in.hostnames \subseteq Hostnames /\ s.hostnames \subseteq Hostnames
  BY DEF StoredIP, IPIn
<1>2. CASE ~s.known
  <2> DEFINE cs == Created(in)
  <2>1. ApplyMode(mode, s, in) = cs
    BY <1>2 DEF ApplyMode
  <2>2. cs.ports \in PortMap
    <3>1. cs.ports \in [{k \in DOMAIN in.ports : IsOpen(in.ports[k])} -> Port]
      BY <1>1, PortMapElim DEF Created
    <3> QED
      BY <3>1, <1>1, PortMapElim, PortMapIntro
  <2>3. cs.meta \in Texts /\ cs.hostnames \subseteq Hostnames
        /\ cs.new_hostnames \subseteq Hostnames
    BY <1>1 DEF Created
  <2> HIDE DEF cs
  <2> QED
    BY <2>1, <2>2, <2>3 DEF StoredFrom, StoredIP
<1>3. CASE s.known
  <2> DEFINE policy == Policy(mode)
             cs == Updated(policy, s, in)
             opened == IF policy.add_new_open THEN NewOpen(s.ports, in.ports) ELSE {}
             refreshed == IF policy.refresh_matched THEN Matched(s.ports, in.ports) ELSE {}
             closed == {k \in Stale(s.ports, in.ports) :
                          /\ policy.close_stale
                          /\ Closes(k, in.ports, in.scanned_ports)}
             kept == (DOMAIN s.ports \cup opened) \ closed
  <2>1. ApplyMode(mode, s, in) = cs
    BY <1>3 DEF ApplyMode
  <2>2. opened \subseteq DOMAIN in.ports /\ refreshed \subseteq DOMAIN in.ports \cap DOMAIN s.ports
    BY DEF NewOpen, Matched
  <2>3. cs.ports = [k \in kept |-> IF k \in opened THEN in.ports[k]
                                   ELSE IF k \in refreshed
                                   THEN RefreshPort(s.ports[k], in.ports[k])
                                   ELSE s.ports[k]]
    BY DEF Updated
  <2>4. \A k \in kept : cs.ports[k] \in Port
    <3> HIDE DEF cs, opened, refreshed, closed
    <3>1. \A k \in DOMAIN s.ports : s.ports[k] \in Port
      BY <1>1, PortMapElim
    <3>2. \A k \in DOMAIN in.ports : in.ports[k] \in Port
      BY <1>1, PortMapElim
    <3>3. \A k \in refreshed : RefreshPort(s.ports[k], in.ports[k]) \in Port
      BY <2>2, <3>1, <3>2, RefreshType
    <3> QED
      BY <2>2, <2>3, <3>1, <3>2, <3>3
  <2>5. cs.ports \in PortMap
    <3>1. kept \subseteq PortKeys
      BY <2>2, <1>1, PortMapElim
    <3>2. cs.ports \in [kept -> Port]
      <4> HIDE DEF cs, kept, opened, refreshed
      <4> QED
        BY <2>3, <2>4
    <3> HIDE DEF cs, kept
    <3> QED
      BY <3>1, <3>2, PortMapIntro
  <2>6. cs.meta \in Texts /\ cs.hostnames \subseteq Hostnames
        /\ cs.new_hostnames \subseteq Hostnames
    BY <1>1 DEF Updated
  <2> HIDE DEF cs
  <2> QED
    BY <2>1, <2>5, <2>6 DEF StoredFrom, StoredIP
<1> QED
  BY <1>2, <1>3 DEF StoredIP

(* A recorded change is one of the state or of the service of a port, and  *)
(* is dated by the report.                                                 *)
LEMMA ChangesType ==
  ASSUME NEW mode, NEW s \in StoredIP, NEW in \in IPIn
  PROVE  /\ \A c \in ApplyMode(mode, s, in).changes :
              c.key \in PortKeys /\ c.type \in {"state", "service"}
         /\ ApplyMode(mode, s, in).endtime \in Nat
<1>1. in.ports \in PortMap /\ s.ports \in PortMap /\ in.endtime \in Nat
  BY DEF StoredIP, IPIn
<1>2. DOMAIN in.ports \subseteq PortKeys /\ DOMAIN s.ports \subseteq PortKeys
  BY <1>1, PortMapElim
<1>3. \A k, o : /\ Opened(k).key = k /\ Opened(k).type = "state"
               /\ Closed(k, o).key = k /\ Closed(k, o).type = "state"
  BY DEF Opened, Closed
<1>4. \A k : \A c \in FieldChanges(k, s.ports[k], in.ports[k]) : c.key = k /\ c.type = "service"
  <2> TAKE k
  <2> DEFINE c == [key |-> k, type |-> "service", old |-> s.ports[k].service,
                   new |-> in.ports[k].service, observed |-> ""]
  <2>1. FieldChanges(k, s.ports[k], in.ports[k]) \subseteq {c}
    BY DEF FieldChanges
  <2>2. c.key = k /\ c.type = "service"
    OBVIOUS
  <2> HIDE DEF c
  <2> QED
    BY <2>1, <2>2
<1>5. CASE ~s.known
  <2> DEFINE open == {k \in DOMAIN in.ports : IsOpen(in.ports[k])}
  <2>1. /\ ApplyMode(mode, s, in).changes = {Opened(k) : k \in open}
        /\ ApplyMode(mode, s, in).endtime = in.endtime
    BY <1>5 DEF ApplyMode, Created
  <2> QED
    BY <1>1, <1>2, <1>3, <2>1
<1>6. CASE s.known
  <2> DEFINE policy == Policy(mode)
             opened == IF policy.add_new_open THEN NewOpen(s.ports, in.ports) ELSE {}
             refreshed == IF policy.refresh_matched THEN Matched(s.ports, in.ports) ELSE {}
             closed == {k \in Stale(s.ports, in.ports) :
                          /\ policy.close_stale
                          /\ Closes(k, in.ports, in.scanned_ports)}
  <2>1. /\ ApplyMode(mode, s, in).changes =
             {Opened(k) : k \in opened}
             \cup {Closed(k, ObservedState(k, in.ports)) : k \in closed}
             \cup UNION {FieldChanges(k, s.ports[k], in.ports[k]) : k \in refreshed}
        /\ ApplyMode(mode, s, in).endtime = in.endtime
    BY <1>6 DEF ApplyMode, Updated
  <2>2. opened \subseteq PortKeys /\ closed \subseteq PortKeys /\ refreshed \subseteq PortKeys
    BY <1>2 DEF NewOpen, Matched, Stale
  <2> HIDE DEF opened, closed, refreshed, policy
  <2> QED
    BY <1>1, <1>3, <1>4, <2>1, <2>2
<1> QED
  BY <1>5, <1>6 DEF StoredIP
-----------------------------------------------------------------------------
(* Types.                                                                  *)

(* A session between transactions has a well-typed record.                 *)
LEMMA NoTxType == NoTx \in Tx
<1>1. <<>> \in Seq(Ips \X Nat) /\ <<>> \in Seq(Hostnames) /\ <<>> \in Seq(HistoryKeys)
  BY EmptySeq
<1> QED
  BY <1>1, UnknownType DEF NoTx, Tx

(* A statement that writes gives the transaction an id at most, and leaves *)
(* the rest of its record alone.                                           *)
LEMMA WithXidType ==
  ASSUME NEW x \in Tx, nextXid \in Nat
  PROVE  /\ WithXid(x) \in Tx
         /\ WithXid(x).xid = IF x.xid = 0 THEN nextXid ELSE x.xid
         /\ WithXid(x).pc = x.pc
         /\ WithXid(x).req = x.req
         /\ WithXid(x).rows = x.rows
         /\ WithXid(x).locked = x.locked
         /\ WithXid(x).snap = x.snap
         /\ WithXid(x).names = x.names
         /\ WithXid(x).inserted = x.inserted
         /\ WithXid(x).changes = x.changes
         /\ WithXid(x).logged = x.logged
         /\ WithXid(x).created = x.created
BY DEF WithXid, Tx

(* An order of a finite set is a sequence of its elements.                 *)
LEMMA OrderType ==
  ASSUME NEW S, IsFiniteSet(S), NEW p \in Orders(S)
  PROVE  p \in Seq(S)
<1>1. Cardinality(S) \in Nat
  BY FS_CardinalityType
<1>2. p \in [1..Cardinality(S) -> S]
  BY DEF Orders, Bijection, Injection
<1> QED
  BY <1>1, <1>2, SeqDef

(* The rows of addresses, in whatever order they come, are pairs of an     *)
(* address and a generation.                                               *)
LEMMA RowsType ==
  ASSUME NEW A \in SUBSET Ips, gen \in [Ips -> Nat],
         NEW p \in Orders({<<ip, gen[ip]>> : ip \in A})
  PROVE  p \in Seq(A \X Nat) /\ p \in Seq(Ips \X Nat)
<1> DEFINE R == {<<ip, gen[ip]>> : ip \in A}
           f == [ip \in A |-> <<ip, gen[ip]>>]
<1>1. IsFiniteSet(A)
  BY FS_Subset, ConstantsAssumption DEF ConstantsAssumption
<1>2. f \in Surjection(A, R)
  BY DEF Surjection
<1>3. IsFiniteSet(R)
  BY <1>1, <1>2, FS_Surjection
<1>4. p \in Seq(R) /\ R \subseteq A \X Nat /\ A \X Nat \subseteq Ips \X Nat
  BY <1>3, OrderType
<1> QED
  BY <1>4, SeqMonotonic

(* A request names addresses, in the order of its body.                    *)
LEMMA RequestType ==
  ASSUME NEW r \in Imports \cup Deletes
  PROVE  /\ r.order \in Seq(Ips)
         /\ Addresses(r) \subseteq Ips
<1>1. r.order \in Seq(Ips)
  BY ImportsAssumption, DeletesAssumption
<1> QED
  BY <1>1, ElementOfSeq, LenProperties DEF Addresses, Range

(* The change sets an import computes from stored rows are well typed.     *)
LEMMA ChangeSetType ==
  ASSUME NEW x \in Tx, x.req \in Imports, NEW ip \in Addresses(x.req)
  PROVE  /\ StoredFrom(ChangeSet(x, ip)) \in StoredIP
         /\ ChangeSet(x, ip).new_hostnames \subseteq Hostnames
<1>1. x.req.entry[ip] \in IPIn
  BY ImportsAssumption
<1>2. ip \in Ips
  BY RequestType
<1>3. x.snap[ip] \in StoredIP
  BY <1>2 DEF Tx
<1> QED
  BY <1>1, <1>3, ApplyModeType DEF ChangeSet

(* The history rows of one address are rows of its changes, finitely many. *)
LEMMA HistoryRowsType ==
  ASSUME NEW x \in Tx, x.req \in Imports, NEW ip \in Addresses(x.req)
  PROVE  /\ HistoryRows(ip, ChangeSet(x, ip)) \subseteq HistoryKeys
         /\ IsFiniteSet(HistoryRows(ip, ChangeSet(x, ip)))
<1> DEFINE cs == ChangeSet(x, ip)
           K == PortKeys \X {"state", "service"}
           f == [p \in K |-> <<ip, p[1], p[2], cs.endtime>>]
           I == {<<ip, p[1], p[2], cs.endtime>> : p \in K}
<1>1. x.req.entry[ip] \in IPIn /\ ip \in Ips
  BY ImportsAssumption, RequestType
<1>2. x.snap[ip] \in StoredIP
  BY <1>1 DEF Tx
<1>3. /\ \A c \in cs.changes : c.key \in PortKeys /\ c.type \in {"state", "service"}
      /\ cs.endtime \in Nat
  BY <1>1, <1>2, ChangesType DEF ChangeSet
<1> HIDE DEF cs
<1>4. HistoryRows(ip, cs) \subseteq HistoryKeys
  BY <1>1, <1>3 DEF HistoryRows, HistoryKeys
<1>5. HistoryRows(ip, cs) \subseteq I
  <2> SUFFICES ASSUME NEW c \in cs.changes
               PROVE  <<ip, c.key, c.type, cs.endtime>> \in I
    BY DEF HistoryRows
  <2>1. <<c.key, c.type>> \in K
    BY <1>3
  <2> QED
    BY <2>1
<1>6. IsFiniteSet(K)
  <2>1. IsFiniteSet({"state", "service"})
    <3>1. IsFiniteSet({"state"}) /\ IsFiniteSet({"service"})
      BY FS_Singleton
    <3>2. IsFiniteSet({"state"} \cup {"service"})
      BY <3>1, FS_Union, Zenon
    <3>3. {"state", "service"} = {"state"} \cup {"service"}
      OBVIOUS
    <3> QED
      BY <3>2, <3>3
  <2> QED
    BY <2>1, ConstantsAssumption, FS_Product DEF ConstantsAssumption
<1>7. f \in Surjection(K, I)
  BY DEF Surjection
<1> QED
  BY <1>4, <1>5, <1>6, <1>7, FS_Surjection, FS_Subset DEF cs

(* The history rows an import has to insert are finitely many, each of one *)
(* of its addresses.                                                       *)
LEMMA HistoryType ==
  ASSUME NEW x \in Tx, x.req \in Imports
  PROVE  /\ IsFiniteSet(HistoryOf(x)) /\ HistoryOf(x) \subseteq HistoryKeys
         /\ \A row \in HistoryOf(x) : row[1] \in Addresses(x.req)
<1> DEFINE A == Addresses(x.req)
           R(ip) == HistoryRows(ip, ChangeSet(x, ip))
           all == {R(ip) : ip \in A}
           f == [ip \in A |-> R(ip)]
<1>1. HistoryOf(x) = UNION all \/ HistoryOf(x) = {}
  BY DEF HistoryOf
<1>2. \A ip \in A : R(ip) \subseteq HistoryKeys /\ IsFiniteSet(R(ip))
  BY HistoryRowsType
<1>3. \A ip \in A : \A row \in R(ip) : row[1] = ip
  BY DEF HistoryRows
<1>4. IsFiniteSet(A)
  BY RequestType, FS_Subset, ConstantsAssumption DEF ConstantsAssumption
<1> HIDE DEF R, A
<1>5. f \in Surjection(A, all)
  BY DEF Surjection
<1>6. IsFiniteSet(UNION all)
  BY <1>2, <1>4, <1>5, FS_Surjection, FS_UNION
<1>7. CASE HistoryOf(x) = UNION all
  BY <1>2, <1>3, <1>6, <1>7 DEF A
<1> QED
  BY <1>1, <1>7, FS_EmptySet

(* The rows it inserts, in whatever order they come, are history rows of   *)
(* its addresses.                                                          *)
LEMMA HistoryOrderType ==
  ASSUME NEW x \in Tx, x.req \in Imports, NEW p \in HistoryOrders(x)
  PROVE  /\ p \in Seq(HistoryKeys)
         /\ p \in Seq({row \in HistoryKeys : row[1] \in Addresses(x.req)})
<1>1. p \in Orders(HistoryOf(x))
  BY DEF HistoryOrders
<1>2. p \in Seq(HistoryOf(x))
  BY <1>1, HistoryType, OrderType
<1> QED
  BY <1>2, HistoryType, SeqMonotonic

(* A rollback keeps the types.                                             *)
LEMMA RollbackType ==
  ASSUME TypeOK, NEW t \in Sessions, Rollback(t)
  PROVE  TypeOK'
BY NoTxType DEF TypeOK, Rollback, dbVars, feedVars, NoTx

(* A request that begins its transaction keeps the types.                  *)
LEMMA BeginType ==
  ASSUME TypeOK, NEW t \in Sessions, NEW r \in Imports \cup Deletes,
         NEW pc, Begin(t, r, pc),
         \/ pc = "load" /\ r \in Imports
         \/ pc = "delete" /\ r \in Deletes
  PROVE  TypeOK'
<1> DEFINE A == {ip \in Addresses(r) : store[ip].known}
<1>0. begun' \in 0..MaxTx
  <2>1. begun < MaxTx /\ begun' = begun + 1
    BY DEF Begin
  <2>2. begun \in 0..MaxTx
    BY DEF TypeOK
  <2>3. MaxTx \in Nat
    BY ConstantsAssumption DEF ConstantsAssumption
  <2> QED
    BY <2>1, <2>2, <2>3
<1>1. PICK rows \in Orders({<<ip, gen[ip]>> : ip \in A}) :
        tx' = [tx EXCEPT ![t] = [NoTx EXCEPT !.pc = pc, !.req = r, !.rows = rows]]
  BY DEF Begin
<1>2. rows \in Seq(Ips \X Nat)
  BY RequestType, RowsType DEF TypeOK
<1>3. [NoTx EXCEPT !.pc = pc, !.req = r, !.rows = rows] \in Tx
  BY <1>2, NoTxType DEF Tx
<1>4. /\ [NoTx EXCEPT !.pc = pc, !.req = r, !.rows = rows].pc = pc
      /\ [NoTx EXCEPT !.pc = pc, !.req = r, !.rows = rows].req = r
  BY DEF NoTx
<1>5. tx' \in [Sessions -> Tx]
  BY <1>1, <1>3 DEF TypeOK
<1>6. \A u \in Sessions : tx'[u] = IF u = t THEN [NoTx EXCEPT !.pc = pc, !.req = r, !.rows = rows]
                                           ELSE tx[u]
  BY <1>1 DEF TypeOK
<1>7. \A u \in Sessions : /\ tx'[u].pc = "idle" => tx'[u] = NoTx
                          /\ tx'[u].pc \in {"load", "write"} => tx'[u].req \in Imports
                          /\ tx'[u].pc = "delete" => tx'[u].req \in Deletes
  <2> TAKE u \in Sessions
  <2> QED
    BY <1>4, <1>6 DEF TypeOK
<1> QED
  BY <1>5, <1>7, <1>0 DEF TypeOK, Begin, dbVars, feedVars

(* The request fits what the open transaction is doing.                    *)
Running(x) ==
  \/ x.pc \in {"load", "write"} /\ x.req \in Imports
  \/ x.pc = "delete" /\ x.req \in Deletes

(* A step that only moves t's own open transaction.                        *)
LEMMA MoveType ==
  ASSUME TypeOK, NEW t \in Sessions, NEW x \in Tx,
         tx' = [tx EXCEPT ![t] = x],
         Running(x),
         nextXid' \in Nat \ {0},
         UNCHANGED <<dbVars, begun, feedVars>>
  PROVE  TypeOK'
BY DEF TypeOK, dbVars, feedVars, Running

(* Passing over a row that is not stored keeps the types.                  *)
LEMMA SkipRowType ==
  ASSUME TypeOK, NEW t \in Sessions, SkipRow(t)
  PROVE  TypeOK'
<1> DEFINE x == [tx[t] EXCEPT !.rows = Tail(@)]
<1>1. tx[t] \in Tx /\ tx[t].rows \in Seq(Ips \X Nat) /\ tx[t].rows # <<>>
  BY DEF TypeOK, SkipRow, Tx
<1>2. Tail(tx[t].rows) \in Seq(Ips \X Nat)
  BY <1>1, HeadTailProperties
<1>3. x \in Tx /\ x.pc = tx[t].pc /\ x.req = tx[t].req
  BY <1>1, <1>2 DEF Tx
<1>4. /\ tx' = [tx EXCEPT ![t] = x]
      /\ nextXid' \in Nat \ {0}
      /\ UNCHANGED <<dbVars, begun, feedVars>>
  BY DEF SkipRow, TypeOK
<1> HIDE DEF x
<1>5. Running(x)
  <2>1. tx[t].pc \in {"load", "delete"}
    BY DEF SkipRow
  <2>2. /\ tx[t].pc = "load" => tx[t].req \in Imports
        /\ tx[t].pc = "delete" => tx[t].req \in Deletes
    BY DEF TypeOK
  <2> QED
    BY <1>3, <2>1, <2>2 DEF Running
<1> QED
  BY <1>3, <1>4, <1>5, MoveType

(* Taking a row lock keeps the types.                                      *)
LEMMA LockRowType ==
  ASSUME TypeOK, NEW t \in Sessions, LockRow(t)
  PROVE  TypeOK'
<1> DEFINE w == WithXid(tx[t])
           x == [w EXCEPT !.rows = Tail(@), !.locked = @ \cup {Head(tx[t].rows)[1]}]
<1>1. tx[t] \in Tx /\ tx[t].rows \in Seq(Ips \X Nat) /\ tx[t].rows # <<>>
  BY DEF TypeOK, LockRow, Tx
<1>2. Tail(tx[t].rows) \in Seq(Ips \X Nat) /\ Head(tx[t].rows) \in Ips \X Nat
  BY <1>1, HeadTailProperties
<1>3. w \in Tx /\ w.pc = tx[t].pc /\ w.req = tx[t].req /\ w.rows = tx[t].rows
      /\ w.locked = tx[t].locked /\ tx[t].locked \subseteq Ips
  BY <1>1, WithXidType DEF TypeOK, Tx
<1> HIDE DEF w
<1>4. x \in Tx /\ x.pc = tx[t].pc /\ x.req = tx[t].req
  BY <1>2, <1>3 DEF Tx
<1>5. /\ tx' = [tx EXCEPT ![t] = x]
      /\ UNCHANGED <<dbVars, begun, feedVars>>
  BY DEF LockRow, w
<1>6. nextXid' \in Nat \ {0}
  BY DEF LockRow, TakeXid, TypeOK
<1> HIDE DEF x
<1>7. Running(x)
  <2>1. tx[t].pc \in {"load", "delete"}
    BY DEF LockRow
  <2>2. /\ tx[t].pc = "load" => tx[t].req \in Imports
        /\ tx[t].pc = "delete" => tx[t].req \in Deletes
    BY DEF TypeOK
  <2> QED
    BY <1>4, <2>1, <2>2 DEF Running
<1> QED
  BY <1>4, <1>5, <1>6, <1>7, MoveType

(* The hostnames a transaction still has to insert form a finite set.      *)
LEMMA NamesType ==
  ASSUME NEW x \in Tx, x.req \in Imports
  PROVE  IsFiniteSet(NamesOf(x)) /\ NamesOf(x) \subseteq Hostnames
<1>1. NamesOf(x) \subseteq Hostnames
  BY ChangeSetType DEF NamesOf
<1>2. IsFiniteSet(Hostnames)
  BY ConstantsAssumption DEF ConstantsAssumption
<1> QED
  BY <1>1, <1>2, FS_Subset

(* Computing the change sets from the loaded rows keeps the types.         *)
LEMMA LoadedType ==
  ASSUME TypeOK, NEW t \in Sessions, Loaded(t)
  PROVE  TypeOK'
<1> DEFINE snap == [ip \in Ips |-> IF ip \in tx[t].locked THEN store[ip] ELSE Unknown]
           x == [tx[t] EXCEPT !.pc = "write", !.snap = snap]
<1>1. tx[t] \in Tx /\ tx[t].req \in Imports
  <2>1. tx[t].pc = "load"
    BY DEF Loaded
  <2> QED
    BY <2>1 DEF TypeOK
<1>2. snap \in [Ips -> StoredIP]
  BY UnknownType DEF TypeOK
<1> HIDE DEF snap
<1>3. x \in Tx /\ x.pc = "write" /\ x.req = tx[t].req
  BY <1>1, <1>2 DEF Tx
<1> HIDE DEF x
<1>4. \E names \in Orders(NamesOf(x)), changes \in HistoryOrders(x) :
        tx' = [tx EXCEPT ![t] = [x EXCEPT !.names = names, !.changes = changes]]
  BY DEF Loaded, x, snap
<1>5. UNCHANGED <<dbVars, nextXid, begun, feedVars>>
  BY DEF Loaded
<1>6. nextXid' \in Nat \ {0}
  BY <1>5 DEF TypeOK
<1>7. PICK names \in Orders(NamesOf(x)), changes \in HistoryOrders(x) :
        tx' = [tx EXCEPT ![t] = [x EXCEPT !.names = names, !.changes = changes]]
  BY <1>4
<1>8. names \in Seq(Hostnames)
  <2>1. IsFiniteSet(NamesOf(x)) /\ NamesOf(x) \subseteq Hostnames
    BY <1>1, <1>3, NamesType
  <2>2. names \in Seq(NamesOf(x))
    BY <2>1, OrderType
  <2> QED
    BY <2>1, <2>2, SeqMonotonic
<1> DEFINE y == [x EXCEPT !.names = names, !.changes = changes]
<1>9. y \in Tx /\ y.pc = "write" /\ y.req = tx[t].req
  <2>1. changes \in Seq(HistoryKeys)
    BY <1>1, <1>3, HistoryOrderType
  <2> QED
    BY <1>3, <1>8, <2>1 DEF Tx
<1>10. Running(y)
  BY <1>1, <1>9 DEF Running
<1>11. tx' = [tx EXCEPT ![t] = y]
  BY <1>7
<1>12. UNCHANGED <<dbVars, begun, feedVars>>
  BY <1>5
<1> HIDE DEF y
<1> QED
  BY <1>6, <1>9, <1>10, <1>11, <1>12, MoveType

(* Inserting a hostname keeps the types.                                   *)
LEMMA InsertNameType ==
  ASSUME TypeOK, NEW t \in Sessions, InsertName(t)
  PROVE  TypeOK'
<1> DEFINE h == Head(tx[t].names)
           x == [tx[t] EXCEPT !.names = Tail(@)]
<1>1. tx[t] \in Tx /\ tx[t].req \in Imports /\ tx[t].pc = "write"
      /\ tx[t].names \in Seq(Hostnames) /\ tx[t].names # <<>>
  <2>1. tx[t].pc = "write" /\ tx[t].names # <<>>
    BY DEF InsertName
  <2>2. tx[t] \in Tx /\ tx[t].req \in Imports
    BY <2>1 DEF TypeOK
  <2> QED
    BY <2>1, <2>2 DEF Tx
<1>2. Tail(tx[t].names) \in Seq(Hostnames) /\ h \in Hostnames
  BY <1>1, HeadTailProperties
<1>3. x \in Tx /\ x.pc = "write" /\ x.req = tx[t].req
  BY <1>1, <1>2 DEF Tx
<1>4. UNCHANGED <<dbVars, begun, feedVars>>
  BY DEF InsertName
<1>5. \/ tx' = [tx EXCEPT ![t] = x] /\ UNCHANGED nextXid
      \/ /\ tx' = [tx EXCEPT ![t] = [WithXid(x) EXCEPT !.inserted = @ \cup {h}]]
         /\ TakeXid(x)
  BY DEF InsertName
<1> HIDE DEF x, h
<1>6. Running(x)
  BY <1>1, <1>3 DEF Running
<1>7. nextXid \in Nat \ {0}
  BY DEF TypeOK
<1>8. CASE tx' = [tx EXCEPT ![t] = x] /\ UNCHANGED nextXid
  BY <1>3, <1>4, <1>6, <1>7, <1>8, MoveType
<1>9. CASE tx' = [tx EXCEPT ![t] = [WithXid(x) EXCEPT !.inserted = @ \cup {h}]] /\ TakeXid(x)
  <2> DEFINE w == WithXid(x)
             y == [w EXCEPT !.inserted = @ \cup {h}]
  <2>1. w \in Tx /\ w.pc = "write" /\ w.req = tx[t].req
    BY <1>3, <1>7, WithXidType
  <2>2. tx' = [tx EXCEPT ![t] = y]
    BY <1>9
  <2> HIDE DEF w
  <2>3. y \in Tx /\ y.pc = "write" /\ y.req = tx[t].req
    BY <1>2, <2>1 DEF Tx
  <2> HIDE DEF y
  <2>4. Running(y)
    BY <1>1, <2>3 DEF Running
  <2>5. nextXid' \in Nat \ {0}
    BY <1>7, <1>9 DEF TakeXid
  <2> QED
    BY <1>4, <2>2, <2>3, <2>4, <2>5, MoveType
<1> QED
  BY <1>5, <1>8, <1>9

(* Inserting a history row keeps the types.                                *)
LEMMA InsertHistoryType ==
  ASSUME TypeOK, NEW t \in Sessions, InsertHistory(t)
  PROVE  TypeOK'
<1> DEFINE row == Head(tx[t].changes)
           x == [tx[t] EXCEPT !.changes = Tail(@)]
<1>1. tx[t] \in Tx /\ tx[t].req \in Imports /\ tx[t].pc = "write"
      /\ tx[t].changes \in Seq(HistoryKeys) /\ tx[t].changes # <<>>
  <2>1. tx[t].pc = "write" /\ tx[t].changes # <<>>
    BY DEF InsertHistory
  <2>2. tx[t] \in Tx /\ tx[t].req \in Imports
    BY <2>1 DEF TypeOK
  <2> QED
    BY <2>1, <2>2 DEF Tx
<1>2. Tail(tx[t].changes) \in Seq(HistoryKeys) /\ row \in HistoryKeys
  BY <1>1, HeadTailProperties
<1>3. x \in Tx /\ x.pc = "write" /\ x.req = tx[t].req
  BY <1>1, <1>2 DEF Tx
<1>4. UNCHANGED <<dbVars, begun, feedVars>>
  BY DEF InsertHistory
<1>5. \/ tx' = [tx EXCEPT ![t] = x] /\ UNCHANGED nextXid
      \/ /\ tx' = [tx EXCEPT ![t] = [WithXid(x) EXCEPT !.logged = @ \cup {row}]]
         /\ TakeXid(x)
  BY DEF InsertHistory
<1> HIDE DEF x, row
<1>6. Running(x)
  BY <1>1, <1>3 DEF Running
<1>7. nextXid \in Nat \ {0}
  BY DEF TypeOK
<1>8. CASE tx' = [tx EXCEPT ![t] = x] /\ UNCHANGED nextXid
  BY <1>3, <1>4, <1>6, <1>7, <1>8, MoveType
<1>9. CASE tx' = [tx EXCEPT ![t] = [WithXid(x) EXCEPT !.logged = @ \cup {row}]] /\ TakeXid(x)
  <2> DEFINE w == WithXid(x)
             y == [w EXCEPT !.logged = @ \cup {row}]
  <2>1. w \in Tx /\ w.pc = "write" /\ w.req = tx[t].req
    BY <1>3, <1>7, WithXidType
  <2>2. tx' = [tx EXCEPT ![t] = y]
    BY <1>9
  <2> HIDE DEF w
  <2>3. y \in Tx /\ y.pc = "write" /\ y.req = tx[t].req
    BY <1>2, <2>1 DEF Tx
  <2> HIDE DEF y
  <2>4. Running(y)
    BY <1>1, <2>3 DEF Running
  <2>5. nextXid' \in Nat \ {0}
    BY <1>7, <1>9 DEF TakeXid
  <2> QED
    BY <1>4, <2>2, <2>3, <2>4, <2>5, MoveType
<1> QED
  BY <1>5, <1>8, <1>9

(* Inserting a new address keeps the types.                                *)
LEMMA InsertAddressType ==
  ASSUME TypeOK, NEW t \in Sessions, InsertAddress(t)
  PROVE  TypeOK'
<1>1. tx[t] \in Tx /\ tx[t].req \in Imports /\ tx[t].pc = "write"
  <2>1. tx[t].pc = "write"
    BY DEF InsertAddress, Flushing
  <2> QED
    BY <2>1 DEF TypeOK
<1>2. UNCHANGED <<dbVars, begun, feedVars>>
  BY DEF InsertAddress
<1>3. nextXid \in Nat \ {0}
  BY DEF TypeOK
<1>4. PICK ip \in Ips :
        \/ tx' = [tx EXCEPT ![t] = NoTx] /\ UNCHANGED nextXid
        \/ /\ tx' = [tx EXCEPT ![t] = [WithXid(tx[t]) EXCEPT !.created = @ \cup {ip}]]
           /\ TakeXid(tx[t])
  BY DEF InsertAddress
<1>5. CASE tx' = [tx EXCEPT ![t] = NoTx] /\ UNCHANGED nextXid
  BY <1>2, <1>5, RollbackType DEF Rollback
<1>6. CASE /\ tx' = [tx EXCEPT ![t] = [WithXid(tx[t]) EXCEPT !.created = @ \cup {ip}]]
           /\ TakeXid(tx[t])
  <2> DEFINE w == WithXid(tx[t])
             y == [w EXCEPT !.created = @ \cup {ip}]
  <2>1. w \in Tx /\ w.pc = "write" /\ w.req = tx[t].req
    BY <1>1, <1>3, WithXidType
  <2>2. tx' = [tx EXCEPT ![t] = y]
    BY <1>6
  <2> HIDE DEF w
  <2>3. y \in Tx /\ y.pc = "write" /\ y.req = tx[t].req
    BY <2>1 DEF Tx
  <2> HIDE DEF y
  <2>4. Running(y)
    BY <1>1, <2>3 DEF Running
  <2>5. nextXid' \in Nat \ {0}
    BY <1>1, <1>3, <1>6 DEF TakeXid, Tx
  <2> QED
    BY <1>2, <2>2, <2>3, <2>4, <2>5, MoveType
<1> QED
  BY <1>4, <1>5, <1>6

(* A step that ends t's transaction.                                       *)
LEMMA EndType ==
  ASSUME TypeOK, NEW t \in Sessions,
         tx' = [tx EXCEPT ![t] = NoTx],
         store' \in [Ips -> StoredIP], gen' \in [Ips -> Nat],
         observed' \subseteq Hostnames, history' \subseteq HistoryKeys,
         outbox \subseteq outbox', \A e \in outbox' : e.txid \in Nat /\ e.id \in Nat,
         nextXid' \in Nat \ {0},
         UNCHANGED <<begun, feedVars>>
  PROVE  TypeOK'
BY NoTxType DEF TypeOK, feedVars, NoTx

(* The outbox rows of an import are finitely many, and rows of its         *)
(* transaction.                                                            *)
LEMMA EventRowsType ==
  ASSUME NEW x \in Tx, x.req \in Imports
  PROVE  /\ \A e \in EventRows(x) : e.txid = x.xid /\ e.id \in Nat
         /\ IsFiniteSet(EventRows(x))
<1> DEFINE D == DOMAIN x.req.order
           B(i) == BuildEvent(x.req.order[i], x.snap[x.req.order[i]],
                              ChangeSet(x, x.req.order[i]))
           R(i) == {[txid |-> x.xid, id |-> i, event |-> e] : e \in B(i)}
           all == {R(i) : i \in D}
           f == [i \in D |-> R(i)]
<1>1. EventRows(x) = UNION all
  BY DEF EventRows
<1>2. D = 1..Len(x.req.order) /\ Len(x.req.order) \in Nat
  BY RequestType, LenProperties
<1>3. D \subseteq Nat
  BY <1>2
<1>4. \A i \in D : \A e \in R(i) : e.txid = x.xid /\ e.id = i
  OBVIOUS
<1>5. \A i \in D : IsFiniteSet(R(i))
  <2> TAKE i \in D
  <2>1. \/ B(i) = {}
        \/ \E e : B(i) = {e}
    BY DEF BuildEvent
  <2>2. \/ R(i) = {}
        \/ \E r : R(i) = {r}
    <3>1. CASE B(i) = {}
      BY <3>1
    <3>2. CASE \E e : B(i) = {e}
      <4>1. PICK e : B(i) = {e}
        BY <3>2
      <4> HIDE DEF B
      <4>2. R(i) = {[txid |-> x.xid, id |-> i, event |-> e]}
        BY <4>1
      <4> QED
        BY <4>2
    <3> QED
      BY <2>1, <3>1, <3>2
  <2> HIDE DEF R
  <2> QED
    BY <2>2, FS_EmptySet, FS_Singleton
<1> HIDE DEF R, D
<1>6. IsFiniteSet(D)
  BY <1>2, FS_Interval
<1>7. f \in Surjection(D, all)
  BY DEF Surjection
<1>8. IsFiniteSet(all)
  BY <1>6, <1>7, FS_Surjection
<1>9. IsFiniteSet(UNION all)
  BY <1>5, <1>8, FS_UNION
<1> QED
  BY <1>1, <1>3, <1>4, <1>9

(* The commit of an import keeps the types.                                *)
LEMMA CommitImportType ==
  ASSUME TypeOK, NEW t \in Sessions, CommitImport(t)
  PROVE  TypeOK'
<1> DEFINE x == WithXid(tx[t])
<1>1. tx[t] \in Tx /\ tx[t].req \in Imports
  <2>1. tx[t].pc = "write"
    BY DEF CommitImport, Written, Flushing
  <2> QED
    BY <2>1 DEF TypeOK
<1>2. nextXid \in Nat \ {0}
  BY DEF TypeOK
<1>3. x \in Tx /\ x.req \in Imports /\ x.xid \in Nat
  <2>1. x \in Tx /\ x.req = tx[t].req
    BY <1>1, <1>2, WithXidType
  <2> HIDE DEF x
  <2> QED
    BY <1>1, <2>1 DEF Tx
<1>4. /\ store' = [ip \in Ips |-> IF ip \in Addresses(x.req)
                                  THEN StoredFrom(ChangeSet(x, ip)) ELSE store[ip]]
      /\ gen' = [ip \in Ips |-> IF ip \in x.created THEN gen[ip] + 1 ELSE gen[ip]]
      /\ observed' = observed \cup x.inserted
      /\ history' = history \cup x.logged
      /\ outbox' = outbox \cup EventRows(x)
      /\ TakeXid(tx[t])
      /\ tx' = [tx EXCEPT ![t] = NoTx]
      /\ UNCHANGED <<begun, feedVars>>
  BY DEF CommitImport
<1> HIDE DEF x
<1>5. store' \in [Ips -> StoredIP]
  BY <1>3, <1>4, ChangeSetType DEF TypeOK
<1>6. gen' \in [Ips -> Nat]
  BY <1>4 DEF TypeOK
<1>7. observed' \subseteq Hostnames /\ history' \subseteq HistoryKeys
  BY <1>3, <1>4 DEF TypeOK, Tx
<1>8. \A e \in outbox' : e.txid \in Nat /\ e.id \in Nat
  BY <1>3, <1>4, EventRowsType DEF TypeOK
<1>9. nextXid' \in Nat \ {0}
  BY <1>1, <1>2, <1>4 DEF TakeXid, Tx
<1> QED
  BY <1>4, <1>5, <1>6, <1>7, <1>8, <1>9, EndType

(* The commit of a delete keeps the types.                                 *)
LEMMA CommitDeleteType ==
  ASSUME TypeOK, NEW t \in Sessions, CommitDelete(t)
  PROVE  TypeOK'
<1>1. store' \in [Ips -> StoredIP]
  <2>1. store' = [ip \in Ips |-> IF ip \in tx[t].locked THEN Unknown ELSE store[ip]]
    BY DEF CommitDelete
  <2>2. store \in [Ips -> StoredIP]
    BY DEF TypeOK
  <2> QED
    BY <2>1, <2>2, UnknownType
<1> QED
  BY <1>1, EndType DEF CommitDelete, TypeOK

(* A poll of the feed keeps the types.                                     *)
LEMMA PollType ==
  ASSUME TypeOK, Poll \/ PollUnsaved
  PROVE  TypeOK'
<1>1. cursor' \in Nat \X Nat
  <2>1. CASE Poll
    <3>1. \E last \in Page(cursor) : cursor' = Position(last)
      BY <2>1 DEF Poll
    <3>2. \A e \in Page(cursor) : e \in outbox
      BY DEF Page, Readable
    <3>3. \A e \in outbox : e.txid \in Nat /\ e.id \in Nat
      BY DEF TypeOK
    <3> QED
      BY <3>1, <3>2, <3>3 DEF Position
  <2>2. CASE PollUnsaved
    BY <2>2 DEF PollUnsaved, TypeOK
  <2> QED
    BY <2>1, <2>2
<1>2. delivered' \subseteq outbox
  <2>1. delivered' = delivered \cup Page(cursor)
    BY DEF Poll, PollUnsaved
  <2> QED
    BY <2>1 DEF TypeOK, Page, Readable
<1>3. UNCHANGED <<dbVars, nextXid, begun, tx>>
  BY DEF Poll, PollUnsaved
<1> QED
  BY <1>1, <1>2, <1>3 DEF TypeOK, dbVars

(* Every step of a session keeps the types.                                *)
LEMMA SessionType ==
  ASSUME TypeOK, NEW t \in Sessions,
         ClientStep(t) \/ ServerStep(t) \/ IdleTimeout(t) \/ DeadlockVictim(t)
  PROVE  TypeOK'
<1>1. CASE BeginImport(t)
  BY <1>1, BeginType DEF BeginImport
<1>2. CASE BeginDelete(t)
  BY <1>2, BeginType DEF BeginDelete
<1>3. CASE Abort(t) \/ IdleTimeout(t) \/ DeadlockVictim(t)
  BY <1>3, RollbackType DEF Abort, IdleTimeout, DeadlockVictim
<1> QED
  BY <1>1, <1>2, <1>3, SkipRowType, LockRowType, LoadedType, InsertNameType,
     InsertHistoryType, InsertAddressType, CommitImportType, CommitDeleteType DEF ClientStep, ServerStep

(* Every reachable state is well typed; in particular a session without a  *)
(* transaction holds no transaction id, no lock and no uncommitted row.    *)
THEOREM TypeCorrect == Spec => []TypeOK
<1>1. Init => TypeOK
  <2> SUFFICES ASSUME Init PROVE TypeOK
    OBVIOUS
  <2>1. tx \in [Sessions -> Tx] /\ \A t \in Sessions : tx[t] = NoTx
    BY NoTxType DEF Init
  <2>2. NoTx.pc = "idle"
    BY DEF NoTx
  <2>3. begun \in 0..MaxTx
    <3>1. MaxTx \in Nat
      BY ConstantsAssumption DEF ConstantsAssumption
    <3> QED
      BY <3>1 DEF Init
  <2> QED
    BY <2>1, <2>2, <2>3, UnknownType DEF Init, TypeOK
<1>2. TypeOK /\ [Next]_vars => TypeOK'
  <2> SUFFICES ASSUME TypeOK, [Next]_vars PROVE TypeOK'
    OBVIOUS
  <2>1. CASE Next
    BY <2>1, SessionType, PollType DEF Next
  <2>2. CASE UNCHANGED vars
    BY <2>2 DEF vars, TypeOK
  <2> QED
    BY <2>1, <2>2
<1> QED
  BY <1>1, <1>2, PTL DEF Spec

-----------------------------------------------------------------------------
(* The feed never skips a committed event.                                 *)

(* A step of t that leaves the outbox and the consumer alone, and in which *)
(* t keeps its transaction id, drops it or takes the next one.             *)
LEMMA XidStep ==
  ASSUME TypeOK, FeedInv, NEW t \in Sessions, NEW x,
         tx' = [tx EXCEPT ![t] = x],
         \/ x.xid \in {0, tx[t].xid} /\ nextXid' \in {nextXid, nextXid + 1}
         \/ x.xid = nextXid /\ nextXid' = nextXid + 1,
         UNCHANGED <<outbox, feedVars>>
  PROVE  FeedInv'
<1>1. /\ nextXid \in Nat \ {0}
      /\ \A u \in Sessions : tx[u].xid \in Nat
      /\ cursor[1] \in Nat
      /\ \A e \in outbox : e.txid \in Nat
      /\ tx \in [Sessions -> Tx]
  BY DEF TypeOK, Tx
<1>2. \A u \in Sessions : tx'[u] = IF u = t THEN x ELSE tx[u]
  BY <1>1
<1>3. cursor' = cursor /\ delivered' = delivered /\ outbox' = outbox
  BY DEF feedVars
<1>4. NoEventSkipped'
  BY <1>3 DEF FeedInv, NoEventSkipped, After
<1>5. \A u \in Sessions : /\ tx'[u].xid < nextXid'
                          /\ tx'[u].xid # 0 => cursor[1] < tx'[u].xid
  BY <1>1, <1>2 DEF FeedInv
<1>6. (\A e \in outbox : e.txid < nextXid') /\ cursor[1] < nextXid'
  BY <1>1 DEF FeedInv
<1> QED
  BY <1>3, <1>4, <1>5, <1>6 DEF FeedInv

(* Taking a row lock skips no event.                                       *)
LEMMA LockRowFeed ==
  ASSUME TypeOK, FeedInv, NEW t \in Sessions, LockRow(t)
  PROVE  FeedInv'
<1> DEFINE w == WithXid(tx[t])
           x == [w EXCEPT !.rows = Tail(@), !.locked = @ \cup {Head(tx[t].rows)[1]}]
<1>1. tx[t] \in Tx /\ nextXid \in Nat
  BY DEF TypeOK
<1>2. w \in Tx /\ w.xid = IF tx[t].xid = 0 THEN nextXid ELSE tx[t].xid
  BY <1>1, WithXidType
<1> HIDE DEF w
<1>3. x.xid = w.xid
  BY <1>2 DEF Tx
<1>4. /\ tx' = [tx EXCEPT ![t] = x]
      /\ nextXid' = IF tx[t].xid = 0 THEN nextXid + 1 ELSE nextXid
      /\ UNCHANGED <<outbox, feedVars>>
  BY DEF LockRow, TakeXid, dbVars, w
<1> HIDE DEF x
<1> QED
  BY <1>2, <1>3, <1>4, XidStep

(* Inserting a hostname, which may give the transaction its id, skips no   *)
(* event.                                                                  *)
LEMMA InsertNameFeed ==
  ASSUME TypeOK, FeedInv, NEW t \in Sessions, InsertName(t)
  PROVE  FeedInv'
<1> DEFINE h == Head(tx[t].names)
           x == [tx[t] EXCEPT !.names = Tail(@)]
<1>1. tx[t] \in Tx /\ nextXid \in Nat
  BY DEF TypeOK
<1>2. UNCHANGED <<outbox, feedVars>>
  BY DEF InsertName, dbVars
<1>3. x.xid = tx[t].xid
  BY <1>1 DEF Tx
<1>4. \/ tx' = [tx EXCEPT ![t] = x] /\ UNCHANGED nextXid
      \/ /\ tx' = [tx EXCEPT ![t] = [WithXid(x) EXCEPT !.inserted = @ \cup {h}]]
         /\ TakeXid(x)
  BY DEF InsertName
<1>5. CASE tx' = [tx EXCEPT ![t] = x] /\ UNCHANGED nextXid
  <2> HIDE DEF x
  <2> QED
    BY <1>2, <1>3, <1>5, XidStep
<1>6. CASE tx' = [tx EXCEPT ![t] = [WithXid(x) EXCEPT !.inserted = @ \cup {h}]] /\ TakeXid(x)
  <2> DEFINE w == WithXid(x)
             y == [w EXCEPT !.inserted = @ \cup {h}]
  <2>1. w.xid = IF x.xid = 0 THEN nextXid ELSE x.xid
    BY <1>1, <1>3 DEF WithXid, Tx
  <2>2. tx' = [tx EXCEPT ![t] = y]
    BY <1>6
  <2>3. nextXid' = IF x.xid = 0 THEN nextXid + 1 ELSE nextXid
    BY <1>6 DEF TakeXid
  <2> HIDE DEF w, x
  <2>4. y.xid = w.xid
    OBVIOUS
  <2> HIDE DEF y
  <2> QED
    BY <1>2, <1>3, <2>1, <2>2, <2>3, <2>4, XidStep
<1> QED
  BY <1>4, <1>5, <1>6

(* Inserting a history row, which may give the transaction its id, skips   *)
(* no event.                                                               *)
LEMMA InsertHistoryFeed ==
  ASSUME TypeOK, FeedInv, NEW t \in Sessions, InsertHistory(t)
  PROVE  FeedInv'
<1> DEFINE row == Head(tx[t].changes)
           x == [tx[t] EXCEPT !.changes = Tail(@)]
<1>1. tx[t] \in Tx /\ nextXid \in Nat
  BY DEF TypeOK
<1>2. UNCHANGED <<outbox, feedVars>>
  BY DEF InsertHistory, dbVars
<1>3. x.xid = tx[t].xid
  BY <1>1 DEF Tx
<1>4. \/ tx' = [tx EXCEPT ![t] = x] /\ UNCHANGED nextXid
      \/ /\ tx' = [tx EXCEPT ![t] = [WithXid(x) EXCEPT !.logged = @ \cup {row}]]
         /\ TakeXid(x)
  BY DEF InsertHistory
<1>5. CASE tx' = [tx EXCEPT ![t] = x] /\ UNCHANGED nextXid
  <2> HIDE DEF x
  <2> QED
    BY <1>2, <1>3, <1>5, XidStep
<1>6. CASE tx' = [tx EXCEPT ![t] = [WithXid(x) EXCEPT !.logged = @ \cup {row}]] /\ TakeXid(x)
  <2> DEFINE w == WithXid(x)
             y == [w EXCEPT !.logged = @ \cup {row}]
  <2>1. w.xid = IF x.xid = 0 THEN nextXid ELSE x.xid
    BY <1>1, <1>3 DEF WithXid, Tx
  <2>2. tx' = [tx EXCEPT ![t] = y]
    BY <1>6
  <2>3. nextXid' = IF x.xid = 0 THEN nextXid + 1 ELSE nextXid
    BY <1>6 DEF TakeXid
  <2> HIDE DEF w, x
  <2>4. y.xid = w.xid
    OBVIOUS
  <2> HIDE DEF y
  <2> QED
    BY <1>2, <1>3, <2>1, <2>2, <2>3, <2>4, XidStep
<1> QED
  BY <1>4, <1>5, <1>6

(* Inserting an address, which may give the transaction its id, skips no   *)
(* event.                                                                  *)
LEMMA InsertAddressFeed ==
  ASSUME TypeOK, FeedInv, NEW t \in Sessions, InsertAddress(t)
  PROVE  FeedInv'
<1>1. tx[t] \in Tx /\ nextXid \in Nat
  BY DEF TypeOK
<1>2. UNCHANGED <<outbox, feedVars>>
  BY DEF InsertAddress, dbVars
<1>3. PICK ip \in Ips :
        \/ tx' = [tx EXCEPT ![t] = NoTx] /\ UNCHANGED nextXid
        \/ /\ tx' = [tx EXCEPT ![t] = [WithXid(tx[t]) EXCEPT !.created = @ \cup {ip}]]
           /\ TakeXid(tx[t])
  BY DEF InsertAddress
<1>4. CASE tx' = [tx EXCEPT ![t] = NoTx] /\ UNCHANGED nextXid
  <2>1. NoTx.xid = 0
    BY DEF NoTx
  <2> QED
    BY <1>2, <1>4, <2>1, XidStep
<1>5. CASE /\ tx' = [tx EXCEPT ![t] = [WithXid(tx[t]) EXCEPT !.created = @ \cup {ip}]]
           /\ TakeXid(tx[t])
  <2> DEFINE w == WithXid(tx[t])
             y == [w EXCEPT !.created = @ \cup {ip}]
  <2>1. w \in Tx /\ w.xid = IF tx[t].xid = 0 THEN nextXid ELSE tx[t].xid
    BY <1>1, WithXidType
  <2>2. tx' = [tx EXCEPT ![t] = y]
    BY <1>5
  <2>3. nextXid' = IF tx[t].xid = 0 THEN nextXid + 1 ELSE nextXid
    BY <1>5 DEF TakeXid
  <2> HIDE DEF w
  <2>4. y.xid = w.xid
    BY <2>1 DEF Tx
  <2> HIDE DEF y
  <2> QED
    BY <1>2, <2>1, <2>2, <2>3, <2>4, XidStep
<1> QED
  BY <1>3, <1>4, <1>5

(* The rows a commit adds lie after the cursor: the committing transaction *)
(* was open, so its id is greater than the cursor's.                       *)
LEMMA CommitImportFeed ==
  ASSUME TypeOK, FeedInv, NEW t \in Sessions, CommitImport(t)
  PROVE  FeedInv'
<1> DEFINE x == WithXid(tx[t])
<1>1. tx[t] \in Tx /\ tx[t].req \in Imports /\ tx[t].xid \in Nat
  <2>1. tx[t].pc = "write"
    BY DEF CommitImport, Written, Flushing
  <2>2. tx[t] \in Tx /\ tx[t].req \in Imports
    BY <2>1 DEF TypeOK
  <2> QED
    BY <2>2 DEF Tx
<1>2. /\ nextXid \in Nat \ {0}
      /\ \A u \in Sessions : tx[u].xid \in Nat
      /\ cursor \in Nat \X Nat
      /\ tx \in [Sessions -> Tx]
  BY DEF TypeOK, Tx
<1>3. x \in Tx /\ x.req \in Imports /\ x.xid = IF tx[t].xid = 0 THEN nextXid ELSE tx[t].xid
  BY <1>1, <1>2, WithXidType
<1>4. /\ outbox' = outbox \cup EventRows(x)
      /\ nextXid' = IF tx[t].xid = 0 THEN nextXid + 1 ELSE nextXid
      /\ tx' = [tx EXCEPT ![t] = NoTx]
      /\ cursor' = cursor /\ delivered' = delivered
  BY DEF CommitImport, TakeXid, feedVars
<1> HIDE DEF x
<1>5. cursor[1] < x.xid /\ x.xid < nextXid'
  BY <1>1, <1>2, <1>3, <1>4 DEF FeedInv
<1>6. IsFiniteSet(outbox')
  BY <1>3, <1>4, EventRowsType, FS_Union DEF FeedInv
<1>7. \A u \in Sessions : /\ tx'[u].xid < nextXid'
                          /\ tx'[u].xid # 0 => cursor[1] < tx'[u].xid
  <2> TAKE u \in Sessions
  <2>1. tx'[u] = IF u = t THEN NoTx ELSE tx[u]
    BY <1>2, <1>4
  <2>2. NoTx.xid = 0
    BY DEF NoTx
  <2>3. tx[u].xid < nextXid /\ (tx[u].xid # 0 => cursor[1] < tx[u].xid)
    BY DEF FeedInv
  <2> QED
    BY <1>2, <1>4, <2>1, <2>2, <2>3
<1>8. \A e \in outbox : e.txid \in Nat /\ e.txid < nextXid
  BY DEF FeedInv, TypeOK
<1>9. \A e \in EventRows(x) : e.txid = x.xid
  BY <1>3, EventRowsType
<1>10. (\A e \in outbox' : e.txid < nextXid') /\ cursor[1] < nextXid'
  BY <1>2, <1>4, <1>5, <1>8, <1>9 DEF FeedInv
<1>11. NoEventSkipped'
  <2> SUFFICES ASSUME NEW e \in outbox', ~After(e, cursor)
               PROVE  e \in delivered
    BY <1>4 DEF NoEventSkipped, After
  <2>1. e \notin EventRows(x)
    BY <1>2, <1>5, <1>9 DEF After
  <2> QED
    BY <1>4, <2>1 DEF FeedInv, NoEventSkipped
<1> QED
  BY <1>4, <1>6, <1>7, <1>10, <1>11 DEF FeedInv

(* Every readable row up to the last row of a page is on that page.        *)
LEMMA PageIsPrefix ==
  ASSUME TypeOK, FeedInv, NEW last \in Page(cursor),
         NEW e \in Readable(cursor), ~After(e, Position(last))
  PROVE  e \in Page(cursor)
<1> DEFINE R == Readable(cursor)
           earlier(f) == {g \in R : Before(g, f)}
<1>1. R \subseteq outbox /\ \A f \in R : f.txid \in Nat /\ f.id \in Nat
  BY DEF Readable, TypeOK
<1>2. last \in R /\ Cardinality(earlier(last)) < Limit
  BY DEF Page
<1>3. earlier(e) \subseteq earlier(last)
  <2> SUFFICES ASSUME NEW g \in R, Before(g, e)
               PROVE  Before(g, last)
    OBVIOUS
  <2> QED
    BY <1>1, <1>2 DEF After, Before, Position
<1>4. IsFiniteSet(R)
  BY <1>1, FS_Subset DEF FeedInv
<1>5. IsFiniteSet(earlier(last)) /\ IsFiniteSet(earlier(e))
  BY <1>4, FS_Subset
<1>6. Cardinality(earlier(e)) <= Cardinality(earlier(last))
  BY <1>3, <1>5, FS_Subset
<1>7. Cardinality(earlier(e)) \in Nat /\ Cardinality(earlier(last)) \in Nat
  BY <1>5, FS_CardinalityType
<1>8. Limit \in Nat
  BY ConstantsAssumption DEF ConstantsAssumption
<1> HIDE DEF earlier, R
<1>9. Cardinality(earlier(e)) < Limit
  BY <1>2, <1>6, <1>7, <1>8
<1> QED
  BY <1>9 DEF Page, earlier, R

(* A poll that saves its cursor skips no event: whatever the new cursor    *)
(* passes was on the page.                                                 *)
LEMMA PollFeed ==
  ASSUME TypeOK, FeedInv, Poll
  PROVE  FeedInv'
<1>1. PICK last \in Page(cursor) : cursor' = Position(last)
  BY DEF Poll
<1>2. /\ delivered' = delivered \cup Page(cursor)
      /\ outbox' = outbox /\ nextXid' = nextXid /\ tx' = tx
  BY DEF Poll, dbVars
<1>3. last \in outbox /\ Finished(last.txid)
  BY DEF Page, Readable
<1>4. last.txid \in Nat /\ last.id \in Nat /\ last.txid < nextXid
  BY <1>3 DEF TypeOK, FeedInv
<1>5. cursor'[1] = last.txid /\ cursor'[2] = last.id
  BY <1>1 DEF Position
<1>6. \A t \in Sessions : tx[t].xid # 0 => last.txid < tx[t].xid
  BY <1>3 DEF Finished
<1>7. NoEventSkipped'
  <2> SUFFICES ASSUME NEW e \in outbox, ~After(e, Position(last))
               PROVE  e \in delivered \cup Page(cursor)
    BY <1>1, <1>2 DEF NoEventSkipped, After
  <2>1. CASE ~After(e, cursor)
    BY <2>1 DEF FeedInv, NoEventSkipped
  <2>2. CASE After(e, cursor)
    <3>1. e.txid \in Nat /\ e.txid <= last.txid
      BY <1>4 DEF After, Position, TypeOK
    <3>2. \A t \in Sessions : tx[t].xid \in Nat
      BY DEF TypeOK, Tx
    <3>3. Finished(e.txid)
      BY <1>4, <1>6, <3>1, <3>2 DEF Finished
    <3>4. e \in Readable(cursor)
      BY <2>2, <3>3 DEF Readable
    <3> QED
      BY <3>4, PageIsPrefix
  <2> QED
    BY <2>1, <2>2
<1> QED
  BY <1>2, <1>4, <1>5, <1>6, <1>7 DEF FeedInv

(* A poll whose cursor is lost skips no event: the cursor stays where it   *)
(* was.                                                                    *)
LEMMA PollUnsavedFeed ==
  ASSUME TypeOK, FeedInv, PollUnsaved
  PROVE  FeedInv'
<1>1. /\ delivered' = delivered \cup Page(cursor)
      /\ outbox' = outbox /\ nextXid' = nextXid /\ tx' = tx /\ cursor' = cursor
  BY DEF PollUnsaved, dbVars
<1> QED
  BY <1>1 DEF FeedInv, NoEventSkipped, After

(* A step after which t's transaction has no id, or the same one.          *)
LEMMA QuietFeed ==
  ASSUME TypeOK, FeedInv, NEW t \in Sessions, NEW x,
         tx' = [tx EXCEPT ![t] = x], x.xid \in {0, tx[t].xid},
         UNCHANGED <<outbox, nextXid, feedVars>>
  PROVE  FeedInv'
BY XidStep

(* A rollback skips no event.                                              *)
LEMMA RollbackFeed ==
  ASSUME TypeOK, FeedInv, NEW t \in Sessions,
         tx' = [tx EXCEPT ![t] = NoTx], UNCHANGED <<outbox, nextXid, feedVars>>
  PROVE  FeedInv'
<1>1. NoTx.xid = 0
  BY DEF NoTx
<1> QED
  BY <1>1, QuietFeed

(* A request that begins skips no event.                                   *)
LEMMA BeginFeed ==
  ASSUME TypeOK, FeedInv, NEW t \in Sessions, NEW r, NEW pc, Begin(t, r, pc)
  PROVE  FeedInv'
<1>1. UNCHANGED <<outbox, nextXid, feedVars>>
  BY DEF Begin, dbVars
<1>2. \E rows : tx' = [tx EXCEPT ![t] = [NoTx EXCEPT !.pc = pc, !.req = r, !.rows = rows]]
  BY DEF Begin
<1>3. PICK rows : tx' = [tx EXCEPT ![t] = [NoTx EXCEPT !.pc = pc, !.req = r, !.rows = rows]]
  BY <1>2
<1> DEFINE x == [NoTx EXCEPT !.pc = pc, !.req = r, !.rows = rows]
<1>4. x.xid = 0
  BY DEF NoTx
<1>5. tx' = [tx EXCEPT ![t] = x]
  BY <1>3
<1> HIDE DEF x
<1> QED
  BY <1>1, <1>4, <1>5, QuietFeed

(* Passing over a row that is not stored skips no event.                   *)
LEMMA SkipRowFeed ==
  ASSUME TypeOK, FeedInv, NEW t \in Sessions, SkipRow(t)
  PROVE  FeedInv'
<1> DEFINE x == [tx[t] EXCEPT !.rows = Tail(@)]
<1>1. tx' = [tx EXCEPT ![t] = x] /\ UNCHANGED <<outbox, nextXid, feedVars>>
  BY DEF SkipRow, dbVars
<1>2. x.xid = tx[t].xid
  BY DEF TypeOK, Tx
<1> HIDE DEF x
<1> QED
  BY <1>1, <1>2, QuietFeed

(* Computing the change sets skips no event.                               *)
LEMMA LoadedFeed ==
  ASSUME TypeOK, FeedInv, NEW t \in Sessions, Loaded(t)
  PROVE  FeedInv'
<1> DEFINE snap == [ip \in Ips |-> IF ip \in tx[t].locked THEN store[ip] ELSE Unknown]
           x == [tx[t] EXCEPT !.pc = "write", !.snap = snap]
<1>1. x.xid = tx[t].xid
  BY DEF TypeOK, Tx
<1>2. UNCHANGED <<outbox, nextXid, feedVars>>
  BY DEF Loaded, dbVars
<1>3. \E names, changes :
        tx' = [tx EXCEPT ![t] = [x EXCEPT !.names = names, !.changes = changes]]
  BY DEF Loaded
<1>4. PICK names, changes :
        tx' = [tx EXCEPT ![t] = [x EXCEPT !.names = names, !.changes = changes]]
  BY <1>3
<1> HIDE DEF x
<1> DEFINE y == [x EXCEPT !.names = names, !.changes = changes]
<1>5. y.xid = x.xid /\ tx' = [tx EXCEPT ![t] = y]
  BY <1>4
<1> HIDE DEF y
<1> QED
  BY <1>1, <1>2, <1>5, QuietFeed

(* No step of a session skips an event.                                    *)
LEMMA SessionFeed ==
  ASSUME TypeOK, FeedInv, NEW t \in Sessions,
         ClientStep(t) \/ ServerStep(t) \/ IdleTimeout(t) \/ DeadlockVictim(t)
  PROVE  FeedInv'
<1>1. CASE BeginImport(t) \/ BeginDelete(t)
  BY <1>1, BeginFeed DEF BeginImport, BeginDelete
<1>2. CASE Abort(t) \/ IdleTimeout(t) \/ DeadlockVictim(t)
  BY <1>2, RollbackFeed DEF Abort, IdleTimeout, DeadlockVictim, Rollback, dbVars
<1>3. CASE CommitDelete(t)
  BY <1>3, RollbackFeed DEF CommitDelete
<1> QED
  BY <1>1, <1>2, <1>3, SkipRowFeed, LockRowFeed, LoadedFeed, InsertNameFeed,
     InsertHistoryFeed, InsertAddressFeed, CommitImportFeed DEF ClientStep, ServerStep

(* Transaction ids are fresh, and the cursor stays behind every open       *)
(* transaction that has one.                                               *)
LEMMA FeedInvHolds == Spec => []FeedInv
<1>1. Init => FeedInv
  <2> SUFFICES ASSUME Init PROVE FeedInv
    OBVIOUS
  <2>1. \A t \in Sessions : tx[t] = NoTx
    BY DEF Init
  <2>2. NoTx.xid = 0
    BY DEF NoTx
  <2>3. outbox = {} /\ nextXid = 1 /\ cursor[1] = 0
    BY DEF Init
  <2> QED
    BY <2>1, <2>2, <2>3, FS_EmptySet DEF FeedInv, NoEventSkipped
<1>2. TypeOK /\ FeedInv /\ [Next]_vars => FeedInv'
  <2> SUFFICES ASSUME TypeOK, FeedInv, [Next]_vars PROVE FeedInv'
    OBVIOUS
  <2>1. CASE Next
    BY <2>1, SessionFeed, PollFeed, PollUnsavedFeed DEF Next
  <2>2. CASE UNCHANGED vars
    BY <2>2 DEF vars, FeedInv, NoEventSkipped, After
  <2> QED
    BY <2>1, <2>2
<1> QED
  BY TypeCorrect, <1>1, <1>2, PTL DEF Spec

(* A slow import's events are delayed, never skipped: in every reachable   *)
(* state, each committed event that the consumer's cursor has passed was   *)
(* on a page the consumer processed.                                       *)
THEOREM FeedNeverSkips == Spec => []NoEventSkipped
<1>1. FeedInv => NoEventSkipped
  BY DEF FeedInv
<1> QED
  BY FeedInvHolds, <1>1, PTL

-----------------------------------------------------------------------------
(* What the row locks buy: between _load and commit nobody else changes    *)
(* what an import has read, so each commit is one atomic step of           *)
(* InventoryLog.                                                           *)

(* The inductive invariant.                                                *)

(* No two sessions hold the same row, or have created the same address.    *)
HeldApart ==
  \A t, u \in Sessions :
    t # u => /\ tx[t].locked \cap tx[u].locked = {}
             /\ tx[t].created \cap tx[u].created = {}

(* A statement that is still locking rows locks those of its request.      *)
LockingInv(x) ==
  x.pc \in {"load", "delete"} =>
    /\ x.created = {} /\ x.locked \subseteq Addresses(x.req)
    /\ x.rows \in Seq(Addresses(x.req) \X Nat)

(* The snapshots of an import that is writing are still true: of the rows  *)
(* it holds, and Unknown of the addresses it has to create.                *)
SnapshotInv(x) ==
  x.pc = "write" =>
    /\ \A ip \in Addresses(x.req) :
         /\ x.snap[ip].known => ip \in x.locked /\ x.snap[ip] = store[ip]
         /\ ~x.snap[ip].known => x.snap[ip] = Unknown
    /\ x.created \subseteq {ip \in Addresses(x.req) : ~x.snap[ip].known}

TxInv(x) ==
  /\ \A ip \in x.locked : store[ip].known
  /\ \A ip \in x.created : ~store[ip].known
  /\ LockingInv(x)
  /\ SnapshotInv(x)

AbsentInv == \A ip \in Ips : ~store[ip].known => store[ip] = Unknown

LockInv ==
  /\ HeldApart
  /\ \A t \in Sessions : TxInv(tx[t])
  /\ AbsentInv

-----------------------------------------------------------------------------
(* A session without a transaction holds nothing.                          *)
LEMMA NoTxHoldsNothing ==
  /\ NoTx.pc = "idle" /\ NoTx.locked = {} /\ NoTx.created = {}
  /\ TxInv(NoTx)
<1>1. NoTx.pc = "idle" /\ NoTx.locked = {} /\ NoTx.created = {}
  BY DEF NoTx
<1> QED
  BY <1>1 DEF TxInv, LockingInv, SnapshotInv

(* A step that moves t's own transaction and leaves the store alone: what  *)
(* is left to show is about t.                                             *)
LEMMA MoveLock ==
  ASSUME TypeOK, LockInv, NEW t \in Sessions, NEW x,
         tx' = [tx EXCEPT ![t] = x], UNCHANGED store,
         TxInv(x),
         \A u \in Sessions : u # t => /\ x.locked \cap tx[u].locked = {}
                                      /\ x.created \cap tx[u].created = {}
  PROVE  LockInv'
<1>1. \A u \in Sessions : tx'[u] = IF u = t THEN x ELSE tx[u]
  BY DEF TypeOK
<1>2. HeldApart'
  BY <1>1 DEF LockInv, HeldApart
<1>3. \A u \in Sessions : TxInv(tx[u])' <=> TxInv(tx'[u])
  BY DEF TxInv, LockingInv, SnapshotInv
<1>4. \A u \in Sessions : TxInv(tx'[u])
  BY <1>1 DEF LockInv
<1>5. AbsentInv'
  BY DEF LockInv, AbsentInv
<1> QED
  BY <1>2, <1>3, <1>4, <1>5 DEF LockInv

(* A rollback.                                                             *)
LEMMA RollbackLock ==
  ASSUME TypeOK, LockInv, NEW t \in Sessions,
         tx' = [tx EXCEPT ![t] = NoTx], UNCHANGED store
  PROVE  LockInv'
BY NoTxHoldsNothing, MoveLock

(* A request begins: it holds nothing yet, and the rows it will visit are  *)
(* those of its own addresses.                                             *)
LEMMA BeginLock ==
  ASSUME TypeOK, LockInv, NEW t \in Sessions, NEW r \in Imports \cup Deletes,
         NEW pc, pc \in {"load", "delete"}, Begin(t, r, pc)
  PROVE  LockInv'
<1> DEFINE A == {ip \in Addresses(r) : store[ip].known}
<1>1. PICK rows \in Orders({<<ip, gen[ip]>> : ip \in A}) :
        tx' = [tx EXCEPT ![t] = [NoTx EXCEPT !.pc = pc, !.req = r, !.rows = rows]]
  BY DEF Begin
<1>2. UNCHANGED store
  BY DEF Begin, dbVars
<1>3. rows \in Seq(Addresses(r) \X Nat)
  <2>1. A \subseteq Ips /\ gen \in [Ips -> Nat]
    BY RequestType DEF TypeOK
  <2>2. rows \in Seq(A \X Nat)
    BY <2>1, RowsType
  <2> QED
    BY <2>2, SeqMonotonic
<1> DEFINE x == [NoTx EXCEPT !.pc = pc, !.req = r, !.rows = rows]
<1>4. /\ x.pc = pc /\ x.req = r /\ x.rows = rows
      /\ x.locked = {} /\ x.created = {}
  BY DEF NoTx
<1>5. tx' = [tx EXCEPT ![t] = x]
  BY <1>1
<1> HIDE DEF x
<1>6. TxInv(x)
  BY <1>3, <1>4 DEF TxInv, LockingInv, SnapshotInv
<1> QED
  BY <1>2, <1>4, <1>5, <1>6, MoveLock

(* The statement skips a row.                                              *)
LEMMA SkipRowLock ==
  ASSUME TypeOK, LockInv, NEW t \in Sessions, SkipRow(t)
  PROVE  LockInv'
<1> DEFINE x == [tx[t] EXCEPT !.rows = Tail(@)]
<1>1. tx' = [tx EXCEPT ![t] = x] /\ UNCHANGED store
  BY DEF SkipRow, dbVars
<1>2. tx[t] \in Tx /\ tx[t].pc \in {"load", "delete"} /\ tx[t].rows # <<>>
  BY DEF SkipRow, TypeOK
<1>3. /\ x.pc = tx[t].pc /\ x.req = tx[t].req /\ x.rows = Tail(tx[t].rows)
      /\ x.locked = tx[t].locked /\ x.created = tx[t].created
  BY <1>2 DEF Tx
<1> HIDE DEF x
<1>4. TxInv(tx[t])
  BY DEF LockInv
<1>5. x.rows \in Seq(Addresses(x.req) \X Nat)
  BY <1>2, <1>3, <1>4, HeadTailProperties DEF TxInv, LockingInv
<1>6. TxInv(x)
  BY <1>2, <1>3, <1>4, <1>5 DEF TxInv, LockingInv, SnapshotInv
<1> QED
  BY <1>1, <1>3, <1>6, MoveLock DEF LockInv, HeldApart

(* The statement locks a row: it is stored and nobody else holds it.       *)
LEMMA LockRowLock ==
  ASSUME TypeOK, LockInv, NEW t \in Sessions, LockRow(t)
  PROVE  LockInv'
<1> DEFINE w == WithXid(tx[t])
           ip == Head(tx[t].rows)[1]
           x == [w EXCEPT !.rows = Tail(@), !.locked = @ \cup {ip}]
<1>1. tx' = [tx EXCEPT ![t] = x] /\ UNCHANGED store
  BY DEF LockRow, dbVars
<1>2. tx[t] \in Tx /\ tx[t].pc \in {"load", "delete"} /\ tx[t].rows # <<>> /\ nextXid \in Nat
  BY DEF LockRow, TypeOK
<1>3. /\ w \in Tx
      /\ w.pc = tx[t].pc /\ w.req = tx[t].req /\ w.rows = tx[t].rows
      /\ w.locked = tx[t].locked /\ w.created = tx[t].created
  BY <1>2, WithXidType
<1> HIDE DEF w
<1>4. /\ x.pc = tx[t].pc /\ x.req = tx[t].req /\ x.rows = Tail(tx[t].rows)
      /\ x.locked = tx[t].locked \cup {ip} /\ x.created = tx[t].created
  BY <1>3 DEF Tx
<1> HIDE DEF x
<1>5. TxInv(tx[t])
  BY DEF LockInv
<1>6. /\ x.rows \in Seq(Addresses(x.req) \X Nat)
      /\ Head(tx[t].rows) \in Addresses(x.req) \X Nat
  BY <1>2, <1>4, <1>5, HeadTailProperties DEF TxInv, LockingInv
<1>7. store[ip].known
  BY DEF LockRow, Gone
<1>8. \A u \in Sessions : u # t => ip \notin tx[u].locked
  <2> SUFFICES ASSUME NEW u \in Sessions, u # t, ip \in tx[u].locked
               PROVE  FALSE
    OBVIOUS
  <2>1. WaitsForRow(t, u)
    BY DEF LockRow, WaitsForRow
  <2>2. Blocked(t)
    BY <2>1 DEF Blocked, WaitsFor
  <2> QED
    BY <2>2 DEF LockRow
<1> HIDE DEF ip
<1>9. TxInv(x)
  <2>1. ip \in Addresses(x.req)
    BY <1>6 DEF ip
  <2>2. LockingInv(x)
    BY <1>2, <1>4, <1>5, <1>6, <2>1 DEF TxInv, LockingInv
  <2>3. SnapshotInv(x)
    BY <1>2, <1>4 DEF SnapshotInv
  <2> QED
    BY <1>4, <1>5, <1>7, <2>2, <2>3 DEF TxInv
<1>10. \A u \in Sessions : u # t => /\ x.locked \cap tx[u].locked = {}
                                    /\ x.created \cap tx[u].created = {}
  BY <1>4, <1>8 DEF LockInv, HeldApart
<1> QED
  BY <1>1, <1>9, <1>10, MoveLock

(* _load returns: the snapshots are what is stored, under the lock.        *)
LEMMA LoadedLock ==
  ASSUME TypeOK, LockInv, NEW t \in Sessions, Loaded(t)
  PROVE  LockInv'
<1> DEFINE snap == [ip \in Ips |-> IF ip \in tx[t].locked THEN store[ip] ELSE Unknown]
           x == [tx[t] EXCEPT !.pc = "write", !.snap = snap]
<1>1. tx[t] \in Tx /\ tx[t].pc = "load" /\ tx[t].req \in Imports
  BY DEF Loaded, TypeOK
<1>2. UNCHANGED store
  BY DEF Loaded, dbVars
<1>3. PICK names, changes :
        tx' = [tx EXCEPT ![t] = [x EXCEPT !.names = names, !.changes = changes]]
  <2>1. \E names, changes :
          tx' = [tx EXCEPT ![t] = [x EXCEPT !.names = names, !.changes = changes]]
    BY DEF Loaded
  <2> QED
    BY <2>1
<1> DEFINE y == [x EXCEPT !.names = names, !.changes = changes]
<1> HIDE DEF snap
<1>4. /\ y.pc = "write" /\ y.req = tx[t].req /\ y.snap = snap
      /\ y.locked = tx[t].locked /\ y.created = tx[t].created
  BY <1>1 DEF Tx
<1>5. tx' = [tx EXCEPT ![t] = y]
  BY <1>3
<1> HIDE DEF x, y
<1>6. TxInv(tx[t])
  BY DEF LockInv
<1>7. Addresses(tx[t].req) \subseteq Ips
  BY <1>1, RequestType
<1>8. \A ip \in Ips : snap[ip] = IF ip \in tx[t].locked THEN store[ip] ELSE Unknown
  BY DEF snap
<1>9. ~Unknown.known
  BY DEF Unknown
<1>10. TxInv(y)
  <2>1. y.created = {}
    BY <1>1, <1>4, <1>6 DEF TxInv, LockingInv
  <2>2. \A ip \in Addresses(y.req) :
          /\ y.snap[ip].known => ip \in y.locked /\ y.snap[ip] = store[ip]
          /\ ~y.snap[ip].known => y.snap[ip] = Unknown
    BY <1>4, <1>6, <1>7, <1>8, <1>9 DEF TxInv
  <2> QED
    BY <1>4, <1>6, <2>1, <2>2 DEF TxInv, LockingInv, SnapshotInv
<1>11. \A u \in Sessions : u # t => /\ y.locked \cap tx[u].locked = {}
                                    /\ y.created \cap tx[u].created = {}
  BY <1>4 DEF LockInv, HeldApart
<1> QED
  BY <1>2, <1>5, <1>10, <1>11, MoveLock

(* A hostname is inserted: rows and addresses are not touched.             *)
LEMMA InsertNameLock ==
  ASSUME TypeOK, LockInv, NEW t \in Sessions, InsertName(t)
  PROVE  LockInv'
<1> DEFINE h == Head(tx[t].names)
           x == [tx[t] EXCEPT !.names = Tail(@)]
           w == WithXid(x)
           y == [w EXCEPT !.inserted = @ \cup {h}]
<1>1. tx[t] \in Tx /\ tx[t].pc = "write" /\ nextXid \in Nat
      /\ tx[t].names \in Seq(Hostnames) /\ tx[t].names # <<>>
  BY DEF InsertName, TypeOK, Tx
<1>2. UNCHANGED store
  BY DEF InsertName, dbVars
<1>3. tx' = [tx EXCEPT ![t] = x] \/ tx' = [tx EXCEPT ![t] = y]
  BY DEF InsertName
<1>4. Tail(tx[t].names) \in Seq(Hostnames)
  BY <1>1, HeadTailProperties
<1>5. /\ x \in Tx
      /\ x.pc = "write" /\ x.req = tx[t].req /\ x.snap = tx[t].snap
      /\ x.locked = tx[t].locked /\ x.created = tx[t].created
  BY <1>1, <1>4 DEF Tx
<1> HIDE DEF x
<1>6. /\ w \in Tx
      /\ w.pc = x.pc /\ w.req = x.req /\ w.snap = x.snap
      /\ w.locked = x.locked /\ w.created = x.created
  BY <1>1, <1>5, WithXidType
<1> HIDE DEF w
<1>7. /\ y.pc = "write" /\ y.req = tx[t].req /\ y.snap = tx[t].snap
      /\ y.locked = tx[t].locked /\ y.created = tx[t].created
  BY <1>5, <1>6 DEF Tx
<1> HIDE DEF y
<1>8. TxInv(tx[t])
  BY DEF LockInv
<1>9. \A u \in Sessions : u # t => /\ tx[t].locked \cap tx[u].locked = {}
                                   /\ tx[t].created \cap tx[u].created = {}
  BY DEF LockInv, HeldApart
<1>10. TxInv(x) /\ TxInv(y)
  BY <1>1, <1>5, <1>7, <1>8 DEF TxInv, LockingInv, SnapshotInv
<1> QED
  BY <1>2, <1>3, <1>5, <1>7, <1>9, <1>10, MoveLock

(* A history row is inserted: rows and addresses are not touched.          *)
LEMMA InsertHistoryLock ==
  ASSUME TypeOK, LockInv, NEW t \in Sessions, InsertHistory(t)
  PROVE  LockInv'
<1> DEFINE row == Head(tx[t].changes)
           x == [tx[t] EXCEPT !.changes = Tail(@)]
           w == WithXid(x)
           y == [w EXCEPT !.logged = @ \cup {row}]
<1>1. tx[t] \in Tx /\ tx[t].pc = "write" /\ nextXid \in Nat
      /\ tx[t].changes \in Seq(HistoryKeys) /\ tx[t].changes # <<>>
  BY DEF InsertHistory, TypeOK, Tx
<1>2. UNCHANGED store
  BY DEF InsertHistory, dbVars
<1>3. tx' = [tx EXCEPT ![t] = x] \/ tx' = [tx EXCEPT ![t] = y]
  BY DEF InsertHistory
<1>4. Tail(tx[t].changes) \in Seq(HistoryKeys)
  BY <1>1, HeadTailProperties
<1>5. /\ x \in Tx
      /\ x.pc = "write" /\ x.req = tx[t].req /\ x.snap = tx[t].snap
      /\ x.locked = tx[t].locked /\ x.created = tx[t].created
  BY <1>1, <1>4 DEF Tx
<1> HIDE DEF x
<1>6. /\ w \in Tx
      /\ w.pc = x.pc /\ w.req = x.req /\ w.snap = x.snap
      /\ w.locked = x.locked /\ w.created = x.created
  BY <1>1, <1>5, WithXidType
<1> HIDE DEF w
<1>7. /\ y.pc = "write" /\ y.req = tx[t].req /\ y.snap = tx[t].snap
      /\ y.locked = tx[t].locked /\ y.created = tx[t].created
  BY <1>5, <1>6 DEF Tx
<1> HIDE DEF y
<1>8. TxInv(tx[t])
  BY DEF LockInv
<1>9. \A u \in Sessions : u # t => /\ tx[t].locked \cap tx[u].locked = {}
                                   /\ tx[t].created \cap tx[u].created = {}
  BY DEF LockInv, HeldApart
<1>10. TxInv(x) /\ TxInv(y)
  BY <1>1, <1>5, <1>7, <1>8 DEF TxInv, LockingInv, SnapshotInv
<1> QED
  BY <1>2, <1>3, <1>5, <1>7, <1>9, <1>10, MoveLock

(* An address is inserted: it is not stored, and nobody else has inserted  *)
(* it.  When it is stored the request fails.                               *)
LEMMA InsertAddressLock ==
  ASSUME TypeOK, LockInv, NEW t \in Sessions, InsertAddress(t)
  PROVE  LockInv'
<1>1. tx[t] \in Tx /\ tx[t].pc = "write" /\ Flushing(tx[t]) /\ nextXid \in Nat
  BY DEF InsertAddress, Flushing, TypeOK
<1>2. UNCHANGED store
  BY DEF InsertAddress, dbVars
<1>3. PICK ip \in Ips :
        /\ IsNext(tx[t], ip)
        /\ \/ tx' = [tx EXCEPT ![t] = NoTx]
           \/ /\ ~store[ip].known
              /\ tx' = [tx EXCEPT ![t] = [WithXid(tx[t]) EXCEPT !.created = @ \cup {ip}]]
  BY DEF InsertAddress
<1>4. CASE tx' = [tx EXCEPT ![t] = NoTx]
  BY <1>2, <1>4, RollbackLock
<1>5. CASE /\ ~store[ip].known
           /\ tx' = [tx EXCEPT ![t] = [WithXid(tx[t]) EXCEPT !.created = @ \cup {ip}]]
  <2> DEFINE w == WithXid(tx[t])
             y == [w EXCEPT !.created = @ \cup {ip}]
  <2>1. /\ w \in Tx
        /\ w.pc = "write" /\ w.req = tx[t].req /\ w.snap = tx[t].snap
        /\ w.locked = tx[t].locked /\ w.created = tx[t].created
    BY <1>1, WithXidType
  <2>2. tx' = [tx EXCEPT ![t] = y]
    BY <1>5
  <2> HIDE DEF w
  <2>3. /\ y.pc = "write" /\ y.req = tx[t].req /\ y.snap = tx[t].snap
        /\ y.locked = tx[t].locked /\ y.created = tx[t].created \cup {ip}
    BY <2>1 DEF Tx
  <2> HIDE DEF y
  <2>4. TxInv(tx[t])
    BY DEF LockInv
  <2>5. ip \in Addresses(tx[t].req) /\ ~tx[t].snap[ip].known
    BY <1>3 DEF IsNext, ToCreate
  <2>6. TxInv(y)
    BY <1>1, <1>5, <2>3, <2>4, <2>5 DEF TxInv, LockingInv, SnapshotInv
  <2>7. \A u \in Sessions : u # t => ip \notin tx[u].created
    <3> SUFFICES ASSUME NEW u \in Sessions, u # t, ip \in tx[u].created
                 PROVE  FALSE
      OBVIOUS
    <3>1. WaitsForAddress(t, u)
      BY <1>1, <1>3 DEF WaitsForAddress
    <3>2. Blocked(t)
      BY <3>1 DEF Blocked, WaitsFor
    <3> QED
      BY <3>2 DEF InsertAddress
  <2>8. \A u \in Sessions : u # t => /\ y.locked \cap tx[u].locked = {}
                                     /\ y.created \cap tx[u].created = {}
    BY <2>3, <2>7 DEF LockInv, HeldApart
  <2> QED
    BY <1>2, <2>2, <2>6, <2>8, MoveLock
<1> QED
  BY <1>3, <1>4, <1>5

-----------------------------------------------------------------------------
(* The commits.                                                            *)

(* What a writing import read is what is stored when it commits, and it    *)
(* holds or has created every address it writes.                           *)
LEMMA ReadsAreCurrent ==
  ASSUME TypeOK, LockInv, NEW t \in Sessions, Written(t)
  PROVE  \A ip \in Addresses(tx[t].req) :
           /\ tx[t].snap[ip] = store[ip]
           /\ ip \in tx[t].locked \cup tx[t].created
<1> SUFFICES ASSUME NEW ip \in Addresses(tx[t].req)
             PROVE  /\ tx[t].snap[ip] = store[ip]
                    /\ ip \in tx[t].locked \cup tx[t].created
  OBVIOUS
<1>1. tx[t].pc = "write" /\ tx[t].req \in Imports /\ ToCreate(tx[t]) = {}
  BY DEF Written, Flushing, TypeOK
<1>2. ip \in Ips
  BY <1>1, RequestType
<1>3. TxInv(tx[t])
  BY DEF LockInv
<1>4. CASE tx[t].snap[ip].known
  BY <1>1, <1>3, <1>4 DEF TxInv, SnapshotInv
<1>5. CASE ~tx[t].snap[ip].known
  <2>1. ip \in tx[t].created
    BY <1>1, <1>5 DEF ToCreate
  <2>2. store[ip] = Unknown
    BY <1>2, <1>3, <2>1 DEF TxInv, LockInv, AbsentInv
  <2> QED
    BY <1>1, <1>3, <1>5, <2>1, <2>2 DEF TxInv, SnapshotInv
<1> QED
  BY <1>4, <1>5

(* What one session holds or has created, no other does.                   *)
LEMMA HoldingsApart ==
  ASSUME LockInv, NEW t \in Sessions, NEW u \in Sessions, t # u
  PROVE  (tx[t].locked \cup tx[t].created) \cap (tx[u].locked \cup tx[u].created) = {}
<1>1. TxInv(tx[t]) /\ TxInv(tx[u])
  BY DEF LockInv
<1> QED
  BY <1>1 DEF LockInv, HeldApart, TxInv

(* A step that ends t's transaction and writes only addresses t holds or   *)
(* has created: nobody else read or holds any of them.                     *)
LEMMA EndLock ==
  ASSUME TypeOK, LockInv, NEW t \in Sessions,
         tx' = [tx EXCEPT ![t] = NoTx],
         \A ip \in Ips : ip \notin tx[t].locked \cup tx[t].created => store'[ip] = store[ip],
         \A ip \in Ips : ~store'[ip].known => store'[ip] = Unknown
  PROVE  LockInv'
<1>1. \A u \in Sessions : tx'[u] = IF u = t THEN NoTx ELSE tx[u]
  BY DEF TypeOK
<1>2. HeldApart'
  BY <1>1, NoTxHoldsNothing DEF LockInv, HeldApart
<1>3. AbsentInv'
  BY DEF AbsentInv
<1>4. \A u \in Sessions : TxInv(tx[u])'
  <2> SUFFICES ASSUME NEW u \in Sessions
               PROVE  TxInv(tx[u])'
    OBVIOUS
  <2>1. CASE u = t
    BY <1>1, <2>1, NoTxHoldsNothing DEF TxInv, LockingInv, SnapshotInv
  <2>2. CASE u # t
    <3>1. tx'[u] = tx[u]
      BY <1>1, <2>2
    <3>2. TxInv(tx[u]) /\ TxInv(tx[t])
      BY DEF LockInv
    <3>3. tx[u].locked \subseteq Ips /\ tx[u].created \subseteq Ips
      BY DEF TypeOK, Tx
    <3>4. \A ip \in tx[u].locked \cup tx[u].created : ip \notin tx[t].locked \cup tx[t].created
      BY <2>2, HoldingsApart
    <3>5. \A ip \in tx[u].locked \cup tx[u].created : store'[ip] = store[ip]
      BY <3>3, <3>4
    <3>6. LockingInv(tx[u])'
      BY <3>1, <3>2 DEF TxInv, LockingInv
    <3>7. SnapshotInv(tx[u])'
      BY <3>1, <3>2, <3>5 DEF TxInv, SnapshotInv
    <3> QED
      BY <3>1, <3>2, <3>5, <3>6, <3>7 DEF TxInv
  <2> QED
    BY <2>1, <2>2
<1> QED
  BY <1>2, <1>3, <1>4 DEF LockInv

(* The commit of an import.                                                *)
LEMMA CommitImportLock ==
  ASSUME TypeOK, LockInv, NEW t \in Sessions, CommitImport(t)
  PROVE  LockInv'
<1> DEFINE x == WithXid(tx[t])
<1>1. tx[t] \in Tx /\ nextXid \in Nat /\ Written(t)
  BY DEF CommitImport, TypeOK
<1>2. x.req = tx[t].req
  BY <1>1, WithXidType
<1>3. /\ store' = [ip \in Ips |-> IF ip \in Addresses(x.req)
                                  THEN StoredFrom(ChangeSet(x, ip)) ELSE store[ip]]
      /\ tx' = [tx EXCEPT ![t] = NoTx]
  BY DEF CommitImport
<1> HIDE DEF x
<1>4. \A ip \in Ips : ip \notin tx[t].locked \cup tx[t].created => store'[ip] = store[ip]
  BY <1>1, <1>2, <1>3, ReadsAreCurrent
<1>5. \A ip \in Ips : ~store'[ip].known => store'[ip] = Unknown
  BY <1>3 DEF StoredFrom, LockInv, AbsentInv
<1> QED
  BY <1>3, <1>4, <1>5, EndLock

(* The commit of a delete.                                                 *)
LEMMA CommitDeleteLock ==
  ASSUME TypeOK, LockInv, NEW t \in Sessions, CommitDelete(t)
  PROVE  LockInv'
<1>1. /\ store' = [ip \in Ips |-> IF ip \in tx[t].locked THEN Unknown ELSE store[ip]]
      /\ tx' = [tx EXCEPT ![t] = NoTx]
  BY DEF CommitDelete
<1>2. \A ip \in Ips : ~store'[ip].known => store'[ip] = Unknown
  BY <1>1 DEF LockInv, AbsentInv
<1> QED
  BY <1>1, <1>2, EndLock

-----------------------------------------------------------------------------
(* Every step of a session keeps what it and the others hold.              *)
LEMMA SessionLock ==
  ASSUME TypeOK, LockInv, NEW t \in Sessions,
         ClientStep(t) \/ ServerStep(t) \/ IdleTimeout(t) \/ DeadlockVictim(t)
  PROVE  LockInv'
<1>1. CASE BeginImport(t) \/ BeginDelete(t)
  BY <1>1, BeginLock DEF BeginImport, BeginDelete
<1>2. CASE Abort(t) \/ IdleTimeout(t) \/ DeadlockVictim(t)
  BY <1>2, RollbackLock DEF Abort, IdleTimeout, DeadlockVictim, Rollback, dbVars
<1> QED
  BY <1>1, <1>2, SkipRowLock, LockRowLock, LoadedLock, InsertNameLock,
     InsertHistoryLock, InsertAddressLock, CommitImportLock, CommitDeleteLock DEF ClientStep, ServerStep

(* Between _load and commit nobody else holds, creates or changes what an  *)
(* import has read: its snapshots stay true until it ends.                 *)
THEOREM LocksProtectReads == Spec => []LockInv
<1>1. Init => LockInv
  <2> SUFFICES ASSUME Init PROVE LockInv
    OBVIOUS
  <2>1. \A t \in Sessions : tx[t] = NoTx
    BY DEF Init
  <2>2. HeldApart /\ \A t \in Sessions : TxInv(tx[t])
    BY <2>1, NoTxHoldsNothing DEF HeldApart
  <2>3. AbsentInv
    BY DEF Init, AbsentInv
  <2> QED
    BY <2>2, <2>3 DEF LockInv
<1>2. TypeOK /\ LockInv /\ [Next]_vars => LockInv'
  <2> SUFFICES ASSUME TypeOK, LockInv, [Next]_vars PROVE LockInv'
    OBVIOUS
  <2>1. CASE \E t \in Sessions : \/ ClientStep(t) \/ ServerStep(t)
                                \/ IdleTimeout(t) \/ DeadlockVictim(t)
    BY <2>1, SessionLock
  <2>2. CASE UNCHANGED <<store, tx>>
    BY <2>2 DEF LockInv, HeldApart, AbsentInv, TxInv, LockingInv, SnapshotInv
  <2> QED
    BY <2>1, <2>2 DEF Next, Poll, PollUnsaved, dbVars, vars
<1> QED
  BY TypeCorrect, <1>1, <1>2, PTL DEF Spec

-----------------------------------------------------------------------------
(* ImportFeed implements InventoryLog.                                     *)

(* The data operators of InventoryLog are those of ImportFeed.             *)
LEMMA SameUnknown == Atomic!Unknown = Unknown
BY DEF Unknown, Atomic!Unknown

LEMMA SameAddresses ==
  ASSUME NEW r
  PROVE  Atomic!Range(r.order) = Addresses(r)
BY DEF Addresses, Range, Atomic!Range

LEMMA SameStoredFrom ==
  ASSUME NEW cs
  PROVE  Atomic!StoredFrom(cs) = StoredFrom(cs)
BY DEF StoredFrom, Atomic!StoredFrom

LEMMA SameBuildEvent ==
  ASSUME NEW ip, NEW s, NEW cs
  PROVE  Atomic!BuildEvent(ip, s, cs) = BuildEvent(ip, s, cs)
BY DEF BuildEvent, Refs, Details, ServiceChanges,
       Atomic!BuildEvent, Atomic!Refs, Atomic!Details, Atomic!ServiceChanges

LEMMA SameApplyMode ==
  ASSUME NEW mode, NEW s, NEW in
  PROVE  Atomic!ApplyMode(mode, s, in) = ApplyMode(mode, s, in)
BY DEF ApplyMode, Policy, Created, Updated, Opened, Closed, FieldChanges, Closes,
       ObservedState, NewOpen, Matched, Stale, RefreshPort, InAnyRange, IsOpen,
       Atomic!ApplyMode, Atomic!Policy, Atomic!Created, Atomic!Updated,
       Atomic!Opened, Atomic!Closed, Atomic!FieldChanges, Atomic!Closes,
       Atomic!ObservedState, Atomic!NewOpen, Atomic!Matched, Atomic!Stale,
       Atomic!RefreshPort, Atomic!InAnyRange, Atomic!IsOpen

(* The events a commit adds, without the ids of their rows: those of its   *)
(* addresses.                                                              *)
LEMMA EventsOfCommit ==
  ASSUME NEW x
  PROVE  {e.event : e \in EventRows(x)} =
           UNION {BuildEvent(ip, x.snap[ip], ChangeSet(x, ip)) : ip \in Addresses(x.req)}
<1> DEFINE B(ip) == BuildEvent(ip, x.snap[ip], ChangeSet(x, ip))
           ids == DOMAIN x.req.order
           addr(i) == x.req.order[i]
           R(i) == {[txid |-> x.xid, id |-> i, event |-> e] : e \in B(addr(i))}
<1>1. EventRows(x) = UNION {R(i) : i \in ids}
  BY DEF EventRows
<1>2. Addresses(x.req) = {addr(i) : i \in ids}
  BY DEF Addresses, Range
<1>3. ASSUME NEW i \in ids
      PROVE  {r.event : r \in R(i)} = B(addr(i))
  <2> DEFINE row(e) == [txid |-> x.xid, id |-> i, event |-> e]
  <2>1. \A e : row(e).event = e
    OBVIOUS
  <2>2. R(i) = {row(e) : e \in B(addr(i))}
    OBVIOUS
  <2> HIDE DEF row, R, B, addr, ids
  <2> QED
    BY <2>1, <2>2
<1> HIDE DEF B, R, ids, addr
<1>4. {e.event : e \in EventRows(x)} = UNION {B(addr(i)) : i \in ids}
  BY <1>1, <1>3
<1>5. UNION {B(addr(i)) : i \in ids} = UNION {B(ip) : ip \in Addresses(x.req)}
  BY <1>2
<1> QED
  BY <1>4, <1>5 DEF B

(* The commit of an import is one atomic import of its request.            *)
LEMMA CommitImportIsAtomic ==
  ASSUME TypeOK, LockInv, NEW t \in Sessions, CommitImport(t)
  PROVE  \E r \in Imports : Atomic!Import(r)
<1> DEFINE x == WithXid(tx[t])
<1>1. tx[t] \in Tx /\ nextXid \in Nat /\ Written(t) /\ tx[t].req \in Imports
  BY DEF CommitImport, Written, Flushing, TypeOK
<1>2. PICK r \in Imports : r = tx[t].req
  BY <1>1
<1> DEFINE change == [ip \in Atomic!Range(r.order) |->
                        Atomic!ApplyMode(r.mode, store[ip], r.entry[ip])]
           events == UNION {Atomic!BuildEvent(ip, store[ip], change[ip]) :
                              ip \in Atomic!Range(r.order)}
<1>3. x.req = r /\ x.snap = tx[t].snap
  BY <1>1, <1>2, WithXidType
<1>4. /\ store' = [ip \in Ips |-> IF ip \in Addresses(x.req)
                                  THEN StoredFrom(ChangeSet(x, ip)) ELSE store[ip]]
      /\ outbox' = outbox \cup EventRows(x)
  BY DEF CommitImport
<1> HIDE DEF x
<1>5. \A ip \in Addresses(r) : x.snap[ip] = store[ip] /\ ChangeSet(x, ip) = change[ip]
  BY <1>1, <1>2, <1>3, ReadsAreCurrent, SameAddresses, SameApplyMode DEF ChangeSet
<1> HIDE DEF change
<1>6. store' = [ip \in Ips |-> IF ip \in Atomic!Range(r.order)
                              THEN Atomic!StoredFrom(change[ip]) ELSE store[ip]]
  BY <1>3, <1>4, <1>5, SameAddresses, SameStoredFrom
<1>7. {e.event : e \in EventRows(x)} = events
  <2>1. events = UNION {BuildEvent(ip, store[ip], change[ip]) : ip \in Addresses(r)}
    BY SameAddresses, SameBuildEvent
  <2> HIDE DEF events
  <2> QED
    BY <1>3, <1>5, <2>1, EventsOfCommit
<1>8. {e.event : e \in outbox'} = {e.event : e \in outbox} \cup events
  <2> HIDE DEF events
  <2> QED
    BY <1>4, <1>7
<1>9. Atomic!Import(r)
  BY <1>6, <1>8 DEF Atomic!Import, change
<1> QED
  BY <1>9

(* The commit of a delete removes some of the addresses of its request.    *)
LEMMA CommitDeleteIsAtomic ==
  ASSUME TypeOK, LockInv, NEW t \in Sessions, CommitDelete(t)
  PROVE  \E r \in Deletes : Atomic!Delete(r)
<1> DEFINE gone == tx[t].locked
<1>1. tx[t].pc = "delete" /\ tx[t].req \in Deletes
  BY DEF CommitDelete, TypeOK
<1>2. PICK r \in Deletes : r = tx[t].req
  BY <1>1
<1>3. gone \subseteq Addresses(r)
  BY <1>1, <1>2 DEF LockInv, TxInv, LockingInv
<1>4. store' = [ip \in Ips |-> IF ip \in gone THEN Unknown ELSE store[ip]]
      /\ outbox' = outbox
  BY DEF CommitDelete
<1> HIDE DEF gone
<1>5. gone \in SUBSET Atomic!Range(r.order)
  BY <1>3, SameAddresses
<1>6. store' = [ip \in Ips |-> IF ip \in gone THEN Atomic!Unknown ELSE store[ip]]
  BY <1>4, SameUnknown
<1>7. Atomic!Delete(r)
  BY <1>4, <1>5, <1>6 DEF Atomic!Delete
<1> QED
  BY <1>7

(* Only the commits change the inventory and its events.                   *)
LEMMA SessionIsAtomic ==
  ASSUME TypeOK, LockInv, NEW t \in Sessions,
         ClientStep(t) \/ ServerStep(t) \/ IdleTimeout(t) \/ DeadlockVictim(t)
  PROVE  Atomic!Next \/ UNCHANGED <<store, outbox>>
<1>1. CASE CommitImport(t)
  BY <1>1, CommitImportIsAtomic DEF Atomic!Next
<1>2. CASE CommitDelete(t)
  BY <1>2, CommitDeleteIsAtomic DEF Atomic!Next
<1>3. CASE BeginImport(t) \/ BeginDelete(t) \/ Loaded(t) \/ ServerStep(t)
  BY <1>3 DEF BeginImport, BeginDelete, Begin, Loaded, ServerStep, SkipRow, LockRow,
              InsertName, InsertHistory, InsertAddress, dbVars
<1>4. CASE Abort(t) \/ IdleTimeout(t) \/ DeadlockVictim(t)
  BY <1>4 DEF Abort, IdleTimeout, DeadlockVictim, Rollback, dbVars
<1> QED
  BY <1>1, <1>2, <1>3, <1>4 DEF ClientStep

(* Each commit is one atomic change of the inventory together with its     *)
(* events: every behaviour of the concurrent imports, aborts, crashes and  *)
(* polls included, is a behaviour of InventoryLog.                         *)
THEOREM ImportsAreAtomic == Spec => ImplementsAtomicImports
<1>1. Init => Atomic!Init
  <2> SUFFICES ASSUME Init PROVE Atomic!Init
    OBVIOUS
  <2>1. store = [ip \in Ips |-> Atomic!Unknown]
    BY SameUnknown DEF Init
  <2>2. {e.event : e \in outbox} = {}
    BY DEF Init
  <2> QED
    BY <2>1, <2>2 DEF Atomic!Init
<1>2. TypeOK /\ LockInv /\ [Next]_vars
        => [Atomic!Next]_<<store, {e.event : e \in outbox}>>
  <2> SUFFICES ASSUME TypeOK, LockInv, [Next]_vars
               PROVE  Atomic!Next \/ UNCHANGED <<store, outbox>>
    OBVIOUS
  <2>1. CASE \E t \in Sessions : \/ ClientStep(t) \/ ServerStep(t)
                                \/ IdleTimeout(t) \/ DeadlockVictim(t)
    BY <2>1, SessionIsAtomic
  <2>2. CASE UNCHANGED <<store, outbox>>
    BY <2>2
  <2> QED
    BY <2>1, <2>2 DEF Next, Poll, PollUnsaved, dbVars, vars
<1> QED
  BY <1>1, <1>2, TypeCorrect, LocksProtectReads, PTL
     DEF Spec, ImplementsAtomicImports, Atomic!Spec

-----------------------------------------------------------------------------
(* When each import names one address (what the worker uploads) and        *)
(* nothing is deleted: what a consumer rebuilds from the feed, and who     *)
(* waits for whom.                                                         *)

SingleAddress == \A r \in Imports : Len(r.order) = 1

(* What visits at most one thing is done after its first step.             *)
LEMMA ShortOrder ==
  ASSUME NEW a, NEW S \in SUBSET {a}, NEW p \in Orders(S), p # <<>>
  PROVE  Tail(p) = <<>>
<1>1. S = {} \/ S = {a}
  <2>1. \A e \in S : e = a
    OBVIOUS
  <2> QED
    BY <2>1
<1>2. IsFiniteSet(S) /\ Cardinality(S) \in {0, 1}
  <2>1. IsFiniteSet({a}) /\ Cardinality({a}) = 1
    BY FS_Singleton
  <2>2. IsFiniteSet({}) /\ Cardinality({}) = 0
    BY FS_EmptySet
  <2> QED
    BY <1>1, <2>1, <2>2
<1>3. p \in Seq(S)
  BY <1>2, OrderType
<1>4. Len(p) <= 1
  <2>1. p \in [1..Cardinality(S) -> S]
    BY DEF Orders, Bijection, Injection
  <2> QED
    BY <1>2, <1>3, <2>1, LenProperties
<1>5. Tail(p) \in Seq(S) /\ Len(Tail(p)) = Len(p) - 1 /\ Len(p) \in Nat
  BY <1>3, HeadTailProperties, LenProperties
<1>6. Len(Tail(p)) = 0
  BY <1>4, <1>5, LenProperties
<1> QED
  BY <1>5, <1>6, EmptySeq

-----------------------------------------------------------------------------
(* FeedReplaysInventory, address by address.                               *)

(* Each event starts from what the one before it left.                     *)
Chained(ip) ==
  \A e \in EventsOf(ip) :
    LET earlier == {f \in EventsOf(ip) : Before(f, e)}
    IN  \/ earlier = {} /\ e.event.old = Refs(Unknown)
        \/ \E f \in earlier : /\ \A g \in earlier : g = f \/ Before(g, f)
                              /\ e.event.old = Refs(f.event.current)

(* The last event has the stored hostnames, ports and services.            *)
Latest(ip) ==
  EventsOf(ip) # {} =>
    \E e \in EventsOf(ip) : /\ \A f \in EventsOf(ip) : f = e \/ Before(f, e)
                            /\ Tracked(e.event.current) = Tracked(store[ip])

(* Without events there is nothing to tell.                                *)
Silent(ip) ==
  /\ ~store[ip].known => EventsOf(ip) = {}
  /\ EventsOf(ip) = {} => Tracked(store[ip]) = Tracked(Unknown)

(* An import gets its id no later than the row it will write, so its id is *)
(* newer than every event of that row's address.                           *)
OrderOf(x) ==
  /\ x.pc = "load" /\ x.rows # <<>> => x.xid = 0 /\ Tail(x.rows) = <<>>
  /\ \A ip \in x.locked \cup x.created :
       x.xid # 0 /\ \A e \in EventsOf(ip) : e.txid < x.xid

OrderInv == \A t \in Sessions : OrderOf(tx[t])

ReplayInv == OrderInv /\ \A ip \in Ips : Chained(ip) /\ Latest(ip) /\ Silent(ip)

(* The parts add up to the property.                                       *)
LEMMA ReplayParts ==
  FeedReplaysInventory <=> \A ip \in Ips : Chained(ip) /\ Latest(ip)
BY DEF FeedReplaysInventory, Chained, Latest

-----------------------------------------------------------------------------
(* The data of one event.                                                  *)

(* The hostnames, ports and services decide what the next event starts     *)
(* from.                                                                   *)
LEMMA TrackedRefs ==
  ASSUME NEW s, NEW r, Tracked(s) = Tracked(r)
  PROVE  Refs(s) = Refs(r)
<1> DEFINE f(q) == [k \in DOMAIN q.ports |-> q.ports[k].service]
<1>1. \A q : Tracked(q).hostnames = q.hostnames /\ Tracked(q).services = f(q)
  BY DEF Tracked
<1>2. \A q : DOMAIN f(q) = DOMAIN q.ports
  OBVIOUS
<1> HIDE DEF f
<1>3. s.hostnames = r.hostnames /\ f(s) = f(r)
  BY <1>1
<1>4. DOMAIN s.ports = DOMAIN r.ports
  BY <1>2, <1>3
<1> QED
  BY <1>3, <1>4 DEF Refs

(* What an event says, and what is stored.                                 *)
LEMMA EventData ==
  ASSUME NEW ip, NEW s, NEW cs
  PROVE  /\ Tracked(StoredFrom(cs)) = Tracked(cs)
         /\ Tracked(Details(cs)) = Tracked(cs)
         /\ \A e \in BuildEvent(ip, s, cs) :
              /\ e.ip = ip /\ e.old = Refs(s) /\ e.current = Details(cs)
              /\ BuildEvent(ip, s, cs) = {e}
<1>1. Tracked(StoredFrom(cs)) = Tracked(cs) /\ Tracked(Details(cs)) = Tracked(cs)
  BY DEF Tracked, Details, StoredFrom
<1>2. ASSUME NEW e \in BuildEvent(ip, s, cs)
      PROVE  /\ e.ip = ip /\ e.old = Refs(s) /\ e.current = Details(cs)
             /\ BuildEvent(ip, s, cs) = {e}
  <2> DEFINE f == [ip |-> ip, old |-> Refs(s), current |-> Details(cs),
                   services |-> ServiceChanges(cs), observed_at |-> cs.endtime]
  <2>1. BuildEvent(ip, s, cs) = {} \/ BuildEvent(ip, s, cs) = {f}
    BY DEF BuildEvent
  <2>2. f.ip = ip /\ f.old = Refs(s) /\ f.current = Details(cs)
    OBVIOUS
  <2> HIDE DEF f
  <2> QED
    BY <2>1, <2>2
<1> QED
  BY <1>1, <1>2

(* No event is written only when ports, services and hostnames are left as *)
(* they were: an added, closed or refreshed port always shows, unless only *)
(* its untracked details changed.                                          *)
LEMMA SilentMeansSame ==
  ASSUME NEW mode, NEW s \in StoredIP, ~s.known => s = Unknown, NEW in \in IPIn,
         NEW ip, BuildEvent(ip, s, ApplyMode(mode, s, in)) = {}
  PROVE  Tracked(StoredFrom(ApplyMode(mode, s, in))) = Tracked(s)
<1> DEFINE cs == ApplyMode(mode, s, in)
<1>1. /\ Refs(s) = Refs(cs) /\ ServiceChanges(cs) = {}
  BY DEF BuildEvent
<1>2. s.hostnames = cs.hostnames /\ DOMAIN s.ports = DOMAIN cs.ports
  BY <1>1 DEF Refs
<1>3. s.ports \in PortMap /\ cs.ports \in PortMap /\ in.ports \in PortMap
  <2>1. StoredFrom(cs) \in StoredIP
    BY ApplyModeType
  <2>2. StoredFrom(cs).ports = cs.ports
    BY DEF StoredFrom
  <2> HIDE DEF cs
  <2>3. StoredFrom(cs).ports \in PortMap
    BY <2>1 DEF StoredIP
  <2>4. s.ports \in PortMap /\ in.ports \in PortMap
    BY DEF StoredIP, IPIn
  <2> QED
    BY <2>2, <2>3, <2>4
<1>4. \A k \in DOMAIN s.ports : cs.ports[k].service = s.ports[k].service
  <2>1. CASE ~s.known
    <3>1. s = Unknown
      BY <2>1
    <3>2. Unknown.ports = <<>>
      BY DEF Unknown
    <3> QED
      BY <3>1, <3>2
  <2>2. CASE s.known
    <3> DEFINE policy == Policy(mode)
               up == Updated(policy, s, in)
               opened == IF policy.add_new_open THEN NewOpen(s.ports, in.ports) ELSE {}
               refreshed == IF policy.refresh_matched THEN Matched(s.ports, in.ports) ELSE {}
               closed == {k \in Stale(s.ports, in.ports) :
                            /\ policy.close_stale
                            /\ Closes(k, in.ports, in.scanned_ports)}
               kept == (DOMAIN s.ports \cup opened) \ closed
    <3>1. cs = up
      BY <2>2 DEF ApplyMode
    <3>2. up.ports = [k \in kept |-> IF k \in opened THEN in.ports[k]
                                     ELSE IF k \in refreshed
                                     THEN RefreshPort(s.ports[k], in.ports[k])
                                     ELSE s.ports[k]]
      BY DEF Updated
    <3>3. \A k \in refreshed : FieldChanges(k, s.ports[k], in.ports[k]) \subseteq up.changes
      BY DEF Updated
    <3>4. opened \cap DOMAIN s.ports = {} /\ refreshed \subseteq DOMAIN s.ports \cap DOMAIN in.ports
      BY DEF NewOpen, Matched
    <3> HIDE DEF cs, up, opened, refreshed, closed, kept
    <3>5. DOMAIN up.ports = kept
      BY <3>2
    <3>6. SUFFICES ASSUME NEW k \in DOMAIN s.ports
                   PROVE  up.ports[k].service = s.ports[k].service
      BY <3>1
    <3>7. k \in kept /\ k \notin opened
      BY <1>2, <3>1, <3>4, <3>5
    <3>8. CASE k \notin refreshed
      BY <3>2, <3>7, <3>8
    <3>9. CASE k \in refreshed
      <4>1. s.ports[k] \in Port /\ in.ports[k] \in Port
        BY <1>3, <3>4, <3>9, PortMapElim
      <4>2. \A c \in FieldChanges(k, s.ports[k], in.ports[k]) : c.type = "service"
        <5> DEFINE c == [key |-> k, type |-> "service", old |-> s.ports[k].service,
                         new |-> in.ports[k].service, observed |-> ""]
        <5>1. FieldChanges(k, s.ports[k], in.ports[k]) \subseteq {c}
          BY DEF FieldChanges
        <5>2. c.type = "service"
          OBVIOUS
        <5> HIDE DEF c
        <5> QED
          BY <5>1, <5>2
      <4>3. FieldChanges(k, s.ports[k], in.ports[k]) = {}
        BY <1>1, <3>1, <3>3, <3>9, <4>2 DEF ServiceChanges
      <4>4. in.ports[k].service \in {"", s.ports[k].service}
        BY <4>3 DEF FieldChanges
      <4>5. RefreshPort(s.ports[k], in.ports[k]).service = s.ports[k].service
        BY <4>1, <4>4, RefreshType
      <4> QED
        BY <3>2, <3>7, <3>9, <4>5
    <3> QED
      BY <3>8, <3>9
  <2> QED
    BY <2>1, <2>2 DEF StoredIP
<1> HIDE DEF cs
<1>5. [k \in DOMAIN cs.ports |-> cs.ports[k].service]
        = [k \in DOMAIN s.ports |-> s.ports[k].service]
  BY <1>2, <1>4
<1>6. Tracked(cs) = Tracked(s)
  BY <1>2, <1>5 DEF Tracked
<1> QED
  BY <1>6, EventData DEF cs

-----------------------------------------------------------------------------
(* The steps that write no event.                                          *)

(* A session without a transaction is older than nothing.                  *)
LEMMA NoTxOrder == OrderOf(NoTx)
<1>1. NoTx.pc = "idle" /\ NoTx.locked \cup NoTx.created = {}
  BY DEF NoTx
<1> QED
  BY <1>1 DEF OrderOf

(* A step that moves t's own transaction and leaves the inventory and the  *)
(* outbox alone.                                                           *)
LEMMA MoveReplay ==
  ASSUME TypeOK, ReplayInv, NEW t \in Sessions, NEW x,
         tx' = [tx EXCEPT ![t] = x], UNCHANGED <<store, outbox>>, OrderOf(x)
  PROVE  ReplayInv'
<1>1. \A u \in Sessions : tx'[u] = IF u = t THEN x ELSE tx[u]
  BY DEF TypeOK
<1>2. \A u \in Sessions : OrderOf(tx'[u])
  BY <1>1 DEF ReplayInv, OrderInv
<1>3. \A ip : EventsOf(ip)' = EventsOf(ip)
  BY DEF EventsOf
<1>4. OrderInv'
  BY <1>2, <1>3 DEF OrderInv, OrderOf
<1>5. \A ip \in Ips : (Chained(ip) /\ Latest(ip) /\ Silent(ip))'
  BY <1>3 DEF ReplayInv, Chained, Latest, Silent
<1> QED
  BY <1>4, <1>5 DEF ReplayInv

(* A rollback.                                                             *)
LEMMA RollbackReplay ==
  ASSUME TypeOK, ReplayInv, NEW t \in Sessions,
         tx' = [tx EXCEPT ![t] = NoTx], UNCHANGED <<store, outbox>>
  PROVE  ReplayInv'
BY NoTxOrder, MoveReplay

(* The one row of a request that names one address.                        *)
LEMMA OneRow ==
  ASSUME TypeOK, SingleAddress, NEW r \in Imports,
         NEW rows \in Orders({<<ip, gen[ip]>> : ip \in {i \in Addresses(r) : store[i].known}}),
         rows # <<>>
  PROVE  Tail(rows) = <<>>
<1>1. DOMAIN r.order = {1}
  BY RequestType, LenProperties DEF SingleAddress
<1>2. Addresses(r) = {r.order[1]}
  BY <1>1 DEF Addresses, Range
<1>3. {<<ip, gen[ip]>> : ip \in {i \in Addresses(r) : store[i].known}}
        \subseteq {<<r.order[1], gen[r.order[1]]>>}
  BY <1>2
<1> QED
  BY <1>3, ShortOrder

(* An import begins: it has no id before it reaches its row.               *)
LEMMA BeginReplay ==
  ASSUME TypeOK, SingleAddress, ReplayInv,
         NEW t \in Sessions, NEW r \in Imports, Begin(t, r, "load")
  PROVE  ReplayInv'
<1> DEFINE S == {<<ip, gen[ip]>> : ip \in {i \in Addresses(r) : store[i].known}}
<1>1. UNCHANGED <<store, outbox>>
  BY DEF Begin, dbVars
<1>2. PICK rows \in Orders(S) :
        tx' = [tx EXCEPT ![t] = [NoTx EXCEPT !.pc = "load", !.req = r, !.rows = rows]]
  BY DEF Begin
<1> DEFINE x == [NoTx EXCEPT !.pc = "load", !.req = r, !.rows = rows]
<1>3. x.xid = 0 /\ x.rows = rows /\ x.locked \cup x.created = {}
  BY DEF NoTx
<1>4. tx' = [tx EXCEPT ![t] = x]
  BY <1>2
<1> HIDE DEF x
<1>5. OrderOf(x)
  BY <1>3, OneRow DEF OrderOf
<1> QED
  BY <1>1, <1>4, <1>5, MoveReplay

(* An import skips its row.                                                *)
LEMMA SkipRowReplay ==
  ASSUME TypeOK, ReplayInv, NEW t \in Sessions, tx[t].pc = "load", SkipRow(t)
  PROVE  ReplayInv'
<1> DEFINE x == [tx[t] EXCEPT !.rows = Tail(@)]
<1>1. tx' = [tx EXCEPT ![t] = x] /\ UNCHANGED <<store, outbox>> /\ tx[t].rows # <<>>
  BY DEF SkipRow, dbVars
<1>2. tx[t] \in Tx
  BY DEF TypeOK
<1>3. /\ x.pc = tx[t].pc /\ x.xid = tx[t].xid /\ x.rows = Tail(tx[t].rows)
      /\ x.locked = tx[t].locked /\ x.created = tx[t].created
  BY <1>2 DEF Tx
<1> HIDE DEF x
<1>4. OrderOf(tx[t])
  BY DEF ReplayInv, OrderInv
<1>5. OrderOf(x)
  BY <1>1, <1>3, <1>4 DEF OrderOf
<1> QED
  BY <1>1, <1>5, MoveReplay

(* An import locks its row, and takes an id newer than any event.          *)
LEMMA LockRowReplay ==
  ASSUME TypeOK, FeedInv, ReplayInv, NEW t \in Sessions, tx[t].pc = "load", LockRow(t)
  PROVE  ReplayInv'
<1> DEFINE w == WithXid(tx[t])
           ip == Head(tx[t].rows)[1]
           x == [w EXCEPT !.rows = Tail(@), !.locked = @ \cup {ip}]
<1>1. tx' = [tx EXCEPT ![t] = x] /\ UNCHANGED <<store, outbox>> /\ tx[t].rows # <<>>
  BY DEF LockRow, dbVars
<1>2. tx[t] \in Tx /\ nextXid \in Nat \ {0}
  BY DEF TypeOK
<1>3. OrderOf(tx[t])
  BY DEF ReplayInv, OrderInv
<1>4. tx[t].xid = 0 /\ Tail(tx[t].rows) = <<>>
  BY <1>1, <1>3 DEF OrderOf
<1>5. w \in Tx /\ w.xid = nextXid /\ w.rows = tx[t].rows
  BY <1>2, <1>4, WithXidType
<1> HIDE DEF w, ip
<1>6. x.xid = nextXid /\ x.rows = <<>>
  BY <1>4, <1>5 DEF Tx
<1> HIDE DEF x
<1>7. \A a : \A e \in EventsOf(a) : e.txid < nextXid
  BY DEF FeedInv, EventsOf
<1>8. OrderOf(x)
  BY <1>2, <1>6, <1>7 DEF OrderOf
<1> QED
  BY <1>1, <1>8, MoveReplay

(* _load returns.                                                          *)
LEMMA LoadedReplay ==
  ASSUME TypeOK, ReplayInv, NEW t \in Sessions, Loaded(t)
  PROVE  ReplayInv'
<1> DEFINE snap == [ip \in Ips |-> IF ip \in tx[t].locked THEN store[ip] ELSE Unknown]
           x == [tx[t] EXCEPT !.pc = "write", !.snap = snap]
<1>1. tx[t] \in Tx /\ UNCHANGED <<store, outbox>>
  BY DEF Loaded, TypeOK, dbVars
<1>2. PICK names, changes :
        tx' = [tx EXCEPT ![t] = [x EXCEPT !.names = names, !.changes = changes]]
  <2>1. \E names, changes :
          tx' = [tx EXCEPT ![t] = [x EXCEPT !.names = names, !.changes = changes]]
    BY DEF Loaded
  <2> QED
    BY <2>1
<1> DEFINE y == [x EXCEPT !.names = names, !.changes = changes]
<1> HIDE DEF snap
<1>3. /\ y.pc = "write" /\ y.xid = tx[t].xid
      /\ y.locked = tx[t].locked /\ y.created = tx[t].created
  BY <1>1 DEF Tx
<1>4. tx' = [tx EXCEPT ![t] = y]
  BY <1>2
<1> HIDE DEF x, y
<1>5. OrderOf(tx[t])
  BY DEF ReplayInv, OrderInv
<1>6. OrderOf(y)
  BY <1>3, <1>5 DEF OrderOf
<1> QED
  BY <1>1, <1>4, <1>6, MoveReplay

(* A hostname is inserted: an id the transaction already has is kept.      *)
LEMMA InsertNameReplay ==
  ASSUME TypeOK, ReplayInv, NEW t \in Sessions, InsertName(t)
  PROVE  ReplayInv'
<1> DEFINE h == Head(tx[t].names)
           x == [tx[t] EXCEPT !.names = Tail(@)]
           w == WithXid(x)
           y == [w EXCEPT !.inserted = @ \cup {h}]
<1>1. tx[t] \in Tx /\ tx[t].pc = "write" /\ nextXid \in Nat
      /\ tx[t].names \in Seq(Hostnames) /\ tx[t].names # <<>>
  BY DEF InsertName, TypeOK, Tx
<1>2. UNCHANGED <<store, outbox>>
  BY DEF InsertName, dbVars
<1>3. tx' = [tx EXCEPT ![t] = x] \/ tx' = [tx EXCEPT ![t] = y]
  BY DEF InsertName
<1>4. Tail(tx[t].names) \in Seq(Hostnames)
  BY <1>1, HeadTailProperties
<1>5. /\ x \in Tx
      /\ x.pc = "write" /\ x.xid = tx[t].xid
      /\ x.locked = tx[t].locked /\ x.created = tx[t].created
  BY <1>1, <1>4 DEF Tx
<1> HIDE DEF x
<1>6. /\ w \in Tx
      /\ w.pc = x.pc /\ (x.xid # 0 => w.xid = x.xid)
      /\ w.locked = x.locked /\ w.created = x.created
  BY <1>1, <1>5, WithXidType
<1> HIDE DEF w
<1>7. /\ y.pc = "write" /\ (tx[t].xid # 0 => y.xid = tx[t].xid)
      /\ y.locked = tx[t].locked /\ y.created = tx[t].created
  BY <1>5, <1>6 DEF Tx
<1> HIDE DEF y
<1>8. OrderOf(tx[t])
  BY DEF ReplayInv, OrderInv
<1>9. OrderOf(x) /\ OrderOf(y)
  BY <1>5, <1>7, <1>8 DEF OrderOf
<1> QED
  BY <1>2, <1>3, <1>9, MoveReplay

(* A history row is inserted: an id the transaction already has is kept.   *)
LEMMA InsertHistoryReplay ==
  ASSUME TypeOK, ReplayInv, NEW t \in Sessions, InsertHistory(t)
  PROVE  ReplayInv'
<1> DEFINE row == Head(tx[t].changes)
           x == [tx[t] EXCEPT !.changes = Tail(@)]
           w == WithXid(x)
           y == [w EXCEPT !.logged = @ \cup {row}]
<1>1. tx[t] \in Tx /\ tx[t].pc = "write" /\ nextXid \in Nat
      /\ tx[t].changes \in Seq(HistoryKeys) /\ tx[t].changes # <<>>
  BY DEF InsertHistory, TypeOK, Tx
<1>2. UNCHANGED <<store, outbox>>
  BY DEF InsertHistory, dbVars
<1>3. tx' = [tx EXCEPT ![t] = x] \/ tx' = [tx EXCEPT ![t] = y]
  BY DEF InsertHistory
<1>4. Tail(tx[t].changes) \in Seq(HistoryKeys)
  BY <1>1, HeadTailProperties
<1>5. /\ x \in Tx
      /\ x.pc = "write" /\ x.xid = tx[t].xid
      /\ x.locked = tx[t].locked /\ x.created = tx[t].created
  BY <1>1, <1>4 DEF Tx
<1> HIDE DEF x
<1>6. /\ w \in Tx
      /\ w.pc = x.pc /\ (x.xid # 0 => w.xid = x.xid)
      /\ w.locked = x.locked /\ w.created = x.created
  BY <1>1, <1>5, WithXidType
<1> HIDE DEF w
<1>7. /\ y.pc = "write" /\ (tx[t].xid # 0 => y.xid = tx[t].xid)
      /\ y.locked = tx[t].locked /\ y.created = tx[t].created
  BY <1>5, <1>6 DEF Tx
<1> HIDE DEF y
<1>8. OrderOf(tx[t])
  BY DEF ReplayInv, OrderInv
<1>9. OrderOf(x) /\ OrderOf(y)
  BY <1>5, <1>7, <1>8 DEF OrderOf
<1> QED
  BY <1>2, <1>3, <1>9, MoveReplay

(* An address is inserted: it is not stored, so it has no event yet.       *)
LEMMA InsertAddressReplay ==
  ASSUME TypeOK, ReplayInv, NEW t \in Sessions, InsertAddress(t)
  PROVE  ReplayInv'
<1>1. tx[t] \in Tx /\ tx[t].pc = "write" /\ nextXid \in Nat \ {0}
  BY DEF InsertAddress, Flushing, TypeOK
<1>2. UNCHANGED <<store, outbox>>
  BY DEF InsertAddress, dbVars
<1>3. PICK ip \in Ips :
        \/ tx' = [tx EXCEPT ![t] = NoTx]
        \/ /\ ~store[ip].known
           /\ tx' = [tx EXCEPT ![t] = [WithXid(tx[t]) EXCEPT !.created = @ \cup {ip}]]
  BY DEF InsertAddress
<1>4. CASE tx' = [tx EXCEPT ![t] = NoTx]
  BY <1>2, <1>4, RollbackReplay
<1>5. CASE /\ ~store[ip].known
           /\ tx' = [tx EXCEPT ![t] = [WithXid(tx[t]) EXCEPT !.created = @ \cup {ip}]]
  <2> DEFINE w == WithXid(tx[t])
             y == [w EXCEPT !.created = @ \cup {ip}]
  <2>1. /\ w \in Tx /\ w.pc = "write"
        /\ w.xid # 0 /\ (tx[t].xid # 0 => w.xid = tx[t].xid)
        /\ w.locked = tx[t].locked /\ w.created = tx[t].created
    BY <1>1, WithXidType
  <2>2. tx' = [tx EXCEPT ![t] = y]
    BY <1>5
  <2> HIDE DEF w
  <2>3. /\ y.pc = "write" /\ y.xid # 0 /\ (tx[t].xid # 0 => y.xid = tx[t].xid)
        /\ y.locked = tx[t].locked /\ y.created = tx[t].created \cup {ip}
    BY <2>1 DEF Tx
  <2> HIDE DEF y
  <2>4. OrderOf(tx[t]) /\ EventsOf(ip) = {}
    BY <1>5 DEF ReplayInv, OrderInv, Silent
  <2>5. OrderOf(y)
    BY <2>3, <2>4 DEF OrderOf
  <2> QED
    BY <1>2, <2>2, <2>5, MoveReplay
<1> QED
  BY <1>3, <1>4, <1>5

-----------------------------------------------------------------------------
(* The commit.                                                             *)

(* One more event of an address, newer than all the others, that starts    *)
(* from what is stored and tells what will be.                             *)
LEMMA OneMoreEvent ==
  ASSUME TypeOK, NEW ip, Chained(ip), Latest(ip), Silent(ip),
         NEW row, row.txid \in Nat, row.id \in Nat,
         row.event.ip = ip,
         row.event.old = Refs(store[ip]),
         Tracked(row.event.current) = Tracked(store'[ip]),
         \A e \in EventsOf(ip) : e.txid < row.txid,
         outbox' = outbox \cup {row},
         store'[ip].known
  PROVE  Chained(ip)' /\ Latest(ip)' /\ Silent(ip)'
<1>1. EventsOf(ip)' = EventsOf(ip) \cup {row}
  BY DEF EventsOf
<1>2. \A e \in EventsOf(ip) : e.txid \in Nat /\ Before(e, row) /\ ~Before(row, e)
  BY DEF EventsOf, TypeOK, Before
<1>3. ~Before(row, row)
  BY DEF Before
<1>4. \A e \in EventsOf(ip) :
        {f \in EventsOf(ip)' : Before(f, e)} = {f \in EventsOf(ip) : Before(f, e)}
  BY <1>1, <1>2
<1>5. {f \in EventsOf(ip)' : Before(f, row)} = EventsOf(ip)
  BY <1>1, <1>2, <1>3
<1>6. CASE EventsOf(ip) = {}
  <2>1. Tracked(store[ip]) = Tracked(Unknown)
    BY <1>6 DEF Silent
  <2>2. row.event.old = Refs(Unknown)
    BY <2>1, TrackedRefs
  <2> QED
    BY <1>1, <1>3, <1>6, <2>2 DEF Chained, Latest, Silent
<1>7. CASE EventsOf(ip) # {}
  <2>1. PICK last \in EventsOf(ip) :
          /\ \A f \in EventsOf(ip) : f = last \/ Before(f, last)
          /\ Tracked(last.event.current) = Tracked(store[ip])
    BY <1>7 DEF Latest
  <2>2. row.event.old = Refs(last.event.current)
    BY <2>1, TrackedRefs
  <2>3. Chained(ip)'
    <3>1. ASSUME NEW e \in EventsOf(ip)'
          PROVE  LET earlier == {f \in EventsOf(ip)' : Before(f, e)}
                 IN  \/ earlier = {} /\ e.event.old = Refs(Unknown)
                     \/ \E f \in earlier : /\ \A g \in earlier : g = f \/ Before(g, f)
                                           /\ e.event.old = Refs(f.event.current)
      <4>1. CASE e = row
        BY <1>5, <2>1, <2>2, <4>1
      <4>2. CASE e \in EventsOf(ip)
        BY <1>4, <4>2 DEF Chained
      <4> QED
        BY <1>1, <4>1, <4>2
    <3> QED
      BY <3>1 DEF Chained
  <2>4. Latest(ip)'
    BY <1>1, <1>2 DEF Latest
  <2> QED
    BY <1>1, <2>3, <2>4 DEF Silent
<1> QED
  BY <1>6, <1>7

(* An address that is not written.                                         *)
LEMMA OtherAddress ==
  ASSUME NEW ip, Chained(ip), Latest(ip), Silent(ip),
         EventsOf(ip)' = EventsOf(ip), store'[ip] = store[ip]
  PROVE  Chained(ip)' /\ Latest(ip)' /\ Silent(ip)'
BY DEF Chained, Latest, Silent

(* An address that is written without an event.                            *)
LEMMA SilentWrite ==
  ASSUME NEW ip, Chained(ip), Latest(ip), Silent(ip),
         EventsOf(ip)' = EventsOf(ip), store'[ip].known,
         Tracked(store'[ip]) = Tracked(store[ip])
  PROVE  Chained(ip)' /\ Latest(ip)' /\ Silent(ip)'
BY DEF Chained, Latest, Silent

(* The commit of an import: one address, at most one event, newer than     *)
(* every event of that address because the import holds its row.           *)
LEMMA CommitReplay ==
  ASSUME TypeOK, SingleAddress, LockInv, ReplayInv,
         NEW t \in Sessions, CommitImport(t)
  PROVE  ReplayInv'
<1>0. PICK r \in Imports : r = tx[t].req
  BY DEF CommitImport, Written, Flushing, TypeOK
<1> DEFINE x == WithXid(tx[t])
           a == r.order[1]
           cs == ApplyMode(r.mode, store[a], r.entry[a])
           B == BuildEvent(a, store[a], cs)
           held == tx[t].locked \cup tx[t].created
<1>1. tx[t] \in Tx /\ nextXid \in Nat /\ Written(t) /\ tx[t].xid \in Nat
  <2>1. tx[t] \in Tx /\ nextXid \in Nat /\ Written(t)
    BY DEF CommitImport, TypeOK
  <2> QED
    BY <2>1 DEF Tx
<1>2. x.req = r /\ x.snap = tx[t].snap /\ x.xid = IF tx[t].xid = 0 THEN nextXid ELSE tx[t].xid
  BY <1>0, <1>1, WithXidType
<1>3. /\ store' = [ip \in Ips |-> IF ip \in Addresses(x.req)
                                  THEN StoredFrom(ChangeSet(x, ip)) ELSE store[ip]]
      /\ outbox' = outbox \cup EventRows(x)
      /\ tx' = [tx EXCEPT ![t] = NoTx]
  BY DEF CommitImport
<1>4. DOMAIN r.order = {1} /\ Addresses(r) = {a} /\ a \in Ips
  <2>1. DOMAIN r.order = {1}
    BY <1>1, RequestType, LenProperties DEF SingleAddress
  <2>2. Addresses(r) = {a}
    BY <2>1 DEF Addresses, Range
  <2> QED
    BY <1>1, <2>1, <2>2, RequestType
<1>5. tx[t].snap[a] = store[a] /\ a \in held
  BY <1>0, <1>1, <1>4, ReadsAreCurrent
<1>6. ChangeSet(x, a) = cs
  BY <1>2, <1>5 DEF ChangeSet
<1>7. EventRows(x) = {[txid |-> x.xid, id |-> 1, event |-> e] : e \in B}
  <2> DEFINE R(i) == {[txid |-> x.xid, id |-> i, event |-> e] :
                        e \in BuildEvent(x.req.order[i], x.snap[x.req.order[i]],
                                         ChangeSet(x, x.req.order[i]))}
  <2>1. EventRows(x) = UNION {R(i) : i \in DOMAIN x.req.order}
    BY DEF EventRows
  <2>2. R(1) = {[txid |-> x.xid, id |-> 1, event |-> e] : e \in B}
    BY <1>2, <1>5, <1>6
  <2> HIDE DEF R, x
  <2> QED
    BY <1>2, <1>4, <2>1, <2>2
<1>8. OrderOf(tx[t]) /\ Chained(a) /\ Latest(a) /\ Silent(a)
  BY <1>4 DEF ReplayInv, OrderInv
<1>9. x.xid \in Nat /\ \A e \in EventsOf(a) : e.txid < x.xid
  BY <1>1, <1>2, <1>5, <1>8 DEF OrderOf
<1>10. store'[a] = StoredFrom(cs) /\ store'[a].known
  <2>1. store'[a] = StoredFrom(cs)
    BY <1>2, <1>3, <1>4, <1>6
  <2> QED
    BY <2>1 DEF StoredFrom
<1>11. \A ip \in Ips : ip # a => store'[ip] = store[ip]
  BY <1>2, <1>3, <1>4
<1> HIDE DEF x, cs, a
<1>12. \A ip : ip # a => EventsOf(ip)' = EventsOf(ip)
  <2>1. \A e \in EventRows(x) : e.event.ip = a
    BY <1>7, EventData
  <2> QED
    BY <1>3, <2>1 DEF EventsOf
<1>13. Chained(a)' /\ Latest(a)' /\ Silent(a)'
  <2>1. CASE B = {}
    <3>1. Tracked(StoredFrom(cs)) = Tracked(store[a])
      <4>1. store[a] \in StoredIP /\ (~store[a].known => store[a] = Unknown)
        BY <1>4 DEF TypeOK, LockInv, AbsentInv
      <4>2. r.entry[a] \in IPIn
        BY <1>1, <1>4, ImportsAssumption
      <4>3. BuildEvent(a, store[a], ApplyMode(r.mode, store[a], r.entry[a])) = {}
        BY <2>1 DEF cs
      <4> HIDE DEF B
      <4> QED
        BY <4>1, <4>2, <4>3, SilentMeansSame DEF cs
    <3>2. EventsOf(a)' = EventsOf(a)
      <4>1. EventRows(x) = {}
        BY <1>7, <2>1
      <4> QED
        BY <1>3, <4>1 DEF EventsOf
    <3> QED
      BY <1>8, <1>10, <3>1, <3>2, SilentWrite
  <2>2. CASE B # {}
    <3>1. PICK e \in B : /\ e.ip = a /\ e.old = Refs(store[a])
                         /\ e.current = Details(cs) /\ B = {e}
      BY <2>2, EventData
    <3> DEFINE row == [txid |-> x.xid, id |-> 1, event |-> e]
    <3>2. row.txid = x.xid /\ row.id = 1 /\ row.event = e
      OBVIOUS
    <3>3. EventRows(x) = {row}
      BY <1>7, <3>1
    <3> HIDE DEF row, B
    <3>4. Tracked(row.event.current) = Tracked(store'[a])
      <4>1. Tracked(Details(cs)) = Tracked(StoredFrom(cs))
        BY EventData
      <4> QED
        BY <1>10, <3>1, <3>2, <4>1
    <3> QED
      BY <1>3, <1>8, <1>9, <1>10, <3>1, <3>2, <3>3, <3>4, OneMoreEvent
  <2> QED
    BY <2>1, <2>2
<1>14. ASSUME NEW ip \in Ips
       PROVE  Chained(ip)' /\ Latest(ip)' /\ Silent(ip)'
  <2>1. CASE ip = a
    BY <1>13, <2>1
  <2>2. CASE ip # a
    <3>1. Chained(ip) /\ Latest(ip) /\ Silent(ip)
      BY DEF ReplayInv
    <3> QED
      BY <1>11, <1>12, <2>2, <3>1, OtherAddress
  <2> QED
    BY <2>1, <2>2
<1>15. OrderInv'
  <2>1. ASSUME NEW u \in Sessions
        PROVE  OrderOf(tx[u])'
    <3>1. tx'[u] = IF u = t THEN NoTx ELSE tx[u]
      BY <1>3 DEF TypeOK
    <3>2. CASE u = t
      <4>1. NoTx.pc = "idle" /\ NoTx.locked \cup NoTx.created = {}
        BY DEF NoTx
      <4> QED
        BY <3>1, <3>2, <4>1 DEF OrderOf
    <3>3. CASE u # t
      <4>1. a \notin tx[u].locked \cup tx[u].created
        BY <1>5, <3>3, HoldingsApart
      <4>2. \A ip \in tx[u].locked \cup tx[u].created : EventsOf(ip)' = EventsOf(ip)
        BY <1>12, <4>1
      <4>3. OrderOf(tx[u])
        BY DEF ReplayInv, OrderInv
      <4> QED
        BY <3>1, <3>3, <4>2, <4>3 DEF OrderOf
    <3> QED
      BY <3>2, <3>3
  <2> QED
    BY <2>1 DEF OrderInv
<1> QED
  BY <1>14, <1>15 DEF ReplayInv

-----------------------------------------------------------------------------
(* Every step of a session.                                                *)
LEMMA SessionReplay ==
  ASSUME TypeOK, SingleAddress, Deletes = {}, FeedInv, LockInv, ReplayInv,
         NEW t \in Sessions,
         ClientStep(t) \/ ServerStep(t) \/ IdleTimeout(t) \/ DeadlockVictim(t)
  PROVE  ReplayInv'
<1>1. tx[t].pc # "delete" /\ ~BeginDelete(t)
  BY DEF TypeOK, BeginDelete
<1>2. CASE BeginImport(t)
  BY <1>2, BeginReplay DEF BeginImport
<1>3. CASE Abort(t) \/ IdleTimeout(t) \/ DeadlockVictim(t)
  BY <1>3, RollbackReplay DEF Abort, IdleTimeout, DeadlockVictim, Rollback, dbVars
<1>4. CASE SkipRow(t)
  BY <1>1, <1>4, SkipRowReplay DEF SkipRow
<1>5. CASE LockRow(t)
  BY <1>1, <1>5, LockRowReplay DEF LockRow
<1> QED
  BY <1>1, <1>2, <1>3, <1>4, <1>5, LoadedReplay, InsertNameReplay,
     InsertHistoryReplay, InsertAddressReplay, CommitReplay DEF ClientStep, ServerStep, CommitDelete

(* Imports of one address each, as the worker uploads them, and no         *)
(* deletes: a consumer that replays the events of one address in feed      *)
(* order rebuilds the stored hostnames, ports and services, whatever the   *)
(* interleaving, the crashes and the rollbacks.  (Without the first        *)
(* hypothesis it does not: run feed_order.)                                *)
THEOREM SingleImportsReplay ==
  ASSUME SingleAddress, Deletes = {}
  PROVE  Spec => []FeedReplaysInventory
<1>1. Init => ReplayInv
  <2> SUFFICES ASSUME Init PROVE ReplayInv
    OBVIOUS
  <2>1. OrderInv
    <3>1. \A t \in Sessions : tx[t] = NoTx
      BY DEF Init
    <3> QED
      BY <3>1, NoTxOrder DEF OrderInv
  <2>2. \A ip \in Ips : EventsOf(ip) = {} /\ store[ip] = Unknown
    BY DEF Init, EventsOf
  <2> QED
    BY <2>1, <2>2 DEF ReplayInv, Chained, Latest, Silent
<1>2. TypeOK /\ FeedInv /\ LockInv /\ ReplayInv /\ [Next]_vars => ReplayInv'
  <2> SUFFICES ASSUME TypeOK, FeedInv, LockInv, ReplayInv, [Next]_vars
               PROVE  ReplayInv'
    OBVIOUS
  <2>1. CASE \E t \in Sessions : \/ ClientStep(t) \/ ServerStep(t)
                                \/ IdleTimeout(t) \/ DeadlockVictim(t)
    BY <2>1, SessionReplay
  <2>2. CASE UNCHANGED <<store, outbox, tx>>
    BY <2>2 DEF ReplayInv, OrderInv, OrderOf, Chained, Latest, Silent, EventsOf
  <2> QED
    BY <2>1, <2>2 DEF Next, Poll, PollUnsaved, dbVars, vars
<1>3. ReplayInv => FeedReplaysInventory
  BY ReplayParts DEF ReplayInv
<1> QED
  BY TypeCorrect, FeedInvHolds, LocksProtectReads, <1>1, <1>2, <1>3, PTL DEF Spec

-----------------------------------------------------------------------------
(* Waits.                                                                  *)

(* Each import observes at most one hostname.                              *)
SingleHostname ==
  \A r \in Imports : \A ip \in Addresses(r) : \E name : r.entry[ip].hostnames \subseteq {name}

(* The history rows of the addresses of a request.                         *)
RowsOf(r) == {row \in HistoryKeys : row[1] \in Addresses(r)}

(* An import takes what others may wait for only when nothing of that kind *)
(* is left to wait for: its row, then its hostname, and its address last.  *)
(* History rows it takes one by one, all of its own address.               *)
Stages(x) ==
  /\ x.rows # <<>> => x.locked = {} /\ Tail(x.rows) = <<>>
  /\ x.names # <<>> => Tail(x.names) = <<>>
  /\ x.inserted # {} => x.pc = "write" /\ x.names = <<>>
  /\ x.logged # {} => x.pc = "write" /\ x.names = <<>>
  /\ x.created # {} => x.pc = "write" /\ x.names = <<>> /\ x.changes = <<>>

Own(x) ==
  /\ x.locked \subseteq Addresses(x.req)
  /\ x.changes \in Seq(RowsOf(x.req))
  /\ x.logged \subseteq RowsOf(x.req)

WaitOf(x) == Stages(x) /\ Own(x)

WaitInv == \A t \in Sessions : WaitOf(tx[t])

(* A session without a transaction waits for nothing.                      *)
LEMMA NoTxWait == WaitOf(NoTx)
<1>1. /\ NoTx.rows = <<>> /\ NoTx.names = <<>> /\ NoTx.changes = <<>>
      /\ NoTx.locked = {} /\ NoTx.inserted = {} /\ NoTx.logged = {} /\ NoTx.created = {}
  BY DEF NoTx
<1>2. NoTx.changes \in Seq(RowsOf(NoTx.req))
  BY <1>1, EmptySeq
<1> QED
  BY <1>1, <1>2 DEF WaitOf, Stages, Own

(* A step that moves t's own transaction.                                  *)
LEMMA MoveWait ==
  ASSUME TypeOK, WaitInv, NEW t \in Sessions, NEW x,
         tx' = [tx EXCEPT ![t] = x], WaitOf(x)
  PROVE  WaitInv'
<1>1. \A u \in Sessions : tx'[u] = IF u = t THEN x ELSE tx[u]
  BY DEF TypeOK
<1>2. \A u \in Sessions : WaitOf(tx'[u])
  BY <1>1 DEF WaitInv
<1> QED
  BY <1>2 DEF WaitInv, WaitOf, Stages, Own

(* A request of one address.                                               *)
LEMMA OneAddress ==
  ASSUME SingleAddress, NEW r \in Imports
  PROVE  \E a : Addresses(r) = {a}
<1>1. DOMAIN r.order = {1}
  BY RequestType, LenProperties DEF SingleAddress
<1>2. Addresses(r) = {r.order[1]}
  BY <1>1 DEF Addresses, Range
<1> QED
  BY <1>2

(* An import knows its names: at most the one it observed.                 *)
LEMMA OneName ==
  ASSUME NEW x \in Tx, x.req \in Imports, SingleAddress, SingleHostname
  PROVE  \E name : NamesOf(x) \subseteq {name}
<1> DEFINE r == x.req
<1>1. PICK a : Addresses(r) = {a}
  BY OneAddress
<1>2. ChangeSet(x, a).new_hostnames \subseteq r.entry[a].hostnames
  <2> DEFINE in == r.entry[a]
             s == x.snap[a]
  <2>1. Created(in).new_hostnames \subseteq in.hostnames
    BY DEF Created
  <2>2. Updated(Policy(r.mode), s, in).new_hostnames \subseteq in.hostnames
    BY DEF Updated
  <2> QED
    BY <2>1, <2>2 DEF ChangeSet, ApplyMode
<1>3. PICK name : r.entry[a].hostnames \subseteq {name}
  BY <1>1 DEF SingleHostname
<1>4. NamesOf(x) = ChangeSet(x, a).new_hostnames
  BY <1>1 DEF NamesOf
<1> QED
  BY <1>2, <1>3, <1>4

(* An import begins: it holds nothing, and visits at most one row.         *)
LEMMA BeginWait ==
  ASSUME TypeOK, SingleAddress, WaitInv,
         NEW t \in Sessions, NEW r \in Imports, Begin(t, r, "load")
  PROVE  WaitInv'
<1> DEFINE S == {<<ip, gen[ip]>> : ip \in {i \in Addresses(r) : store[i].known}}
<1>1. PICK rows \in Orders(S) :
        tx' = [tx EXCEPT ![t] = [NoTx EXCEPT !.pc = "load", !.req = r, !.rows = rows]]
  BY DEF Begin
<1> DEFINE x == [NoTx EXCEPT !.pc = "load", !.req = r, !.rows = rows]
<1>2. /\ x.rows = rows /\ x.names = <<>> /\ x.changes = <<>>
      /\ x.locked = {} /\ x.inserted = {} /\ x.logged = {} /\ x.created = {}
  BY DEF NoTx
<1>3. tx' = [tx EXCEPT ![t] = x]
  BY <1>1
<1> HIDE DEF x
<1>4. x.changes \in Seq(RowsOf(x.req))
  BY <1>2, EmptySeq
<1>5. WaitOf(x)
  BY <1>2, <1>4, OneRow DEF WaitOf, Stages, Own
<1> QED
  BY <1>3, <1>5, MoveWait

(* An import passes over its row.                                          *)
LEMMA SkipRowWait ==
  ASSUME TypeOK, WaitInv, NEW t \in Sessions, SkipRow(t)
  PROVE  WaitInv'
<1> DEFINE x == [tx[t] EXCEPT !.rows = Tail(@)]
<1>1. tx' = [tx EXCEPT ![t] = x] /\ tx[t].rows # <<>> /\ tx[t] \in Tx
  BY DEF SkipRow, TypeOK
<1>2. /\ x.pc = tx[t].pc /\ x.req = tx[t].req /\ x.rows = Tail(tx[t].rows)
      /\ x.locked = tx[t].locked /\ x.names = tx[t].names /\ x.inserted = tx[t].inserted
      /\ x.changes = tx[t].changes /\ x.logged = tx[t].logged /\ x.created = tx[t].created
  BY <1>1 DEF Tx
<1> HIDE DEF x
<1>3. WaitOf(tx[t])
  BY DEF WaitInv
<1>4. WaitOf(x)
  BY <1>1, <1>2, <1>3 DEF WaitOf, Stages, Own
<1> QED
  BY <1>1, <1>4, MoveWait

(* An import locks its row: there is no other to wait for.                 *)
LEMMA LockRowWait ==
  ASSUME TypeOK, LockInv, WaitInv, NEW t \in Sessions, LockRow(t)
  PROVE  WaitInv'
<1> DEFINE w == WithXid(tx[t])
           ip == Head(tx[t].rows)[1]
           x == [w EXCEPT !.rows = Tail(@), !.locked = @ \cup {ip}]
<1>1. /\ tx' = [tx EXCEPT ![t] = x] /\ tx[t].rows # <<>>
      /\ tx[t] \in Tx /\ tx[t].pc \in {"load", "delete"} /\ nextXid \in Nat
  BY DEF LockRow, TypeOK
<1>2. /\ w \in Tx /\ w.pc = tx[t].pc /\ w.req = tx[t].req /\ w.rows = tx[t].rows
      /\ w.locked = tx[t].locked /\ w.names = tx[t].names /\ w.inserted = tx[t].inserted
      /\ w.changes = tx[t].changes /\ w.logged = tx[t].logged /\ w.created = tx[t].created
  BY <1>1, WithXidType
<1>3. ip \in Addresses(tx[t].req)
  <2>1. tx[t].rows \in Seq(Addresses(tx[t].req) \X Nat)
    BY <1>1 DEF LockInv, TxInv, LockingInv
  <2> QED
    BY <1>1, <2>1, HeadTailProperties
<1> HIDE DEF w, ip
<1>4. /\ x.pc = tx[t].pc /\ x.req = tx[t].req /\ x.rows = Tail(tx[t].rows)
      /\ x.locked = tx[t].locked \cup {ip} /\ x.names = tx[t].names
      /\ x.inserted = tx[t].inserted
      /\ x.changes = tx[t].changes /\ x.logged = tx[t].logged /\ x.created = tx[t].created
  BY <1>2 DEF Tx
<1> HIDE DEF x
<1>5. WaitOf(tx[t])
  BY DEF WaitInv
<1>6. WaitOf(x)
  BY <1>1, <1>3, <1>4, <1>5 DEF WaitOf, Stages, Own
<1> QED
  BY <1>1, <1>6, MoveWait

(* _load returns: the import has nothing but its row, and knows at most    *)
(* one hostname to insert.                                                 *)
LEMMA LoadedWait ==
  ASSUME TypeOK, SingleAddress, SingleHostname, WaitInv, NEW t \in Sessions, Loaded(t)
  PROVE  WaitInv'
<1> DEFINE snap == [ip \in Ips |-> IF ip \in tx[t].locked THEN store[ip] ELSE Unknown]
           x == [tx[t] EXCEPT !.pc = "write", !.snap = snap]
<1>1. PICK names \in Orders(NamesOf(x)), changes \in HistoryOrders(x) :
        tx' = [tx EXCEPT ![t] = [x EXCEPT !.names = names, !.changes = changes]]
  BY DEF Loaded
<1>2. tx[t] \in Tx /\ tx[t].pc = "load" /\ tx[t].rows = <<>> /\ tx[t].req \in Imports
  BY DEF Loaded, TypeOK
<1>3. snap \in [Ips -> StoredIP]
  BY UnknownType DEF TypeOK
<1> HIDE DEF snap
<1>4. x \in Tx /\ x.req = tx[t].req
  BY <1>2, <1>3 DEF Tx
<1> DEFINE y == [x EXCEPT !.names = names, !.changes = changes]
<1>5. /\ y.pc = "write" /\ y.req = tx[t].req /\ y.rows = tx[t].rows
      /\ y.locked = tx[t].locked /\ y.names = names /\ y.inserted = tx[t].inserted
      /\ y.changes = changes /\ y.logged = tx[t].logged /\ y.created = tx[t].created
  BY <1>2 DEF Tx
<1>6. tx' = [tx EXCEPT ![t] = y]
  BY <1>1
<1> HIDE DEF x, y
<1>7. names # <<>> => Tail(names) = <<>>
  BY <1>1, <1>2, <1>4, OneName, ShortOrder
<1>8. changes \in Seq(RowsOf(tx[t].req))
  BY <1>1, <1>2, <1>4, HistoryOrderType DEF RowsOf
<1>9. WaitOf(tx[t])
  BY DEF WaitInv
<1>10. tx[t].inserted = {} /\ tx[t].logged = {} /\ tx[t].created = {}
  BY <1>2, <1>9 DEF WaitOf, Stages
<1>11. WaitOf(y)
  BY <1>2, <1>5, <1>7, <1>8, <1>9, <1>10 DEF WaitOf, Stages, Own
<1> QED
  BY <1>6, <1>11, MoveWait

(* Inserting its hostname leaves it no other to wait for.                  *)
LEMMA InsertNameWait ==
  ASSUME TypeOK, WaitInv, NEW t \in Sessions, InsertName(t)
  PROVE  WaitInv'
<1> DEFINE h == Head(tx[t].names)
           x == [tx[t] EXCEPT !.names = Tail(@)]
           w == WithXid(x)
           y == [w EXCEPT !.inserted = @ \cup {h}]
<1>1. tx' = [tx EXCEPT ![t] = x] \/ tx' = [tx EXCEPT ![t] = y]
  BY DEF InsertName
<1>2. /\ tx[t] \in Tx /\ tx[t].pc = "write" /\ nextXid \in Nat
      /\ tx[t].names \in Seq(Hostnames) /\ tx[t].names # <<>>
  BY DEF InsertName, TypeOK, Tx
<1>3. WaitOf(tx[t])
  BY DEF WaitInv
<1>4. Tail(tx[t].names) \in Seq(Hostnames) /\ Tail(tx[t].names) = <<>>
  BY <1>2, <1>3, HeadTailProperties DEF WaitOf, Stages
<1>5. /\ x \in Tx /\ x.pc = "write" /\ x.req = tx[t].req /\ x.rows = tx[t].rows
      /\ x.locked = tx[t].locked /\ x.names = <<>>
      /\ x.changes = tx[t].changes /\ x.logged = tx[t].logged /\ x.created = tx[t].created
  BY <1>2, <1>4 DEF Tx
<1> HIDE DEF x, h
<1>6. /\ w \in Tx /\ w.pc = "write" /\ w.req = tx[t].req /\ w.rows = tx[t].rows
      /\ w.locked = tx[t].locked /\ w.names = <<>>
      /\ w.changes = tx[t].changes /\ w.logged = tx[t].logged /\ w.created = tx[t].created
  BY <1>2, <1>5, WithXidType
<1> HIDE DEF w
<1>7. /\ y.pc = "write" /\ y.req = tx[t].req /\ y.rows = tx[t].rows
      /\ y.locked = tx[t].locked /\ y.names = <<>>
      /\ y.changes = tx[t].changes /\ y.logged = tx[t].logged /\ y.created = tx[t].created
  BY <1>6 DEF Tx
<1> HIDE DEF y
<1>8. tx[t].created = {}
  BY <1>2, <1>3 DEF WaitOf, Stages
<1>9. WaitOf(x) /\ WaitOf(y)
  BY <1>3, <1>5, <1>7, <1>8 DEF WaitOf, Stages, Own
<1> QED
  BY <1>1, <1>9, MoveWait

(* Inserting a history row: one of its own address.                        *)
LEMMA InsertHistoryWait ==
  ASSUME TypeOK, WaitInv, NEW t \in Sessions, InsertHistory(t)
  PROVE  WaitInv'
<1> DEFINE row == Head(tx[t].changes)
           x == [tx[t] EXCEPT !.changes = Tail(@)]
           w == WithXid(x)
           y == [w EXCEPT !.logged = @ \cup {row}]
<1>1. tx' = [tx EXCEPT ![t] = x] \/ tx' = [tx EXCEPT ![t] = y]
  BY DEF InsertHistory
<1>2. /\ tx[t] \in Tx /\ tx[t].pc = "write" /\ nextXid \in Nat
      /\ tx[t].names = <<>> /\ tx[t].changes # <<>>
      /\ tx[t].changes \in Seq(HistoryKeys)
  BY DEF InsertHistory, TypeOK, Tx
<1>3. WaitOf(tx[t])
  BY DEF WaitInv
<1>4. /\ Tail(tx[t].changes) \in Seq(HistoryKeys)
      /\ Tail(tx[t].changes) \in Seq(RowsOf(tx[t].req)) /\ row \in RowsOf(tx[t].req)
  BY <1>2, <1>3, HeadTailProperties DEF WaitOf, Own
<1>5. /\ x \in Tx /\ x.pc = "write" /\ x.req = tx[t].req /\ x.rows = tx[t].rows
      /\ x.locked = tx[t].locked /\ x.names = <<>>
      /\ x.changes = Tail(tx[t].changes) /\ x.logged = tx[t].logged
      /\ x.created = tx[t].created
  BY <1>2, <1>4 DEF Tx
<1> HIDE DEF x, row
<1>6. /\ w \in Tx /\ w.pc = "write" /\ w.req = tx[t].req /\ w.rows = tx[t].rows
      /\ w.locked = tx[t].locked /\ w.names = <<>>
      /\ w.changes = Tail(tx[t].changes) /\ w.logged = tx[t].logged
      /\ w.created = tx[t].created
  BY <1>2, <1>5, WithXidType
<1> HIDE DEF w
<1>7. /\ y.pc = "write" /\ y.req = tx[t].req /\ y.rows = tx[t].rows
      /\ y.locked = tx[t].locked /\ y.names = <<>>
      /\ y.changes = Tail(tx[t].changes) /\ y.logged = tx[t].logged \cup {row}
      /\ y.created = tx[t].created
  BY <1>6 DEF Tx
<1> HIDE DEF y
<1>8. tx[t].created = {}
  BY <1>2, <1>3 DEF WaitOf, Stages
<1>9. WaitOf(x) /\ WaitOf(y)
  BY <1>3, <1>4, <1>5, <1>7, <1>8 DEF WaitOf, Stages, Own
<1> QED
  BY <1>1, <1>9, MoveWait

(* Inserting its address comes after everything else.                      *)
LEMMA InsertAddressWait ==
  ASSUME TypeOK, WaitInv, NEW t \in Sessions, InsertAddress(t)
  PROVE  WaitInv'
<1>1. PICK ip \in Ips :
        \/ tx' = [tx EXCEPT ![t] = NoTx]
        \/ tx' = [tx EXCEPT ![t] = [WithXid(tx[t]) EXCEPT !.created = @ \cup {ip}]]
  BY DEF InsertAddress
<1>2. /\ tx[t] \in Tx /\ tx[t].pc = "write" /\ nextXid \in Nat
      /\ tx[t].names = <<>> /\ tx[t].changes = <<>>
  BY DEF InsertAddress, Flushing, TypeOK
<1> DEFINE w == WithXid(tx[t])
           y == [w EXCEPT !.created = @ \cup {ip}]
<1>3. /\ w \in Tx /\ w.pc = "write" /\ w.req = tx[t].req /\ w.rows = tx[t].rows
      /\ w.locked = tx[t].locked /\ w.names = <<>> /\ w.changes = tx[t].changes
      /\ w.logged = tx[t].logged
  BY <1>2, WithXidType
<1>4. tx' = [tx EXCEPT ![t] = NoTx] \/ tx' = [tx EXCEPT ![t] = y]
  BY <1>1
<1> HIDE DEF w
<1>5. /\ y.pc = "write" /\ y.req = tx[t].req /\ y.rows = tx[t].rows
      /\ y.locked = tx[t].locked /\ y.names = <<>> /\ y.changes = tx[t].changes
      /\ y.logged = tx[t].logged
  BY <1>3 DEF Tx
<1> HIDE DEF y
<1>6. WaitOf(tx[t])
  BY DEF WaitInv
<1>7. WaitOf(y)
  BY <1>2, <1>5, <1>6 DEF WaitOf, Stages, Own
<1> QED
  BY <1>4, <1>7, NoTxWait, MoveWait

(* Every step of a session.                                                *)
LEMMA SessionWait ==
  ASSUME TypeOK, SingleAddress, SingleHostname, Deletes = {}, LockInv, WaitInv,
         NEW t \in Sessions,
         ClientStep(t) \/ ServerStep(t) \/ IdleTimeout(t) \/ DeadlockVictim(t)
  PROVE  WaitInv'
<1>1. ~BeginDelete(t)
  BY DEF BeginDelete
<1>2. CASE BeginImport(t)
  BY <1>2, BeginWait DEF BeginImport
<1>3. CASE tx' = [tx EXCEPT ![t] = NoTx]
  BY <1>3, NoTxWait, MoveWait
<1> QED
  BY <1>1, <1>2, <1>3, SkipRowWait, LockRowWait, LoadedWait, InsertNameWait,
     InsertHistoryWait, InsertAddressWait
     DEF ClientStep, ServerStep, CommitImport, CommitDelete, Abort, IdleTimeout,
         DeadlockVictim, Rollback

(* In a set of sessions that all wait and are all waited for, nobody waits *)
(* for an address: who has inserted his waits for nothing.  Nobody waits   *)
(* for a row: he would hold nothing.  So nobody waits for a hostname: he   *)
(* would hold nothing but a row.                                           *)
LEMMA CirclesAreOverHistory ==
  ASSUME TypeOK, SingleAddress, Deletes = {}, LockInv, WaitInv
  PROVE  DeadlocksAreOverHistory
<1> SUFFICES ASSUME NEW S \in SUBSET Sessions, Circle(S),
                    NEW t \in S, NEW u \in S, WaitsFor(t, u)
             PROVE  /\ WaitsForHistory(t, u)
                    /\ Addresses(tx[t].req) = Addresses(tx[u].req)
                    /\ tx[t].locked = {} \/ tx[u].locked = {}
  BY DEF DeadlocksAreOverHistory
<1>1. \A s \in Sessions : /\ Stages(tx[s]) /\ Own(tx[s]) /\ TxInv(tx[s])
                          /\ tx[s].pc # "delete"
                          /\ tx[s].pc = "write" => tx[s].req \in Imports
  BY DEF WaitInv, WaitOf, LockInv, TypeOK
<1>2. \A s \in S : /\ \E v \in S : WaitsFor(s, v)
                   /\ \E v \in S : WaitsFor(v, s)
  BY DEF Circle
<1>3. ASSUME NEW s \in S, NEW v \in S
      PROVE  ~WaitsForAddress(s, v)
  <2> SUFFICES ASSUME WaitsForAddress(s, v) PROVE FALSE
    OBVIOUS
  <2>1. tx[v].created # {}
    BY <1>1 DEF WaitsForAddress
  <2>2. /\ tx[v].pc = "write" /\ tx[v].names = <<>> /\ tx[v].changes = <<>>
        /\ tx[v].req \in Imports
    BY <1>1, <2>1 DEF Stages
  <2>3. tx[v].created \subseteq Addresses(tx[v].req)
    BY <1>1, <2>2 DEF TxInv, SnapshotInv
  <2>4. PICK a : Addresses(tx[v].req) = {a}
    BY <2>2, OneAddress
  <2>5. ToCreate(tx[v]) = {}
    BY <2>1, <2>3, <2>4 DEF ToCreate
  <2> QED
    BY <1>2, <2>2, <2>5
       DEF WaitsFor, WaitsForRow, WaitsForName, WaitsForHistory, WaitsForAddress, IsNext
<1>4. ASSUME NEW s \in S, NEW v \in S
      PROVE  ~WaitsForRow(s, v)
  <2> SUFFICES ASSUME WaitsForRow(s, v) PROVE FALSE
    OBVIOUS
  <2>1. tx[s].rows # <<>> /\ tx[s].pc # "write" /\ Stages(tx[s])
    BY <1>1 DEF WaitsForRow
  <2>2. tx[s].locked = {} /\ tx[s].inserted = {} /\ tx[s].logged = {} /\ tx[s].created = {}
    BY <2>1 DEF Stages
  <2> QED
    BY <1>2, <2>2
       DEF WaitsFor, WaitsForRow, WaitsForName, WaitsForHistory, WaitsForAddress
<1>5. ASSUME NEW s \in S, NEW v \in S
      PROVE  ~WaitsForName(s, v)
  <2> SUFFICES ASSUME WaitsForName(s, v) PROVE FALSE
    OBVIOUS
  <2>1. tx[s].names # <<>> /\ Stages(tx[s])
    BY <1>1 DEF WaitsForName
  <2>2. tx[s].inserted = {} /\ tx[s].logged = {}
    BY <2>1 DEF Stages
  <2> QED
    BY <1>2, <1>3, <1>4, <2>2 DEF WaitsFor, WaitsForName, WaitsForHistory
<1>6. WaitsForHistory(t, u) /\ t # u
  BY <1>3, <1>4, <1>5 DEF WaitsFor
<1>7. tx[u].pc = "write" /\ tx[t].pc = "write"
  BY <1>1, <1>6 DEF WaitsForHistory, Stages
<1>8. PICK a : Addresses(tx[t].req) = {a}
  BY <1>1, <1>7, OneAddress
<1>9. PICK b : Addresses(tx[u].req) = {b}
  BY <1>1, <1>7, OneAddress
<1> DEFINE row == Head(tx[t].changes)
<1>10. row \in RowsOf(tx[t].req) /\ row \in RowsOf(tx[u].req)
  <2>1. tx[t].changes \in Seq(RowsOf(tx[t].req)) /\ tx[t].changes # <<>>
    BY <1>1, <1>6 DEF Own, WaitsForHistory
  <2>2. row \in tx[u].logged
    BY <1>6 DEF WaitsForHistory
  <2> QED
    BY <1>1, <2>1, <2>2, HeadTailProperties DEF Own
<1>11. a = b
  BY <1>8, <1>9, <1>10 DEF RowsOf
<1>12. tx[t].locked \subseteq {a} /\ tx[u].locked \subseteq {a}
  BY <1>1, <1>8, <1>9, <1>11 DEF Own
<1>13. tx[t].locked \cap tx[u].locked = {}
  BY <1>6 DEF LockInv, HeldApart
<1> QED
  BY <1>6, <1>8, <1>9, <1>11, <1>12, <1>13

(* Imports of one address and at most one hostname each, however many run  *)
(* at once, wait for each other in a circle only over history rows, and    *)
(* those of one address, which of any two that wait for each other at most *)
(* one has found stored: never over rows, hostnames or addresses.          *)
THEOREM SingleImportsDeadlockOverHistory ==
  ASSUME SingleAddress, SingleHostname, Deletes = {}
  PROVE  Spec => []DeadlocksAreOverHistory
<1>1. Init => WaitInv
  <2> SUFFICES ASSUME Init PROVE WaitInv
    OBVIOUS
  <2>1. \A t \in Sessions : tx[t] = NoTx
    BY DEF Init
  <2> QED
    BY <2>1, NoTxWait DEF WaitInv
<1>2. TypeOK /\ LockInv /\ WaitInv /\ [Next]_vars => WaitInv'
  <2> SUFFICES ASSUME TypeOK, LockInv, WaitInv, [Next]_vars
               PROVE  WaitInv'
    OBVIOUS
  <2>1. CASE \E t \in Sessions : \/ ClientStep(t) \/ ServerStep(t)
                                \/ IdleTimeout(t) \/ DeadlockVictim(t)
    BY <2>1, SessionWait
  <2>2. CASE UNCHANGED tx
    BY <2>2 DEF WaitInv, WaitOf, Stages, Own
  <2> QED
    BY <2>1, <2>2 DEF Next, Poll, PollUnsaved, vars
<1>3. TypeOK /\ LockInv /\ WaitInv => DeadlocksAreOverHistory
  BY CirclesAreOverHistory
<1> QED
  BY TypeCorrect, LocksProtectReads, <1>1, <1>2, <1>3, PTL DEF Spec
=============================================================================

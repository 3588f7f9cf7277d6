------------------------------ MODULE ImportFeed ------------------------------
(***************************************************************************)
(* scanledger's write path and its event feed: concurrent request          *)
(* transactions (import_scan / create_ips and delete_ips) on PostgreSQL at *)
(* READ COMMITTED, the transactional outbox they write, and a consumer     *)
(* that pages through read_events with a saved cursor.                     *)
(*                                                                         *)
(* What the program relies on is modelled statement by statement: the row  *)
(* locks of _load and of DELETE, the waits on unique indexes, the moment a *)
(* transaction gets its id (its first lock or write), commit and rollback, *)
(* the deadlock detector, and pg_snapshot_xmin.  What one import does to   *)
(* one IP is Reconcile.                                                    *)
(***************************************************************************)
EXTENDS Integers, Sequences, FiniteSets, Functions, Reconcile

CONSTANTS
  Ips,        \* addresses
  Hostnames,  \* observed hostnames
  PortKeys,   \* <<number, protocol>>
  Texts,      \* services, details and host metadata, "" among them
  Sessions,   \* database connections of the API
  Imports,    \* import requests, after dedup_batch
  Deletes,    \* delete requests
  MaxTx,      \* bound: how many transactions are ever begun
  Limit       \* page size of the consumer

Port == [state : {"open", "closed", "filtered"}, service : Texts, detail : Texts]
PortMap == UNION {[K -> Port] : K \in SUBSET PortKeys}
StoredIP == [known : BOOLEAN, meta : Texts, hostnames : SUBSET Hostnames, ports : PortMap]
IPIn == [meta : Texts, endtime : Nat, hostnames : SUBSET Hostnames, ports : PortMap,
         scanned_ports : SUBSET (Nat \X Nat)]

(* The unique key of a history row: address, port, change type and the end *)
(* time of the scan.                                                       *)
HistoryKeys == Ips \X PortKeys \X {"state", "service"} \X Nat

(* A request names its addresses in the order of its list, each once; an   *)
(* import gives an entry for each of them.                                 *)
Addresses(r) == Range(r.order)

RequestFields == {"mode", "track_history", "order", "entry"}

ASSUME ConstantsAssumption ==
  /\ IsFiniteSet(Ips) /\ IsFiniteSet(Hostnames) /\ IsFiniteSet(PortKeys)
  /\ "" \in Texts
  /\ MaxTx \in Nat /\ Limit \in Nat \ {0}

ASSUME ImportsAssumption ==
  \A r \in Imports :
    /\ DOMAIN r = RequestFields
    /\ r.mode \in Modes /\ r.track_history \in BOOLEAN
    /\ r.order \in Seq(Ips) /\ r.order # <<>> /\ IsInjective(r.order)
    /\ r.entry \in [Addresses(r) -> IPIn]

ASSUME DeletesAssumption ==
  \A r \in Deletes :
    DOMAIN r = RequestFields /\ r.mode = "delete" /\ r.order \in Seq(Ips)

VARIABLES
  store,     \* committed ips / ports / hostname links: one StoredIP per address
  gen,       \* which incarnation of the row of an address is the latest one
  observed,  \* committed observed_hostnames
  history,   \* unique keys of the committed ip_port_history rows
  outbox,    \* committed outbox_events rows
  nextXid,   \* the next transaction id PostgreSQL hands out
  begun,     \* transactions begun so far
  tx,        \* per session: its open transaction and the handler's locals
  cursor,    \* the consumer's saved cursor <<txid, id>>
  delivered  \* events the consumer has processed

dbVars == <<store, gen, observed, history, outbox>>
feedVars == <<cursor, delivered>>
vars ==
  <<store, gen, observed, history, outbox, nextXid, begun, tx, cursor, delivered>>

-----------------------------------------------------------------------------
NoRequest ==
  [mode |-> "none", track_history |-> FALSE, order |-> <<>>, entry |-> <<>>]

NoTx == [pc |-> "idle", req |-> NoRequest, xid |-> 0,
         rows     |-> <<>>,  \* rows its locking statement has still to visit
         locked   |-> {},    \* addresses whose row it holds
         snap     |-> [ip \in Ips |-> Unknown],  \* apply_import's `snapshots'
         names    |-> <<>>,  \* hostnames still to insert
         inserted |-> {},    \* hostnames inserted, uncommitted
         changes  |-> <<>>,  \* history rows still to insert
         logged   |-> {},    \* history rows inserted, uncommitted
         created  |-> {}]    \* addresses inserted, uncommitted

Tx == [pc : {"idle", "load", "write", "delete"},
       req : Imports \cup Deletes \cup {NoRequest}, xid : Nat,
       rows : Seq(Ips \X Nat), locked : SUBSET Ips, snap : [Ips -> StoredIP],
       names : Seq(Hostnames), inserted : SUBSET Hostnames,
       changes : Seq(HistoryKeys), logged : SUBSET HistoryKeys,
       created : SUBSET Ips]

(* The locals of apply_import: one change set per address.                 *)
ChangeSet(x, ip) == ApplyMode(x.req.mode, x.snap[ip], x.req.entry[ip])

(* The addresses it has still to create, and the next one: the first in   *)
(* the order of the request.                                               *)
ToCreate(x) == {ip \in Addresses(x.req) : ~x.snap[ip].known} \ x.created

IsNext(x, ip) ==
  \E i \in DOMAIN x.req.order :
    /\ x.req.order[i] = ip /\ ip \in ToCreate(x)
    /\ \A j \in 1..(i - 1) : x.req.order[j] \notin ToCreate(x)

(* A transaction gets its id at its first lock or write.                   *)
WithXid(x) == IF x.xid = 0 THEN [x EXCEPT !.xid = nextXid] ELSE x
TakeXid(x) == nextXid' = IF x.xid = 0 THEN nextXid + 1 ELSE nextXid

(* Every order in which a statement may visit a set: _load has no ORDER BY *)
(* and `names' is a Python set.                                            *)
Orders(S) == Bijection(1..Cardinality(S), S)

-----------------------------------------------------------------------------
(* Who waits for whom.                                                     *)

Gone(row) == ~store[row[1]].known \/ gen[row[1]] # row[2]

(* Slip: the SELECT without FOR UPDATE.                                    *)
WaitsForRow_NoForUpdate(t, u) == FALSE

WaitsForRow(t, u) ==
  /\ tx[t].pc \in {"load", "delete"} /\ tx[t].rows # <<>>
  /\ ~Gone(Head(tx[t].rows))
  /\ Head(tx[t].rows)[1] \in tx[u].locked

WaitsForName(t, u) ==
  /\ tx[t].pc = "write" /\ tx[t].names # <<>>
  /\ Head(tx[t].names) \in tx[u].inserted

WaitsForHistory(t, u) ==
  /\ tx[t].pc = "write" /\ tx[t].names = <<>> /\ tx[t].changes # <<>>
  /\ Head(tx[t].changes) \in tx[u].logged

(* The flush comes last.                                                   *)
Flushing(x) == x.pc = "write" /\ x.names = <<>> /\ x.changes = <<>>

(* Slip: an INSERT that waits for any holder of the row, as an upsert would. *)
WaitsForAddress_Upsert(t, u) ==
  /\ Flushing(tx[t])
  /\ \E ip \in tx[u].created \cup tx[u].locked : IsNext(tx[t], ip)

WaitsForAddress(t, u) ==
  /\ Flushing(tx[t])
  /\ \E ip \in Ips : /\ IsNext(tx[t], ip)
                    /\ \/ ip \in tx[u].created
                       \/ tx[u].pc = "delete" /\ ip \in tx[u].locked

WaitsFor(t, u) ==
  /\ t # u
  /\ \/ WaitsForRow(t, u) \/ WaitsForName(t, u)
     \/ WaitsForHistory(t, u) \/ WaitsForAddress(t, u)

Blocked(t) == \E u \in Sessions : WaitsFor(t, u)

(* A session waits for at most one other, so a set in which everybody      *)
(* waits and is waited for is a union of cycles.                           *)
Circle(S) ==
  \A s \in S : /\ \E u \in S : WaitsFor(s, u)
              /\ \E u \in S : WaitsFor(u, s)

OnWaitCycle(t) == \E S \in SUBSET Sessions : t \in S /\ Circle(S)
-----------------------------------------------------------------------------
Init ==
  /\ store = [ip \in Ips |-> Unknown]
  /\ gen = [ip \in Ips |-> 0]
  /\ observed = {}
  /\ history = {}
  /\ outbox = {}
  /\ nextXid = 1
  /\ begun = 0
  /\ tx = [t \in Sessions |-> NoTx]
  /\ cursor = <<0, 0>>
  /\ delivered = {}

(* _load's SELECT ... FOR UPDATE and delete_ips's DELETE start by fixing   *)
(* the rows they will visit: those of their own snapshot.                  *)
Begin(t, r, pc) ==
  /\ tx[t].pc = "idle" /\ begun < MaxTx
  /\ begun' = begun + 1
  /\ \E rows \in Orders({<<ip, gen[ip]>> : ip \in {i \in Addresses(r) : store[i].known}}) :
       tx' = [tx EXCEPT ![t] = [NoTx EXCEPT !.pc = pc, !.req = r, !.rows = rows]]
  /\ UNCHANGED <<dbVars, nextXid, feedVars>>

BeginImport(t) == \E r \in Imports : Begin(t, r, "load")
BeginDelete(t) == \E r \in Deletes : Begin(t, r, "delete")

(* The statement reaches its next row.  A row deleted since the snapshot   *)
(* is skipped, a row somebody holds is waited for.                         *)
SkipRow(t) ==
  /\ tx[t].pc \in {"load", "delete"} /\ tx[t].rows # <<>>
  /\ Gone(Head(tx[t].rows))
  /\ tx' = [tx EXCEPT ![t].rows = Tail(@)]
  /\ UNCHANGED <<dbVars, nextXid, begun, feedVars>>

LockRow(t) ==
  /\ tx[t].pc \in {"load", "delete"} /\ tx[t].rows # <<>>
  /\ ~Gone(Head(tx[t].rows)) /\ ~Blocked(t)
  /\ tx' = [tx EXCEPT ![t] = [WithXid(tx[t]) EXCEPT
                                !.rows = Tail(@),
                                !.locked = @ \cup {Head(tx[t].rows)[1]}]]
  /\ TakeXid(tx[t])
  /\ UNCHANGED <<dbVars, begun, feedVars>>

(* _load returns: the handler takes its snapshots of the rows it locked,   *)
(* computes the change sets, and knows which hostnames and history rows to *)
(* insert.                                                                 *)
NamesOf(x) == UNION {ChangeSet(x, ip).new_hostnames : ip \in Addresses(x.req)}

HistoryRows(ip, cs) == {<<ip, c.key, c.type, cs.endtime>> : c \in cs.changes}

HistoryOf(x) ==
  IF x.req.track_history
  THEN UNION {HistoryRows(ip, ChangeSet(x, ip)) : ip \in Addresses(x.req)}
  ELSE {}

(* Addresses come in the order of the request; the rows of one address in  *)
(* the order of its report and its stored ports, which may be any.         *)
HistoryOrders(x) ==
  {p \in Orders(HistoryOf(x)) :
     \A i, j \in DOMAIN p : \A m, n \in DOMAIN x.req.order :
       i < j /\ x.req.order[m] = p[i][1] /\ x.req.order[n] = p[j][1] => m <= n}

Loaded(t) ==
  /\ tx[t].pc = "load" /\ tx[t].rows = <<>>
  /\ LET x == [tx[t] EXCEPT
                 !.pc = "write",
                 !.snap = [ip \in Ips |-> IF ip \in tx[t].locked
                                          THEN store[ip] ELSE Unknown]]
     IN  \E names \in Orders(NamesOf(x)), changes \in HistoryOrders(x) :
           tx' = [tx EXCEPT ![t] = [x EXCEPT !.names = names, !.changes = changes]]
  /\ UNCHANGED <<dbVars, nextXid, begun, feedVars>>

(* _ensure_hostnames: INSERT ... ON CONFLICT DO NOTHING, name by name.     *)
InsertName(t) ==
  /\ tx[t].pc = "write" /\ tx[t].names # <<>> /\ ~Blocked(t)
  /\ LET name == Head(tx[t].names)
         x == [tx[t] EXCEPT !.names = Tail(@)]
     IN  IF name \in observed
         THEN tx' = [tx EXCEPT ![t] = x] /\ UNCHANGED nextXid
         ELSE /\ tx' = [tx EXCEPT ![t] = [WithXid(x) EXCEPT !.inserted = @ \cup {name}]]
              /\ TakeXid(x)
  /\ UNCHANGED <<dbVars, begun, feedVars>>

(* _write_history: INSERT ... ON CONFLICT DO NOTHING, row by row, before   *)
(* the flush.                                                              *)
InsertHistory(t) ==
  /\ tx[t].pc = "write" /\ tx[t].names = <<>> /\ tx[t].changes # <<>> /\ ~Blocked(t)
  /\ LET row == Head(tx[t].changes)
         x == [tx[t] EXCEPT !.changes = Tail(@)]
     IN  IF row \in history
         THEN tx' = [tx EXCEPT ![t] = x] /\ UNCHANGED nextXid
         ELSE /\ tx' = [tx EXCEPT ![t] = [WithXid(x) EXCEPT !.logged = @ \cup {row}]]
              /\ TakeXid(x)
  /\ UNCHANGED <<dbVars, begun, feedVars>>

(* session.flush: the INSERT of a new address.  A live committed row of    *)
(* that address is a unique violation and fails the request.               *)
InsertAddress(t) ==
  /\ Flushing(tx[t]) /\ ~Blocked(t)
  /\ \E ip \in Ips :
       /\ IsNext(tx[t], ip)
       /\ IF store[ip].known
          THEN tx' = [tx EXCEPT ![t] = NoTx] /\ UNCHANGED nextXid
          ELSE /\ tx' = [tx EXCEPT ![t] = [WithXid(tx[t]) EXCEPT !.created = @ \cup {ip}]]
               /\ TakeXid(tx[t])
  /\ UNCHANGED <<dbVars, begun, feedVars>>

(* The outbox rows write_events stages: at most one per address, in the    *)
(* order of the request, stamped with the transaction's id.                *)
EventRows(x) ==
  UNION {{[txid |-> x.xid, id |-> i, event |-> e] :
            e \in BuildEvent(x.req.order[i],
                             x.snap[x.req.order[i]],
                             ChangeSet(x, x.req.order[i]))} :
           i \in DOMAIN x.req.order}

(* get_session commits: rows, hostnames, history and events become visible *)
(* at once.                                                                *)
Written(t) == Flushing(tx[t]) /\ ToCreate(tx[t]) = {}

CommitImport(t) ==
  /\ Written(t)
  /\ LET x == WithXid(tx[t])
     IN  /\ store' = [ip \in Ips |-> IF ip \in Addresses(x.req)
                                     THEN StoredFrom(ChangeSet(x, ip))
                                     ELSE store[ip]]
         /\ gen' = [ip \in Ips |-> IF ip \in x.created THEN gen[ip] + 1 ELSE gen[ip]]
         /\ observed' = observed \cup x.inserted
         /\ history' = history \cup x.logged
         /\ outbox' = outbox \cup EventRows(x)
  /\ TakeXid(tx[t])
  /\ tx' = [tx EXCEPT ![t] = NoTx]
  /\ UNCHANGED <<begun, feedVars>>

(* delete_ips: the rows it reached are gone; no event, and the history of  *)
(* the addresses stays.                                                    *)
CommitDelete(t) ==
  /\ tx[t].pc = "delete" /\ tx[t].rows = <<>>
  /\ store' = [ip \in Ips |-> IF ip \in tx[t].locked THEN Unknown ELSE store[ip]]
  /\ tx' = [tx EXCEPT ![t] = NoTx]
  /\ UNCHANGED <<gen, observed, history, outbox, nextXid, begun, feedVars>>

(* Slip: a connection goes back to the pool without being reset.           *)
Rollback_KeepsLocks(t) ==
  tx' = [tx EXCEPT ![t].pc = "idle"] /\ UNCHANGED <<dbVars, nextXid, begun, feedVars>>

(* Slip: events written outside the import's own transaction.              *)
Rollback_KeepsEvents(t) ==
  /\ outbox' = outbox \cup (IF tx[t].pc = "write" THEN EventRows(tx[t]) ELSE {})
  /\ tx' = [tx EXCEPT ![t] = NoTx]
  /\ UNCHANGED <<store, gen, observed, history, nextXid, begun, feedVars>>

(* Everything the transaction did is undone.                               *)
Rollback(t) == tx' = [tx EXCEPT ![t] = NoTx] /\ UNCHANGED <<dbVars, nextXid, begun, feedVars>>

(* The handler fails or the API process dies.                              *)
Abort(t) == tx[t].pc # "idle" /\ ~Blocked(t) /\ Rollback(t)

(* idle_in_transaction_session_timeout: the server ends a session that     *)
(* sits between two statements of an open transaction, which in the write  *)
(* phase it may do before each of them.                                    *)
BetweenStatements(t) ==
  \/ tx[t].pc \in {"load", "delete"} /\ tx[t].rows = <<>>
  \/ tx[t].pc = "write" /\ ~Blocked(t)

(* Slip: no idle_in_transaction_session_timeout.                           *)
IdleTimeout_Off(t) == FALSE

IdleTimeout(t) == BetweenStatements(t) /\ Rollback(t)

(* Slip: no deadlock detection.                                            *)
DeadlockVictim_Off(t) == FALSE

DeadlockVictim(t) == OnWaitCycle(t) /\ Rollback(t)

-----------------------------------------------------------------------------
(* read_events.                                                            *)

Before(e, f) == e.txid < f.txid \/ (e.txid = f.txid /\ e.id < f.id)

After(e, position) ==
  e.txid > position[1] \/ (e.txid = position[1] /\ e.id > position[2])

(* Slip: rows are readable as soon as they are committed.                  *)
Finished_Committed(txid) == TRUE

(* txid < pg_snapshot_xmin(pg_current_snapshot())                          *)
Finished(txid) == \A t \in Sessions : tx[t].xid # 0 => txid < tx[t].xid

Readable(position) == {e \in outbox : After(e, position) /\ Finished(e.txid)}

Page(position) ==
  {e \in Readable(position) :
     Cardinality({f \in Readable(position) : Before(f, e)}) < Limit}

(* The consumer reads a page, processes it (dropping what it has already   *)
(* seen), then saves next_cursor, the position of the page's last row --   *)
(* or dies before saving it.                                               *)
Position(e) == <<e.txid, e.id>>

Poll ==
  /\ \E last \in Page(cursor) :
       /\ \A e \in Page(cursor) : ~After(e, Position(last))
       /\ cursor' = Position(last)
  /\ delivered' = delivered \cup Page(cursor)
  /\ UNCHANGED <<dbVars, nextXid, begun, tx>>

PollUnsaved ==
  /\ Page(cursor) # {}
  /\ delivered' = delivered \cup Page(cursor)
  /\ UNCHANGED <<dbVars, nextXid, begun, tx, cursor>>

-----------------------------------------------------------------------------
ServerStep(t) ==
  \/ SkipRow(t) \/ LockRow(t)
  \/ InsertName(t) \/ InsertHistory(t) \/ InsertAddress(t)

ClientStep(t) ==
  \/ BeginImport(t) \/ BeginDelete(t) \/ Loaded(t)
  \/ CommitImport(t) \/ CommitDelete(t) \/ Abort(t)

Next ==
  \/ \E t \in Sessions : \/ ClientStep(t) \/ ServerStep(t)
                         \/ IdleTimeout(t) \/ DeadlockVictim(t)
  \/ Poll \/ PollUnsaved

Spec == Init /\ [][Next]_vars

(* The server completes a statement that is not blocked or, when none is   *)
(* sent, ends the transaction, and it breaks wait cycles; the consumer     *)
(* keeps polling.  Nothing is assumed of the clients: a handler may hang   *)
(* before any of its statements.                                           *)
Fairness ==
  /\ \A t \in Sessions : /\ WF_vars(ServerStep(t) \/ IdleTimeout(t))
                         /\ WF_vars(DeadlockVictim(t))
  /\ WF_vars(Poll)

FairSpec == Spec /\ Fairness

-----------------------------------------------------------------------------
(* Properties.                                                             *)

(* Types; a session without a transaction holds no id, lock or row.        *)
TypeOK ==
  /\ store \in [Ips -> StoredIP]
  /\ gen \in [Ips -> Nat]
  /\ observed \subseteq Hostnames
  /\ history \subseteq HistoryKeys
  /\ \A e \in outbox : e.txid \in Nat /\ e.id \in Nat
  /\ nextXid \in Nat \ {0}
  /\ begun \in 0..MaxTx
  /\ tx \in [Sessions -> Tx]
  /\ \A t \in Sessions : /\ tx[t].pc = "idle" => tx[t] = NoTx
                         /\ tx[t].pc \in {"load", "write"} => tx[t].req \in Imports
                         /\ tx[t].pc = "delete" => tx[t].req \in Deletes
  /\ cursor \in Nat \X Nat
  /\ delivered \subseteq outbox

(* "Rows written by a transaction that may still be running are held back  *)
(* ..., so a slow import's events are delayed, never skipped"              *)
(* (events/service.py): an event the cursor has passed was processed.      *)
NoEventSkipped ==
  \A e \in outbox : ~After(e, cursor) => e \in delivered

(* Its inductive strengthening: the cursor is behind every open            *)
(* transaction that has an id and every id still to be handed out.         *)
FeedInv ==
  /\ IsFiniteSet(outbox)
  /\ \A t \in Sessions : /\ tx[t].xid < nextXid
                         /\ tx[t].xid # 0 => cursor[1] < tx[t].xid
  /\ \A e \in outbox : e.txid < nextXid
  /\ cursor[1] < nextXid
  /\ NoEventSkipped

(* A consumer that replays the feed of one address in feed order rebuilds  *)
(* what is stored: each event starts from what the previous one left, and  *)
(* the last one has the stored hostnames, ports and services.  A change of *)
(* the other details alone writes no event, so those of the last event may *)
(* be older than the stored ones.  Stated for addresses never deleted (a   *)
(* delete writes no event).                                                *)
EventsOf(ip) == {e \in outbox : e.event.ip = ip}

Tracked(s) ==
  [hostnames |-> s.hostnames, services |-> [k \in DOMAIN s.ports |-> s.ports[k].service]]

FeedReplaysInventory ==
  \A ip \in Ips :
    /\ \A e \in EventsOf(ip) :
         LET earlier == {f \in EventsOf(ip) : Before(f, e)}
         IN  \/ earlier = {} /\ e.event.old = Refs(Unknown)
             \/ \E f \in earlier :
                  /\ \A g \in earlier : g = f \/ Before(g, f)
                  /\ e.event.old = Refs(f.event.current)
    /\ EventsOf(ip) # {} =>
         \E e \in EventsOf(ip) :
           /\ \A f \in EventsOf(ip) : f = e \/ Before(f, e)
           /\ Tracked(e.event.current) = Tracked(store[ip])

(* Imports of one address each, with at most one hostname, and no deletes  *)
(* deadlock only over history rows: each in the circle waits for a row     *)
(* that one for the same address has inserted, and of two such imports at  *)
(* least one holds no row lock, having found the address not stored.       *)
DeadlocksAreOverHistory ==
  \A S \in SUBSET Sessions : Circle(S) =>
    \A t, u \in S : WaitsFor(t, u) =>
      /\ WaitsForHistory(t, u)
      /\ Addresses(tx[t].req) = Addresses(tx[u].req)
      /\ tx[t].locked = {} \/ tx[u].locked = {}

(* Every committed event reaches the consumer, whatever the clients of the *)
(* other transactions do.                                                  *)
EveryEventDelivered ==
  \A txid \in 1..(2 * MaxTx) :
    (\E e \in outbox : e.txid = txid)
      ~> (\A e \in outbox : e.txid = txid => e \in delivered)

(* Every transaction ends.                                                 *)
EveryTransactionEnds ==
  \A t \in Sessions : tx[t].pc # "idle" ~> tx[t].pc = "idle"

-----------------------------------------------------------------------------
(* Each commit is one atomic change of the inventory together with its     *)
(* events: the concurrent imports implement InventoryLog.                  *)
Atomic == INSTANCE InventoryLog WITH
            stored <- store, log <- {e.event : e \in outbox}

ImplementsAtomicImports == Atomic!Spec
=============================================================================

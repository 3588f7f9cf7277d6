------------------------------- MODULE Search -------------------------------
(***************************************************************************)
(* Reading the inventory of a project while requests change it: a client   *)
(* that pages through POST /ips/search or GET /ips, and tasker asking in   *)
(* chunks which addresses are known.  A request is several statements at   *)
(* READ COMMITTED, each of which sees the writes committed before it.      *)
(*                                                                         *)
(* Data representation: as in Inventory.  A filter or a port clause is a   *)
(* record of the fields that are set.  A substring pattern is the set of   *)
(* texts that contain it, a network the set of its addresses.  A column is *)
(* the set of its value, empty for NULL; service, product, version and     *)
(* tunnel are the one "service" of Reconcile, status and os the one "meta".*)
(***************************************************************************)
EXTENDS Inventory

CONSTANTS
  InetRank,   \* [Ips -> Nat]: the order of addresses
  TextRank,   \* [Ips -> Nat]: the order of their texts
  Queries,    \* [kind, filter, matched_ports_only, limit]: what clients ask
  ChunkSize   \* _SEARCH_CHUNK_SIZE

ASSUME SearchAssumption ==
  /\ {InetRank, TextRank} \subseteq [Ips -> Nat]
  /\ IsInjective(InetRank) /\ IsInjective(TextRank)
  /\ ChunkSize \in Nat \ {0} /\ \A q \in Queries : q.limit \in Nat \ {0}

(* A port group that is not given is empty.  tasker asks for candidates    *)
(* only if there are some, and for nothing else.                           *)
ASSUME QueriesAssumption ==
  \A q \in Queries :
    /\ q.kind \in {"search", "list", "known"}
    /\ "ports" \in DOMAIN q.filter =>
         LET groups == q.filter.ports
         IN  groups = [all_of |-> groups.all_of, any_of |-> groups.any_of, none_of |-> groups.none_of]
    /\ q.kind = "known" =>
         /\ q.filter = [ip_in |-> q.filter.ip_in] /\ ~q.matched_ports_only
         /\ q.filter.ip_in # {} /\ q.filter.ip_in \subseteq Ips

VARIABLES
  id,      \* row id of each stored address
  reader   \* the client: its query, its position, and what it has been told

allVars == <<vars, id, reader>>

-----------------------------------------------------------------------------
(* _clause_conditions.  An empty list is no condition.                     *)

ListFields == {"number_in", "number_not_in", "service_in", "product_in", "product_not_in"}

Conditions(clause) == {f \in DOMAIN clause : f \in ListFields => clause[f] # {}}

Text(value) == IF value = "" THEN {} ELSE {value}

Column(field, key, port) ==
  IF field \in {"number", "number_in", "number_not_in"} THEN {key[1]}
  ELSE IF field = "protocol" THEN {key[2]} ELSE Text(port.service)

Excludes == {"number_not_in", "product_not_in", "product_not_ilike"}

(* Slip: comparing NULL with the excluded values does not hold.            *)
Meets_NotNull(field, column, wanted) ==
  IF field = "service_is_null" THEN (column = {}) = wanted
  ELSE column # {} /\ (field \in Excludes <=> column \cap wanted = {})

Meets(field, column, wanted) ==
  IF field = "service_is_null" THEN (column = {}) = wanted
  ELSE field \in Excludes <=> column \cap wanted = {}

MeetsClause(key, port, clause) ==
  \A f \in Conditions(clause) : Meets(f, Column(f, key, port), clause[f])

PortExists(s, clause) == \E k \in DOMAIN s.ports : MeetsClause(k, s.ports[k], clause)

-----------------------------------------------------------------------------
(* build_search_conditions, of one stored address.                         *)

Set(f, field) == field \in DOMAIN f

MeetsHost(ip, f) ==
  LET s == stored[ip]
  IN  /\ Set(f, "cidr") => ip \in f.cidr
      /\ Set(f, "ip_in") /\ f.ip_in # {} => ip \in f.ip_in
      /\ Set(f, "os_ilike") => Text(s.meta) \cap f.os_ilike # {}
      /\ Set(f, "first_seen_gte") => seen[ip].first >= f.first_seen_gte
      /\ Set(f, "first_seen_lt") => seen[ip].first < f.first_seen_lt
      /\ Set(f, "last_seen_gte") => seen[ip].last >= f.last_seen_gte
      /\ Set(f, "last_seen_lt") => seen[ip].last < f.last_seen_lt
      /\ Set(f, "has_hostname") => (s.hostnames # {}) = f.has_hostname
      /\ Set(f, "hostname_ilike_any") /\ f.hostname_ilike_any # {} =>
           s.hostnames \cap UNION f.hostname_ilike_any # {}

MeetsPorts(ip, f) ==
  Set(f, "ports") =>
    /\ \A c \in f.ports.all_of : PortExists(stored[ip], c)
    /\ \A c \in f.ports.none_of : ~PortExists(stored[ip], c)
    /\ f.ports.any_of # {} => \E c \in f.ports.any_of : PortExists(stored[ip], c)

Matching(f) == {ip \in Ips : stored[ip].known /\ MeetsHost(ip, f) /\ MeetsPorts(ip, f)}

(* matched_port_filter: the clauses one of which a returned port meets, or *)
(* none for all ports.                                                     *)
MatchedPortFilter(f) ==
  IF Set(f, "ports") THEN {c \in f.ports.all_of \cup f.ports.any_of : Conditions(c) # {}} ELSE {}

(* Slip: a returned port has to meet all the clauses.                      *)
Returned_All(key, port, clauses) == \A c \in clauses : MeetsClause(key, port, c)

Returned(key, port, clauses) == clauses = {} \/ \E c \in clauses : MeetsClause(key, port, c)

-----------------------------------------------------------------------------
(* get_facets: for each value of a column, NULL included, how many of the  *)
(* matching hosts have it; at most `limit' values, the most frequent ones  *)
(* (the order of equally frequent ones is not modelled).                   *)

FacetNames == {"port", "protocol", "service", "os"}

FacetColumn(ip, name, key) ==
  CASE name = "port" -> {key[1]}
    [] name = "protocol" -> {key[2]}
    [] name = "service" -> Text(stored[ip].ports[key].service)

ValuesOf(ip, name) ==
  IF name = "os" THEN {Text(stored[ip].meta)}
  ELSE {FacetColumn(ip, name, k) : k \in DOMAIN stored[ip].ports}

(* Slip: count() counts rows, not hosts.                                   *)
HostCount_Rows(f, name, value) ==
  LET hosts == {ip \in Matching(f) : value \in ValuesOf(ip, name)}
  IN  IF name = "os" THEN Cardinality(hosts)
      ELSE Cardinality({row \in hosts \X UNION {DOMAIN stored[ip].ports : ip \in hosts} :
                          /\ row[2] \in DOMAIN stored[row[1]].ports
                          /\ FacetColumn(row[1], name, row[2]) = value})

HostCount(f, name, value) == Cardinality({ip \in Matching(f) : value \in ValuesOf(ip, name)})

Buckets(f, name) == UNION {ValuesOf(ip, name) : ip \in Matching(f)}

Facets(f, name, limit) ==
  {[value \in kept |-> HostCount(f, name, value)] :
     kept \in {v \in SUBSET Buckets(f, name) :
                 /\ Cardinality(v) = Min({limit, Cardinality(Buckets(f, name))})
                 /\ \A x \in v, y \in Buckets(f, name) \ v :
                      HostCount(f, name, x) >= HostCount(f, name, y)}}

-----------------------------------------------------------------------------
(* The clients.  `search' pages through a search, `list' through list_ips, *)
(* `known' is ScanledgerClient.search_ips: ip_in in chunks, with the       *)
(* length of a chunk as limit.  Both paging clients go on until a page is  *)
(* shorter than the limit.                                                 *)

Rank(kind) == IF kind = "list" THEN TextRank ELSE InetRank

(* The candidates from the skip-th on, as many as a request may have.      *)
Place(candidates, ip) == Cardinality({x \in candidates : InetRank[x] < InetRank[ip]})

Chunk(q, skip) ==
  {ip \in q.filter.ip_in : Place(q.filter.ip_in, ip) \in skip..(skip + ChunkSize - 1)}

Filter(r) ==
  IF r.query.kind = "known" THEN [ip_in |-> Chunk(r.query, r.skip)] ELSE r.query.filter

(* Slip: a chunk is asked for without a limit of its own.                  *)
Limit_Unset(r) == r.query.limit

Limit(r) == IF r.query.kind = "known" THEN Cardinality(Chunk(r.query, r.skip)) ELSE r.query.limit

Offset(r) == IF r.query.kind = "known" THEN 0 ELSE r.skip

NoQuery == [kind |-> "none", filter |-> <<>>, matched_ports_only |-> FALSE, limit |-> 1]

(* Ghosts: `always' and `ever' are the addresses that matched at all times *)
(* and at some time since the query began, `left' and `joined' those that  *)
(* stopped and began to; `quiet' is no write since the page was counted.   *)
NoReader == [pc |-> "idle", query |-> NoQuery, skip |-> 0, total |-> 0, rows |-> {},
             items |-> {}, told |-> {}, twice |-> {},
             always |-> {}, ever |-> {}, left |-> {}, joined |-> {}, quiet |-> TRUE]

Ask(q) ==
  /\ reader.pc = "idle"
  /\ LET now == Matching(q.filter)
     IN  reader' = [NoReader EXCEPT !.pc = IF q.kind = "list" THEN "page" ELSE "count",
                                    !.query = q, !.always = now, !.ever = now]
  /\ UNCHANGED <<vars, id>>

Count ==
  /\ reader.pc = "count"
  /\ reader' = [reader EXCEPT !.pc = "page", !.quiet = TRUE,
                              !.total = Cardinality(Matching(Filter(reader)))]
  /\ UNCHANGED <<vars, id>>

(* Slip: pages are cut in the order of row ids.                            *)
Before_Id(kind, x, y) == id[x] < id[y] \/ (id[x] = id[y] /\ Rank(kind)[x] > Rank(kind)[y])

Before(kind, x, y) == Rank(kind)[x] < Rank(kind)[y]

(* OFFSET and LIMIT, by how many of all come before a row.                 *)
Earlier(kind, all, ip) == Cardinality({x \in all : Before(kind, x, ip)})

(* Slip: the last row of a page is the first of the next one.              *)
Slice_Inclusive(kind, all, offset, limit) ==
  {ip \in all : Earlier(kind, all, ip) \in offset..(offset + limit)}

Slice(kind, all, offset, limit) ==
  {ip \in all : Earlier(kind, all, ip) \in offset..(offset + limit - 1)}

Page ==
  /\ reader.pc = "page"
  /\ LET page == Slice(reader.query.kind, Matching(Filter(reader)), Offset(reader), Limit(reader))
     IN  reader' = [reader EXCEPT !.pc = "ports", !.rows = {<<ip, id[ip]>> : ip \in page}]
  /\ UNCHANGED <<vars, id>>

(* _load_ports, by row id: a row deleted since then has none.              *)
Item(row) ==
  LET s == stored[row[1]]
      clauses == IF reader.query.matched_ports_only
                 THEN MatchedPortFilter(reader.query.filter) ELSE {}
  IN  [ip |-> row[1],
       ports |-> IF id[row[1]] # row[2] THEN <<>>
                 ELSE [k \in {key \in DOMAIN s.ports : Returned(key, s.ports[key], clauses)} |->
                         s.ports[k]]]

LastPage(r) ==
  IF r.query.kind = "known" THEN r.skip + ChunkSize >= Cardinality(r.query.filter.ip_in)
                            ELSE Cardinality(r.rows) < r.query.limit

Step(r) == IF r.query.kind = "known" THEN ChunkSize ELSE r.query.limit

Ports ==
  /\ reader.pc = "ports"
  /\ LET page == {row[1] : row \in reader.rows}
     IN  reader' = [reader EXCEPT
                      !.pc = IF LastPage(reader) THEN "done" ELSE "next",
                      !.items = {Item(row) : row \in reader.rows},
                      !.told = @ \cup page, !.twice = @ \cup (reader.told \cap page)]
  /\ UNCHANGED <<vars, id>>

(* The client asks for the next page.                                      *)
Continue ==
  /\ reader.pc = "next"
  /\ reader' = [reader EXCEPT !.pc = IF reader.query.kind = "list" THEN "page" ELSE "count",
                              !.skip = @ + Step(reader), !.rows = {}, !.items = {}]
  /\ UNCHANGED <<vars, id>>

-----------------------------------------------------------------------------
(* A request of Inventory's that changes what is read; a row created gets  *)
(* a new id.                                                               *)
Watched(now) ==
  IF reader.pc \in {"idle", "done"} THEN reader
  ELSE LET before == Matching(reader.query.filter)
       IN  [reader EXCEPT !.always = @ \cap now, !.ever = @ \cup now, !.quiet = FALSE,
                          !.left = @ \cup (before \ now), !.joined = @ \cup (now \ before)]

Write ==
  /\ ImportScan \/ CreateIps \/ DeleteIps
  /\ id' = [ip \in Ips |-> IF ~stored'[ip].known THEN None
                           ELSE IF stored[ip].known THEN id[ip] ELSE requests']
  /\ \E f \in {reader.query.filter} : reader' = Watched(Matching(f)')

SearchInit == Init /\ id = [ip \in Ips |-> None] /\ reader = NoReader

SearchNext == Write \/ (\E q \in Queries : Ask(q)) \/ Count \/ Page \/ Ports \/ Continue

SearchSpec == SearchInit /\ [][SearchNext]_allVars

-----------------------------------------------------------------------------
(* Properties.                                                             *)

(* No client misses a host that matches throughout, unless a host that is  *)
(* ordered before it stops matching meanwhile and moves it to a page that  *)
(* has been read.  tasker's known check does not page and misses none: an  *)
(* INSERT scan learns of each candidate scanledger had all the time,       *)
(* however many chunks it takes.                                           *)
Paging == reader.query.kind \in {"search", "list"}

NothingIsMissed ==
  reader.pc = "done" =>
    \A ip \in reader.always \ reader.told :
      Paging /\ \E l \in reader.left : Rank(reader.query.kind)[l] < Rank(reader.query.kind)[ip]

(* No client is told of a host twice, unless one that is ordered before it *)
(* begins to match meanwhile, nor of one that matched at no time: what an  *)
(* INSERT scan takes for known was known while it asked.                   *)
NothingIsRepeated ==
  /\ \A ip \in reader.twice :
       Paging /\ \E j \in reader.joined : Rank(reader.query.kind)[j] < Rank(reader.query.kind)[ip]
  /\ reader.told \subseteq reader.ever

(* With matched_ports_only the ports of a host are the reason it is there: *)
(* unless something was written meanwhile, each all_of clause that sets a  *)
(* condition is met by a port of the answer, so is one of the any_of       *)
(* clauses, and no host comes without ports if a port was asked for and    *)
(* each any_of clause sets a condition.                                    *)
Witnessed(item, clause) ==
  Conditions(clause) # {} =>
    \E k \in DOMAIN item.ports : MeetsClause(k, item.ports[k], clause)

AnswerShowsItsReason ==
  LET q == reader.query
  IN  reader.pc \in {"next", "done"} /\ reader.quiet /\ q.matched_ports_only /\ Set(q.filter, "ports") =>
        \A item \in reader.items :
          /\ \A c \in q.filter.ports.all_of : Witnessed(item, c)
          /\ q.filter.ports.any_of # {} => \E c \in q.filter.ports.any_of : Witnessed(item, c)
          /\ q.filter.ports.all_of \cup q.filter.ports.any_of # {}
             /\ (\A c \in q.filter.ports.any_of : Conditions(c) # {}) => DOMAIN item.ports # {}

(* A facet counts what a search would find: the bucket of a service, the   *)
(* unidentified ones included, has as many hosts as the filter with one    *)
(* more clause for that service matches, and all but these match the one   *)
(* that forbids such a port; every matching host is in one bucket of os,   *)
(* and a capped facet keeps the largest ones.  Likewise for the ports of a *)
(* host: "an exclude never drops an unidentified value"                    *)
(* (_clause_conditions), it is the complement of asking for the value.     *)
With(f, group, clause) ==
  LET groups == IF Set(f, "ports") THEN f.ports ELSE [all_of |-> {}, any_of |-> {}, none_of |-> {}]
  IN  [x \in DOMAIN f \cup {"ports"} |->
         IF x = "ports" THEN [groups EXCEPT ![group] = @ \cup {clause}] ELSE f[x]]

ClauseOf(value) == IF value = {} THEN [service_is_null |-> TRUE] ELSE [service_in |-> value]

ServicesOf(ip) == {Text(stored[ip].ports[k].service) : k \in DOMAIN stored[ip].ports}

FacetsAgreeWithSearch ==
  \A q \in Queries :
    /\ \A facet \in Facets(q.filter, "service", q.limit) : \A value \in DOMAIN facet :
         LET having == Matching(With(q.filter, "all_of", ClauseOf(value)))
         IN  /\ facet[value] = Cardinality(having)
             /\ Matching(q.filter) \ having
                  = Matching(With(q.filter, "none_of", ClauseOf(value)))
             /\ value # {} =>
                  Matching(With(q.filter, "all_of", [product_not_in |-> value]))
                    = {ip \in Matching(q.filter) : ServicesOf(ip) \ {value} # {}}
    /\ \A facet \in Facets(q.filter, "os", Cardinality(Ips)) :
         MapThenSumSet(LAMBDA value : facet[value], DOMAIN facet)
           = Cardinality(Matching(q.filter))
=============================================================================

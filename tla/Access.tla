-------------------------------- MODULE Access --------------------------------
(***************************************************************************)
(* Who may do what: scanledger's users, tokens, projects and memberships,  *)
(* the accounts it seeds at every start, and the access checks of tasker,  *)
(* which asks scanledger and remembers the answer for a while.             *)
(*                                                                         *)
(* Each operation of scanledger's API is one short transaction and one     *)
(* step here; an access check is one statement per step, since the rows    *)
(* it reads may change between its statements.  The routes that list or    *)
(* rename things are left out.                                             *)
(***************************************************************************)
EXTENDS Integers, Sequences, FiniteSets, SequencesExt

CONSTANTS
  Names,        \* usernames
  Accounts,     \* the seeded usernames, in the order of ensure_primary_users
  Configs,      \* environments: [a subset of the accounts -> Tokens]
  Generated,    \* the tokens generate_token will return, in that order
  Lifetimes,    \* token lifetimes requests may ask for
  MaxUsers,     \* bound: rows of users ever inserted
  MaxProjects,  \* bound: rows of projects ever inserted
  MaxOps,       \* bound: operations, starts and stops
  MaxTime,      \* bound: the clock
  TTL,          \* _CACHE_TTL_SECONDS
  Clients,      \* requests tasker handles at once
  Keys          \* <<token, project>> of the requests they may be

None == 0       \* no expiry; no project; no user

Users == 1..MaxUsers
Projects == 1..MaxProjects
Tokens == ToSet(Generated) \cup UNION {{c[name] : name \in DOMAIN c} : c \in Configs}

ASSUME AccessAssumption ==
  /\ TTL \in Nat \ {0} /\ Lifetimes \subseteq Nat /\ MaxTime \in Nat
  /\ MaxUsers \in Nat /\ MaxProjects \in Nat
  /\ Len(Accounts) \in Nat /\ DOMAIN Accounts = 1..Len(Accounts)
  /\ \A config \in Configs : DOMAIN config \subseteq ToSet(Accounts)
  /\ ToSet(Accounts) \subseteq Names
  /\ Keys \subseteq Tokens \X (Projects \cup {None})

(* generate_token draws 60 random characters: no token comes up twice, and *)
(* none that the environment configures.                                   *)
ASSUME TokensAssumption ==
  /\ Len(Generated) \in Nat /\ DOMAIN Generated = 1..Len(Generated)
  /\ \A i, j \in DOMAIN Generated : Generated[i] = Generated[j] => i = j
  /\ \A i \in DOMAIN Generated, config \in Configs :
       \A name \in DOMAIN config : Generated[i] # config[name]

VARIABLES
  up,        \* scanledger serves requests
  config,    \* the environment of its last start
  users,     \* users, by id
  projects,  \* ids of the projects there are
  newest,    \* id of the newest project
  members,   \* project_member_link
  issued,    \* tokens generated so far
  ops,       \* operations so far
  now,       \* the clock
  cache,     \* tasker's _cache
  request,   \* the requests tasker handles
  seen       \* ghost: when each fact about access was last true

db == <<users, projects, newest, members, issued>>
vars == <<up, config, db, ops, now, cache, request, seen>>

-----------------------------------------------------------------------------
NoUser == [state |-> "none", name |-> "", admin |-> FALSE, token |-> "", expires |-> None]

User(name, admin, token, expires) ==
  [state |-> "live", name |-> name, admin |-> admin, token |-> token, expires |-> expires]

Live(u) == users[u].state = "live"
NextUser == Cardinality({u \in Users : users[u].state # "none"}) + 1

Expired(expires) == expires # None /\ now >= expires

(* authenticate_token.                                                     *)
Owns(u, token) == Live(u) /\ users[u].token = token /\ ~Expired(users[u].expires)

(* validate_project_access: an admin may reach any project.                *)
MayReach(u, p) == p \in projects /\ (users[u].admin \/ <<p, u>> \in members)

Allowed(token, p) == \E u \in Users : Owns(u, token) /\ (p = None \/ MayReach(u, p))

(* Ghost: the last moment each was true.  Every step takes note.           *)
Owned(token) == \E u \in Users : Owns(u, token)

Remember ==
  seen' = [owned   |-> [k \in Keys |-> IF Owned(k[1])' THEN now' ELSE seen.owned[k]],
           reached |-> [r \in Users \X Projects |->
                          IF MayReach(r[1], r[2])' THEN now' ELSE seen.reached[r]],
           denied  |-> [k \in Keys |->
                          IF ~Allowed(k[1], k[2])' THEN now' ELSE seen.denied[k]]]

NoEntry == [result |-> "none", expires |-> 0, user |-> None]
NoCheck == [pc |-> "idle", token |-> "", project |-> None, since |-> 0, user |-> None,
            result |-> "none", at |-> 0]

-----------------------------------------------------------------------------
(* scanledger's start: ensure_primary_users, in one transaction.           *)

TakenBy(us, token, name) ==
  \E u \in Users : us[u].state = "live" /\ us[u].token = token /\ us[u].name # name

Row(us, name) ==
  LET old == {u \in Users : us[u].state = "live" /\ us[u].name = name}
  IN  IF old # {} THEN CHOOSE u \in old : TRUE
      ELSE Cardinality({u \in Users : us[u].state # "none"}) + 1

(* Slip: the conflict clause leaves token_expires_at alone.                *)
Synced_KeepsExpiry(old, name, token) ==
  User(name, TRUE, token, IF old.state = "live" THEN old.expires ELSE None)

(* The row of an account after _upsert_primary_user.                       *)
Synced(old, name, token) == User(name, TRUE, token, None)

(* INSERT ... ON CONFLICT (username) DO UPDATE.  Another row that has the  *)
(* token violates its unique key, and nothing is left of the transaction.  *)
Failed == <<>>

Upsert(us, name, token) ==
  IF us = Failed \/ TakenBy(us, token, name) THEN Failed
  ELSE [us EXCEPT ![Row(us, name)] = Synced(@, name, token)]

Seeded(us, env) ==
  IF Cardinality({env[name] : name \in DOMAIN env}) # Cardinality(DOMAIN env) THEN Failed
  ELSE FoldLeft(LAMBDA rows, name : IF name \in DOMAIN env THEN Upsert(rows, name, env[name]) ELSE rows,
                us, Accounts)

(* After the first start: nobody but the seeded accounts.                  *)
Init ==
  /\ up = TRUE /\ config \in Configs
  /\ users = Seeded([u \in Users |-> NoUser], config) /\ users # Failed
  /\ projects = {} /\ newest = 0 /\ members = {}
  /\ issued = 0 /\ ops = 0 /\ now = 0
  /\ cache = [k \in Keys |-> NoEntry]
  /\ request = [c \in Clients |-> NoCheck]
  /\ seen = [owned |-> [k \in Keys |-> IF Owned(k[1]) THEN now ELSE -TTL],
             reached |-> [r \in Users \X Projects |-> -TTL],
             denied |-> [k \in Keys |-> IF ~Allowed(k[1], k[2]) THEN now ELSE -TTL]]

Operation == ops < MaxOps /\ ops' = ops + 1

Start(env) ==
  /\ ~up /\ Operation
  /\ NextUser + Cardinality({name \in DOMAIN env : \A u \in Users : Live(u) => users[u].name # name})
       <= MaxUsers + 1
  /\ config' = env
  /\ LET seeded == Seeded(users, env)
     IN  /\ up' = (seeded # Failed)
         /\ users' = IF seeded # Failed THEN seeded ELSE users
  /\ UNCHANGED <<projects, newest, members, issued, now, cache, request>>

(* It stops; the checks it was answering fail.                             *)
Stop ==
  /\ up /\ Operation /\ up' = FALSE
  /\ request' = [c \in Clients |->
                   IF request[c].pc \in {"user", "project", "member"}
                   THEN [request[c] EXCEPT !.pc = "back", !.result = "unreachable"]
                   ELSE request[c]]
  /\ UNCHANGED <<config, db, now, cache>>

-----------------------------------------------------------------------------
(* scanledger's API, called by somebody who may.                           *)

Call == up /\ Operation
Valid(u) == Live(u) /\ ~Expired(users[u].expires)
SomeAdmin == \E u \in Users : Valid(u) /\ users[u].admin

Lifetime(seconds) == IF seconds = None THEN None ELSE now + seconds

CreateUser(name, admin, seconds) ==
  /\ Call /\ SomeAdmin /\ NextUser <= MaxUsers /\ issued < Len(Generated)
  /\ \A u \in Users : Live(u) => users[u].name # name
  /\ users' = [users EXCEPT ![NextUser] =
                 User(name, admin, Generated[issued + 1], Lifetime(seconds))]
  /\ issued' = issued + 1
  /\ UNCHANGED <<up, config, projects, newest, members, now, cache, request>>

(* Slip: memberships do not cascade.                                       *)
DeleteUser_NoCascade(u) ==
  /\ Call /\ SomeAdmin /\ Live(u)
  /\ users' = [users EXCEPT ![u].state = "deleted"]
  /\ UNCHANGED <<up, config, projects, newest, members, issued, now, cache, request>>

DeleteUser(u) ==
  /\ Call /\ SomeAdmin /\ Live(u)
  /\ users' = [users EXCEPT ![u].state = "deleted"]
  /\ members' = {m \in members : m[2] # u}
  /\ UNCHANGED <<up, config, projects, newest, issued, now, cache, request>>

RotateToken(u, seconds) ==
  /\ Call /\ SomeAdmin /\ Live(u) /\ issued < Len(Generated)
  /\ users' = [users EXCEPT ![u].token = Generated[issued + 1], ![u].expires = Lifetime(seconds)]
  /\ issued' = issued + 1
  /\ UNCHANGED <<up, config, projects, newest, members, now, cache, request>>

CreateProject(owner) ==
  /\ Call /\ Valid(owner) /\ newest < MaxProjects
  /\ newest' = newest + 1
  /\ projects' = projects \cup {newest + 1}
  /\ members' = members \cup {<<newest + 1, owner>>}
  /\ UNCHANGED <<up, config, users, issued, now, cache, request>>

CallerOf(p) == \E u \in Users : Valid(u) /\ MayReach(u, p)

DeleteProject(p) ==
  /\ Call /\ CallerOf(p)
  /\ projects' = projects \ {p}
  /\ members' = {m \in members : m[1] # p}
  /\ UNCHANGED <<up, config, users, newest, issued, now, cache, request>>

AddMember(p, u) ==
  /\ Call /\ CallerOf(p) /\ Live(u)
  /\ members' = members \cup {<<p, u>>}
  /\ UNCHANGED <<up, config, users, projects, newest, issued, now, cache, request>>

RemoveMember(p, u) ==
  /\ Call /\ CallerOf(p) /\ <<p, u>> \in members
  /\ members' = members \ {<<p, u>>}
  /\ UNCHANGED <<up, config, users, projects, newest, issued, now, cache, request>>

-----------------------------------------------------------------------------
(* A request to tasker: _check_access, from the cache or from scanledger.  *)

Key(c) == <<request[c].token, request[c].project>>

Answer(c, result, user) ==
  [request[c] EXCEPT !.pc = "answered", !.result = result, !.user = user, !.at = now]

Ask(c, token, p) ==
  /\ request[c].pc \in {"idle", "answered"}
  /\ LET entry == cache[<<token, p>>]
         asked == [NoCheck EXCEPT !.token = token, !.project = p, !.since = now]
     IN  request' = [request EXCEPT ![c] =
           IF entry.expires > now
           THEN [asked EXCEPT !.pc = "answered", !.result = entry.result,
                              !.user = entry.user, !.at = now]
           ELSE [asked EXCEPT !.pc = "user"]]
  /\ UNCHANGED <<up, config, db, ops, now, cache>>

(* scanledger's answer to check_access: GET /projects, which any user may, *)
(* or GET /projects/{id}; one statement each for the user, the project and *)
(* the membership.                                                         *)
Back(c, result) == [request[c] EXCEPT !.pc = "back", !.result = result]

ReadUser(c) ==
  /\ up /\ request[c].pc = "user"
  /\ LET owner == {u \in Users : Owns(u, request[c].token)}
     IN  request' = [request EXCEPT ![c] =
           IF owner = {} THEN Back(c, "unauthorized")
           ELSE LET u == CHOOSE u \in owner : TRUE
                IN  IF request[c].project = None
                    THEN [Back(c, "ok") EXCEPT !.user = u]
                    ELSE [request[c] EXCEPT !.pc = "project", !.user = u]]
  /\ UNCHANGED <<up, config, db, ops, now, cache>>

ReadProject(c) ==
  /\ up /\ request[c].pc = "project"
  /\ request' = [request EXCEPT ![c] =
       IF request[c].project \notin projects THEN Back(c, "not_found")
       ELSE IF users[request[c].user].admin THEN Back(c, "ok")
       ELSE [request[c] EXCEPT !.pc = "member"]]
  /\ UNCHANGED <<up, config, db, ops, now, cache>>

ReadMember(c) ==
  /\ up /\ request[c].pc = "member"
  /\ request' = [request EXCEPT ![c] =
       Back(c, IF <<request[c].project, request[c].user>> \in members THEN "ok" ELSE "forbidden")]
  /\ UNCHANGED <<up, config, db, ops, now, cache>>

(* Slip: the lifetime of an entry counts from when the answer is back.     *)
ExpiresAt_FromAnswer(c) == now + TTL

(* `now' is read before scanledger is asked.                               *)
ExpiresAt(c) == request[c].since + TTL

Return(c) ==
  /\ request[c].pc = "back"
  /\ request' = [request EXCEPT ![c] = Answer(c, request[c].result, request[c].user)]
  /\ cache' = IF request[c].result = "unreachable" THEN cache
              ELSE [cache EXCEPT ![Key(c)] = [result |-> request[c].result,
                                              expires |-> ExpiresAt(c), user |-> request[c].user]]
  /\ UNCHANGED <<up, config, db, ops, now>>

(* No answer, from scanledger that is down or does not answer.             *)
Unreachable(c) ==
  /\ request[c].pc \in {"user", "project", "member", "back"}
  /\ request' = [request EXCEPT ![c] = Answer(c, "unreachable", None)]
  /\ UNCHANGED <<up, config, db, ops, now, cache>>

(* tasker restarts.                                                        *)
Restart ==
  /\ Operation
  /\ cache' = [k \in Keys |-> NoEntry] /\ request' = [c \in Clients |-> NoCheck]
  /\ UNCHANGED <<up, config, db, now>>

(* Time passes.  An entry that has expired is as good as none, and the     *)
(* answers given so far are past.                                          *)
Tick ==
  /\ now < MaxTime /\ now' = now + 1
  /\ cache' = [k \in Keys |-> IF cache[k].expires > now' THEN cache[k] ELSE NoEntry]
  /\ request' = [c \in Clients |-> IF request[c].pc = "answered" THEN NoCheck ELSE request[c]]
  /\ UNCHANGED <<up, config, db, ops>>

-----------------------------------------------------------------------------
Admin ==
  \/ \E env \in Configs : Start(env)
  \/ Stop
  \/ \E name \in Names, admin \in BOOLEAN, s \in Lifetimes : CreateUser(name, admin, s)
  \/ \E u \in Users : DeleteUser(u) \/ (\E s \in Lifetimes : RotateToken(u, s)) \/ CreateProject(u)
  \/ \E p \in Projects : \/ DeleteProject(p)
                         \/ \E u \in Users : AddMember(p, u) \/ RemoveMember(p, u)

Check(c) ==
  \/ \E k \in Keys : Ask(c, k[1], k[2])
  \/ ReadUser(c) \/ ReadProject(c) \/ ReadMember(c) \/ Return(c) \/ Unreachable(c)

Next == (Admin \/ (\E c \in Clients : Check(c)) \/ Restart \/ Tick) /\ Remember

Spec == Init /\ [][Next]_vars

-----------------------------------------------------------------------------
(* Properties.                                                             *)

(* Types, and what the schema promises: no two users share a name or a     *)
(* token, and memberships are of users and projects there are.             *)
TypeOK ==
  /\ up \in BOOLEAN /\ projects \subseteq Projects
  /\ \A u, v \in Users : Live(u) /\ Live(v) /\ u # v =>
       users[u].name # users[v].name /\ users[u].token # users[v].token
  /\ members \subseteq projects \X {u \in Users : Live(u)}
  /\ \A k \in Keys : cache[k].result \in {"none", "ok", "unauthorized", "forbidden", "not_found"}

(* tasker's answers are recent, whatever changed since and however slowly  *)
(* scanledger answered: what an answer says was true less than TTL before  *)
(* it was given, or since the request arrived.  A grant says two things,   *)
(* that the token was its user's and that the user could reach the         *)
(* project, each true at its own moment; a refusal says that the request   *)
(* was not allowed.                                                        *)
Since(r) == IF r.since < r.at - TTL + 1 THEN r.since ELSE r.at - TTL + 1

AnswersAreRecent ==
  \A c \in Clients :
    LET r == request[c]
    IN  r.pc = "answered" =>
          CASE r.result = "ok" ->
                 /\ seen.owned[<<r.token, r.project>>] >= Since(r)
                 /\ r.project # None => seen.reached[<<r.user, r.project>>] >= Since(r)
            [] r.result \in {"unauthorized", "forbidden", "not_found"} ->
                 seen.denied[<<r.token, r.project>>] >= Since(r)
            [] OTHER -> TRUE

(* auth/service.py, ensure_primary_users: whatever the API did to the      *)
(* accounts before, after a start each configured token is its account's,  *)
(* never expires, and makes it an admin.                                   *)
SeedingTakesEffect ==
  [][~up /\ up' =>
       \A name \in DOMAIN config' :
         \E u \in Users : users'[u] = User(name, TRUE, config'[name], None)]_vars
=============================================================================

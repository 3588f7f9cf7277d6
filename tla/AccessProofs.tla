----------------------------- MODULE AccessProofs -----------------------------
(***************************************************************************)
(* Theorems about Access, for any accounts, environments, tokens and       *)
(* requests, and any lifetime of the cache.                                *)
(***************************************************************************)
EXTENDS Access, FoldProofs, FiniteSetTheorems, TLAPS

-----------------------------------------------------------------------------
(* The table of users.                                                     *)

IsUser(r) ==
  /\ r = [state |-> r.state, name |-> r.name, admin |-> r.admin, token |-> r.token,
          expires |-> r.expires]
  /\ r.state \in {"none", "live", "deleted"}

(* Ids are given in order: the rows that are, or were, are the first m.    *)
Filled(us, m) == m \in 0..MaxUsers /\ \A u \in Users : us[u].state # "none" <=> u <= m

Distinct(us) ==
  \A u, v \in Users : us[u].state = "live" /\ us[v].state = "live" /\ u # v =>
    us[u].name # us[v].name /\ us[u].token # us[v].token

Rows(us) ==
  /\ us = [u \in Users |-> us[u]] /\ \A u \in Users : IsUser(us[u])
  /\ Distinct(us) /\ \E m \in 0..MaxUsers : Filled(us, m)

Used(us) == {u \in Users : us[u].state # "none"}

LEMMA UsedRows ==
  ASSUME NEW us, NEW m \in 0..MaxUsers, Filled(us, m)
  PROVE  IsFiniteSet(Used(us)) /\ Cardinality(Used(us)) = m
<1>1. Used(us) = 1..m
  BY AccessAssumption DEF Used, Filled, Users
<1>2. IsFiniteSet(1..m) /\ Cardinality(1..m) = m
  BY FS_Interval
<1> QED BY <1>1, <1>2

(* A row written over a live one, or after the last.                       *)
LEMMA PutRow ==
  ASSUME NEW us, Rows(us), NEW m \in 0..MaxUsers, Filled(us, m), NEW r,
         NEW row, IsUser(row), row.state = "live",
         \/ r \in Users /\ us[r].state = "live"
         \/ r = m + 1,
         \A v \in Users : us[v].state = "live" /\ v # r =>
           us[v].name # row.name /\ us[v].token # row.token
  PROVE  Rows([us EXCEPT ![r] = row])
<1> DEFINE next == [us EXCEPT ![r] = row]
<1>1. DOMAIN us = Users
  BY DEF Rows
<1>2. next = [u \in Users |-> IF u = r THEN row ELSE us[u]]
  BY <1>1
<1> HIDE DEF next
<1>3. next = [u \in Users |-> next[u]] /\ \A u \in Users : IsUser(next[u])
  BY <1>2 DEF Rows
<1>4. Distinct(next)
  BY <1>2 DEF Rows, Distinct
<1>5. \E k \in 0..MaxUsers : Filled(next, k)
  <2>1. CASE r \in Users /\ us[r].state = "live"
    <3>1. Filled(next, m)
      BY <1>2, <2>1 DEF Filled
    <3> QED BY <3>1
  <2>2. CASE r = m + 1 /\ r \in Users
    <3>1. m + 1 \in 0..MaxUsers
      BY <2>2, AccessAssumption DEF Users
    <3>2. Filled(next, m + 1)
      BY <1>2, <2>2, <3>1, AccessAssumption DEF Filled, Users
    <3> QED BY <3>1, <3>2
  <2>3. CASE r \notin Users
    <3>1. Filled(next, m)
      BY <1>2, <2>3 DEF Filled
    <3> QED BY <3>1
  <2> QED BY <2>1, <2>2, <2>3
<1> QED BY <1>3, <1>4, <1>5 DEF Rows, next

LEMMA UserFields ==
  ASSUME NEW name, NEW admin, NEW token, NEW expires
  PROVE  /\ IsUser(User(name, admin, token, expires))
         /\ User(name, admin, token, expires).state = "live"
         /\ User(name, admin, token, expires).name = name
         /\ User(name, admin, token, expires).admin = admin
         /\ User(name, admin, token, expires).token = token
         /\ User(name, admin, token, expires).expires = expires
BY DEF User, IsUser

LEMMA NoRows == Rows([u \in Users |-> NoUser])
<1> DEFINE us == [u \in Users |-> NoUser]
<1>1. NoUser.state = "none" /\ IsUser(NoUser)
  BY DEF NoUser, IsUser
<1>2. \A u \in Users : us[u] = NoUser
  OBVIOUS
<1>3. us = [u \in Users |-> us[u]]
  OBVIOUS
<1> HIDE DEF us
<1>4. Distinct(us)
  BY <1>1, <1>2 DEF Distinct
<1>5. 0 \in 0..MaxUsers /\ Filled(us, 0)
  BY <1>1, <1>2, AccessAssumption DEF Filled, Users
<1> QED BY <1>1, <1>2, <1>3, <1>4, <1>5 DEF Rows, us

(* _upsert_primary_user: what it writes, and where.                        *)
LEMMA UpsertRow ==
  ASSUME NEW us, Rows(us), NEW m \in 0..MaxUsers, Filled(us, m), NEW name, NEW token,
         ~TakenBy(us, token, name)
  PROVE  LET r == Row(us, name)
             named == {u \in Users : us[u].state = "live" /\ us[u].name = name}
         IN  /\ IF named # {} THEN r \in named ELSE r = m + 1
             /\ \A v \in Users : us[v].state = "live" /\ v # r =>
                  us[v].name # name /\ us[v].token # token
<1> DEFINE r == Row(us, name)
           named == {u \in Users : us[u].state = "live" /\ us[u].name = name}
<1>1. Cardinality({u \in Users : us[u].state # "none"}) = m
  BY UsedRows DEF Used
<1>2. r = IF named # {} THEN CHOOSE u \in named : TRUE ELSE m + 1
  BY <1>1 DEF Row
<1>3. IF named # {} THEN r \in named ELSE r = m + 1
  BY <1>2
<1> HIDE DEF r
<1>4. ASSUME NEW v \in Users, us[v].state = "live", v # r
      PROVE  us[v].name # name /\ us[v].token # token
  <2>1. us[v].name # name
    BY <1>3, <1>4 DEF Rows, Distinct
  <2> QED BY <1>4, <2>1 DEF TakenBy
<1> QED BY <1>3, <1>4 DEF r

(* What an upsert that does not fail leaves alone.                         *)
Keeps(us, next, name) ==
  \A u \in Users : us[u].state = "live" =>
    next[u].state = "live" /\ (us[u].name # name => next[u] = us[u])

LEMMA UpsertKeeps ==
  ASSUME NEW us, Rows(us), NEW name, NEW token, Upsert(us, name, token) # Failed
  PROVE  LET next == Upsert(us, name, token)
         IN  /\ Rows(next) /\ Keeps(us, next, name)
             /\ \A u \in Users : next[u].state = "live" =>
                  next[u].token = token \/ (us[u].state = "live" /\ next[u].token = us[u].token)
<1> DEFINE r == Row(us, name)
           row == User(name, TRUE, token, None)
           next == Upsert(us, name, token)
           named == {u \in Users : us[u].state = "live" /\ us[u].name = name}
<1>1. PICK m \in 0..MaxUsers : Filled(us, m)
  BY DEF Rows
<1>2. ~TakenBy(us, token, name) /\ next = [us EXCEPT ![r] = row]
  BY DEF Upsert, Synced
<1>3. /\ IF named # {} THEN r \in named ELSE r = m + 1
      /\ \A v \in Users : us[v].state = "live" /\ v # r =>
           us[v].name # name /\ us[v].token # token
  BY <1>1, <1>2, UpsertRow
<1>4. /\ IsUser(row) /\ row.state = "live" /\ row.name = name /\ row.token = token
  BY DEF User, IsUser
<1>5. DOMAIN us = Users
  BY DEF Rows
<1> HIDE DEF r, row, next
<1>6. Rows([us EXCEPT ![r] = row])
  BY <1>1, <1>3, <1>4, PutRow
<1>7. \A u \in Users : next[u] = IF u = r THEN row ELSE us[u]
  BY <1>2, <1>5
<1>8. \A u \in Users : us[u].state = "live" /\ us[u].name # name => u # r
  <2>1. CASE named # {}
    BY <1>3, <2>1
  <2>2. CASE named = {}
    BY <1>1, <1>3, <2>2 DEF Filled
  <2> QED BY <2>1, <2>2
<1>9. Keeps(us, next, name)
  BY <1>4, <1>7, <1>8 DEF Keeps
<1> QED BY <1>2, <1>4, <1>6, <1>7, <1>9 DEF next

-----------------------------------------------------------------------------
(* ensure_primary_users: the fold, as a chain of tables.                   *)

SeedOne(rows, name, env) ==
  IF name \in DOMAIN env THEN Upsert(rows, name, env[name]) ELSE rows

SeedChain(f, us, env) ==
  /\ f[0] = us
  /\ \A k \in 1..Len(Accounts) : f[k] = SeedOne(f[k - 1], Accounts[k], env)
  /\ FoldLeft(LAMBDA rows, name :
                IF name \in DOMAIN env THEN Upsert(rows, name, env[name]) ELSE rows,
              us, Accounts) = f[Len(Accounts)]

LEMMA SeedChainExists ==
  ASSUME NEW us, NEW env
  PROVE  \E f : SeedChain(f, us, env)
<1> DEFINE n == Len(Accounts)
           Step(f, s) == IF s = {} THEN us ELSE SeedOne(f[s \ {Max(s)}], Accounts[Max(s)], env)
           Folds(f, k) == f = [s \in SUBSET (1..k) |-> Step(f, s)]
           B == {k \in Nat : \E f : Folds(f, k)}
<1>0. n \in Nat /\ DOMAIN Accounts = 1..n
  BY AccessAssumption
<1>1. 0 \in B
  <2> DEFINE f == [s \in SUBSET (1..0) |-> us]
  <2>1. f = [s \in SUBSET (1..0) |-> Step(f, s)]
    OBVIOUS
  <2> QED BY <2>1
<1>2. ASSUME NEW k \in B PROVE k + 1 \in B
  <2>1. PICK f : f = [s \in SUBSET (1..k) |-> Step(f, s)]
    OBVIOUS
  <2> DEFINE g == [s \in SUBSET (1..(k + 1)) |-> Step(f, s)]
  <2>2. \A s \in SUBSET (1..k) : g[s] = f[s]
    <3>1. TAKE s \in SUBSET (1..k)
    <3>2. s \in SUBSET (1..(k + 1))
      OBVIOUS
    <3>3. g[s] = Step(f, s)
      BY <3>2
    <3>4. f[s] = Step(f, s)
      BY <2>1
    <3> QED BY <3>3, <3>4
  <2>3. \A s \in SUBSET (1..(k + 1)) : Step(g, s) = Step(f, s)
    <3>1. TAKE s \in SUBSET (1..(k + 1))
    <3>2. CASE s = {}
      BY <3>2
    <3>3. CASE s # {}
      <4>1. s \ {Max(s)} \in SUBSET (1..k)
        BY <3>3, WithoutLast, k \in Nat
      <4>2. g[s \ {Max(s)}] = f[s \ {Max(s)}]
        BY <4>1, <2>2
      <4> QED BY <4>2
    <3> QED BY <3>2, <3>3
  <2>4. Folds(g, k + 1)
    <3> HIDE DEF Step
    <3>1. g = [s \in SUBSET (1..(k + 1)) |-> Step(g, s)]
      BY <2>3
    <3> QED BY <3>1
  <2> HIDE DEF g, Folds
  <2> QED BY <2>4
<1>3. n \in B
  <2> HIDE DEF B
  <2>1. B \in SUBSET Nat
    BY DEF B
  <2> QED BY <1>0, <1>1, <1>2, <2>1, SetInduction
<1> DEFINE it == CHOOSE f : f = [s \in SUBSET (1..n) |-> Step(f, s)]
<1>4. it = [s \in SUBSET (1..n) |-> Step(it, s)]
  <2> HIDE DEF Step
  <2> QED BY <1>3
<1> DEFINE result == FoldLeft(LAMBDA rows, name :
                       IF name \in DOMAIN env THEN Upsert(rows, name, env[name]) ELSE rows,
                     us, Accounts)
<1>5. result = it[1..n]
  BY <1>0 DEF FoldLeft, MapThenFoldSet, SeedOne
<1> HIDE DEF it, n
<1> DEFINE chain == [k \in 0..n |-> it[1..k]]
<1>6. chain[0] = us
  <2>1. 1..0 = {} /\ {} \in SUBSET (1..n) /\ 0 \in 0..n
    BY <1>0
  <2>2. it[{}] = us
    BY <2>1, <1>4
  <2> QED BY <2>1, <2>2
<1>7. ASSUME NEW k \in 1..n PROVE chain[k] = SeedOne(chain[k - 1], Accounts[k], env)
  <2>1. k - 1 \in Nat /\ k = (k - 1) + 1 /\ k \in 0..n /\ k - 1 \in 0..n
    BY <1>0
  <2>2. Max(1..k) = k /\ (1..k) \ {k} = 1..(k - 1)
    BY <2>1, LastOfInterval
  <2>3. 1..k \in SUBSET (1..n) /\ 1..k # {}
    <3>1. k \in Nat /\ k <= n /\ 1 <= k
      BY <1>0
    <3>2. 1..k \subseteq 1..n
      BY <1>0, <3>1
    <3>3. k \in 1..k
      BY <3>1
    <3> QED BY <3>2, <3>3
  <2>4. it[1..k] = Step(it, 1..k)
    BY <2>3, <1>4
  <2> QED BY <2>1, <2>2, <2>3, <2>4
<1>8. chain[n] = it[1..n]
  BY <1>0
<1> HIDE DEF chain, result
<1>9. SeedChain(chain, us, env)
  BY <1>5, <1>6, <1>7, <1>8 DEF SeedChain, n, result
<1> QED BY <1>9

LEMMA SeededByChain ==
  ASSUME NEW us, NEW env, Seeded(us, env) # Failed, NEW f, SeedChain(f, us, env)
  PROVE  Seeded(us, env) = f[Len(Accounts)]
BY DEF Seeded, SeedChain

(* A start that does not fail keeps every account, and gives no other      *)
(* tokens than those of the environment.                                   *)
KeepsLive(us, next) == \A u \in Users : us[u].state = "live" => next[u].state = "live"

HasTokens(us, T) == \A u \in Users : us[u].state = "live" => us[u].token \in T

LEMMA SeededKeeps ==
  ASSUME NEW us, Rows(us), NEW env, Seeded(us, env) # Failed,
         NEW T, HasTokens(us, T), \A name \in DOMAIN env : env[name] \in T
  PROVE  LET next == Seeded(us, env)
         IN  Rows(next) /\ KeepsLive(us, next) /\ HasTokens(next, T)
<1> DEFINE n == Len(Accounts)
           Good(next) == Rows(next) /\ KeepsLive(us, next) /\ HasTokens(next, T)
<1>1. n \in Nat
  BY AccessAssumption
<1>2. PICK f : SeedChain(f, us, env)
  BY SeedChainExists
<1> HIDE DEF n
<1> DEFINE B == {k \in Nat : k <= n => f[k] = Failed \/ Good(f[k])}
<1>3. 0 \in B
  BY <1>2 DEF SeedChain, KeepsLive
<1>4. ASSUME NEW k \in B PROVE k + 1 \in B
  <2>1. SUFFICES ASSUME k + 1 <= n, f[k + 1] # Failed PROVE Good(f[k + 1])
    OBVIOUS
  <2>2. k + 1 \in 1..n /\ (k + 1) - 1 = k /\ k <= n
    BY <1>1, <2>1
  <2> DEFINE name == Accounts[k + 1]
             rows == f[k]
             next == f[k + 1]
  <2>3. next = SeedOne(rows, name, env)
    BY <1>2, <2>2 DEF SeedChain, n
  <2>4. rows # Failed
    BY <2>1, <2>3 DEF SeedOne, Upsert
  <2>5. Good(rows)
    BY <2>2, <2>4
  <2> HIDE DEF rows, next, name
  <2>6. CASE name \in DOMAIN env
    <3>1. next = Upsert(rows, name, env[name]) /\ next # Failed
      BY <2>1, <2>3, <2>6 DEF SeedOne, next
    <3>2. /\ Rows(next) /\ Keeps(rows, next, name)
          /\ \A u \in Users : next[u].state = "live" =>
               \/ next[u].token = env[name]
               \/ rows[u].state = "live" /\ next[u].token = rows[u].token
      BY <2>5, <3>1, UpsertKeeps
    <3>3. KeepsLive(us, next)
      BY <2>5, <3>2 DEF KeepsLive, Keeps
    <3>4. HasTokens(next, T)
      BY <2>5, <2>6, <3>2 DEF HasTokens
    <3> QED BY <3>2, <3>3, <3>4 DEF next
  <2>7. CASE name \notin DOMAIN env
    BY <2>3, <2>5, <2>7 DEF SeedOne, next
  <2> QED BY <2>6, <2>7
<1>5. n \in B
  <2> HIDE DEF B
  <2>1. B \in SUBSET Nat
    BY DEF B
  <2> QED BY <1>1, <1>3, <1>4, <2>1, SetInduction
<1>6. Seeded(us, env) = f[n]
  BY <1>2, SeededByChain DEF n
<1> QED BY <1>1, <1>5, <1>6

(* And it gives each configured account its token, with room for a row.    *)
Missing(us, env) == {name \in DOMAIN env : \A u \in Users : us[u].state = "live" => us[u].name # name}

HasRow(us, name, env) == \E u \in Users : us[u] = User(name, TRUE, env[name], None)

Fits(us, env) == Cardinality(Used(us)) + Cardinality(Missing(us, env)) <= MaxUsers

LEMMA UpsertFits ==
  ASSUME NEW us, Rows(us), NEW env, IsFiniteSet(DOMAIN env), Fits(us, env),
         NEW name \in DOMAIN env, Upsert(us, name, env[name]) # Failed
  PROVE  LET next == Upsert(us, name, env[name])
         IN  Fits(next, env) /\ HasRow(next, name, env)
<1> DEFINE token == env[name]
           r == Row(us, name)
           row == User(name, TRUE, token, None)
           next == Upsert(us, name, token)
           named == {u \in Users : us[u].state = "live" /\ us[u].name = name}
<1>1. PICK m \in 0..MaxUsers : Filled(us, m)
  BY DEF Rows
<1>2. ~TakenBy(us, token, name) /\ next = [us EXCEPT ![r] = row]
  BY DEF Upsert, Synced
<1>3. /\ IF named # {} THEN r \in named ELSE r = m + 1
      /\ \A v \in Users : us[v].state = "live" /\ v # r =>
           us[v].name # name /\ us[v].token # token
  BY <1>1, <1>2, UpsertRow
<1>4. row.state = "live" /\ row.name = name
  BY DEF User
<1>5. DOMAIN us = Users
  BY DEF Rows
<1>6. IsFiniteSet(Missing(us, env)) /\ Cardinality(Missing(us, env)) \in Nat
  <2>1. Missing(us, env) \in SUBSET DOMAIN env
    BY DEF Missing
  <2>2. IsFiniteSet(Missing(us, env))
    BY <2>1, FS_Subset
  <2> QED BY <2>2, FS_CardinalityType
<1>7. IsFiniteSet(Used(us)) /\ Cardinality(Used(us)) = m
  BY <1>1, UsedRows
<1> HIDE DEF r, row, next, token
<1>8. r \in Users => \A u \in Users : next[u] = IF u = r THEN row ELSE us[u]
  BY <1>2, <1>5
<1>9. CASE named # {}
  <2>1. r \in Users /\ us[r].state = "live" /\ us[r].name = name
    BY <1>3, <1>9
  <2>2. Used(next) = Used(us)
    BY <1>4, <1>8, <2>1 DEF Used
  <2>3. Missing(next, env) = Missing(us, env)
    BY <1>4, <1>8, <2>1 DEF Missing
  <2>4. next[r] = row
    BY <1>8, <2>1
  <2> QED BY <2>1, <2>2, <2>3, <2>4 DEF Fits, HasRow, next, token, row
<1>10. CASE named = {}
  <2>1. name \in Missing(us, env)
    BY <1>10 DEF Missing
  <2>2. Cardinality(Missing(us, env)) # 0
    BY <1>6, <2>1, FS_EmptySet
  <2>3. m + 1 <= MaxUsers
    BY <1>6, <1>7, <2>2, AccessAssumption DEF Fits
  <2>4. r = m + 1 /\ r \in Users
    BY <1>3, <1>10, <2>3, AccessAssumption DEF Users
  <2>5. Used(next) = Used(us) \cup {r} /\ r \notin Used(us)
    BY <1>1, <1>4, <1>8, <2>4, AccessAssumption DEF Used, Filled, Users
  <2>6. Cardinality(Used(next)) = m + 1
    BY <1>7, <2>5, FS_AddElement
  <2>7. Missing(next, env) = Missing(us, env) \ {name}
    <3>1. ASSUME NEW other \in DOMAIN env
          PROVE  other \in Missing(next, env) <=> other \in Missing(us, env) /\ other # name
      <4>1. us[r].state # "live"
        BY <1>1, <2>4 DEF Filled
      <4>2. ASSUME other \in Missing(next, env)
            PROVE  other \in Missing(us, env) /\ other # name
        <5>1. other # name
          BY <1>4, <1>8, <2>4, <4>2 DEF Missing
        <5>2. ASSUME NEW u \in Users, us[u].state = "live" PROVE us[u].name # other
          BY <1>8, <2>4, <4>1, <4>2, <5>2 DEF Missing
        <5> QED BY <5>1, <5>2 DEF Missing
      <4>3. ASSUME other \in Missing(us, env), other # name PROVE other \in Missing(next, env)
        BY <1>4, <1>8, <2>4, <4>3 DEF Missing
      <4> QED BY <4>2, <4>3
    <3>2. Missing(next, env) \subseteq DOMAIN env /\ Missing(us, env) \subseteq DOMAIN env
      BY DEF Missing
    <3> QED BY <3>1, <3>2
  <2>8. Cardinality(Missing(next, env)) = Cardinality(Missing(us, env)) - 1
    BY <1>6, <2>1, <2>7, FS_RemoveElement
  <2>9. Fits(next, env)
    BY <1>6, <1>7, <2>6, <2>8, AccessAssumption DEF Fits
  <2>10. next[r] = row
    BY <1>8, <2>4
  <2> QED BY <2>4, <2>9, <2>10 DEF HasRow, next, token, row
<1> QED BY <1>9, <1>10

LEMMA SeededTakes ==
  ASSUME NEW us, Rows(us), NEW env, IsFiniteSet(DOMAIN env),
         DOMAIN env \subseteq ToSet(Accounts), Fits(us, env), Seeded(us, env) # Failed
  PROVE  \A name \in DOMAIN env : HasRow(Seeded(us, env), name, env)
<1> DEFINE n == Len(Accounts)
           Good(next, k) ==
             /\ Rows(next) /\ Fits(next, env)
             /\ \A j \in 1..k : Accounts[j] \in DOMAIN env => HasRow(next, Accounts[j], env)
<1>1. n \in Nat /\ DOMAIN Accounts = 1..n
  BY AccessAssumption
<1>2. PICK f : SeedChain(f, us, env)
  BY SeedChainExists
<1> HIDE DEF n
<1> DEFINE B == {k \in Nat : k <= n => f[k] = Failed \/ Good(f[k], k)}
<1>3. 0 \in B
  <2>1. f[0] = us
    BY <1>2 DEF SeedChain
  <2>2. 1..0 = {}
    OBVIOUS
  <2>3. Good(us, 0)
    BY <2>2
  <2> HIDE DEF Good
  <2> QED BY <2>1, <2>3
<1>4. ASSUME NEW k \in B PROVE k + 1 \in B
  <2>1. SUFFICES ASSUME k + 1 <= n, f[k + 1] # Failed PROVE Good(f[k + 1], k + 1)
    OBVIOUS
  <2>2. k + 1 \in 1..n /\ (k + 1) - 1 = k /\ k <= n /\ k \in Nat
    BY <1>1, <2>1
  <2> DEFINE name == Accounts[k + 1]
             rows == f[k]
             next == f[k + 1]
  <2>3. next = SeedOne(rows, name, env)
    BY <1>2, <2>2 DEF SeedChain, n
  <2>4. rows # Failed
    BY <2>1, <2>3 DEF SeedOne, Upsert
  <2>5. Good(rows, k)
    BY <2>2, <2>4
  <2>6. \A j \in 1..(k + 1) : j \in 1..k \/ Accounts[j] = name
    BY <2>2
  <2> HIDE DEF rows, next, name
  <2>7. CASE name \in DOMAIN env
    <3>1. next = Upsert(rows, name, env[name]) /\ next # Failed
      BY <2>1, <2>3, <2>7 DEF SeedOne, next
    <3>2. Rows(next) /\ Keeps(rows, next, name)
      BY <2>5, <3>1, UpsertKeeps
    <3>3. Fits(next, env) /\ HasRow(next, name, env)
      BY <2>5, <2>7, <3>1, UpsertFits
    <3>4. ASSUME NEW j \in 1..k, Accounts[j] \in DOMAIN env PROVE HasRow(next, Accounts[j], env)
      <4> DEFINE other == Accounts[j]
                 row == User(other, TRUE, env[other], None)
      <4>1. PICK u \in Users : rows[u] = row
        BY <2>5, <3>4 DEF HasRow
      <4>2. row.state = "live" /\ row.name = other
        BY DEF User
      <4> HIDE DEF other, row
      <4>3. other # name => next[u] = row
        BY <3>2, <4>1, <4>2 DEF Keeps
      <4> QED BY <3>3, <4>3 DEF HasRow, other, row
    <3> QED BY <2>6, <3>2, <3>3, <3>4 DEF next
  <2>8. CASE name \notin DOMAIN env
    <3>1. next = rows
      BY <2>3, <2>8 DEF SeedOne
    <3> QED BY <2>5, <2>6, <2>8, <3>1 DEF next
  <2> QED BY <2>7, <2>8
<1>5. n \in B
  <2> HIDE DEF B
  <2>1. B \in SUBSET Nat
    BY DEF B
  <2> QED BY <1>1, <1>3, <1>4, <2>1, SetInduction
<1>6. Seeded(us, env) = f[n]
  BY <1>2, SeededByChain DEF n
<1>7. ASSUME NEW name \in DOMAIN env PROVE \E j \in 1..n : Accounts[j] = name
  BY <1>1 DEF ToSet
<1> QED BY <1>1, <1>5, <1>6, <1>7

LEMMA AccountsFinite == IsFiniteSet(ToSet(Accounts))
<1> DEFINE n == Len(Accounts)
           f == [i \in 1..n |-> Accounts[i]]
<1>1. n \in Nat /\ DOMAIN Accounts = 1..n
  BY AccessAssumption
<1> HIDE DEF n
<1>2. IsFiniteSet(1..n)
  BY <1>1, FS_Interval
<1>3. f \in Surjection(1..n, ToSet(Accounts))
  BY <1>1 DEF Surjection, ToSet
<1> HIDE DEF f
<1> QED BY <1>2, <1>3, FS_Surjection

-----------------------------------------------------------------------------
(* The database, the tokens in use, and the clock.                         *)

Configured == UNION {{c[name] : name \in DOMAIN c} : c \in Configs}

(* The tokens there have been: those generated so far and all configured.  *)
KnownTokens(i) == {Generated[j] : j \in 1..i} \cup Configured

DbInv ==
  /\ up \in BOOLEAN /\ now \in Nat
  /\ Rows(users) /\ issued \in 0..Len(Generated) /\ HasTokens(users, KnownTokens(issued))
  /\ newest \in 0..MaxProjects /\ projects \subseteq Projects
  /\ members \subseteq projects \X {u \in Users : Live(u)}

LEMMA NextTokenIsFresh ==
  ASSUME NEW i \in Nat, i < Len(Generated)
  PROVE  /\ Generated[i + 1] \notin KnownTokens(i)
         /\ Generated[i + 1] \in KnownTokens(i + 1)
         /\ KnownTokens(i) \subseteq KnownTokens(i + 1)
<1>1. i + 1 \in DOMAIN Generated /\ \A j \in 1..i : j \in DOMAIN Generated /\ j # i + 1
  BY TokensAssumption
<1>2. Generated[i + 1] \notin Configured
  BY <1>1, TokensAssumption DEF Configured
<1>3. \A j \in 1..i : Generated[j] # Generated[i + 1]
  BY <1>1, TokensAssumption
<1>4. i + 1 \in 1..(i + 1) /\ \A j \in 1..i : j \in 1..(i + 1)
  OBVIOUS
<1> QED BY <1>2, <1>3, <1>4 DEF KnownTokens

(* The steps that change the table of users.                               *)
LEMMA CreateUserRows ==
  ASSUME DbInv, NEW name, NEW admin, NEW s, CreateUser(name, admin, s)
  PROVE  /\ Rows(users') /\ KeepsLive(users, users')
         /\ issued' \in 0..Len(Generated) /\ HasTokens(users', KnownTokens(issued'))
         /\ \A u \in Users : users'[u] # users[u] =>
              users[u].state = "none" /\ users'[u].token = Generated[issued + 1]
         /\ issued < Len(Generated) /\ issued' = issued + 1
<1> DEFINE token == Generated[issued + 1]
           expires == Lifetime(s)
           row == User(name, admin, token, expires)
           r == NextUser
<1>1. /\ r <= MaxUsers /\ issued < Len(Generated) /\ issued' = issued + 1
      /\ \A u \in Users : Live(u) => users[u].name # name
      /\ users' = [users EXCEPT ![r] = row]
  BY DEF CreateUser
<1>2. PICK m \in 0..MaxUsers : Filled(users, m)
  BY DEF DbInv, Rows
<1>3. r = m + 1
  BY <1>2, UsedRows DEF NextUser, Used
<1>4. IsUser(row) /\ row.state = "live" /\ row.name = name /\ row.token = token
  BY UserFields
<1>5. issued \in Nat /\ issued + 1 \in 0..Len(Generated)
  BY <1>1, TokensAssumption DEF DbInv
<1>6. /\ token \notin KnownTokens(issued) /\ token \in KnownTokens(issued + 1)
      /\ KnownTokens(issued) \subseteq KnownTokens(issued + 1)
  BY <1>1, <1>5, NextTokenIsFresh
<1>7. \A v \in Users : users[v].state = "live" => users[v].token \in KnownTokens(issued)
  BY DEF DbInv, HasTokens
<1> HIDE DEF token, expires, row, r
<1>8. Rows([users EXCEPT ![r] = row])
  BY <1>1, <1>2, <1>3, <1>4, <1>6, <1>7, PutRow DEF DbInv, Live
<1>9. r \in Users /\ users[r].state = "none"
  BY <1>1, <1>2, <1>3, AccessAssumption, r \in Users DEF Filled, Users
<1>10. \A u \in Users : users'[u] = IF u = r THEN row ELSE users[u]
  BY <1>1 DEF DbInv, Rows
<1>11. KeepsLive(users, users')
  BY <1>9, <1>10 DEF KeepsLive
<1>12. HasTokens(users', KnownTokens(issued'))
  BY <1>1, <1>4, <1>6, <1>7, <1>10 DEF HasTokens
<1> QED BY <1>1, <1>4, <1>5, <1>8, <1>9, <1>10, <1>11, <1>12 DEF token

LEMMA RotateTokenRows ==
  ASSUME DbInv, NEW u \in Users, NEW s, RotateToken(u, s)
  PROVE  /\ Rows(users') /\ KeepsLive(users, users')
         /\ issued' \in 0..Len(Generated) /\ HasTokens(users', KnownTokens(issued'))
         /\ \A v \in Users : v # u => users'[v] = users[v]
         /\ users'[u].token = Generated[issued + 1] /\ users'[u].admin = users[u].admin
         /\ issued < Len(Generated) /\ issued' = issued + 1
<1> DEFINE token == Generated[issued + 1]
           expires == Lifetime(s)
           old == users[u]
           name == old.name
           admin == old.admin
           row == User(name, admin, token, expires)
<1>1. /\ old.state = "live" /\ issued < Len(Generated) /\ issued' = issued + 1
      /\ users' = [users EXCEPT ![u].token = token, ![u].expires = expires]
  BY DEF RotateToken, Live
<1>2. PICK m \in 0..MaxUsers : Filled(users, m)
  BY DEF DbInv, Rows
<1>3. IsUser(old) /\ DOMAIN users = Users
  BY DEF DbInv, Rows
<1>4. IsUser(row) /\ row.state = "live" /\ row.name = name /\ row.token = token /\ row.admin = admin
  BY UserFields
<1>5. issued \in Nat /\ issued + 1 \in 0..Len(Generated)
  BY <1>1, TokensAssumption DEF DbInv
<1>6. /\ token \notin KnownTokens(issued) /\ token \in KnownTokens(issued + 1)
      /\ KnownTokens(issued) \subseteq KnownTokens(issued + 1)
  BY <1>1, <1>5, NextTokenIsFresh
<1>7. \A v \in Users : users[v].state = "live" => users[v].token \in KnownTokens(issued)
  BY DEF DbInv, HasTokens
<1> HIDE DEF token, expires
<1>8. users' = [users EXCEPT ![u] = [[old EXCEPT !.token = token] EXCEPT !.expires = expires]]
  BY <1>1, <1>3
<1>9. [[old EXCEPT !.token = token] EXCEPT !.expires = expires] = row
  <2> DEFINE oldtoken == old.token
             oldexpires == old.expires
             state == old.state
             was == [state |-> state, name |-> name, admin |-> admin, token |-> oldtoken,
                     expires |-> oldexpires]
             mid == [state |-> state, name |-> name, admin |-> admin, token |-> token,
                     expires |-> oldexpires]
             is == [state |-> state, name |-> name, admin |-> admin, token |-> token,
                    expires |-> expires]
  <2>1. old = was
    BY <1>3 DEF IsUser
  <2>2. state = "live"
    BY <1>1
  <2>3. is = row
    BY <2>2 DEF User
  <2> HIDE DEF state, name, admin, oldtoken, oldexpires, old
  <2>4. [was EXCEPT !.token = token] = mid
    OBVIOUS
  <2>5. [mid EXCEPT !.expires = expires] = is
    OBVIOUS
  <2> HIDE DEF was, mid, is
  <2> QED BY <2>1, <2>3, <2>4, <2>5
<1> HIDE DEF row
<1>10. users' = [users EXCEPT ![u] = row]
  BY <1>8, <1>9
<1>11. Rows([users EXCEPT ![u] = row])
  <2>1. \A v \in Users : users[v].state = "live" /\ v # u =>
          users[v].name # row.name /\ users[v].token # row.token
    BY <1>1, <1>4, <1>6, <1>7 DEF DbInv, Rows, Distinct
  <2> HIDE DEF old
  <2> QED BY <1>1, <1>2, <1>4, <2>1, PutRow DEF DbInv, old
<1>12. \A v \in Users : users'[v] = IF v = u THEN row ELSE users[v]
  BY <1>3, <1>10
<1>13. KeepsLive(users, users') /\ \A v \in Users : v # u => users'[v] = users[v]
  BY <1>4, <1>12 DEF KeepsLive
<1>14. HasTokens(users', KnownTokens(issued'))
  BY <1>1, <1>4, <1>6, <1>7, <1>12 DEF HasTokens
<1>15. users'[u].token = token /\ users'[u].admin = users[u].admin
  BY <1>4, <1>12
<1> QED BY <1>1, <1>5, <1>10, <1>11, <1>13, <1>14, <1>15 DEF token

LEMMA DeleteUserRows ==
  ASSUME DbInv, NEW u \in Users, DeleteUser(u)
  PROVE  /\ Rows(users') /\ HasTokens(users', KnownTokens(issued))
         /\ \A v \in Users : v # u => users'[v] = users[v]
         /\ users'[u].state = "deleted" /\ users'[u].admin = users[u].admin
<1> DEFINE old == users[u]
           row == [state |-> "deleted", name |-> old.name, admin |-> old.admin,
                   token |-> old.token, expires |-> old.expires]
<1>1. old.state = "live" /\ users' = [users EXCEPT ![u].state = "deleted"]
  BY DEF DeleteUser, Live
<1>2. PICK m \in 0..MaxUsers : Filled(users, m)
  BY DEF DbInv, Rows
<1>3. IsUser(old) /\ DOMAIN users = Users
  BY DEF DbInv, Rows
<1>4. [old EXCEPT !.state = "deleted"] = row
  BY <1>3 DEF IsUser
<1>5. IsUser(row) /\ row.state = "deleted" /\ row.admin = old.admin
  BY DEF IsUser
<1> HIDE DEF row
<1>6. users' = [users EXCEPT ![u] = row]
  BY <1>1, <1>3, <1>4
<1>7. \A v \in Users : users'[v] = IF v = u THEN row ELSE users[v]
  BY <1>3, <1>6
<1>8. users' = [v \in Users |-> users'[v]]
  BY <1>3, <1>6
<1>9. Distinct(users')
  BY <1>5, <1>7 DEF DbInv, Rows, Distinct
<1>10. Filled(users', m)
  BY <1>1, <1>2, <1>5, <1>7 DEF Filled
<1>11. Rows(users')
  BY <1>2, <1>5, <1>7, <1>8, <1>9, <1>10 DEF DbInv, Rows
<1>12. HasTokens(users', KnownTokens(issued))
  BY <1>5, <1>7 DEF DbInv, HasTokens
<1> QED BY <1>5, <1>7, <1>11, <1>12

LEMMA ConfigsFit ==
  ASSUME NEW env \in Configs
  PROVE  /\ \A name \in DOMAIN env : \A i \in Nat : env[name] \in KnownTokens(i)
         /\ IsFiniteSet(DOMAIN env) /\ DOMAIN env \subseteq ToSet(Accounts)
<1>1. \A name \in DOMAIN env : env[name] \in Configured
  BY DEF Configured
<1>2. DOMAIN env \in SUBSET ToSet(Accounts)
  BY AccessAssumption
<1>3. IsFiniteSet(DOMAIN env)
  BY <1>2, AccountsFinite, FS_Subset
<1> QED BY <1>1, <1>2, <1>3 DEF KnownTokens

LEMMA StartRows ==
  ASSUME DbInv, NEW env \in Configs, Start(env)
  PROVE  /\ Rows(users') /\ KeepsLive(users, users') /\ HasTokens(users', KnownTokens(issued))
         /\ up' => \A name \in DOMAIN env : HasRow(users', name, env)
<1> DEFINE seeded == Seeded(users, env)
           T == KnownTokens(issued)
<1>1. /\ up' = (seeded # Failed)
      /\ users' = IF seeded # Failed THEN seeded ELSE users
  BY DEF Start
<1>2. NextUser + Cardinality({name \in DOMAIN env : \A u \in Users : Live(u) => users[u].name # name})
        <= MaxUsers + 1
  BY DEF Start
<1>3. issued \in Nat
  BY TokensAssumption DEF DbInv
<1>4. Rows(users) /\ HasTokens(users, T)
  BY DEF DbInv
<1>5. \A name \in DOMAIN env : env[name] \in T
  BY <1>3, ConfigsFit
<1>6. IsFiniteSet(DOMAIN env) /\ DOMAIN env \subseteq ToSet(Accounts)
  BY ConfigsFit
<1>7. Fits(users, env)
  <2>1. Missing(users, env) \in SUBSET DOMAIN env
    BY DEF Missing
  <2>2. Cardinality(Missing(users, env)) \in Nat
    BY <1>6, <2>1, FS_Subset, FS_CardinalityType
  <2>3. PICK m \in 0..MaxUsers : Filled(users, m)
    BY <1>4 DEF Rows
  <2>4. Cardinality(Used(users)) = m /\ NextUser = m + 1
    BY <2>3, UsedRows DEF NextUser, Used
  <2>5. Missing(users, env) = {name \in DOMAIN env : \A u \in Users : Live(u) => users[u].name # name}
    BY DEF Missing, Live
  <2>6. (m + 1) + Cardinality(Missing(users, env)) <= MaxUsers + 1
    BY <1>2, <2>4, <2>5
  <2> QED BY <2>2, <2>4, <2>6, AccessAssumption DEF Fits
<1> HIDE DEF seeded, T
<1>8. CASE seeded = Failed
  BY <1>1, <1>4, <1>8 DEF KeepsLive, T
<1>9. CASE seeded # Failed
  <2>1. Rows(seeded) /\ KeepsLive(users, seeded) /\ HasTokens(seeded, T)
    BY <1>4, <1>5, <1>9, SeededKeeps DEF seeded
  <2>2. \A name \in DOMAIN env : HasRow(seeded, name, env)
    BY <1>4, <1>6, <1>7, <1>9, SeededTakes DEF seeded
  <2> QED BY <1>1, <1>9, <2>1, <2>2 DEF T
<1> QED BY <1>8, <1>9

LEMMA DbInit == Init => DbInv
<1>1. SUFFICES ASSUME Init PROVE DbInv
  OBVIOUS
<1> DEFINE us == [u \in Users |-> NoUser]
           T == KnownTokens(0)
<1>2. config \in Configs /\ users = Seeded(us, config) /\ Seeded(us, config) # Failed
  BY <1>1 DEF Init
<1>3. Rows(us)
  BY NoRows
<1>4. HasTokens(us, T)
  BY DEF HasTokens, NoUser
<1>5. \A name \in DOMAIN config : config[name] \in T
  BY <1>2, ConfigsFit
<1> HIDE DEF us, T
<1>6. Rows(users) /\ HasTokens(users, T)
  BY <1>2, <1>3, <1>4, <1>5, SeededKeeps
<1>7. /\ up \in BOOLEAN /\ now = 0 /\ issued = 0 /\ newest = 0 /\ projects = {} /\ members = {}
  BY <1>1 DEF Init
<1>8. 0 \in 0..Len(Generated) /\ 0 \in 0..MaxProjects
  BY AccessAssumption, TokensAssumption
<1> QED BY <1>6, <1>7, <1>8 DEF DbInv, T

(* Memberships, while no account goes away.                                *)
LEMMA MembersKept ==
  ASSUME DbInv, KeepsLive(users, users'), UNCHANGED <<projects, members>>
  PROVE  members' \subseteq projects' \X {u \in Users : Live(u)'}
BY DEF DbInv, KeepsLive, Live

LEMMA DbStep == DbInv /\ [Next]_vars => DbInv'
<1>1. SUFFICES ASSUME DbInv, [Next]_vars PROVE DbInv'
  OBVIOUS
<1>2. ASSUME UNCHANGED <<db, up, now>> PROVE DbInv'
  BY <1>1, <1>2 DEF DbInv, db, Live
<1>3. ASSUME NEW env \in Configs, Start(env) PROVE DbInv'
  <2>1. Rows(users') /\ KeepsLive(users, users') /\ HasTokens(users', KnownTokens(issued))
    BY <1>1, <1>3, StartRows
  <2>2. up' \in BOOLEAN /\ UNCHANGED <<projects, newest, members, issued, now>>
    BY <1>3 DEF Start
  <2>3. members' \subseteq projects' \X {u \in Users : Live(u)'}
    BY <1>1, <2>1, <2>2, MembersKept
  <2> QED BY <1>1, <2>1, <2>2, <2>3 DEF DbInv
<1>4. ASSUME Stop PROVE DbInv'
  BY <1>1, <1>4 DEF Stop, DbInv, db, Live
<1>5. ASSUME NEW name, NEW admin, NEW s, CreateUser(name, admin, s) PROVE DbInv'
  <2>1. /\ Rows(users') /\ KeepsLive(users, users')
        /\ issued' \in 0..Len(Generated) /\ HasTokens(users', KnownTokens(issued'))
    BY <1>1, <1>5, CreateUserRows
  <2>2. UNCHANGED <<up, projects, newest, members, now>>
    BY <1>5 DEF CreateUser
  <2>3. members' \subseteq projects' \X {u \in Users : Live(u)'}
    BY <1>1, <2>1, <2>2, MembersKept
  <2> QED BY <1>1, <2>1, <2>2, <2>3 DEF DbInv
<1>6. ASSUME NEW u \in Users, DeleteUser(u) PROVE DbInv'
  <2>1. /\ Rows(users') /\ HasTokens(users', KnownTokens(issued))
        /\ \A v \in Users : v # u => users'[v] = users[v]
    BY <1>1, <1>6, DeleteUserRows
  <2>2. UNCHANGED <<up, projects, newest, issued, now>> /\ members' = {m \in members : m[2] # u}
    BY <1>6 DEF DeleteUser
  <2>3. members' \subseteq projects' \X {v \in Users : Live(v)'}
    BY <1>1, <2>1, <2>2 DEF DbInv, Live
  <2> QED BY <1>1, <2>1, <2>2, <2>3 DEF DbInv
<1>7. ASSUME NEW u \in Users, NEW s, RotateToken(u, s) PROVE DbInv'
  <2>1. /\ Rows(users') /\ KeepsLive(users, users')
        /\ issued' \in 0..Len(Generated) /\ HasTokens(users', KnownTokens(issued'))
    BY <1>1, <1>7, RotateTokenRows
  <2>2. UNCHANGED <<up, projects, newest, members, now>>
    BY <1>7 DEF RotateToken
  <2>3. members' \subseteq projects' \X {v \in Users : Live(v)'}
    BY <1>1, <2>1, <2>2, MembersKept
  <2> QED BY <1>1, <2>1, <2>2, <2>3 DEF DbInv
<1>8. ASSUME NEW u \in Users, CreateProject(u) PROVE DbInv'
  <2>1. newest + 1 \in 0..MaxProjects /\ newest + 1 \in Projects
    BY <1>1, <1>8, AccessAssumption DEF CreateProject, DbInv, Projects
  <2>2. /\ newest' = newest + 1 /\ projects' = projects \cup {newest + 1} /\ Live(u)
        /\ members' = members \cup {<<newest + 1, u>>} /\ UNCHANGED <<up, users, issued, now>>
    BY <1>8 DEF CreateProject, Valid
  <2>3. members' \subseteq projects' \X {v \in Users : Live(v)'}
    BY <1>1, <2>2 DEF DbInv, Live
  <2> QED BY <1>1, <2>1, <2>2, <2>3 DEF DbInv
<1>9. ASSUME NEW p \in Projects, DeleteProject(p) PROVE DbInv'
  <2>1. /\ projects' = projects \ {p} /\ members' = {m \in members : m[1] # p}
        /\ UNCHANGED <<up, users, newest, issued, now>>
    BY <1>9 DEF DeleteProject
  <2>2. members' \subseteq projects' \X {v \in Users : Live(v)'}
    BY <1>1, <2>1 DEF DbInv, Live
  <2> QED BY <1>1, <2>1, <2>2 DEF DbInv
<1>10. ASSUME NEW p \in Projects, NEW u \in Users, AddMember(p, u) PROVE DbInv'
  <2>1. /\ p \in projects /\ Live(u) /\ members' = members \cup {<<p, u>>}
        /\ UNCHANGED <<up, users, projects, newest, issued, now>>
    BY <1>10 DEF AddMember, CallerOf, MayReach
  <2>2. members' \subseteq projects' \X {v \in Users : Live(v)'}
    BY <1>1, <2>1 DEF DbInv, Live
  <2> QED BY <1>1, <2>1, <2>2 DEF DbInv
<1>11. ASSUME NEW p \in Projects, NEW u \in Users, RemoveMember(p, u) PROVE DbInv'
  <2>1. /\ members' = members \ {<<p, u>>}
        /\ UNCHANGED <<up, users, projects, newest, issued, now>>
    BY <1>11 DEF RemoveMember
  <2>2. members' \subseteq projects' \X {v \in Users : Live(v)'}
    BY <1>1, <2>1 DEF DbInv, Live
  <2> QED BY <1>1, <2>1, <2>2 DEF DbInv
<1>12. ASSUME Admin PROVE DbInv'
  BY <1>3, <1>4, <1>5, <1>6, <1>7, <1>8, <1>9, <1>10, <1>11, <1>12 DEF Admin
<1>13. ASSUME NEW c \in Clients, Check(c) PROVE DbInv'
  BY <1>2, <1>13 DEF Check, Ask, ReadUser, ReadProject, ReadMember, Return, Unreachable
<1>14. ASSUME Tick PROVE DbInv'
  BY <1>1, <1>14 DEF Tick, DbInv, db, Live
<1>15. ASSUME Restart PROVE DbInv'
  BY <1>2, <1>15 DEF Restart
<1>16. ASSUME UNCHANGED vars PROVE DbInv'
  BY <1>2, <1>16 DEF vars
<1> QED BY <1>1, <1>12, <1>13, <1>14, <1>15, <1>16 DEF Next

-----------------------------------------------------------------------------
(* auth/service.py, ensure_primary_users: after a start each configured    *)
(* token is its account's, never expires, and makes it an admin, whatever  *)
(* the accounts had become: each is upserted in its turn, later upserts    *)
(* leave other names alone, and there is room for those that are missing.  *)
THEOREM SeedingWorks == Spec => SeedingTakesEffect
<1> DEFINE Takes == ~up /\ up' =>
       \A name \in DOMAIN config' :
         \E u \in Users : users'[u] = User(name, TRUE, config'[name], None)
<1>1. DbInv /\ [Next]_vars => Takes
  <2>1. SUFFICES ASSUME DbInv, [Next]_vars, ~up, up' PROVE Takes
    OBVIOUS
  <2>2. PICK env \in Configs : Start(env)
    BY <2>1 DEF Next, Admin, vars, Stop, CreateUser, DeleteUser, RotateToken, CreateProject,
       DeleteProject, AddMember, RemoveMember, Check, Ask, ReadUser, ReadProject, ReadMember,
       Return, Unreachable, Tick, Restart
  <2>3. config' = env
    BY <2>2 DEF Start
  <2>4. \A name \in DOMAIN env : HasRow(users', name, env)
    BY <2>1, <2>2, StartRows
  <2> QED BY <2>3, <2>4 DEF HasRow
<1>2. DbInv /\ [Next]_vars => [Takes]_vars
  BY <1>1
<1> QED BY <1>2, DbInit, DbStep, PTL DEF Spec, SeedingTakesEffect

-----------------------------------------------------------------------------
(* When each fact about access was last true.                              *)

Reaches == Users \X Projects

Noted(s, t) ==
  /\ \A k \in Keys : s.owned[k] \in Int /\ s.owned[k] <= t /\ s.denied[k] \in Int /\ s.denied[k] <= t
  /\ \A r \in Reaches : s.reached[r] \in Int /\ s.reached[r] <= t

SeenInv ==
  /\ Noted(seen, now)
  /\ \A k \in Keys : /\ Owned(k[1]) => seen.owned[k] = now
                     /\ ~Allowed(k[1], k[2]) => seen.denied[k] = now
  /\ \A r \in Reaches : MayReach(r[1], r[2]) => seen.reached[r] = now

(* Later notes are no older.                                               *)
Grown(s, next) ==
  /\ \A k \in Keys : /\ s.owned[k] \in Int /\ next.owned[k] \in Int /\ s.owned[k] <= next.owned[k]
                     /\ s.denied[k] \in Int /\ next.denied[k] \in Int /\ s.denied[k] <= next.denied[k]
  /\ \A r \in Reaches :
       s.reached[r] \in Int /\ next.reached[r] \in Int /\ s.reached[r] <= next.reached[r]

LEMMA SeenInit == Init => SeenInv
<1>1. SUFFICES ASSUME Init PROVE SeenInv
  OBVIOUS
<1>2. now = 0 /\ projects = {} /\ TTL \in Nat
  BY <1>1, AccessAssumption DEF Init
<1>3. seen = [owned |-> [k \in Keys |-> IF Owned(k[1]) THEN now ELSE -TTL],
              reached |-> [r \in Users \X Projects |-> -TTL],
              denied |-> [k \in Keys |-> IF ~Allowed(k[1], k[2]) THEN now ELSE -TTL]]
  BY <1>1 DEF Init
<1>4. \A k \in Keys : /\ seen.owned[k] = IF Owned(k[1]) THEN now ELSE -TTL
                      /\ seen.denied[k] = IF ~Allowed(k[1], k[2]) THEN now ELSE -TTL
  BY <1>3
<1>5. \A r \in Reaches : seen.reached[r] = -TTL
  BY <1>3 DEF Reaches
<1>6. Noted(seen, now)
  BY <1>2, <1>4, <1>5 DEF Noted
<1>7. \A r \in Reaches : ~MayReach(r[1], r[2])
  BY <1>2 DEF MayReach
<1> QED BY <1>4, <1>6, <1>7 DEF SeenInv

LEMMA ClockStep == DbInv /\ [Next]_vars => now' \in Nat /\ now <= now'
<1>1. SUFFICES ASSUME DbInv, [Next]_vars PROVE now' = now \/ now' = now + 1
  BY DEF DbInv
<1>2. CASE Admin
  BY <1>2 DEF Admin, Start, Stop, CreateUser, DeleteUser, RotateToken, CreateProject,
     DeleteProject, AddMember, RemoveMember
<1>3. CASE \E c \in Clients : Check(c)
  BY <1>3 DEF Check, Ask, ReadUser, ReadProject, ReadMember, Return, Unreachable
<1>4. CASE Restart \/ Tick \/ UNCHANGED vars
  BY <1>4 DEF Restart, Tick, vars
<1> QED BY <1>1, <1>2, <1>3, <1>4 DEF Next

LEMMA SeenStep ==
  DbInv /\ SeenInv /\ [Next]_vars => SeenInv' /\ Grown(seen, seen')
<1>1. SUFFICES ASSUME DbInv, SeenInv, [Next]_vars PROVE SeenInv' /\ Grown(seen, seen')
  OBVIOUS
<1>2. now \in Nat /\ now' \in Nat /\ now <= now'
  BY <1>1, ClockStep DEF DbInv
<1>3. CASE Remember
  <2>1. \A k \in Keys : /\ seen'.owned[k] = IF Owned(k[1])' THEN now' ELSE seen.owned[k]
                        /\ seen'.denied[k] = IF ~Allowed(k[1], k[2])' THEN now' ELSE seen.denied[k]
    BY <1>3 DEF Remember
  <2>2. \A r \in Reaches :
          seen'.reached[r] = IF MayReach(r[1], r[2])' THEN now' ELSE seen.reached[r]
    BY <1>3 DEF Remember, Reaches
  <2>3. Noted(seen, now)
    BY <1>1 DEF SeenInv
  <2>4. Noted(seen', now') /\ Grown(seen, seen')
    BY <1>2, <2>1, <2>2, <2>3 DEF Noted, Grown
  <2> QED BY <2>1, <2>2, <2>4 DEF SeenInv
<1>4. CASE UNCHANGED vars
  <2>1. SeenInv'
    BY <1>1, <1>4 DEF SeenInv, vars, db, Owned, Allowed, Owns, MayReach, Live, Expired
  <2>2. Grown(seen, seen')
    BY <1>1, <1>4 DEF SeenInv, Noted, Grown, vars
  <2> QED BY <2>1, <2>2
<1> QED BY <1>1, <1>3, <1>4 DEF Next

-----------------------------------------------------------------------------
(* What an answer says of a request, and since when it may have been so.   *)

Refusals == {"unauthorized", "forbidden", "not_found"}
Results == {"none", "ok", "unreachable"} \cup Refusals

Facts(s, k, user, result, t) ==
  /\ result = "ok" => /\ s.owned[k] >= t
                      /\ k[2] # None => user \in Users /\ s.reached[<<user, k[2]>>] >= t
  /\ result \in Refusals => s.denied[k] >= t

LEMMA FactsKept ==
  ASSUME NEW s, NEW next, Grown(s, next), NEW k \in Keys, NEW user, NEW result,
         NEW t \in Int, NEW u \in Int, u <= t, Facts(s, k, user, result, t)
  PROVE  Facts(next, k, user, result, u)
<1>1. k[2] # None => k[2] \in Projects
  BY AccessAssumption
<1>2. k[2] # None /\ user \in Users => <<user, k[2]>> \in Reaches
  BY <1>1 DEF Reaches
<1>3. ASSUME result = "ok" PROVE next.owned[k] >= u
  BY <1>3 DEF Grown, Facts
<1>4. ASSUME result = "ok", k[2] # None PROVE user \in Users /\ next.reached[<<user, k[2]>>] >= u
  BY <1>2, <1>4 DEF Grown, Facts
<1>5. ASSUME result \in Refusals PROVE next.denied[k] >= u
  BY <1>5 DEF Grown, Facts
<1> QED BY <1>3, <1>4, <1>5 DEF Facts

CacheInv ==
  /\ cache = [k \in Keys |-> cache[k]]
  /\ \A k \in Keys :
       /\ cache[k].result \in {"none", "ok"} \cup Refusals
       /\ cache[k].expires \in Nat
       /\ Facts(seen, k, cache[k].user, cache[k].result, cache[k].expires - TTL)

(* A check that has found its user: nobody else has had the token since.   *)
Settled(us, i, r) ==
  /\ r.user \in Users /\ us[r.user].state # "none"
  /\ r.token \in KnownTokens(i)
  /\ \A u \in Users : us[u].state = "live" /\ us[u].token = r.token => u = r.user
  /\ r.pc = "member" => ~us[r.user].admin

CheckOf(pc, token, project, since, user, result, at) ==
  [pc |-> pc, token |-> token, project |-> project, since |-> since, user |-> user,
   result |-> result, at |-> at]

IsCheck(r) ==
  /\ r = CheckOf(r.pc, r.token, r.project, r.since, r.user, r.result, r.at)
  /\ r.pc \in {"idle", "user", "project", "member", "back", "answered"}

KeyOf(r) == <<r.token, r.project>>

Sound(r) ==
  /\ IsCheck(r)
  /\ r.pc # "idle" => KeyOf(r) \in Keys /\ r.since \in Nat /\ r.since <= now
  /\ r.pc \in {"project", "member"} =>
       up /\ r.project # None /\ Settled(users, issued, r) /\ seen.owned[KeyOf(r)] >= r.since
  /\ r.pc = "back" => r.result \in Results \ {"none"} /\ Facts(seen, KeyOf(r), r.user, r.result, r.since)
  /\ r.pc = "answered" => r.at \in Nat /\ Facts(seen, KeyOf(r), r.user, r.result, Since(r))

RequestInv == request = [c \in Clients |-> request[c]] /\ \A c \in Clients : Sound(request[c])

IInv == DbInv /\ SeenInv /\ CacheInv /\ RequestInv

-----------------------------------------------------------------------------
(* Updates of a check.                                                     *)

LEMMA CheckFields ==
  ASSUME NEW pc, NEW token, NEW project, NEW since, NEW user, NEW result, NEW at
  PROVE  LET r == CheckOf(pc, token, project, since, user, result, at)
         IN  /\ r.pc = pc /\ r.token = token /\ r.project = project /\ r.since = since
             /\ r.user = user /\ r.result = result /\ r.at = at
BY DEF CheckOf

(* The updates the steps make.                                             *)
Moved(r, x) == [r EXCEPT !.pc = x]
MovedBack(r, x, y) == [r EXCEPT !.pc = x, !.result = y]
MovedFound(r, x, y, u) == [[r EXCEPT !.pc = x, !.result = y] EXCEPT !.user = u]
MovedUser(r, x, u) == [r EXCEPT !.pc = x, !.user = u]
MovedAnswer(r, x, y, u, t) == [r EXCEPT !.pc = x, !.result = y, !.user = u, !.at = t]

LEMMA CheckUpdates ==
  ASSUME NEW r, IsCheck(r), NEW x, NEW y, NEW u, NEW t
  PROVE  /\ Moved(r, x) = CheckOf(x, r.token, r.project, r.since, r.user, r.result, r.at)
         /\ MovedBack(r, x, y) = CheckOf(x, r.token, r.project, r.since, r.user, y, r.at)
         /\ MovedFound(r, x, y, u) = CheckOf(x, r.token, r.project, r.since, u, y, r.at)
         /\ MovedUser(r, x, u) = CheckOf(x, r.token, r.project, r.since, u, r.result, r.at)
         /\ MovedAnswer(r, x, y, u, t) = CheckOf(x, r.token, r.project, r.since, u, y, t)
<1> DEFINE pc == r.pc
           token == r.token
           project == r.project
           since == r.since
           user == r.user
           result == r.result
           at == r.at
           a == [r EXCEPT !.pc = x]
           b == [a EXCEPT !.result = y]
           c == [b EXCEPT !.user = u]
           d == [a EXCEPT !.user = u]
           e == [c EXCEPT !.at = t]
<1>1. r = CheckOf(pc, token, project, since, user, result, at)
  BY DEF IsCheck
<1> HIDE DEF pc, token, project, since, user, result, at
<1>2. /\ a = Moved(r, x) /\ b = MovedBack(r, x, y) /\ c = MovedFound(r, x, y, u)
      /\ d = MovedUser(r, x, u) /\ e = MovedAnswer(r, x, y, u, t)
  BY Zenon DEF Moved, MovedBack, MovedFound, MovedUser, MovedAnswer
<1>3. a = CheckOf(x, token, project, since, user, result, at)
  BY <1>1 DEF CheckOf
<1> HIDE DEF a
<1>4. b = CheckOf(x, token, project, since, user, y, at)
  BY <1>3 DEF CheckOf
<1>5. d = CheckOf(x, token, project, since, u, result, at)
  BY <1>3 DEF CheckOf
<1> HIDE DEF b, d
<1>6. c = CheckOf(x, token, project, since, u, y, at)
  BY <1>4 DEF CheckOf
<1> HIDE DEF c
<1>7. e = CheckOf(x, token, project, since, u, y, t)
  BY <1>6 DEF CheckOf
<1> HIDE DEF e
<1> QED BY <1>2, <1>3, <1>4, <1>5, <1>6, <1>7
     DEF a, pc, token, project, since, user, result, at

LEMMA NewCheck ==
  ASSUME NEW token, NEW project, NEW since
  PROVE  [NoCheck EXCEPT !.token = token, !.project = project, !.since = since] =
           CheckOf("idle", token, project, since, None, "none", 0)
<1> DEFINE pc == "idle"
           empty == ""
           user == None
           result == "none"
           at == 0
           a == [NoCheck EXCEPT !.token = token]
           b == [a EXCEPT !.project = project]
           c == [b EXCEPT !.since = since]
<1>1. NoCheck = CheckOf(pc, empty, user, at, user, result, at)
  BY DEF NoCheck, CheckOf
<1>2. c = [NoCheck EXCEPT !.token = token, !.project = project, !.since = since]
  BY Zenon
<1> HIDE DEF pc, empty, user, result, at
<1>3. a = CheckOf(pc, token, user, at, user, result, at)
  BY <1>1 DEF CheckOf
<1> HIDE DEF a
<1>4. b = CheckOf(pc, token, project, at, user, result, at)
  BY <1>3 DEF CheckOf
<1> HIDE DEF b
<1>5. c = CheckOf(pc, token, project, since, user, result, at)
  BY <1>4 DEF CheckOf
<1> HIDE DEF c
<1> QED BY <1>2, <1>5 DEF pc, user, result, at

-----------------------------------------------------------------------------
(* While scanledger is up, a check keeps the user it has found: new tokens *)
(* are fresh, and nobody else gets one that is in use.                     *)
LEMMA SettledStep ==
  DbInv /\ [Next]_vars /\ up /\ up' =>
    \A r : Settled(users, issued, r) => Settled(users', issued', r)
<1>1. SUFFICES ASSUME DbInv, [Next]_vars, up, up'
               PROVE  \A r : Settled(users, issued, r) => Settled(users', issued', r)
  OBVIOUS
<1> DEFINE Goal == \A r : Settled(users, issued, r) => Settled(users', issued', r)
<1>2. ASSUME UNCHANGED <<users, issued>> PROVE Goal
  BY <1>2
<1>3. issued \in Nat
  BY <1>1, TokensAssumption DEF DbInv
<1>4. ASSUME NEW name, NEW admin, NEW s, CreateUser(name, admin, s) PROVE Goal
  <2> DEFINE token == Generated[issued + 1]
  <2>1. /\ KeepsLive(users, users')
        /\ \A u \in Users : users'[u] # users[u] => users[u].state = "none" /\ users'[u].token = token
        /\ issued < Len(Generated) /\ issued' = issued + 1
    BY <1>1, <1>4, CreateUserRows
  <2>2. token \notin KnownTokens(issued) /\ KnownTokens(issued) \subseteq KnownTokens(issued + 1)
    BY <1>3, <2>1, NextTokenIsFresh
  <2> HIDE DEF token
  <2>3. ASSUME NEW r, Settled(users, issued, r) PROVE Settled(users', issued', r)
    <3>1. r.token \in KnownTokens(issued) /\ r.user \in Users /\ users'[r.user] = users[r.user]
      BY <2>1, <2>3 DEF Settled
    <3>2. ASSUME NEW u \in Users, users'[u].state = "live", users'[u].token = r.token PROVE u = r.user
      <4>1. users'[u] = users[u]
        BY <2>1, <2>2, <3>1, <3>2
      <4> QED BY <2>3, <3>2, <4>1 DEF Settled
    <3> QED BY <2>1, <2>2, <2>3, <3>1, <3>2 DEF Settled
  <2> QED BY <2>3
<1>5. ASSUME NEW v \in Users, DeleteUser(v) PROVE Goal
  <2>1. /\ \A u \in Users : u # v => users'[u] = users[u]
        /\ users'[v].state = "deleted" /\ users'[v].admin = users[v].admin /\ issued' = issued
    BY <1>1, <1>5, DeleteUserRows DEF DeleteUser
  <2>2. ASSUME NEW r, Settled(users, issued, r) PROVE Settled(users', issued', r)
    BY <2>1, <2>2 DEF Settled
  <2> QED BY <2>2
<1>6. ASSUME NEW v \in Users, NEW s, RotateToken(v, s) PROVE Goal
  <2> DEFINE token == Generated[issued + 1]
  <2>1. /\ \A u \in Users : u # v => users'[u] = users[u]
        /\ users'[v].token = token /\ users'[v].admin = users[v].admin
        /\ issued < Len(Generated) /\ issued' = issued + 1
        /\ KeepsLive(users, users') /\ users[v].state = "live"
    BY <1>1, <1>6, RotateTokenRows DEF RotateToken, Live
  <2>2. token \notin KnownTokens(issued) /\ KnownTokens(issued) \subseteq KnownTokens(issued + 1)
    BY <1>3, <2>1, NextTokenIsFresh
  <2> HIDE DEF token
  <2>3. users'[v].state = "live"
    BY <2>1 DEF KeepsLive
  <2>4. ASSUME NEW r, Settled(users, issued, r) PROVE Settled(users', issued', r)
    <3>1. r.token \in KnownTokens(issued) /\ r.user \in Users
      BY <2>4 DEF Settled
    <3>2. users'[r.user].state # "none" /\ users'[r.user].admin = users[r.user].admin
      BY <2>1, <2>3, <2>4, <3>1 DEF Settled
    <3>3. ASSUME NEW u \in Users, users'[u].state = "live", users'[u].token = r.token PROVE u = r.user
      <4>1. u # v
        BY <2>1, <2>2, <3>1, <3>3
      <4> QED BY <2>1, <2>4, <3>3, <4>1 DEF Settled
    <3> QED BY <2>1, <2>2, <2>4, <3>1, <3>2, <3>3 DEF Settled
  <2> QED BY <2>4
<1>7. ASSUME Admin PROVE Goal
  <2>1. CASE \E env \in Configs : Start(env)
    BY <1>1, <2>1 DEF Start
  <2>2. CASE Stop
    BY <1>1, <2>2 DEF Stop
  <2>3. CASE \E name \in Names, admin \in BOOLEAN, s \in Lifetimes : CreateUser(name, admin, s)
    BY <1>4, <2>3
  <2>4. CASE \E u \in Users : DeleteUser(u) \/ (\E s \in Lifetimes : RotateToken(u, s))
    BY <1>5, <1>6, <2>4
  <2>5. CASE \/ \E u \in Users : CreateProject(u)
             \/ \E p \in Projects : \/ DeleteProject(p)
                                    \/ \E u \in Users : AddMember(p, u) \/ RemoveMember(p, u)
    BY <1>2, <2>5 DEF CreateProject, DeleteProject, AddMember, RemoveMember
  <2> HIDE DEF Goal
  <2> QED BY <1>7, <2>1, <2>2, <2>3, <2>4, <2>5 DEF Admin
<1>8. ASSUME NEW c \in Clients, Check(c) PROVE Goal
  BY <1>2, <1>8 DEF Check, Ask, ReadUser, ReadProject, ReadMember, Return, Unreachable, db
<1>9. ASSUME Restart \/ Tick \/ UNCHANGED vars PROVE Goal
  BY <1>2, <1>9 DEF Restart, Tick, vars, db
<1> HIDE DEF Goal
<1> QED BY <1>1, <1>7, <1>8, <1>9 DEF Next, Goal

(* A check that no step touches stays sound.                               *)
LEMMA SoundKept ==
  ASSUME IInv, [Next]_vars, NEW c \in Clients, request'[c] = request[c],
         request[c].pc \in {"project", "member"} => up'
  PROVE  Sound(request[c])'
<1> DEFINE r == request[c]
<1>1. Sound(r) /\ DbInv
  BY DEF IInv, RequestInv
<1>2. Grown(seen, seen') /\ now \in Nat /\ now' \in Nat /\ now <= now'
  BY SeenStep, ClockStep DEF IInv, DbInv
<1>3. ASSUME r.pc # "idle"
      PROVE  KeyOf(r) \in Keys /\ r.since \in Nat /\ r.since <= now'
  BY <1>1, <1>2, <1>3 DEF Sound
<1>4. ASSUME r.pc \in {"project", "member"}
      PROVE  Settled(users', issued', r) /\ seen'.owned[KeyOf(r)] >= r.since
  <2>1. up /\ up' /\ Settled(users, issued, r) /\ seen.owned[KeyOf(r)] >= r.since
    BY <1>1, <1>4 DEF Sound
  <2>2. Settled(users', issued', r)
    BY <1>1, <2>1, SettledStep
  <2>3. seen.owned[KeyOf(r)] <= seen'.owned[KeyOf(r)] /\ r.since \in Int
        /\ seen.owned[KeyOf(r)] \in Int /\ seen'.owned[KeyOf(r)] \in Int
    BY <1>2, <1>3, <1>4 DEF Grown
  <2> QED BY <2>1, <2>2, <2>3
<1>5. ASSUME r.pc = "back" PROVE Facts(seen', KeyOf(r), r.user, r.result, r.since)
  <2>1. Facts(seen, KeyOf(r), r.user, r.result, r.since) /\ KeyOf(r) \in Keys /\ r.since \in Int
    BY <1>1, <1>3, <1>5 DEF Sound
  <2> QED BY <1>2, <2>1, FactsKept
<1>6. ASSUME r.pc = "answered" PROVE Facts(seen', KeyOf(r), r.user, r.result, Since(r))
  <2>1. Facts(seen, KeyOf(r), r.user, r.result, Since(r)) /\ KeyOf(r) \in Keys
    BY <1>1, <1>3, <1>6 DEF Sound
  <2>2. Since(r) \in Int
    BY <1>1, <1>3, <1>6, AccessAssumption DEF Sound, Since
  <2> QED BY <1>2, <2>1, <2>2, FactsKept
<1>7. r = request'[c] /\ (r.pc \in {"project", "member"} => up')
  OBVIOUS
<1> HIDE DEF r
<1> QED BY <1>1, <1>3, <1>4, <1>5, <1>6, <1>7 DEF Sound

LEMMA CacheKept ==
  ASSUME IInv, [Next]_vars, NEW k \in Keys, cache'[k] = cache[k]
  PROVE  /\ cache'[k].result \in {"none", "ok"} \cup Refusals
         /\ cache'[k].expires \in Nat
         /\ Facts(seen', k, cache'[k].user, cache'[k].result, cache'[k].expires - TTL)
<1>1. Grown(seen, seen')
  BY SeenStep DEF IInv
<1>2. /\ cache[k].result \in {"none", "ok"} \cup Refusals /\ cache[k].expires \in Nat
      /\ Facts(seen, k, cache[k].user, cache[k].result, cache[k].expires - TTL)
  BY DEF IInv, CacheInv
<1>3. cache[k].expires - TTL \in Int
  BY <1>2, AccessAssumption
<1>4. Facts(seen', k, cache[k].user, cache[k].result, cache[k].expires - TTL)
  BY <1>1, <1>2, <1>3, FactsKept
<1> QED BY <1>2, <1>4

LEMMA SameCache ==
  ASSUME IInv, [Next]_vars, UNCHANGED cache
  PROVE  CacheInv'
<1>1. cache' = [k \in Keys |-> cache'[k]]
  BY DEF IInv, CacheInv
<1>2. ASSUME NEW k \in Keys
      PROVE  /\ cache'[k].result \in {"none", "ok"} \cup Refusals
             /\ cache'[k].expires \in Nat
             /\ Facts(seen', k, cache'[k].user, cache'[k].result, cache'[k].expires - TTL)
  BY CacheKept
<1> QED BY <1>1, <1>2 DEF CacheInv

(* A step of one client.                                                   *)
OnlyCheck(c) ==
  /\ request' = [d \in Clients |-> request'[d]]
  /\ \A d \in Clients : d # c => request'[d] = request[d]

LEMMA OneCheck ==
  ASSUME IInv, [Next]_vars, NEW c \in Clients, UNCHANGED up, OnlyCheck(c), Sound(request[c])'
  PROVE  RequestInv'
<1>1. ASSUME NEW d \in Clients, d # c PROVE Sound(request[d])'
  <2>1. request'[d] = request[d]
    BY <1>1 DEF OnlyCheck
  <2>2. request[d].pc \in {"project", "member"} => up'
    BY DEF IInv, RequestInv, Sound
  <2> QED BY <2>1, <2>2, SoundKept
<1> QED BY <1>1 DEF RequestInv, OnlyCheck

LEMMA AskStep ==
  ASSUME IInv, [Next]_vars, NEW c \in Clients, NEW k \in Keys, Ask(c, k[1], k[2])
  PROVE  CacheInv' /\ RequestInv'
<1> DEFINE token == k[1]
           p == k[2]
           entry == cache[k]
           asked == [NoCheck EXCEPT !.token = token, !.project = p, !.since = now]
           hit == [asked EXCEPT !.pc = "answered", !.result = entry.result,
                                !.user = entry.user, !.at = now]
           miss == [asked EXCEPT !.pc = "user"]
           r == IF entry.expires > now THEN hit ELSE miss
<1>1. k = <<token, p>>
  BY AccessAssumption
<1>2. request' = [request EXCEPT ![c] = r] /\ UNCHANGED <<up, now, cache>>
  BY <1>1 DEF Ask
<1>3. asked = CheckOf("idle", token, p, now, None, "none", 0)
  BY NewCheck
<1>4. /\ IsCheck(asked) /\ asked.token = token /\ asked.project = p /\ asked.since = now
      /\ asked.user = None /\ asked.result = "none" /\ asked.at = 0
  BY <1>3 DEF IsCheck, CheckOf
<1>5. now \in Nat /\ now' = now /\ now <= now'
  BY <1>2 DEF IInv, DbInv
<1>6. /\ entry.expires \in Nat /\ Grown(seen, seen')
      /\ Facts(seen, k, entry.user, entry.result, entry.expires - TTL)
  BY SeenStep DEF IInv, CacheInv
<1>7. CASE entry.expires > now
  <2>1. r = CheckOf("answered", token, p, now, entry.user, entry.result, now)
    <3> DEFINE v == entry.user
               y == entry.result
    <3>1. hit = MovedAnswer(asked, "answered", y, v, now)
      BY DEF MovedAnswer
    <3> HIDE DEF asked, hit, v, y, entry, token, p
    <3>2. MovedAnswer(asked, "answered", y, v, now) =
            CheckOf("answered", asked.token, asked.project, asked.since, v, y, now)
      BY <1>4, CheckUpdates
    <3> QED BY <1>4, <1>7, <3>1, <3>2 DEF v, y
  <2> HIDE DEF r, asked, hit, miss, entry, token, p
  <2>2. /\ IsCheck(r) /\ r.pc = "answered" /\ r.token = token /\ r.project = p /\ r.since = now
        /\ r.user = entry.user /\ r.result = entry.result /\ r.at = now
    BY <2>1 DEF CheckOf, IsCheck
  <2>3. KeyOf(r) = k
    BY <1>1, <2>2 DEF KeyOf
  <2>4. Since(r) \in Int /\ Since(r) <= entry.expires - TTL /\ entry.expires - TTL \in Int
    BY <1>5, <1>6, <1>7, <2>2, AccessAssumption DEF Since
  <2>5. Facts(seen', k, r.user, r.result, Since(r))
    BY <1>6, <2>2, <2>4, FactsKept
  <2>6. request'[c] = r /\ OnlyCheck(c)
    BY <1>2 DEF IInv, RequestInv, OnlyCheck
  <2>7. Sound(request[c])'
    BY <1>5, <2>2, <2>3, <2>5, <2>6 DEF Sound
  <2> QED BY <1>2, <2>6, <2>7, OneCheck, SameCache
<1>8. CASE ~(entry.expires > now)
  <2>1. r = CheckOf("user", token, p, now, None, "none", 0)
    <3>1. miss = Moved(asked, "user")
      BY DEF Moved
    <3> HIDE DEF asked, miss, entry, token, p
    <3> QED BY <1>4, <1>8, <3>1, CheckUpdates
  <2> HIDE DEF r, asked, hit, miss, entry, token, p
  <2>2. /\ IsCheck(r) /\ r.pc = "user" /\ r.token = token /\ r.project = p /\ r.since = now
    BY <2>1 DEF CheckOf, IsCheck
  <2>3. KeyOf(r) = k
    BY <1>1, <2>2 DEF KeyOf
  <2>4. request'[c] = r /\ OnlyCheck(c)
    BY <1>2 DEF IInv, RequestInv, OnlyCheck
  <2>5. Sound(request[c])'
    BY <1>5, <2>2, <2>3, <2>4 DEF Sound
  <2> QED BY <1>2, <2>4, <2>5, OneCheck, SameCache
<1> QED BY <1>7, <1>8

(* The three statements of scanledger's check.                             *)
LEMMA ReadUserStep ==
  ASSUME IInv, [Next]_vars, NEW c \in Clients, ReadUser(c)
  PROVE  CacheInv' /\ RequestInv'
<1> DEFINE was == request[c]
           k == KeyOf(was)
           owner == {u \in Users : Owns(u, was.token)}
           u == CHOOSE u \in owner : TRUE
           r == IF owner = {} THEN Back(c, "unauthorized")
                ELSE IF was.project = None THEN [Back(c, "ok") EXCEPT !.user = u]
                ELSE [was EXCEPT !.pc = "project", !.user = u]
<1>1. /\ request' = [request EXCEPT ![c] = r] /\ up /\ was.pc = "user"
      /\ UNCHANGED <<up, now, cache, users, issued>>
  BY DEF ReadUser, db
<1>2. /\ IsCheck(was) /\ k \in Keys /\ was.since \in Nat /\ was.since <= now /\ now \in Nat
  BY <1>1 DEF IInv, DbInv, RequestInv, Sound
<1>3. /\ Noted(seen, now) /\ Grown(seen, seen') /\ k[1] = was.token /\ k[2] = was.project
      /\ Owned(k[1]) => seen.owned[k] = now
      /\ ~Allowed(k[1], k[2]) => seen.denied[k] = now
  BY <1>2, SeenStep DEF IInv, SeenInv, KeyOf
<1>4. request'[c] = r /\ OnlyCheck(c)
  BY <1>1 DEF IInv, RequestInv, OnlyCheck
<1>5. ASSUME owner = {} PROVE Sound(request[c])'
  <2>1. r = CheckOf("back", was.token, was.project, was.since, was.user, "unauthorized", was.at)
    <3>1. r = MovedBack(was, "back", "unauthorized")
      BY <1>5 DEF Back, MovedBack
    <3> HIDE DEF was, r
    <3> QED BY <1>2, <3>1, CheckUpdates
  <2> HIDE DEF r, was, k
  <2>2. /\ IsCheck(r) /\ r.pc = "back" /\ r.token = was.token /\ r.project = was.project
        /\ r.since = was.since /\ r.result = "unauthorized"
    BY <2>1 DEF CheckOf, IsCheck
  <2>3. KeyOf(r) = k
    BY <2>2 DEF KeyOf, k
  <2>4. ~Allowed(k[1], k[2])
    BY <1>3, <1>5 DEF Allowed
  <2>5. seen'.denied[k] >= r.since
    BY <1>2, <1>3, <2>2, <2>4 DEF Grown
  <2> QED BY <1>1, <1>2, <1>4, <2>2, <2>3, <2>5 DEF Sound, Facts, Results, Refusals
<1>6. ASSUME owner # {} PROVE Sound(request[c])'
  <2>1. u \in Users /\ Live(u) /\ users[u].token = was.token /\ Owns(u, was.token)
    <3>1. u \in owner
      BY <1>6
    <3> HIDE DEF u
    <3> QED BY <3>1 DEF Owns
  <2>2. Owned(k[1])
    BY <1>3, <2>1 DEF Owned
  <2>3. seen'.owned[k] >= was.since
    BY <1>2, <1>3, <2>2 DEF Grown
  <2> HIDE DEF u
  <2>4. CASE was.project = None
    <3>1. r = CheckOf("back", was.token, was.project, was.since, u, "ok", was.at)
      <4>1. r = MovedFound(was, "back", "ok", u)
        BY <1>6, <2>4 DEF Back, MovedFound
      <4> HIDE DEF was, r
      <4> QED BY <1>2, <4>1, CheckUpdates
    <3> HIDE DEF r, was, k
    <3>2. /\ IsCheck(r) /\ r.pc = "back" /\ r.token = was.token /\ r.project = was.project
          /\ r.since = was.since /\ r.result = "ok"
      BY <3>1 DEF CheckOf, IsCheck
    <3>3. KeyOf(r) = k
      BY <3>2 DEF KeyOf, k
    <3> QED BY <1>1, <1>2, <1>3, <1>4, <2>3, <2>4, <3>2, <3>3 DEF Sound, Facts, Results, Refusals
  <2>5. CASE was.project # None
    <3>1. r = CheckOf("project", was.token, was.project, was.since, u, was.result, was.at)
      <4>1. r = MovedUser(was, "project", u)
        BY <1>6, <2>5 DEF MovedUser
      <4> HIDE DEF was, r
      <4> QED BY <1>2, <4>1, CheckUpdates
    <3>2. was.token \in KnownTokens(issued)
      BY <2>1 DEF IInv, DbInv, HasTokens, Live
    <3>3. \A v \in Users : users[v].state = "live" /\ users[v].token = was.token => v = u
      BY <2>1 DEF IInv, DbInv, Rows, Distinct, Live
    <3> HIDE DEF r, was, k
    <3>4. /\ IsCheck(r) /\ r.pc = "project" /\ r.token = was.token /\ r.project = was.project
          /\ r.since = was.since /\ r.user = u
      BY <3>1 DEF CheckOf, IsCheck
    <3>5. KeyOf(r) = k
      BY <3>4 DEF KeyOf, k
    <3>6. Settled(users, issued, r)
      BY <2>1, <3>2, <3>3, <3>4 DEF Settled, Live
    <3> QED BY <1>1, <1>2, <1>4, <2>3, <2>5, <3>4, <3>5, <3>6 DEF Sound
  <2> QED BY <2>4, <2>5
<1>7. Sound(request[c])'
  BY <1>5, <1>6
<1> QED BY <1>1, <1>4, <1>7, OneCheck, SameCache

LEMMA ReadProjectStep ==
  ASSUME IInv, [Next]_vars, NEW c \in Clients, ReadProject(c)
  PROVE  CacheInv' /\ RequestInv'
<1> DEFINE was == request[c]
           k == KeyOf(was)
           r == IF was.project \notin projects THEN Back(c, "not_found")
                ELSE IF users[was.user].admin THEN Back(c, "ok")
                ELSE [was EXCEPT !.pc = "member"]
<1>1. /\ request' = [request EXCEPT ![c] = r] /\ up /\ was.pc = "project"
      /\ UNCHANGED <<up, now, cache, users, issued>>
  BY DEF ReadProject, db
<1>2. /\ IsCheck(was) /\ k \in Keys /\ was.since \in Nat /\ was.since <= now /\ now \in Nat
      /\ was.project # None /\ Settled(users, issued, was) /\ seen.owned[k] >= was.since
  BY <1>1 DEF IInv, DbInv, RequestInv, Sound
<1>3. /\ Noted(seen, now) /\ Grown(seen, seen') /\ k[1] = was.token /\ k[2] = was.project
      /\ ~Allowed(k[1], k[2]) => seen.denied[k] = now
  BY <1>2, SeenStep DEF IInv, SeenInv, KeyOf
<1>4. request'[c] = r /\ OnlyCheck(c)
  BY <1>1 DEF IInv, RequestInv, OnlyCheck
<1>5. was.user \in Users /\ was.project \in Projects
  BY <1>2, <1>3, AccessAssumption DEF Settled
<1>6. seen'.owned[k] >= was.since
  BY <1>2, <1>3 DEF Grown
<1>7. ASSUME was.project \notin projects PROVE Sound(request[c])'
  <2>1. r = CheckOf("back", was.token, was.project, was.since, was.user, "not_found", was.at)
    <3>1. r = MovedBack(was, "back", "not_found")
      BY <1>7 DEF Back, MovedBack
    <3> HIDE DEF was, r
    <3> QED BY <1>2, <3>1, CheckUpdates
  <2> HIDE DEF r, was, k
  <2>2. /\ IsCheck(r) /\ r.pc = "back" /\ r.token = was.token /\ r.project = was.project
        /\ r.since = was.since /\ r.result = "not_found"
    BY <2>1 DEF CheckOf, IsCheck
  <2>3. KeyOf(r) = k
    BY <2>2 DEF KeyOf, k
  <2>4. ~Allowed(k[1], k[2])
    BY <1>2, <1>3, <1>7 DEF Allowed, MayReach
  <2>5. seen'.denied[k] >= r.since
    BY <1>2, <1>3, <2>2, <2>4 DEF Grown
  <2> QED BY <1>1, <1>2, <1>4, <2>2, <2>3, <2>5 DEF Sound, Facts, Results, Refusals
<1>8. ASSUME was.project \in projects, users[was.user].admin PROVE Sound(request[c])'
  <2>1. r = CheckOf("back", was.token, was.project, was.since, was.user, "ok", was.at)
    <3>1. r = MovedBack(was, "back", "ok")
      BY <1>8 DEF Back, MovedBack
    <3> HIDE DEF was, r
    <3> QED BY <1>2, <3>1, CheckUpdates
  <2>2. MayReach(was.user, was.project)
    BY <1>8 DEF MayReach
  <2>3. <<was.user, was.project>> \in Reaches
    BY <1>5 DEF Reaches
  <2>4. seen'.reached[<<was.user, was.project>>] >= was.since
    <3>1. seen.reached[<<was.user, was.project>>] = now
      BY <2>2, <2>3 DEF IInv, SeenInv
    <3> HIDE DEF was
    <3> QED BY <1>2, <1>3, <2>3, <3>1 DEF Grown
  <2> HIDE DEF r, was, k
  <2>5. /\ IsCheck(r) /\ r.pc = "back" /\ r.token = was.token /\ r.project = was.project
        /\ r.since = was.since /\ r.result = "ok" /\ r.user = was.user
    BY <2>1 DEF CheckOf, IsCheck
  <2>6. KeyOf(r) = k
    BY <2>5 DEF KeyOf, k
  <2> QED BY <1>1, <1>2, <1>3, <1>4, <1>5, <1>6, <2>4, <2>5, <2>6 DEF Sound, Facts, Results, Refusals
<1>9. ASSUME was.project \in projects, ~users[was.user].admin PROVE Sound(request[c])'
  <2>1. r = CheckOf("member", was.token, was.project, was.since, was.user, was.result, was.at)
    <3>1. r = Moved(was, "member")
      BY <1>9 DEF Moved
    <3> HIDE DEF was, r
    <3> QED BY <1>2, <3>1, CheckUpdates
  <2> HIDE DEF r, was, k
  <2>2. /\ IsCheck(r) /\ r.pc = "member" /\ r.token = was.token /\ r.project = was.project
        /\ r.since = was.since /\ r.user = was.user
    BY <2>1 DEF CheckOf, IsCheck
  <2>3. KeyOf(r) = k
    BY <2>2 DEF KeyOf, k
  <2>4. Settled(users, issued, r)
    BY <1>2, <1>9, <2>2 DEF Settled
  <2> QED BY <1>1, <1>2, <1>4, <1>6, <2>2, <2>3, <2>4 DEF Sound
<1>10. Sound(request[c])'
  BY <1>7, <1>8, <1>9
<1> QED BY <1>1, <1>4, <1>10, OneCheck, SameCache

LEMMA ReadMemberStep ==
  ASSUME IInv, [Next]_vars, NEW c \in Clients, ReadMember(c)
  PROVE  CacheInv' /\ RequestInv'
<1> DEFINE was == request[c]
           k == KeyOf(was)
           result == IF <<was.project, was.user>> \in members THEN "ok" ELSE "forbidden"
           r == Back(c, result)
<1>1. /\ request' = [request EXCEPT ![c] = r] /\ up /\ was.pc = "member"
      /\ UNCHANGED <<up, now, cache, users, issued>>
  BY DEF ReadMember, db
<1>2. /\ IsCheck(was) /\ k \in Keys /\ was.since \in Nat /\ was.since <= now /\ now \in Nat
      /\ was.project # None /\ Settled(users, issued, was) /\ seen.owned[k] >= was.since
  BY <1>1 DEF IInv, DbInv, RequestInv, Sound
<1>3. /\ Noted(seen, now) /\ Grown(seen, seen') /\ k[1] = was.token /\ k[2] = was.project
      /\ ~Allowed(k[1], k[2]) => seen.denied[k] = now
  BY <1>2, SeenStep DEF IInv, SeenInv, KeyOf
<1>4. request'[c] = r /\ OnlyCheck(c)
  BY <1>1 DEF IInv, RequestInv, OnlyCheck
<1>5. was.user \in Users /\ was.project \in Projects /\ ~users[was.user].admin
  BY <1>1, <1>2, <1>3, AccessAssumption DEF Settled
<1>6. seen'.owned[k] >= was.since
  BY <1>2, <1>3 DEF Grown
<1>7. r = CheckOf("back", was.token, was.project, was.since, was.user, result, was.at)
  <2>1. r = MovedBack(was, "back", result)
    BY DEF Back, MovedBack
  <2> HIDE DEF was, r, result
  <2> QED BY <1>2, <2>1, CheckUpdates
<1>8. result = "ok" => seen'.reached[<<was.user, was.project>>] >= was.since
  <2>1. SUFFICES ASSUME <<was.project, was.user>> \in members
                 PROVE  seen'.reached[<<was.user, was.project>>] >= was.since
    OBVIOUS
  <2>2. was.project \in projects
    BY <2>1 DEF IInv, DbInv
  <2>3. MayReach(was.user, was.project) /\ <<was.user, was.project>> \in Reaches
    BY <1>5, <2>1, <2>2 DEF MayReach, Reaches
  <2>4. seen.reached[<<was.user, was.project>>] = now
    BY <2>3 DEF IInv, SeenInv
  <2> HIDE DEF was
  <2> QED BY <1>2, <1>3, <2>3, <2>4 DEF Grown
<1>9. result = "forbidden" => seen'.denied[k] >= was.since
  <2>1. SUFFICES ASSUME <<was.project, was.user>> \notin members
                 PROVE  seen'.denied[k] >= was.since
    OBVIOUS
  <2>2. \A u \in Users : Owns(u, was.token) => u = was.user
    BY <1>2 DEF Settled, Owns, Live
  <2>3. ~Allowed(k[1], k[2])
    BY <1>2, <1>3, <1>5, <2>1, <2>2 DEF Allowed, MayReach
  <2> HIDE DEF was, k
  <2> QED BY <1>2, <1>3, <2>3 DEF Grown
<1>10. result \in {"ok", "forbidden"}
  OBVIOUS
<1> HIDE DEF r, was, k, result
<1>11. /\ IsCheck(r) /\ r.pc = "back" /\ r.token = was.token /\ r.project = was.project
       /\ r.since = was.since /\ r.result = result /\ r.user = was.user
  BY <1>7 DEF CheckOf, IsCheck
<1>12. KeyOf(r) = k
  BY <1>11 DEF KeyOf, k
<1>13. Facts(seen', k, r.user, r.result, r.since)
  BY <1>3, <1>5, <1>6, <1>8, <1>9, <1>10, <1>11 DEF Facts, Refusals
<1>14. Sound(request[c])'
  BY <1>1, <1>2, <1>4, <1>10, <1>11, <1>12, <1>13 DEF Sound, Results, Refusals
<1> QED BY <1>1, <1>4, <1>14, OneCheck, SameCache

(* The answer is given and remembered.                                     *)
LEMMA ReturnStep ==
  ASSUME IInv, [Next]_vars, NEW c \in Clients, Return(c)
  PROVE  CacheInv' /\ RequestInv'
<1> DEFINE was == request[c]
           k == KeyOf(was)
           result == was.result
           user == was.user
           r == Answer(c, result, user)
           entry == [result |-> result, expires |-> ExpiresAt(c), user |-> user]
<1>1. /\ request' = [request EXCEPT ![c] = r] /\ was.pc = "back" /\ UNCHANGED <<up, now>>
      /\ cache' = IF result = "unreachable" THEN cache ELSE [cache EXCEPT ![k] = entry]
  BY DEF Return, Key, KeyOf
<1>2. /\ IsCheck(was) /\ k \in Keys /\ was.since \in Nat /\ was.since <= now /\ now \in Nat
      /\ result \in Results \ {"none"} /\ Facts(seen, k, user, result, was.since)
  BY <1>1 DEF IInv, DbInv, RequestInv, Sound
<1>3. Grown(seen, seen')
  BY SeenStep DEF IInv
<1>4. request'[c] = r /\ OnlyCheck(c)
  BY <1>1 DEF IInv, RequestInv, OnlyCheck
<1>5. r = CheckOf("answered", was.token, was.project, was.since, user, result, now)
  <2>1. r = MovedAnswer(was, "answered", result, user, now)
    BY DEF Answer, MovedAnswer
  <2> HIDE DEF was, r, result, user
  <2> QED BY <1>2, <2>1, CheckUpdates
<1>6. entry.result = result /\ entry.user = user /\ entry.expires = was.since + TTL
  BY DEF ExpiresAt
<1> HIDE DEF r, was, k, result, user, entry
<1>7. /\ IsCheck(r) /\ r.pc = "answered" /\ r.token = was.token /\ r.project = was.project
      /\ r.since = was.since /\ r.result = result /\ r.user = user /\ r.at = now
  BY <1>5 DEF CheckOf, IsCheck
<1>8. KeyOf(r) = k
  BY <1>7 DEF KeyOf, k
<1>9. Since(r) \in Int /\ Since(r) <= was.since
  BY <1>2, <1>7, AccessAssumption DEF Since
<1>10. Facts(seen', k, user, result, Since(r))
  BY <1>2, <1>3, <1>9, FactsKept
<1>11. Sound(request[c])'
  BY <1>1, <1>2, <1>4, <1>7, <1>8, <1>10 DEF Sound
<1>12. RequestInv'
  BY <1>1, <1>4, <1>11, OneCheck
<1>13. CASE result = "unreachable"
  BY <1>1, <1>12, <1>13, SameCache
<1>14. CASE result # "unreachable"
  <2>1. cache = [i \in Keys |-> cache[i]]
    BY DEF IInv, CacheInv
  <2>2. cache' = [i \in Keys |-> cache'[i]] /\ cache'[k] = entry
        /\ \A i \in Keys : i # k => cache'[i] = cache[i]
    BY <1>1, <1>2, <1>14, <2>1
  <2>3. was.since \in Int /\ (was.since + TTL) - TTL = was.since /\ was.since + TTL \in Nat
    BY <1>2, AccessAssumption
  <2>4. Facts(seen', k, user, result, was.since)
    BY <1>2, <1>3, <2>3, FactsKept
  <2>5. /\ cache'[k].result \in {"none", "ok"} \cup Refusals
        /\ cache'[k].expires \in Nat
        /\ Facts(seen', k, cache'[k].user, cache'[k].result, cache'[k].expires - TTL)
    BY <1>2, <1>6, <1>14, <2>2, <2>3, <2>4 DEF Results
  <2>6. ASSUME NEW i \in Keys, i # k
        PROVE  /\ cache'[i].result \in {"none", "ok"} \cup Refusals
               /\ cache'[i].expires \in Nat
               /\ Facts(seen', i, cache'[i].user, cache'[i].result, cache'[i].expires - TTL)
    <3>1. cache'[i] = cache[i]
      BY <2>2, <2>6
    <3> QED BY <3>1, CacheKept
  <2> QED BY <1>12, <2>2, <2>5, <2>6 DEF CacheInv
<1> QED BY <1>13, <1>14

LEMMA UnreachableStep ==
  ASSUME IInv, [Next]_vars, NEW c \in Clients, Unreachable(c)
  PROVE  CacheInv' /\ RequestInv'
<1> DEFINE was == request[c]
           k == KeyOf(was)
           r == Answer(c, "unreachable", None)
<1>1. /\ request' = [request EXCEPT ![c] = r] /\ was.pc # "idle" /\ UNCHANGED <<up, now, cache>>
  BY DEF Unreachable
<1>2. /\ IsCheck(was) /\ k \in Keys /\ was.since \in Nat /\ was.since <= now /\ now \in Nat
  BY <1>1 DEF IInv, DbInv, RequestInv, Sound
<1>3. request'[c] = r /\ OnlyCheck(c)
  BY <1>1 DEF IInv, RequestInv, OnlyCheck
<1>4. r = CheckOf("answered", was.token, was.project, was.since, None, "unreachable", now)
  <2>1. r = MovedAnswer(was, "answered", "unreachable", None, now)
    BY DEF Answer, MovedAnswer
  <2> HIDE DEF was, r
  <2> QED BY <1>2, <2>1, CheckUpdates
<1> HIDE DEF r, was, k
<1>5. /\ IsCheck(r) /\ r.pc = "answered" /\ r.token = was.token /\ r.project = was.project
      /\ r.since = was.since /\ r.result = "unreachable" /\ r.at = now
  BY <1>4 DEF CheckOf, IsCheck
<1>6. KeyOf(r) = k
  BY <1>5 DEF KeyOf, k
<1>7. Sound(request[c])'
  BY <1>1, <1>2, <1>3, <1>5, <1>6 DEF Sound, Facts, Refusals
<1> QED BY <1>1, <1>3, <1>7, OneCheck, SameCache

(* Steps that leave every check alone.                                     *)
LEMMA SameChecks ==
  ASSUME IInv, [Next]_vars, UNCHANGED request, up => up'
  PROVE  RequestInv'
<1>1. request' = [c \in Clients |-> request'[c]]
  BY DEF IInv, RequestInv
<1>2. ASSUME NEW c \in Clients PROVE Sound(request[c])'
  <2>1. request[c].pc \in {"project", "member"} => up'
    BY DEF IInv, RequestInv, Sound
  <2> QED BY <2>1, SoundKept
<1> QED BY <1>1, <1>2 DEF RequestInv

LEMMA StopStep ==
  ASSUME IInv, [Next]_vars, Stop
  PROVE  CacheInv' /\ RequestInv'
<1> DEFINE r(c) == IF request[c].pc \in {"user", "project", "member"}
                   THEN [request[c] EXCEPT !.pc = "back", !.result = "unreachable"]
                   ELSE request[c]
<1>1. request' = [c \in Clients |-> r(c)] /\ UNCHANGED <<now, cache>>
  BY DEF Stop
<1>2. ASSUME NEW c \in Clients PROVE Sound(request[c])'
  <2> DEFINE was == request[c]
             k == KeyOf(was)
             next == r(c)
  <2>1. request'[c] = next
    BY <1>1
  <2>2. CASE was.pc \in {"user", "project", "member"}
    <3>1. /\ IsCheck(was) /\ k \in Keys /\ was.since \in Nat /\ was.since <= now
      BY <2>2 DEF IInv, RequestInv, Sound
    <3>2. next = MovedBack(was, "back", "unreachable")
      BY <2>2 DEF MovedBack
    <3> HIDE DEF next, was, k, r
    <3>3. next = CheckOf("back", was.token, was.project, was.since, was.user, "unreachable", was.at)
      BY <3>1, <3>2, CheckUpdates
    <3>4. /\ IsCheck(next) /\ next.pc = "back" /\ next.token = was.token
          /\ next.project = was.project /\ next.since = was.since /\ next.result = "unreachable"
      BY <3>3 DEF CheckOf, IsCheck
    <3>5. KeyOf(next) = k
      BY <3>4 DEF KeyOf, k
    <3> QED BY <1>1, <2>1, <3>1, <3>4, <3>5 DEF Sound, Facts, Results, Refusals
  <2>3. CASE was.pc \notin {"user", "project", "member"}
    <3>1. request'[c] = request[c]
      BY <2>1, <2>3
    <3> QED BY <2>3, <3>1, SoundKept
  <2> QED BY <2>2, <2>3
<1>3. request' = [c \in Clients |-> request'[c]]
  <2> HIDE DEF r
  <2> QED BY <1>1
<1> QED BY <1>1, <1>2, <1>3, SameCache DEF RequestInv

LEMMA Nothing ==
  /\ IsCheck(NoCheck) /\ NoCheck.pc = "idle"
  /\ NoEntry.result = "none" /\ NoEntry.expires = 0
BY DEF NoCheck, NoEntry, IsCheck, CheckOf

LEMMA RestartStep ==
  ASSUME IInv, Restart
  PROVE  CacheInv' /\ RequestInv'
<1>1. cache' = [k \in Keys |-> NoEntry] /\ request' = [c \in Clients |-> NoCheck]
  BY DEF Restart
<1>2. /\ \A k \in Keys : cache'[k] = NoEntry
      /\ \A c \in Clients : request'[c] = NoCheck
  BY <1>1
<1>3. /\ cache' = [k \in Keys |-> cache'[k]] /\ request' = [c \in Clients |-> request'[c]]
  BY <1>1
<1>4. CacheInv'
  BY <1>2, <1>3, Nothing DEF CacheInv, Facts, Refusals
<1>5. ASSUME NEW c \in Clients PROVE Sound(request[c])'
  <2>1. request'[c] = NoCheck
    BY <1>2
  <2> QED BY <2>1, Nothing DEF Sound
<1>6. RequestInv'
  BY <1>3, <1>5 DEF RequestInv
<1> QED BY <1>4, <1>6

LEMMA TickStep ==
  ASSUME IInv, [Next]_vars, Tick
  PROVE  CacheInv' /\ RequestInv'
<1>1. /\ cache' = [k \in Keys |-> IF cache[k].expires > now' THEN cache[k] ELSE NoEntry]
      /\ request' = [c \in Clients |-> IF request[c].pc = "answered" THEN NoCheck ELSE request[c]]
      /\ UNCHANGED up
  BY DEF Tick, db
<1>2. /\ cache' = [k \in Keys |-> cache'[k]] /\ request' = [c \in Clients |-> request'[c]]
  BY <1>1
<1>3. ASSUME NEW k \in Keys
      PROVE  /\ cache'[k].result \in {"none", "ok"} \cup Refusals
             /\ cache'[k].expires \in Nat
             /\ Facts(seen', k, cache'[k].user, cache'[k].result, cache'[k].expires - TTL)
  <2>1. CASE cache[k].expires > now'
    <3>1. cache'[k] = cache[k]
      BY <1>1, <2>1
    <3> QED BY <3>1, CacheKept
  <2>2. CASE ~(cache[k].expires > now')
    <3>1. cache'[k] = NoEntry
      BY <1>1, <2>2
    <3> QED BY <3>1, Nothing DEF Facts, Refusals
  <2> QED BY <2>1, <2>2
<1>4. ASSUME NEW c \in Clients PROVE Sound(request[c])'
  <2>1. CASE request[c].pc = "answered"
    <3>1. request'[c] = NoCheck
      BY <1>1, <2>1
    <3> QED BY <3>1, Nothing DEF Sound
  <2>2. CASE request[c].pc # "answered"
    <3>1. request'[c] = request[c]
      BY <1>1, <2>2
    <3>2. request[c].pc \in {"project", "member"} => up'
      BY <1>1 DEF IInv, RequestInv, Sound
    <3> QED BY <3>1, <3>2, SoundKept
  <2> QED BY <2>1, <2>2
<1> QED BY <1>2, <1>3, <1>4 DEF CacheInv, RequestInv

-----------------------------------------------------------------------------
LEMMA InvInit == Init => IInv
<1>1. SUFFICES ASSUME Init PROVE CacheInv /\ RequestInv
  BY DbInit, SeenInit DEF IInv
<1>2. cache = [k \in Keys |-> NoEntry] /\ request = [c \in Clients |-> NoCheck]
  BY <1>1 DEF Init
<1>3. /\ \A k \in Keys : cache[k] = NoEntry
      /\ \A c \in Clients : request[c] = NoCheck
  BY <1>2
<1>4. /\ cache = [k \in Keys |-> cache[k]] /\ request = [c \in Clients |-> request[c]]
  BY <1>2
<1>5. CacheInv
  BY <1>3, <1>4, Nothing DEF CacheInv, Facts, Refusals
<1>6. ASSUME NEW c \in Clients PROVE Sound(request[c])
  <2>1. request[c] = NoCheck
    BY <1>3
  <2> QED BY <2>1, Nothing DEF Sound
<1>7. RequestInv
  BY <1>4, <1>6 DEF RequestInv
<1> QED BY <1>5, <1>7

LEMMA InvStep == IInv /\ [Next]_vars => IInv'
<1>1. SUFFICES ASSUME IInv, [Next]_vars PROVE CacheInv' /\ RequestInv'
  BY DbStep, SeenStep DEF IInv
<1> DEFINE Goal == CacheInv' /\ RequestInv'
<1>2. ASSUME UNCHANGED <<cache, request>>, up => up' PROVE Goal
  BY <1>1, <1>2, SameChecks, SameCache
<1>3. ASSUME Admin PROVE Goal
  <2>1. CASE Stop
    BY <1>1, <2>1, StopStep
  <2>2. CASE \E env \in Configs : Start(env)
    <3>1. UNCHANGED <<cache, request>> /\ ~up
      BY <2>2 DEF Start
    <3> QED BY <1>2, <3>1
  <2>3. CASE \/ \E name \in Names, admin \in BOOLEAN, s \in Lifetimes : CreateUser(name, admin, s)
             \/ \E u \in Users : DeleteUser(u) \/ (\E s \in Lifetimes : RotateToken(u, s)) \/ CreateProject(u)
             \/ \E p \in Projects : \/ DeleteProject(p)
                                    \/ \E u \in Users : AddMember(p, u) \/ RemoveMember(p, u)
    <3>1. UNCHANGED <<up, cache, request>>
      BY <2>3 DEF CreateUser, DeleteUser, RotateToken, CreateProject, DeleteProject,
         AddMember, RemoveMember
    <3> QED BY <1>2, <3>1
  <2> HIDE DEF Goal
  <2> QED BY <1>3, <2>1, <2>2, <2>3 DEF Admin
<1>4. ASSUME NEW c \in Clients, Check(c) PROVE Goal
  BY <1>1, <1>4, AskStep, ReadUserStep, ReadProjectStep, ReadMemberStep, ReturnStep,
     UnreachableStep DEF Check
<1>5. ASSUME Restart PROVE Goal
  BY <1>1, <1>5, RestartStep
<1>6. ASSUME Tick PROVE Goal
  BY <1>1, <1>6, TickStep
<1>7. ASSUME UNCHANGED vars PROVE Goal
  BY <1>2, <1>7 DEF vars
<1> HIDE DEF Goal
<1> QED BY <1>1, <1>3, <1>4, <1>5, <1>6, <1>7 DEF Next, Goal

LEMMA InvHolds == Spec => []IInv
BY InvInit, InvStep, PTL DEF Spec

(* The schema's promises: no two users share a name or a token, whatever   *)
(* is generated, rotated and seeded, and no membership outlives its        *)
(* project or its user.                                                    *)
THEOREM TypeCorrect == Spec => []TypeOK
<1>1. IInv => TypeOK
  BY DEF IInv, DbInv, CacheInv, Refusals, Rows, Distinct, TypeOK, Live
<1> QED BY <1>1, InvHolds, PTL

(* tasker's access check: whatever it answers, from scanledger or from its *)
(* cache, was true since the request arrived or less than a TTL before.    *)
THEOREM AnswersRecent == Spec => []AnswersAreRecent
<1>1. ASSUME IInv PROVE AnswersAreRecent
  <2> SUFFICES ASSUME NEW c \in Clients, request[c].pc = "answered"
               PROVE  LET r == request[c]
                      IN  CASE r.result = "ok" ->
                                 /\ seen.owned[<<r.token, r.project>>] >= Since(r)
                                 /\ r.project # None =>
                                      seen.reached[<<r.user, r.project>>] >= Since(r)
                            [] r.result \in {"unauthorized", "forbidden", "not_found"} ->
                                 seen.denied[<<r.token, r.project>>] >= Since(r)
                            [] OTHER -> TRUE
    BY DEF AnswersAreRecent
  <2> DEFINE r == request[c]
             k == <<r.token, r.project>>
  <2>1. Facts(seen, k, r.user, r.result, Since(r)) /\ k[2] = r.project
    BY <1>1 DEF IInv, RequestInv, Sound, KeyOf
  <2>2. r.result = "ok" =>
          /\ seen.owned[k] >= Since(r)
          /\ r.project # None => seen.reached[<<r.user, r.project>>] >= Since(r)
    BY <2>1 DEF Facts
  <2>3. r.result \in {"unauthorized", "forbidden", "not_found"} => seen.denied[k] >= Since(r)
    BY <2>1 DEF Facts, Refusals
  <2> HIDE DEF r
  <2> QED BY <2>2, <2>3 DEF r
<1> QED BY <1>1, InvHolds, PTL
=============================================================================

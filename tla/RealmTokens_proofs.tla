------------------------ MODULE RealmTokens_proofs ------------------------
(***************************************************************************)
(* Proofs about RealmTokens, for any workers, scopes, names, permissions   *)
(* and bounds, and about RealmScope, for names of any length.              *)
(***************************************************************************)
EXTENDS RealmTokens, RealmScope, SequenceTheorems, TLAPS

(***************************************************************************)
(* Tables                                                                  *)
(***************************************************************************)
\* A row put into a table leaves a table.
LEMMA PutTable ==
    ASSUME NEW t, NEW ids, NEW rows, IsTable(t, ids, rows),
           NEW i \in ids, NEW row \in rows
    PROVE  IsTable(Put(t, i, row), ids, rows)
BY DEF IsTable, Put, Ids

\* So does dropping rows.
LEMMA DropTable ==
    ASSUME NEW t, NEW ids, NEW rows, IsTable(t, ids, rows), NEW S
    PROVE  IsTable(Drop(t, S), ids, rows)
BY DEF IsTable, Drop, Ids

(***************************************************************************)
(* The kind of a task tells which fields it has.                           *)
(***************************************************************************)
\* Tasks of the handlers that work on an account.
LEMMA AccountTaskKind ==
    ASSUME NEW t \in Task, t.k \in AccountOps PROVE t \in AccountTask
BY DEF Task, Idle, AccountTask, RealmTask, RequestTask, TokenTask, CallTask,
       AccountOps, RealmOps

\* Tasks of the handlers that set the status of a realm.
LEMMA RealmTaskKind ==
    ASSUME NEW t \in Task, t.k \in RealmOps \cup {"preapprove"}
    PROVE  t \in RealmTask
BY DEF Task, Idle, AccountTask, RealmTask, RequestTask, TokenTask, CallTask,
       AccountOps, RealmOps

\* Tasks of request_realm.
LEMMA RequestTaskKind ==
    ASSUME NEW t \in Task
    PROVE  /\ t.k = "newRealm" => t \in [k : {"newRealm"}, owner : AccountIds,
                     scope : Scopes, perms : Grants, admin : BOOLEAN]
           /\ t.k = "firstRealm" => t \in [k : {"firstRealm"},
                     owner : AccountIds, scope : Scopes, perms : Grants]
           /\ t.k = "rerequest" => t \in [k : {"rerequest"}, id : RealmIds,
                     old : Grants, perms : Grants, admin : BOOLEAN]
BY DEF Task, Idle, AccountTask, RealmTask, RequestTask, TokenTask, CallTask,
       AccountOps, RealmOps

\* Tasks of create_token and revoke_token.
LEMMA TokenTaskKind ==
    ASSUME NEW t \in Task
    PROVE  /\ t.k = "newToken" => t \in [k : {"newToken"}, realm : RealmIds,
                     name : Names, perms : SUBSET Perms, alias : 1 .. MaxAlias]
           /\ t.k = "revokeToken" => t \in [k : {"revokeToken"}, id : TokenIds]
BY DEF Task, Idle, AccountTask, RealmTask, RequestTask, TokenTask, CallTask,
       AccountOps, RealmOps

\* Tasks of an API request.
LEMMA CallTaskKind ==
    ASSUME NEW t \in Task
    PROVE  /\ t.k = "findToken" => t \in [k : {"findToken"}, secret : Secrets,
                     live : BOOLEAN, id : AccountIds]
           /\ t.k = "checkRealm" => t \in [k : {"checkRealm"},
                     secret : Secrets, live : BOOLEAN, id : AccountIds,
                     realm : RealmIds, perms : SUBSET Perms]
           /\ t.k = "serve" => t \in [k : {"serve"}, secret : Secrets,
                     live : BOOLEAN, id : AccountIds, realm : RealmIds,
                     perm : Perms, allowed : Grants]
BY DEF Task, Idle, AccountTask, RealmTask, RequestTask, TokenTask, CallTask,
       AccountOps, RealmOps

(***************************************************************************)
(* Type correctness                                                        *)
(***************************************************************************)
USE DEF AccountIds, RealmIds, TokenIds

\* An alias generated now is a legal one.
LEMMA NewAccountTable ==
    ASSUME TypeOK, NEW i, NEW active \in BOOLEAN, InsertAccount(i, active)
    PROVE  /\ IsTable(account', AccountIds, AccountRow)
           /\ aliases' \in 0 .. MaxAlias
           /\ i \in AccountIds
<1>1. MaxAlias \in Nat
  BY BoundsAssumption
<1>2. aliases' = aliases + 1 /\ aliases' \in 1 .. MaxAlias
  BY <1>1 DEF TypeOK, InsertAccount
<1>3. [active |-> active, alias |-> aliases'] \in AccountRow
  BY <1>2 DEF AccountRow
<1>4. i \in AccountIds /\ IsTable(account, AccountIds, AccountRow)
  BY DEF TypeOK, InsertAccount
<1>5. IsTable(Put(account, i, [active |-> active, alias |-> aliases']),
              AccountIds, AccountRow)
  BY <1>3, <1>4, PutTable
<1> QED
  BY <1>1, <1>2, <1>4, <1>5 DEF InsertAccount

\* The steps on accounts keep the types.
LEMMA AccountStepType ==
    ASSUME TypeOK, NEW w \in Workers, AccountStep(w) PROVE TypeOK'
<1> USE DEF TypeOK
<1>t. task[w] \in Task
  OBVIOUS
<1>i. Idle \in Task
  BY DEF Task
<1>a. ASSUME task[w].k \in AccountOps PROVE task[w] \in AccountTask
  BY <1>a, <1>t, AccountTaskKind
<1>1. ASSUME NEW k \in AccountOps, NEW i \in AccountIds, LoadAccount(w, k, i)
      PROVE  TypeOK'
  <2>1. RealmsOf(i) \subseteq RealmIds
    BY DEF RealmsOf, IsTable
  <2>2. TokensIn(RealmsOf(i)) \subseteq TokenIds
    BY DEF TokensIn, IsTable
  <2> DEFINE t == [k |-> k, id |-> i,
                   rs |-> IF k \in {"delete", "bulkDelete"}
                            THEN RealmsOf(i) ELSE {},
                   ts |-> IF k \in {"bulkDelete", "regenerate"}
                            THEN TokensIn(RealmsOf(i)) ELSE {}]
  <2>3. t \in AccountTask
    BY <2>1, <2>2 DEF AccountTask
  <2>4. task' \in [Workers -> Task]
    BY <1>1, <2>3 DEF LoadAccount, Begin, Task
  <2> QED
    BY <1>1, <2>4 DEF LoadAccount
<1>2. ASSUME CommitApproveAccount(w) PROVE TypeOK'
  <2>1. task[w].id \in AccountIds
    BY <1>2, <1>a DEF CommitApproveAccount, AccountOps, AccountTask
  <2>2. IsTable(account', AccountIds, AccountRow)
    BY <1>2, <2>1, ZenonT(60) DEF CommitApproveAccount, IsTable, Ids, AccountRow
  <2>3. IsTable(realm', RealmIds, RealmRow)
    BY <1>2, <2>1 DEF CommitApproveAccount, IsTable, Ids, RealmRow
  <2> QED
    BY <1>2, <2>2, <2>3, <1>i DEF CommitApproveAccount, Finish
<1>3. ASSUME CommitRejectAccount(w) PROVE TypeOK'
  BY <1>3, <1>i, DropTable DEF CommitRejectAccount, Finish
<1>4. ASSUME CommitSetActive(w) PROVE TypeOK'
  <2>1. IsTable(account', AccountIds, AccountRow)
    BY <1>4 DEF CommitSetActive, IsTable, Ids, AccountRow
  <2> QED
    BY <1>4, <2>1, <1>i DEF CommitSetActive, Finish
<1>5. ASSUME CommitDeleteAccount(w) PROVE TypeOK'
  BY <1>5, <1>i, DropTable DEF CommitDeleteAccount, Finish
<1>6. ASSUME CommitBulkDelete(w) PROVE TypeOK'
  BY <1>6, <1>i, DropTable DEF CommitBulkDelete, Finish
<1>7. ASSUME CommitRegenerateAlias(w) PROVE TypeOK'
  <2>1. aliases' \in 0 .. MaxAlias
    BY <1>7, BoundsAssumption DEF CommitRegenerateAlias
  <2>2. IsTable(account', AccountIds, AccountRow)
    BY <1>7, <2>1, BoundsAssumption
       DEF CommitRegenerateAlias, IsTable, Ids, AccountRow
  <2> QED
    BY <1>7, <2>1, <2>2, <1>i, DropTable DEF CommitRegenerateAlias, Finish
<1>8. ASSUME NEW i \in AccountIds, NEW scope \in Scopes, NEW perms \in Grants,
             CreateAccountWithRealm(w, i, scope, perms)
      PROVE  TypeOK'
  <2>1. [k |-> "firstRealm", owner |-> i, scope |-> scope, perms |-> perms] \in Task
    BY DEF Task, RequestTask
  <2>2. task' \in [Workers -> Task]
    BY <1>8, <2>1 DEF CreateAccountWithRealm, Begin
  <2> QED
    BY <1>8, <2>2, NewAccountTable DEF CreateAccountWithRealm
<1> QED
  BY <1>1, <1>2, <1>3, <1>4, <1>5, <1>6, <1>7, <1>8 DEF AccountStep

\* The steps on realms keep the types.
LEMMA RealmStepType ==
    ASSUME TypeOK, NEW w \in Workers, RealmStep(w) PROVE TypeOK'
<1> USE DEF TypeOK
<1>t. task[w] \in Task
  OBVIOUS
<1>i. Idle \in Task
  BY DEF Task
<1>1. ASSUME NEW i \in AccountIds, NEW scope \in Scopes, NEW perms \in Grants,
             NEW admin \in BOOLEAN, LoadRequest(w, i, scope, perms, admin)
      PROVE  TypeOK'
  <2>1. \A r \in RealmsOf(i) : r \in RealmIds /\ realm[r].perms \in Grants
    BY DEF RealmsOf, IsTable, RealmRow, Ids
  <2>2. task' \in [Workers -> Task]
    <3>1. CASE Begin(w, [k |-> "newRealm", owner |-> i, scope |-> scope,
                         perms |-> perms, admin |-> admin])
      <4>1. [k |-> "newRealm", owner |-> i, scope |-> scope,
             perms |-> perms, admin |-> admin] \in Task
        BY DEF Task, RequestTask
      <4> QED
        BY <3>1, <4>1 DEF Begin
    <3>2. ASSUME NEW r \in RealmsOf(i),
                 Begin(w, [k |-> "rerequest", id |-> r, old |-> realm[r].perms,
                           perms |-> perms, admin |-> admin])
          PROVE  task' \in [Workers -> Task]
      <4>1. [k |-> "rerequest", id |-> r, old |-> realm[r].perms,
             perms |-> perms, admin |-> admin] \in Task
        BY <2>1 DEF Task, RequestTask
      <4> QED
        BY <3>2, <4>1 DEF Begin
    <3> QED
      BY <1>1, <3>1, <3>2 DEF LoadRequest
  <2> QED
    BY <1>1, <2>2 DEF LoadRequest
<1>p. ASSUME NEW r \in RealmIds, ThenApprove(w, r)
      PROVE  task' \in [Workers -> Task]
  <2>1. [k |-> "preapprove", id |-> r] \in Task
    BY DEF Task, RealmTask
  <2> QED
    BY <1>p, <2>1, <1>i DEF ThenApprove, Finish
<1>2. ASSUME CommitNewRealm(w) PROVE TypeOK'
  <2>1. /\ task[w].owner \in AccountIds /\ task[w].scope \in Scopes
        /\ task[w].perms \in Grants
    BY <1>2, <1>t, RequestTaskKind DEF CommitNewRealm
  <2>2. ASSUME NEW r \in RealmIds, ThenApprove(w, r),
               realm' = Put(realm, r, [owner  |-> task[w].owner,
                                       scope  |-> task[w].scope,
                                       status |-> "pending",
                                       perms  |-> task[w].perms])
        PROVE  IsTable(realm', RealmIds, RealmRow) /\ task' \in [Workers -> Task]
    BY <2>1, <2>2, <1>p, PutTable DEF RealmRow
  <2> QED
    BY <1>2, <2>2, <1>i DEF CommitNewRealm, Finish
<1>f. ASSUME CommitFirstRealm(w) PROVE TypeOK'
  <2>1. /\ task[w].owner \in AccountIds /\ task[w].scope \in Scopes
        /\ task[w].perms \in Grants
    BY <1>f, <1>t, RequestTaskKind DEF CommitFirstRealm
  <2>2. ASSUME NEW r \in RealmIds,
               realm' = Put(realm, r, [owner  |-> task[w].owner,
                                       scope  |-> task[w].scope,
                                       status |-> "approved",
                                       perms  |-> task[w].perms])
        PROVE  IsTable(realm', RealmIds, RealmRow)
    BY <2>1, <2>2, PutTable DEF RealmRow
  <2> QED
    BY <1>f, <2>2, <1>i DEF CommitFirstRealm, Finish
<1>3. ASSUME CommitRerequest(w) PROVE TypeOK'
  <2>1. task[w].id \in RealmIds /\ task[w].perms \in Grants
    BY <1>3, <1>t, RequestTaskKind DEF CommitRerequest
  <2>2. IsTable(realm', RealmIds, RealmRow)
    BY <1>3, <2>1 DEF CommitRerequest, IsTable, Ids, RealmRow
  <2>3. task' \in [Workers -> Task]
    BY <1>3, <2>1, <1>p, <1>i DEF CommitRerequest, Finish
  <2> QED
    BY <1>3, <2>2, <2>3 DEF CommitRerequest
<1>4. ASSUME NEW k \in RealmOps, NEW r \in RealmIds, LoadRealm(w, k, r)
      PROVE  TypeOK'
  <2>1. [k |-> k, id |-> r] \in Task
    BY DEF Task, RealmTask
  <2> QED
    BY <1>4, <2>1 DEF LoadRealm, Begin
<1>5. ASSUME CommitRealmStatus(w) PROVE TypeOK'
  <2>1. IsTable(realm', RealmIds, RealmRow)
    BY <1>5 DEF CommitRealmStatus, IsTable, Ids, RealmRow
  <2> QED
    BY <1>5, <2>1, <1>i DEF CommitRealmStatus, Finish
<1> QED
  BY <1>1, <1>2, <1>3, <1>4, <1>5, <1>f DEF RealmStep, AddRealm

\* The steps on tokens keep the types.
LEMMA TokenStepType ==
    ASSUME TypeOK, NEW w \in Workers, TokenStep(w) PROVE TypeOK'
<1> USE DEF TypeOK
<1>t. task[w] \in Task
  OBVIOUS
<1>i. Idle \in Task
  BY DEF Task
<1>1. ASSUME NEW r \in RealmIds, NEW name \in Names, NEW perms \in SUBSET Perms,
             LoadNewToken(w, r, name, perms)
      PROVE  TypeOK'
  <2>1. account[realm[r].owner].alias \in 1 .. MaxAlias
    BY <1>1 DEF LoadNewToken, IsTable, Ids, AccountRow
  <2>2. [k |-> "newToken", realm |-> r, name |-> name, perms |-> perms,
         alias |-> account[realm[r].owner].alias] \in Task
    BY <2>1 DEF Task, TokenTask
  <2> QED
    BY <1>1, <2>2 DEF LoadNewToken, Begin
<1>2. ASSUME CommitNewToken(w) PROVE TypeOK'
  <2>1. /\ task[w].realm \in RealmIds /\ task[w].name \in Names
        /\ task[w].perms \in SUBSET Perms /\ task[w].alias \in 1 .. MaxAlias
    BY <1>2, <1>t, TokenTaskKind DEF CommitNewToken
  <2>2. ASSUME NEW n \in TokenIds, serial < MaxSerial, serial' = serial + 1,
               token' = Put(token, n,
                     [realm |-> task[w].realm, name |-> task[w].name,
                      secret |-> [alias |-> task[w].alias, serial |-> serial'],
                      perms |-> task[w].perms, active |-> TRUE,
                      expired |-> FALSE])
        PROVE  IsTable(token', TokenIds, TokenRow) /\ serial' \in 0 .. MaxSerial
    <3>1. serial' \in 1 .. MaxSerial
      BY <2>2, BoundsAssumption
    <3>2. [alias |-> task[w].alias, serial |-> serial'] \in Secrets
      BY <2>1, <3>1 DEF Secrets
    <3> DEFINE row == [realm |-> task[w].realm, name |-> task[w].name,
                       secret |-> [alias |-> task[w].alias, serial |-> serial'],
                       perms |-> task[w].perms, active |-> TRUE,
                       expired |-> FALSE]
    <3>3. row \in TokenRow
      BY <2>1, <3>2 DEF TokenRow
    <3>4. IsTable(Put(token, n, row), TokenIds, TokenRow)
      BY <3>3, PutTable
    <3> QED
      BY <2>2, <3>1, <3>4, BoundsAssumption
  <2> QED
    BY <1>2, <2>2, <1>i DEF CommitNewToken, Finish
<1>3. ASSUME NEW n \in TokenIds, LoadRevokeToken(w, n) PROVE TypeOK'
  <2>1. [k |-> "revokeToken", id |-> n] \in Task
    BY DEF Task, TokenTask
  <2> QED
    BY <1>3, <2>1 DEF LoadRevokeToken, Begin
<1>4. ASSUME CommitRevokeToken(w) PROVE TypeOK'
  <2>1. ASSUME task[w].id \in Ids(token)
        PROVE  IsTable(token', TokenIds, TokenRow)
    <3>1. token[task[w].id] \in TokenRow
      BY <2>1 DEF IsTable
    <3>2. [token[task[w].id] EXCEPT !.active = FALSE] \in TokenRow
      BY <3>1 DEF TokenRow
    <3>3. token' = [token EXCEPT ![task[w].id] =
                                   [token[task[w].id] EXCEPT !.active = FALSE]]
      BY <1>4, <2>1 DEF CommitRevokeToken
    <3> QED
      BY <2>1, <3>2, <3>3 DEF IsTable, Ids
  <2>2. ASSUME task[w].id \notin Ids(token)
        PROVE  IsTable(token', TokenIds, TokenRow)
    BY <1>4, <2>2 DEF CommitRevokeToken
  <2>3. IsTable(token', TokenIds, TokenRow)
    BY <2>1, <2>2
  <2> QED
    BY <1>4, <2>3, <1>i DEF CommitRevokeToken, Finish
<1> QED
  BY <1>1, <1>2, <1>3, <1>4 DEF TokenStep

\* The steps of an API request keep the types.
LEMMA RequestStepType ==
    ASSUME TypeOK, NEW w \in Workers, RequestStep(w) PROVE TypeOK'
<1> USE DEF TypeOK
<1>t. task[w] \in Task
  OBVIOUS
<1>i. Idle \in Task
  BY DEF Task
<1>1. ASSUME NEW s \in Secrets, FindAccount(w, s) PROVE TypeOK'
  <2>1. \A i \in Holders(s.alias) :
           [k |-> "findToken", secret |-> s, live |-> Live(s), id |-> i] \in Task
    <3>1. Live(s) \in BOOLEAN
      BY DEF Live
    <3> QED
      BY <3>1 DEF Holders, IsTable, Task, CallTask
  <2> QED
    BY <1>1, <2>1 DEF FindAccount, Begin
<1>2. ASSUME FindToken(w) PROVE TypeOK'
  <2>1. /\ task[w].secret \in Secrets /\ task[w].live \in BOOLEAN
        /\ task[w].id \in AccountIds
    BY <1>2, <1>t, CallTaskKind DEF FindToken
  <2>2. \A n \in Ids(token) :
           [k |-> "checkRealm", secret |-> task[w].secret,
            live |-> task[w].live, id |-> task[w].id,
            realm |-> token[n].realm, perms |-> token[n].perms] \in Task
    BY <2>1 DEF Task, CallTask, IsTable, TokenRow
  <2> QED
    BY <1>2, <2>2, <1>i DEF FindToken, TokensIn, Finish
<1>3. ASSUME NEW perm \in Perms, CheckRealm(w, perm) PROVE TypeOK'
  <2>1. /\ task[w].secret \in Secrets /\ task[w].live \in BOOLEAN
        /\ task[w].id \in AccountIds /\ task[w].realm \in RealmIds
    BY <1>3, <1>t, CallTaskKind DEF CheckRealm
  <2>2. ASSUME task[w].realm \in Ids(realm)
        PROVE  [k |-> "serve", secret |-> task[w].secret,
                live |-> task[w].live, id |-> task[w].id,
                realm |-> task[w].realm, perm |-> perm,
                allowed |-> realm[task[w].realm].perms] \in Task
    BY <2>1, <2>2 DEF Task, CallTask, IsTable, RealmRow
  <2> QED
    BY <1>3, <2>2, <1>i DEF CheckRealm, Finish
<1>4. ASSUME Serve(w) PROVE TypeOK'
  BY <1>4, <1>i DEF Serve, Finish
<1> QED
  BY <1>1, <1>2, <1>3, <1>4 DEF RequestStep

\* Every reachable state is well-formed: rows and tasks have their columns,
\* and ids, aliases and serials stay within their bounds.
THEOREM TypeCorrect == Spec => []TypeOK
<1>1. Init => TypeOK
  BY BoundsAssumption DEF Init, TypeOK, IsTable, Ids, Task
<1>2. TypeOK /\ [Next]_vars => TypeOK'
  <2> SUFFICES ASSUME TypeOK, [Next]_vars PROVE TypeOK'
    OBVIOUS
  <2>1. ASSUME NEW i \in AccountIds, NEW scope \in Scopes, NEW perms \in Grants,
               Register(i, scope, perms)
        PROVE  TypeOK'
    <3>1. InsertAccount(i, FALSE)
      BY <2>1 DEF Register
    <3>2. IsTable(realm', RealmIds, RealmRow)
      BY <2>1, PutTable DEF Register, TypeOK, RealmRow
    <3> QED
      BY <2>1, <3>1, <3>2, NewAccountTable DEF Register, TypeOK
  <2>2. ASSUME NEW i \in AccountIds, CreateAccountByAdmin(i) PROVE TypeOK'
    BY <2>2, NewAccountTable DEF CreateAccountByAdmin, TypeOK
  <2>3. ASSUME NEW n \in TokenIds, Expire(n) PROVE TypeOK'
    <3>1. IsTable(token', TokenIds, TokenRow)
      BY <2>3 DEF Expire, TypeOK, IsTable, Ids, TokenRow
    <3> QED
      BY <2>3, <3>1 DEF Expire, TypeOK
  <2>4. CASE UNCHANGED vars
    BY <2>4 DEF vars, TypeOK
  <2> QED
    BY <2>1, <2>2, <2>3, <2>4, AccountStepType, RealmStepType, TokenStepType,
       RequestStepType DEF Next
<1> QED
  BY <1>1, <1>2, PTL DEF Spec

(***************************************************************************)
(* What a step does to each table, and to the tasks.                       *)
(***************************************************************************)
CallKinds == {"findToken", "checkRealm", "serve"}

\* Rows keep their alias, but for one row that gets a new one.
AccountEffect ==
    /\ aliases' >= aliases
    /\ \A i \in Ids(account') :
         \/ i \in Ids(account) /\ account'[i].alias = account[i].alias
         \/ account'[i].alias = aliases + 1 /\ aliases' = aliases + 1
    /\ \A i, j \in Ids(account') :
         /\ i \notin Ids(account) \/ account'[i].alias # account[i].alias
         /\ j \notin Ids(account) \/ account'[j].alias # account[j].alias
         => i = j

\* Realms go with their account or to a bulk deletion that strays, and keep
\* their owner.
RealmEffect ==
    \A r \in Ids(realm) : realm[r].owner \in Ids(account') =>
        \/ r \in Ids(realm') /\ realm'[r].owner = realm[r].owner
        \/ \E b \in Workers : Strays(b, r)

\* Rows keep secret and realm and are never reactivated; a new row is the one
\* a pending create_token has prepared, with the next serial.
TokenEffect ==
    /\ serial' >= serial
    /\ \A n \in Ids(token') :
         \/ /\ n \in Ids(token)
            /\ token'[n].secret = token[n].secret
            /\ token'[n].realm = token[n].realm
            /\ token'[n].active => token[n].active
            /\ token[n].expired => token'[n].expired
         \/ \E w \in Workers :
              /\ task[w].k = "newToken"
              /\ token'[n].realm = task[w].realm
              /\ token'[n].secret = [alias |-> task[w].alias,
                                     serial |-> serial + 1]
              /\ serial' = serial + 1

\* The task of v changes to one that is prepared from the tables as they are.
TaskEffect(v) ==
    \/ task'[v] = task[v]
    \/ task'[v].k \notin CallKinds \cup {"newToken"}
    \/ /\ task'[v].k = "newToken"
       /\ task'[v].realm \in Ids(realm)
       /\ realm[task'[v].realm].owner \in Ids(account)
       /\ task'[v].alias = account[realm[task'[v].realm].owner].alias
       /\ UNCHANGED <<account, realm, token, aliases, serial>>
    \/ /\ task'[v].k = "findToken"
       /\ task'[v].secret.serial <= serial
       /\ task'[v].id \in Holders(task'[v].secret.alias)
       /\ task'[v].live = Live(task'[v].secret)
       /\ UNCHANGED <<account, realm, token, aliases, serial>>
    \/ /\ task[v].k = "findToken" /\ task'[v].k = "checkRealm"
       /\ task'[v].secret = task[v].secret
       /\ task'[v].id = task[v].id
       /\ task'[v].live = task[v].live
       /\ \E n \in Ids(token) : /\ token[n].secret = task[v].secret
                                /\ token[n].active /\ ~token[n].expired
                                /\ token[n].realm = task'[v].realm
       /\ task'[v].realm \in RealmsOf(task[v].id)
       /\ UNCHANGED <<account, realm, token, aliases, serial>>
    \/ /\ task[v].k = "checkRealm" /\ task'[v].k = "serve"
       /\ task'[v].secret = task[v].secret
       /\ task'[v].id = task[v].id
       /\ task'[v].live = task[v].live
       /\ task'[v].realm = task[v].realm
       /\ UNCHANGED <<account, realm, token, aliases, serial>>

\* A table keeps a column when the step leaves the table alone.
LEMMA SameTables ==
    ASSUME TypeOK, UNCHANGED <<account, realm, token, aliases, serial>>
    PROVE  AccountEffect /\ RealmEffect /\ TokenEffect
BY DEF AccountEffect, RealmEffect, TokenEffect, TypeOK

\* A new account has a new row id and a new alias.
LEMMA InsertEffect ==
    ASSUME TypeOK, NEW i \in AccountIds, NEW active \in BOOLEAN,
           InsertAccount(i, active)
    PROVE  AccountEffect
BY DEF InsertAccount, AccountEffect, NextRowId, Put, Ids, TypeOK

\* Each step on accounts has these effects.
LEMMA AccountStepEffect ==
    ASSUME TypeOK, NEW w \in Workers, AccountStep(w)
    PROVE  /\ AccountEffect /\ RealmEffect /\ TokenEffect
           /\ \A v \in Workers : TaskEffect(v)
<1> USE DEF TypeOK
<1>f. ASSUME Finish(w) PROVE \A v \in Workers : TaskEffect(v)
  BY <1>f DEF Finish, TaskEffect, Idle, CallKinds
<1>1. ASSUME NEW k \in AccountOps, NEW i \in AccountIds, LoadAccount(w, k, i)
      PROVE  /\ AccountEffect /\ RealmEffect /\ TokenEffect
             /\ \A v \in Workers : TaskEffect(v)
  <2>1. \A v \in Workers : TaskEffect(v)
    BY <1>1 DEF LoadAccount, Begin, TaskEffect, AccountOps, CallKinds
  <2> QED
    BY <1>1, <2>1, SameTables DEF LoadAccount
<1>2. ASSUME CommitApproveAccount(w)
      PROVE  AccountEffect /\ RealmEffect /\ TokenEffect /\ Finish(w)
  <2>1. AccountEffect /\ TokenEffect /\ Finish(w)
    BY <1>2 DEF CommitApproveAccount, AccountEffect, TokenEffect, IsTable, Ids,
                AccountRow
  <2>2. \A r \in Ids(realm) : r \in Ids(realm') /\ realm'[r].owner = realm[r].owner
    BY <1>2 DEF CommitApproveAccount, IsTable, Ids, RealmRow
  <2> QED
    BY <2>1, <2>2 DEF RealmEffect
<1>3. ASSUME CommitRejectAccount(w)
      PROVE  AccountEffect /\ RealmEffect /\ TokenEffect /\ Finish(w)
  BY <1>3 DEF CommitRejectAccount, AccountEffect, RealmEffect, TokenEffect,
              IsTable, Ids, AccountRow, RealmRow, Drop, RealmsOf
<1>4. ASSUME CommitSetActive(w)
      PROVE  AccountEffect /\ RealmEffect /\ TokenEffect /\ Finish(w)
  BY <1>4 DEF CommitSetActive, AccountEffect, RealmEffect, TokenEffect,
              IsTable, Ids, AccountRow
<1>5. ASSUME CommitDeleteAccount(w)
      PROVE  AccountEffect /\ RealmEffect /\ TokenEffect /\ Finish(w)
  BY <1>5 DEF CommitDeleteAccount, AccountEffect, RealmEffect, TokenEffect,
              IsTable, Ids, AccountRow, RealmRow, Drop, RealmsOf
<1>6. ASSUME CommitBulkDelete(w)
      PROVE  AccountEffect /\ RealmEffect /\ TokenEffect /\ Finish(w)
  <2>1. Finish(w) /\ task'[w] = Idle
    BY <1>6 DEF CommitBulkDelete, Finish
  <2>2. AccountEffect /\ TokenEffect
    BY <1>6 DEF CommitBulkDelete, AccountEffect, TokenEffect, IsTable, Ids,
                AccountRow, Drop
  <2>3. ASSUME NEW r \in Ids(realm), realm[r].owner \in Ids(account')
        PROVE  \/ r \in Ids(realm') /\ realm'[r].owner = realm[r].owner
               \/ \E b \in Workers : Strays(b, r)
    <3>1. realm[r].owner # task[w].id
      BY <1>6, <2>3 DEF CommitBulkDelete, Drop, Ids
    <3>2. CASE r \in task[w].rs
      BY <1>6, <2>1, <2>3, <3>1, <3>2 DEF CommitBulkDelete, Strays
    <3>3. CASE r \notin task[w].rs
      BY <1>6, <2>3, <3>3 DEF CommitBulkDelete, Drop, Ids
    <3> QED
      BY <3>2, <3>3
  <2> QED
    BY <2>1, <2>2, <2>3 DEF RealmEffect
<1>7. ASSUME CommitRegenerateAlias(w)
      PROVE  AccountEffect /\ RealmEffect /\ TokenEffect /\ Finish(w)
  BY <1>7 DEF CommitRegenerateAlias, AccountEffect, RealmEffect,
              TokenEffect, IsTable, Ids, AccountRow, Drop
<1>8. ASSUME NEW i \in AccountIds, NEW scope \in Scopes, NEW perms \in Grants,
             CreateAccountWithRealm(w, i, scope, perms)
      PROVE  /\ AccountEffect /\ RealmEffect /\ TokenEffect
             /\ \A v \in Workers : TaskEffect(v)
  <2>1. AccountEffect
    BY <1>8, InsertEffect DEF CreateAccountWithRealm
  <2>2. RealmEffect /\ TokenEffect
    BY <1>8 DEF CreateAccountWithRealm, RealmEffect, TokenEffect
  <2>3. \A v \in Workers : TaskEffect(v)
    BY <1>8 DEF CreateAccountWithRealm, Begin, TaskEffect, CallKinds
  <2> QED
    BY <2>1, <2>2, <2>3
<1> QED
  BY <1>f, <1>1, <1>2, <1>3, <1>4, <1>5, <1>6, <1>7, <1>8 DEF AccountStep

\* Each step on realms has these effects.
LEMMA RealmStepEffect ==
    ASSUME TypeOK, NEW w \in Workers, RealmStep(w)
    PROVE  /\ AccountEffect /\ RealmEffect /\ TokenEffect
           /\ \A v \in Workers : TaskEffect(v)
<1> USE DEF TypeOK
<1>f. ASSUME Finish(w) PROVE \A v \in Workers : TaskEffect(v)
  BY <1>f DEF Finish, TaskEffect, Idle, CallKinds
<1>p. ASSUME NEW r, ThenApprove(w, r) PROVE \A v \in Workers : TaskEffect(v)
  BY <1>p, <1>f DEF ThenApprove, TaskEffect, CallKinds
<1>1. ASSUME NEW i \in AccountIds, NEW scope \in Scopes, NEW perms \in Grants,
             NEW admin \in BOOLEAN, LoadRequest(w, i, scope, perms, admin)
      PROVE  /\ AccountEffect /\ RealmEffect /\ TokenEffect
             /\ \A v \in Workers : TaskEffect(v)
  <2>1. \A v \in Workers : TaskEffect(v)
    BY <1>1 DEF LoadRequest, Begin, TaskEffect, CallKinds
  <2> QED
    BY <1>1, <2>1, SameTables DEF LoadRequest
<1>a. ASSUME UNCHANGED <<account, aliases>> PROVE AccountEffect
  BY <1>a DEF AccountEffect
<1>b. ASSUME UNCHANGED <<token, serial>> PROVE TokenEffect
  BY <1>b DEF TokenEffect
<1>2. ASSUME CommitNewRealm(w)
      PROVE  RealmEffect /\ \A v \in Workers : TaskEffect(v)
  <2>1. CASE Finish(w) /\ UNCHANGED realm
    BY <2>1, <1>f DEF RealmEffect
  <2>2. ASSUME NEW r \in RealmIds, NewRealmId(r), ThenApprove(w, r),
               realm' = Put(realm, r, [owner  |-> task[w].owner,
                                       scope  |-> task[w].scope,
                                       status |-> "pending",
                                       perms  |-> task[w].perms])
        PROVE  RealmEffect /\ \A v \in Workers : TaskEffect(v)
    <3>1. r \notin Ids(realm)
      BY <2>2 DEF NewRealmId, NextRowId
    <3>2. RealmEffect
      BY <2>2, <3>1 DEF RealmEffect, NewRealmId, Put, Ids
    <3> QED
      BY <2>2, <3>2, <1>p
  <2> QED
    BY <1>2, <2>1, <2>2 DEF CommitNewRealm
<1>7. ASSUME CommitFirstRealm(w)
      PROVE  RealmEffect /\ Finish(w)
  <2>1. ASSUME UNCHANGED realm PROVE RealmEffect
    BY <2>1 DEF RealmEffect
  <2>2. ASSUME NEW r \in RealmIds, NewRealmId(r),
               realm' = Put(realm, r, [owner  |-> task[w].owner,
                                       scope  |-> task[w].scope,
                                       status |-> "approved",
                                       perms  |-> task[w].perms])
        PROVE  RealmEffect
    <3>1. r \notin Ids(realm)
      BY <2>2 DEF NewRealmId, NextRowId
    <3> QED
      BY <2>2, <3>1 DEF RealmEffect, NewRealmId, Put, Ids
  <2> QED
    BY <1>7, <2>1, <2>2 DEF CommitFirstRealm
<1>3. ASSUME CommitRerequest(w)
      PROVE  RealmEffect /\ \A v \in Workers : TaskEffect(v)
  <2>1. RealmEffect
    BY <1>3 DEF CommitRerequest, RealmEffect, IsTable, Ids, RealmRow
  <2> QED
    BY <1>3, <2>1, <1>f, <1>p DEF CommitRerequest
<1>4. ASSUME NEW k \in RealmOps, NEW r \in RealmIds, LoadRealm(w, k, r)
      PROVE  /\ AccountEffect /\ RealmEffect /\ TokenEffect
             /\ \A v \in Workers : TaskEffect(v)
  <2>1. \A v \in Workers : TaskEffect(v)
    BY <1>4 DEF LoadRealm, Begin, TaskEffect, RealmOps, CallKinds
  <2> QED
    BY <1>4, <2>1, SameTables DEF LoadRealm
<1>5. ASSUME CommitRealmStatus(w)
      PROVE  RealmEffect /\ \A v \in Workers : TaskEffect(v)
  <2>1. RealmEffect
    BY <1>5 DEF CommitRealmStatus, RealmEffect, IsTable, Ids, RealmRow
  <2> QED
    BY <1>5, <2>1, <1>f DEF CommitRealmStatus
<1>6. \/ CommitNewRealm(w) \/ CommitFirstRealm(w)
      \/ CommitRerequest(w) \/ CommitRealmStatus(w)
      => UNCHANGED <<account, aliases>> /\ UNCHANGED <<token, serial>>
  BY DEF CommitNewRealm, CommitFirstRealm, CommitRerequest, CommitRealmStatus
<1> QED
  BY <1>1, <1>2, <1>3, <1>4, <1>5, <1>6, <1>7, <1>a, <1>b, <1>f
     DEF RealmStep, AddRealm

\* Each step on tokens has these effects.
LEMMA TokenStepEffect ==
    ASSUME TypeOK, NEW w \in Workers, TokenStep(w)
    PROVE  /\ AccountEffect /\ RealmEffect /\ TokenEffect
           /\ \A v \in Workers : TaskEffect(v)
<1> USE DEF TypeOK
<1>f. ASSUME Finish(w) PROVE \A v \in Workers : TaskEffect(v)
  BY <1>f DEF Finish, TaskEffect, Idle, CallKinds
<1>a. ASSUME UNCHANGED <<account, realm, aliases>>
      PROVE  AccountEffect /\ RealmEffect
  BY <1>a DEF AccountEffect, RealmEffect
<1>1. ASSUME NEW r \in RealmIds, NEW name \in Names, NEW perms \in SUBSET Perms,
             LoadNewToken(w, r, name, perms)
      PROVE  /\ AccountEffect /\ RealmEffect /\ TokenEffect
             /\ \A v \in Workers : TaskEffect(v)
  <2>1. \A v \in Workers : TaskEffect(v)
    BY <1>1 DEF LoadNewToken, Begin, TaskEffect, CallKinds
  <2> QED
    BY <1>1, <2>1, SameTables DEF LoadNewToken
<1>2. ASSUME CommitNewToken(w) PROVE TokenEffect /\ Finish(w)
  <2>1. ASSUME NEW n \in TokenIds, serial < MaxSerial, serial' = serial + 1,
               task[w].k = "newToken",
               token' = Put(token, n,
                     [realm |-> task[w].realm, name |-> task[w].name,
                      secret |-> [alias |-> task[w].alias, serial |-> serial'],
                      perms |-> task[w].perms, active |-> TRUE,
                      expired |-> FALSE])
        PROVE  TokenEffect
    <3> DEFINE row == [realm |-> task[w].realm, name |-> task[w].name,
                       secret |-> [alias |-> task[w].alias, serial |-> serial'],
                       perms |-> task[w].perms, active |-> TRUE,
                       expired |-> FALSE]
    <3>0. token' = Put(token, n, row)
      BY <2>1
    <3>1. \A m \in Ids(token') : m # n => m \in Ids(token)
                                           /\ token'[m] = token[m]
      BY <3>0 DEF Put, Ids
    <3>2. token'[n] = row
      BY <3>0 DEF Put, Ids
    <3>3. /\ token'[n].realm = task[w].realm
          /\ token'[n].secret = [alias |-> task[w].alias, serial |-> serial + 1]
      BY <2>1, <3>2
    <3>4. serial' >= serial
      BY <2>1
    <3> HIDE DEF row
    <3> QED
      BY <2>1, <3>1, <3>3, <3>4, Zenon DEF TokenEffect
  <2>2. ASSUME UNCHANGED <<token, serial>> PROVE TokenEffect
    BY <2>2 DEF TokenEffect
  <2> QED
    BY <1>2, <2>1, <2>2 DEF CommitNewToken
<1>3. ASSUME NEW n \in TokenIds, LoadRevokeToken(w, n)
      PROVE  /\ AccountEffect /\ RealmEffect /\ TokenEffect
             /\ \A v \in Workers : TaskEffect(v)
  <2>1. \A v \in Workers : TaskEffect(v)
    BY <1>3 DEF LoadRevokeToken, Begin, TaskEffect, CallKinds
  <2> QED
    BY <1>3, <2>1, SameTables DEF LoadRevokeToken
<1>4. ASSUME CommitRevokeToken(w) PROVE TokenEffect /\ Finish(w)
  BY <1>4 DEF CommitRevokeToken, TokenEffect, IsTable, Ids, TokenRow
<1>5. CommitNewToken(w) \/ CommitRevokeToken(w) =>
        UNCHANGED <<account, realm, aliases>>
  BY DEF CommitNewToken, CommitRevokeToken
<1> QED
  BY <1>1, <1>2, <1>3, <1>4, <1>5, <1>a, <1>f DEF TokenStep

\* An API request changes its own task only.
LEMMA RequestStepEffect ==
    ASSUME TypeOK, NEW w \in Workers, RequestStep(w)
    PROVE  /\ AccountEffect /\ RealmEffect /\ TokenEffect
           /\ \A v \in Workers : TaskEffect(v)
<1> USE DEF TypeOK
<1>f. ASSUME Finish(w) PROVE \A v \in Workers : TaskEffect(v)
  BY <1>f DEF Finish, TaskEffect, Idle, CallKinds
<1>u. UNCHANGED <<account, realm, token, aliases, serial>>
  BY DEF RequestStep, FindAccount, FindToken, CheckRealm, Serve
<1>1. ASSUME NEW s \in Secrets, FindAccount(w, s)
      PROVE  \A v \in Workers : TaskEffect(v)
  BY <1>1 DEF FindAccount, Begin, TaskEffect, CallKinds
<1>2. ASSUME FindToken(w) PROVE \A v \in Workers : TaskEffect(v)
  <2>1. ASSUME NEW n \in Ids(token), token[n].secret = task[w].secret,
               token[n].active, ~token[n].expired,
               token[n].realm \in RealmsOf(task[w].id),
               task' = [task EXCEPT ![w] =
                     [k |-> "checkRealm", secret |-> task[w].secret,
                      live |-> task[w].live, id |-> task[w].id,
                      realm |-> token[n].realm, perms |-> token[n].perms]]
        PROVE  \A v \in Workers : TaskEffect(v)
    BY <1>2, <1>u, <2>1 DEF FindToken, TaskEffect, CallKinds
  <2> QED
    BY <1>2, <2>1, <1>f DEF FindToken, TokensIn
<1>3. ASSUME NEW perm \in Perms, CheckRealm(w, perm)
      PROVE  \A v \in Workers : TaskEffect(v)
  <2>1. ASSUME task' = [task EXCEPT ![w] =
                [k |-> "serve", secret |-> task[w].secret,
                 live |-> task[w].live, id |-> task[w].id,
                 realm |-> task[w].realm, perm |-> perm,
                 allowed |-> realm[task[w].realm].perms]]
        PROVE  \A v \in Workers : TaskEffect(v)
    BY <1>3, <1>u, <2>1 DEF CheckRealm, TaskEffect, CallKinds
  <2> QED
    BY <1>3, <2>1, <1>f DEF CheckRealm
<1>4. ASSUME Serve(w) PROVE \A v \in Workers : TaskEffect(v)
  BY <1>4, <1>f DEF Serve
<1> QED
  BY <1>1, <1>2, <1>3, <1>4, <1>u, SameTables DEF RequestStep

\* Every step has these effects.
LEMMA StepEffect ==
    ASSUME TypeOK, [Next]_vars
    PROVE  /\ AccountEffect /\ RealmEffect /\ TokenEffect
           /\ \A v \in Workers : TaskEffect(v)
<1>2. ASSUME NEW i \in AccountIds, NEW scope \in Scopes, NEW perms \in Grants,
             Register(i, scope, perms)
      PROVE  /\ AccountEffect /\ RealmEffect /\ TokenEffect
             /\ \A v \in Workers : TaskEffect(v)
  <2>1. AccountEffect
    BY <1>2, InsertEffect DEF Register
  <2>2. ASSUME NEW r \in RealmIds, NewRealmId(r),
               realm' = Put(realm, r, [owner |-> i, scope |-> scope,
                                       status |-> "pending", perms |-> perms])
        PROVE  RealmEffect
    <3>1. r \notin Ids(realm)
      BY <2>2 DEF NewRealmId, NextRowId
    <3> QED
      BY <2>2, <3>1 DEF RealmEffect, NewRealmId, Put, Ids
  <2>3. ASSUME realm' = realm PROVE RealmEffect
    BY <2>3 DEF RealmEffect
  <2>4. RealmEffect
    BY <1>2, <2>2, <2>3 DEF Register
  <2> QED
    BY <1>2, <2>1, <2>4 DEF Register, TokenEffect, TaskEffect, TypeOK
<1>3. ASSUME NEW i \in AccountIds, CreateAccountByAdmin(i)
      PROVE  /\ AccountEffect /\ RealmEffect /\ TokenEffect
             /\ \A v \in Workers : TaskEffect(v)
  <2>1. AccountEffect
    BY <1>3, InsertEffect DEF CreateAccountByAdmin
  <2>2. RealmEffect /\ TokenEffect
    BY <1>3 DEF CreateAccountByAdmin, RealmEffect, TokenEffect, TypeOK
  <2> QED
    BY <1>3, <2>1, <2>2 DEF CreateAccountByAdmin, TaskEffect
<1>4. ASSUME NEW n \in TokenIds, Expire(n)
      PROVE  /\ AccountEffect /\ RealmEffect /\ TokenEffect
             /\ \A v \in Workers : TaskEffect(v)
  <2>1. TokenEffect
    BY <1>4 DEF Expire, TokenEffect, TypeOK, IsTable, Ids, TokenRow
  <2> QED
    BY <1>4, <2>1 DEF Expire, AccountEffect, RealmEffect, TaskEffect, TypeOK
<1>5. CASE UNCHANGED vars
  BY <1>5, SameTables DEF vars, TaskEffect
<1> QED
  BY <1>2, <1>3, <1>4, <1>5, AccountStepEffect, RealmStepEffect,
     TokenStepEffect, RequestStepEffect DEF Next

(***************************************************************************)
(* Every token that still authenticates is in a realm of its own account.  *)
(***************************************************************************)
\* Aliases and serials in use were generated; an alias has one holder.
Fresh ==
    /\ \A i \in Ids(account) : account[i].alias <= aliases
    /\ \A i, j \in Ids(account) : account[i].alias = account[j].alias => i = j
    /\ \A n \in Ids(token) : /\ token[n].secret.alias <= aliases
                             /\ token[n].secret.serial <= serial
    /\ \A w \in Workers :
          /\ task[w].k = "newToken" => task[w].alias <= aliases
          /\ task[w].k \in CallKinds => /\ task[w].secret.alias <= aliases
                                        /\ task[w].secret.serial <= serial

\* The alias of a request is that of the account it has found, if it is
\* anybody's by now.
CallsHome ==
    \A w \in Workers : task[w].k \in CallKinds =>
        Holders(task[w].secret.alias) \subseteq {task[w].id}

\* A request that arrived with a dead secret finds no usable token.
CallsLive ==
    \A w \in Workers :
        /\ task[w].k \in CallKinds /\ ~task[w].live =>
              \A n \in Ids(token) : token[n].secret = task[w].secret =>
                                       ~token[n].active \/ token[n].expired
        /\ task[w].k \in {"checkRealm", "serve"} => task[w].live

LiveInv == TypeOK /\ Fresh /\ CallsLive
HomeInv == LiveInv /\ CallsHome

\* A step never gives an alias in use to another account.
LEMMA HoldersShrink ==
    ASSUME TypeOK, AccountEffect, NEW a \in Int, a <= aliases
    PROVE  Holders(a)' \subseteq Holders(a)
BY DEF AccountEffect, Holders, TypeOK

\* Aliases and serials of well-formed rows and tasks are numbers.
LEMMA AliasTypes ==
    ASSUME TypeOK
    PROVE  /\ \A i \in Ids(account) : account[i].alias \in Int
           /\ \A n \in Ids(token) : /\ token[n].secret.alias \in Int
                                    /\ token[n].secret.serial \in Int
           /\ \A w \in Workers :
                 /\ task[w].k = "newToken" => task[w].alias \in Int
                 /\ task[w].k \in CallKinds => /\ task[w].secret.alias \in Int
                                               /\ task[w].secret.serial \in Int
           /\ aliases \in Int /\ serial \in Int
<1>1. \A i \in Ids(account) : account[i].alias \in Int
  BY DEF TypeOK, IsTable, AccountRow
<1>2. \A n \in Ids(token) : /\ token[n].secret.alias \in Int
                           /\ token[n].secret.serial \in Int
  BY DEF TypeOK, IsTable, TokenRow, Secrets
<1>3. ASSUME NEW w \in Workers, task[w].k = "newToken"
      PROVE  task[w].alias \in Int
  BY <1>3, TokenTaskKind DEF TypeOK
<1>4. ASSUME NEW w \in Workers, task[w].k \in CallKinds
      PROVE  task[w].secret.alias \in Int /\ task[w].secret.serial \in Int
  <2>1. task[w].secret \in Secrets
    BY <1>4, CallTaskKind DEF TypeOK, CallKinds
  <2> QED
    BY <2>1 DEF Secrets
<1> QED
  BY <1>1, <1>2, <1>3, <1>4 DEF TypeOK

\* The parts of the invariant, one lemma each.
LEMMA FreshStep ==
    ASSUME TypeOK, TypeOK', Fresh, AccountEffect, TokenEffect,
           \A v \in Workers : TaskEffect(v)
    PROVE  Fresh'
<1>1. \A i \in Ids(account') : account'[i].alias <= aliases'
  BY AliasTypes DEF Fresh, AccountEffect, TypeOK
<1>2. \A i, j \in Ids(account') : account'[i].alias = account'[j].alias => i = j
  BY AliasTypes DEF Fresh, AccountEffect, TypeOK
<1>3. \A n \in Ids(token') : /\ token'[n].secret.alias <= aliases'
                             /\ token'[n].secret.serial <= serial'
  <2> SUFFICES ASSUME NEW n \in Ids(token')
               PROVE  /\ token'[n].secret.alias <= aliases'
                      /\ token'[n].secret.serial <= serial'
    OBVIOUS
  <2>1. CASE n \in Ids(token) /\ token'[n].secret = token[n].secret
    BY <2>1, AliasTypes DEF Fresh, AccountEffect, TokenEffect, TypeOK
  <2>2. ASSUME NEW w \in Workers, task[w].k = "newToken", serial' = serial + 1,
               token'[n].secret = [alias |-> task[w].alias, serial |-> serial + 1]
        PROVE  /\ token'[n].secret.alias <= aliases'
               /\ token'[n].secret.serial <= serial'
    BY <2>2, AliasTypes DEF Fresh, AccountEffect, TypeOK
  <2> QED
    BY <2>1, <2>2 DEF TokenEffect
<1>4. ASSUME NEW v \in Workers, task'[v].k = "newToken"
      PROVE  task'[v].alias <= aliases'
  BY <1>4, AliasTypes DEF Fresh, AccountEffect, TaskEffect, TypeOK, CallKinds
<1>5. ASSUME NEW v \in Workers, task'[v].k \in CallKinds
      PROVE  /\ task'[v].secret.alias <= aliases'
             /\ task'[v].secret.serial <= serial'
  <2>1. ASSUME task'[v].k = "findToken", task'[v].secret.serial <= serial,
               task'[v].id \in Holders(task'[v].secret.alias),
               UNCHANGED <<account, aliases, serial>>
        PROVE  /\ task'[v].secret.alias <= aliases'
               /\ task'[v].secret.serial <= serial'
    BY <2>1 DEF Holders, Fresh
  <2>2. ASSUME task[v].k \in CallKinds, task'[v].secret = task[v].secret
        PROVE  /\ task'[v].secret.alias <= aliases'
               /\ task'[v].secret.serial <= serial'
    BY <2>2, AliasTypes DEF Fresh, AccountEffect, TokenEffect, TypeOK
  <2> QED
    BY <1>5, <2>1, <2>2 DEF TaskEffect, CallKinds
<1> QED
  BY <1>1, <1>2, <1>3, <1>4, <1>5 DEF Fresh

\* Accounts keep their alias, and requests the account they have found.
LEMMA CallsHomeStep ==
    ASSUME TypeOK, Fresh, CallsHome, AccountEffect,
           \A v \in Workers : TaskEffect(v)
    PROVE  CallsHome'
<1> SUFFICES ASSUME NEW v \in Workers, task'[v].k \in CallKinds
             PROVE  Holders(task[v].secret.alias)' \subseteq {task'[v].id}
  BY DEF CallsHome
<1> DEFINE a == task'[v].secret.alias
           i == task'[v].id
<1>1. a \in Int /\ a <= aliases /\ Holders(a) \subseteq {i}
  <2>1. CASE task[v].k \in CallKinds /\ a = task[v].secret.alias
               /\ i = task[v].id
    BY <2>1, AliasTypes DEF Fresh, CallsHome
  <2>2. CASE i \in Holders(a)
    BY <2>2, AliasTypes DEF Fresh, Holders
  <2> QED
    BY <2>1, <2>2 DEF TaskEffect, CallKinds
<1>2. \A j \in Ids(account') : account'[j].alias = a => j = i
  BY <1>1, HoldersShrink DEF Holders
<1> QED
  BY <1>2 DEF Holders

\* What was dead when a request arrived stays unusable for it.
LEMMA CallsLiveStep ==
    ASSUME TypeOK, Fresh, CallsLive, TokenEffect,
           \A v \in Workers : TaskEffect(v)
    PROVE  CallsLive'
<1>1. ASSUME NEW v \in Workers, task'[v].k \in CallKinds, ~task'[v].live,
             NEW n \in Ids(token'), token'[n].secret = task'[v].secret
      PROVE  ~token'[n].active \/ token'[n].expired
  <2>1. CASE /\ n \in Ids(token)
             /\ token'[n].secret = token[n].secret
             /\ token'[n].active => token[n].active
             /\ token[n].expired => token'[n].expired
    <3>1. CASE task[v].k \in CallKinds /\ task'[v].secret = task[v].secret
                 /\ task'[v].live = task[v].live
      BY <1>1, <2>1, <3>1 DEF CallsLive
    <3>2. CASE /\ task'[v].id \in Holders(task'[v].secret.alias)
               /\ task'[v].live = Live(task'[v].secret)
      BY <1>1, <2>1, <3>2 DEF Live
    <3> QED
      BY <1>1, <3>1, <3>2 DEF TaskEffect, CallKinds
  <2>2. CASE token'[n].secret.serial = serial + 1
    <3>1. task'[v].secret.serial <= serial
      BY <1>1, AliasTypes DEF Fresh, TaskEffect, CallKinds
    <3> QED
      BY <1>1, <2>2, <3>1, AliasTypes
  <2>3. ASSUME NEW w \in Workers,
               token'[n].secret = [alias |-> task[w].alias, serial |-> serial + 1]
        PROVE  token'[n].secret.serial = serial + 1
    BY <2>3
  <2> QED
    BY <2>1, <2>2, <2>3 DEF TokenEffect
<1>2. ASSUME NEW v \in Workers, task'[v].k \in {"checkRealm", "serve"}
      PROVE  task'[v].live
  <2>1. CASE task[v].k \in {"checkRealm", "serve"} /\ task'[v].live = task[v].live
    BY <2>1 DEF CallsLive
  <2>2. ASSUME NEW n \in Ids(token), task[v].k = "findToken",
               token[n].secret = task[v].secret, token[n].active,
               ~token[n].expired, task'[v].live = task[v].live
        PROVE  task'[v].live
    <3>1. task[v].live \in BOOLEAN
      BY <2>2, CallTaskKind DEF TypeOK
    <3> QED
      BY <2>2, <3>1 DEF CallsLive, CallKinds
  <2> QED
    BY <1>2, <2>1, <2>2 DEF TaskEffect, CallKinds
<1> QED
  BY <1>1, <1>2 DEF CallsLive

\* The part about liveness of secrets is inductive, however ids are reused.
LEMMA LiveInductive == Spec => []LiveInv
<1>1. Init => LiveInv
  <2> SUFFICES ASSUME Init PROVE LiveInv
    OBVIOUS
  <2>1. TypeOK
    BY BoundsAssumption DEF Init, TypeOK, IsTable, Ids, Task
  <2>2. \A w \in Workers : task[w].k = "idle"
    BY DEF Init, Idle
  <2>3. Ids(account) = {} /\ Ids(token) = {}
    BY DEF Init, Ids
  <2> QED
    BY <2>1, <2>2, <2>3 DEF LiveInv, Fresh, CallsLive, CallKinds
<1>2. LiveInv /\ TypeOK' /\ [Next]_vars => LiveInv'
  BY StepEffect, FreshStep, CallsLiveStep DEF LiveInv
<1> QED
  BY <1>1, <1>2, TypeCorrect, PTL DEF Spec

\* So is the part about the accounts of requests.
LEMMA HomeInductive == Spec => []HomeInv
<1>1. Init /\ LiveInv => HomeInv
  <2> SUFFICES ASSUME Init, LiveInv PROVE HomeInv
    OBVIOUS
  <2>1. \A w \in Workers : task[w].k = "idle"
    BY DEF Init, Idle
  <2> QED
    BY <2>1 DEF HomeInv, CallsHome, CallKinds
<1>2. HomeInv /\ LiveInv' /\ [Next]_vars => HomeInv'
  BY StepEffect, CallsHomeStep DEF HomeInv, LiveInv
<1> QED
  BY <1>1, <1>2, LiveInductive, PTL DEF Spec

\* A request reaches the backend only with a secret that was live when the
\* request arrived, whatever the other workers commit in between.
THEOREM ServedLive == Spec => []ServedWasLive
<1>1. LiveInv => ServedWasLive
  BY DEF LiveInv, CallsLive, ServedWasLive
<1> QED
  BY <1>1, LiveInductive, PTL

\* Revocation, expiry, deletion and a new alias are final.
THEOREM DeadForever == Spec => DeadSecretsStayDead
<1>1. LiveInv /\ [Next]_vars =>
        [\A s \in Secrets : s.serial <= serial /\ ~Live(s) => ~Live(s)']_vars
  <2> SUFFICES ASSUME LiveInv, [Next]_vars, NEW s \in Secrets,
                      s.serial <= serial, Live(s)'
               PROVE  Live(s)
    OBVIOUS
  <2>0. AccountEffect /\ TokenEffect
    BY StepEffect DEF LiveInv
  <2>1. PICK n \in Ids(token') : /\ token'[n].secret = s
                                 /\ token'[n].active /\ ~token'[n].expired
                                 /\ Holders(s.alias)' # {}
    BY DEF Live
  <2>2. s.alias \in Int /\ s.serial \in Int /\ serial \in Int
    BY DEF Secrets, LiveInv, TypeOK
  <2>3. ASSUME NEW w \in Workers,
               s = [alias |-> task[w].alias, serial |-> serial + 1]
        PROVE  FALSE
    <3>1. s.serial = serial + 1
      BY <2>3
    <3> QED
      BY <2>2, <3>1
  <2>4. /\ n \in Ids(token) /\ token[n].secret = s
        /\ token[n].active /\ ~token[n].expired
    BY <2>0, <2>1, <2>3 DEF TokenEffect
  <2>5. Holders(s.alias)' \subseteq Holders(s.alias)
    BY <2>0, <2>2, <2>4, HoldersShrink DEF LiveInv, Fresh
  <2> QED
    BY <2>1, <2>4, <2>5 DEF Live
<1> QED
  BY <1>1, LiveInductive, PTL DEF Spec, DeadSecretsStayDead

\* A request finds a realm of its secret's own account, and only a bulk
\* deletion of another account can take this from it, while the account keeps
\* the alias: whatever the other workers commit and whichever ids are reused.
THEOREM StayHome == Spec => StaysAtHome
<1>1. HomeInv /\ [Next]_vars =>
        [\A w \in Workers :
            /\ task'[w].k \in {"checkRealm", "serve"}
            /\ task[w].k = "findToken" \/ CallAtHome(w)
            => CallAtHome(w)' \/ \E b \in Workers : Strays(b, task'[w].realm)]_vars
  <2> SUFFICES ASSUME HomeInv, [Next]_vars, NEW w \in Workers,
                      task'[w].k \in {"checkRealm", "serve"},
                      task[w].k = "findToken" \/ CallAtHome(w)
               PROVE  CallAtHome(w)' \/ \E b \in Workers : Strays(b, task'[w].realm)
    OBVIOUS
  <2>0. /\ TypeOK /\ Fresh /\ CallsHome
        /\ AccountEffect /\ RealmEffect /\ TaskEffect(w)
    BY StepEffect DEF HomeInv, LiveInv
  <2> DEFINE a == task'[w].secret.alias
             r == task'[w].realm
  <2>1. task[w].k \in CallKinds /\ task'[w].secret = task[w].secret
    BY <2>0 DEF TaskEffect, CallKinds
  <2>2. a \in Int /\ a <= aliases
    BY <2>0, <2>1, AliasTypes DEF Fresh
  <2>3. \A i \in Holders(a) : r \in Ids(realm) /\ realm[r].owner = i
    <3>1. CASE task[w].k = "findToken"
      <4>1. r \in RealmsOf(task[w].id)
        BY <2>0, <3>1 DEF TaskEffect, CallKinds
      <4> QED
        BY <2>0, <2>1, <4>1 DEF CallsHome, RealmsOf
    <3>2. CASE CallAtHome(w) /\ task[w].k # "findToken"
      <4>1. task'[w].realm = task[w].realm
        BY <2>0, <3>2 DEF TaskEffect, CallKinds
      <4> QED
        BY <2>1, <3>2, <4>1 DEF CallAtHome
    <3> QED
      BY <3>1, <3>2
  <2>4. ASSUME ~\E b \in Workers : Strays(b, r),
               NEW i \in Ids(account'), account'[i].alias = a
        PROVE  r \in Ids(realm') /\ realm'[r].owner = i
    <3>1. PICK b \in Int : b = a /\ b <= aliases
      BY <2>2
    <3>2. Holders(b)' \subseteq Holders(b)
      BY <2>0, <3>1, HoldersShrink
    <3>3. i \in Holders(b)'
      BY <2>4, <3>1 DEF Holders
    <3>4. r \in Ids(realm) /\ realm[r].owner = i
      BY <2>3, <3>1, <3>2, <3>3
    <3> QED
      BY <2>0, <2>4, <3>4 DEF RealmEffect
  <2> QED
    BY <2>4 DEF CallAtHome, Holders
<1> QED
  BY <1>1, HomeInductive, PTL DEF Spec, StaysAtHome

(***************************************************************************)
(* The refinement of Credentials.                                          *)
(***************************************************************************)
LiveSecrets == {s \in Secrets : Live(s)}
Calls == [w \in Workers |-> CallOf(task[w])]

\* A step that gives w a task of no request, when it had none, changes no call.
LEMMA SameCalls ==
    ASSUME TypeOK, NEW w \in Workers, task[w].k \notin CallKinds,
           NEW t, t.k \notin CallKinds, task' = [task EXCEPT ![w] = t]
    PROVE  Calls' = Calls
BY DEF Calls, CallOf, CallKinds, TypeOK

\* A step that gives w another task changes the call of w only.
LEMMA OneCall ==
    ASSUME TypeOK, NEW w \in Workers, NEW t, task' = [task EXCEPT ![w] = t]
    PROVE  Calls' = [Calls EXCEPT ![w] = CallOf(t)]
BY DEF Calls, TypeOK

\* So beginning any other task changes no call.
LEMMA BeginCalls ==
    ASSUME TypeOK, NEW w \in Workers, NEW t, t.k \notin CallKinds, Begin(w, t)
    PROVE  Calls' = Calls
<1>1. task[w].k = "idle" /\ task' = [task EXCEPT ![w] = t]
  BY DEF Begin, Idle
<1>2. task[w].k \notin CallKinds
  BY <1>1 DEF CallKinds
<1> QED
  BY <1>1, <1>2, SameCalls

\* The steps on accounts are no steps of requests, and issue no secret.
LEMMA AccountCalls ==
    ASSUME TypeOK, NEW w \in Workers, AccountStep(w)
    PROVE  Calls' = Calls /\ serial' = serial
<1> USE DEF AccountOps, CallKinds
<1>1. ASSUME NEW k \in AccountOps, NEW i \in AccountIds, LoadAccount(w, k, i)
      PROVE  Calls' = Calls /\ serial' = serial
  <2> DEFINE t == [k |-> k, id |-> i,
                   rs |-> IF k \in {"delete", "bulkDelete"}
                            THEN RealmsOf(i) ELSE {},
                   ts |-> IF k \in {"bulkDelete", "regenerate"}
                            THEN TokensIn(RealmsOf(i)) ELSE {}]
  <2>1. Begin(w, t) /\ serial' = serial
    BY <1>1 DEF LoadAccount
  <2>2. t.k \notin CallKinds
    OBVIOUS
  <2> HIDE DEF t
  <2> QED
    BY <2>1, <2>2, BeginCalls
<1>2. ASSUME task[w].k \in AccountOps, Finish(w) PROVE Calls' = Calls
  BY <1>2, SameCalls DEF Finish, Idle
<1>3. ASSUME NEW i \in AccountIds, NEW scope \in Scopes, NEW perms \in Grants,
             CreateAccountWithRealm(w, i, scope, perms)
      PROVE  Calls' = Calls /\ serial' = serial
  <2>1. [k |-> "firstRealm", owner |-> i, scope |-> scope,
         perms |-> perms].k \notin CallKinds
    OBVIOUS
  <2> QED
    BY <1>3, <2>1, BeginCalls DEF CreateAccountWithRealm
<1> QED
  BY <1>1, <1>2, <1>3 DEF AccountStep, CommitApproveAccount, CommitRejectAccount,
     CommitSetActive, CommitDeleteAccount, CommitBulkDelete,
     CommitRegenerateAlias

\* Neither are the steps on realms.
LEMMA RealmCalls ==
    ASSUME TypeOK, NEW w \in Workers, RealmStep(w)
    PROVE  Calls' = Calls /\ serial' = serial
<1> USE DEF RealmOps, CallKinds
<1>1. ASSUME NEW i \in AccountIds, NEW scope \in Scopes, NEW perms \in Grants,
             NEW admin \in BOOLEAN, LoadRequest(w, i, scope, perms, admin)
      PROVE  Calls' = Calls /\ serial' = serial
  <2>1. task[w].k = "idle"
    BY <1>1 DEF LoadRequest, Begin, Idle
  <2> QED
    BY <1>1, <2>1, SameCalls DEF LoadRequest, Begin
<1>2. ASSUME task[w].k \in RealmOps \cup {"preapprove", "newRealm", "firstRealm",
                                         "rerequest"},
             Finish(w)
      PROVE  Calls' = Calls
  BY <1>2, SameCalls DEF Finish, Idle
<1>3. ASSUME task[w].k \in {"newRealm", "rerequest"}, NEW r, ThenApprove(w, r)
      PROVE  Calls' = Calls
  BY <1>2, <1>3, SameCalls DEF ThenApprove
<1>4. ASSUME NEW k \in RealmOps, NEW r \in RealmIds, LoadRealm(w, k, r)
      PROVE  Calls' = Calls /\ serial' = serial
  <2>1. [k |-> k, id |-> r].k \notin CallKinds
    BY <1>4
  <2> QED
    BY <1>4, <2>1, BeginCalls DEF LoadRealm
<1>5. ASSUME CommitNewRealm(w) PROVE Calls' = Calls /\ serial' = serial
  BY <1>2, <1>3, <1>5 DEF CommitNewRealm
<1>8. ASSUME CommitFirstRealm(w) PROVE Calls' = Calls /\ serial' = serial
  BY <1>2, <1>8 DEF CommitFirstRealm
<1>6. ASSUME CommitRerequest(w) PROVE Calls' = Calls /\ serial' = serial
  BY <1>2, <1>3, <1>6 DEF CommitRerequest
<1>7. ASSUME CommitRealmStatus(w) PROVE Calls' = Calls /\ serial' = serial
  BY <1>2, <1>7 DEF CommitRealmStatus
<1> QED
  BY <1>1, <1>4, <1>5, <1>6, <1>7, <1>8 DEF RealmStep, AddRealm

\* A step that issues no secret lets none live that did not.
LEMMA LiveShrinks ==
    ASSUME LiveInv, AccountEffect, TokenEffect, serial' = serial
    PROVE  LiveSecrets' \subseteq LiveSecrets
<1> SUFFICES ASSUME NEW s \in Secrets, Live(s)' PROVE Live(s)
  BY DEF LiveSecrets, Secrets
<1>1. PICK n \in Ids(token') : /\ token'[n].secret = s
                               /\ token'[n].active /\ ~token'[n].expired
                               /\ Holders(s.alias)' # {}
  BY DEF Live
<1>2. s.alias \in Int /\ serial \in Int
  BY DEF Secrets, LiveInv, TypeOK
<1>3. serial' # serial + 1
  BY <1>2
<1>4. /\ n \in Ids(token) /\ token[n].secret = s
      /\ token[n].active /\ ~token[n].expired
  BY <1>1, <1>3 DEF TokenEffect
<1>5. Holders(s.alias)' \subseteq Holders(s.alias)
  BY <1>2, <1>4, HoldersShrink DEF LiveInv, Fresh
<1> QED
  BY <1>1, <1>4, <1>5 DEF Live

\* Such a step maps to Die when it changes no call either.
LEMMA DieStep ==
    ASSUME LiveInv, AccountEffect, TokenEffect, serial' = serial,
           Calls' = Calls
    PROVE  Promise!Next
BY LiveShrinks DEF LiveSecrets, Calls, Promise!Next, Promise!Die

\* A step that commits a new token maps to Mint: no other secret comes alive.
LEMMA MintStep ==
    ASSUME LiveInv, TypeOK', NEW w \in Workers, NEW n \in TokenIds,
           task[w].k = "newToken", NextRowId(token, n),
           serial < MaxSerial, serial' = serial + 1,
           token' = Put(token, n,
                 [realm |-> task[w].realm, name |-> task[w].name,
                  secret |-> [alias |-> task[w].alias, serial |-> serial'],
                  perms |-> task[w].perms, active |-> TRUE,
                  expired |-> FALSE]),
           account' = account, Calls' = Calls
    PROVE  Promise!Next
<1> DEFINE new == [alias |-> task[w].alias, serial |-> serial']
<1>1. new \in Secrets /\ new.serial = serial + 1
  BY TokenTaskKind DEF LiveInv, TypeOK, Secrets
<1>2. Ids(token') = Ids(token) \cup {n} /\ n \notin Ids(token)
  BY DEF Put, Ids, NextRowId
<1>3. \A m \in Ids(token) : token'[m] = token[m]
  BY <1>2 DEF Put, Ids
<1>4. token'[n].secret = new
  BY DEF Put, Ids
<1>5. \A s \in Secrets : s # new => (s \in LiveSecrets' <=> s \in LiveSecrets)
  BY <1>2, <1>3, <1>4, ZenonT(60) DEF LiveSecrets, Secrets, Live, Holders
<1>6. new \notin LiveSecrets
  BY <1>1 DEF LiveSecrets, Live, LiveInv, Fresh, TypeOK
<1>7. LiveSecrets' \in {LiveSecrets, LiveSecrets \cup {new}}
  <2>1. LiveSecrets \subseteq Secrets /\ LiveSecrets' \subseteq Secrets
    BY DEF LiveSecrets, Secrets
  <2> HIDE DEF new
  <2>2. CASE new \in LiveSecrets'
    <3>1. LiveSecrets' = LiveSecrets \cup {new}
      BY <1>1, <1>5, <2>1, <2>2
    <3> QED
      BY <3>1
  <2>3. CASE new \notin LiveSecrets'
    <3>1. LiveSecrets' = LiveSecrets
      BY <1>5, <1>6, <2>1, <2>3
    <3> QED
      BY <3>1
  <2> QED
    BY <2>2, <2>3
<1> HIDE DEF new
<1>8. Promise!Mint(new)
  BY <1>1, <1>7 DEF LiveSecrets, Calls, Promise!Mint
<1> QED
  BY <1>1, <1>8 DEF Promise!Next

\* The steps on tokens issue a secret or let none come alive.
LEMMA TokenPromise ==
    ASSUME LiveInv, TypeOK', NEW w \in Workers, TokenStep(w),
           AccountEffect, TokenEffect
    PROVE  Promise!Next
<1> USE DEF LiveInv
<1>f. ASSUME task[w].k \in {"newToken", "revokeToken"}, Finish(w)
      PROVE  Calls' = Calls
  BY <1>f, SameCalls DEF Finish, Idle, CallKinds
<1>1. ASSUME NEW r \in RealmIds, NEW name \in Names, NEW perms \in SUBSET Perms,
             LoadNewToken(w, r, name, perms)
      PROVE  Calls' = Calls /\ serial' = serial
  <2> DEFINE t == [k |-> "newToken", realm |-> r, name |-> name,
                   perms |-> perms, alias |-> account[realm[r].owner].alias]
  <2>1. Begin(w, t) /\ serial' = serial
    BY <1>1 DEF LoadNewToken
  <2>2. t.k \notin CallKinds
    BY DEF CallKinds
  <2> HIDE DEF t
  <2> QED
    BY <2>1, <2>2, BeginCalls
<1>2. ASSUME NEW n \in TokenIds, LoadRevokeToken(w, n)
      PROVE  Calls' = Calls /\ serial' = serial
  <2>1. [k |-> "revokeToken", id |-> n].k \notin CallKinds
    BY DEF CallKinds
  <2> QED
    BY <1>2, <2>1, BeginCalls DEF LoadRevokeToken
<1>3. ASSUME CommitRevokeToken(w) PROVE Calls' = Calls /\ serial' = serial
  BY <1>3, <1>f DEF CommitRevokeToken
<1>4. ASSUME CommitNewToken(w) PROVE Promise!Next
  <2>1. Calls' = Calls /\ account' = account
    BY <1>4, <1>f DEF CommitNewToken
  <2>2. CASE serial' = serial
    BY <2>1, <2>2, DieStep
  <2>3. CASE serial' # serial
    BY <1>4, <2>1, <2>3, MintStep DEF CommitNewToken
  <2> QED
    BY <2>2, <2>3
<1> QED
  BY <1>1, <1>2, <1>3, <1>4, DieStep DEF TokenStep

\* The steps of requests are those of the promise; a request that has not
\* found a usable token yet may not be granted.
LEMMA RequestPromise ==
    ASSUME LiveInv, CallsLive', NEW w \in Workers, RequestStep(w)
    PROVE  [Promise!Next]_(Promise!vars)
<1> USE DEF LiveInv
<1>u. serial' = serial /\ LiveSecrets' = LiveSecrets
  BY DEF RequestStep, FindAccount, FindToken, CheckRealm, Serve, LiveSecrets,
         Live, Holders
<1>c. Calls[w] = CallOf(task[w]) /\ Calls \in [Workers -> {Calls[v] : v \in Workers}]
  BY DEF Calls
<1>f. ASSUME task[w].k \in CallKinds, Finish(w) PROVE Promise!Next
  <2>0. CallOf(Idle) = Promise!None
    BY DEF CallOf, Idle, Promise!None
  <2>1. Calls' = [Calls EXCEPT ![w] = Promise!None]
    BY <1>f, <2>0, OneCall DEF Finish
  <2>2. Calls[w] # Promise!None
    BY <1>c, <1>f DEF CallOf, CallKinds, Promise!None
  <2>3. Promise!Answer(w)
    BY <1>u, <2>1, <2>2 DEF Promise!Answer, Calls, LiveSecrets
  <2> QED
    BY <2>3 DEF Promise!Next
<1>1. ASSUME NEW s \in Secrets, FindAccount(w, s) PROVE Promise!Next
  <2> DEFINE call == [st |-> "asked", secret |-> s, live |-> s \in LiveSecrets]
  <2>1. PICK i \in Holders(s.alias) :
               Begin(w, [k |-> "findToken", secret |-> s, live |-> Live(s),
                         id |-> i])
    BY <1>1 DEF FindAccount
  <2>2. Calls[w] = Promise!None
    BY <1>c, <2>1 DEF Begin, Idle, CallOf, Promise!None
  <2>3. Calls' = [Calls EXCEPT ![w] =
                    CallOf([k |-> "findToken", secret |-> s, live |-> Live(s),
                            id |-> i])]
    BY <2>1, OneCall DEF Begin
  <2>4. (s \in LiveSecrets) = Live(s)
    <3>1. Live(s) \in BOOLEAN
      BY DEF Live
    <3>2. s \in LiveSecrets <=> Live(s)
      BY DEF LiveSecrets
    <3> QED
      BY <3>1, <3>2
  <2>5. Calls' = [Calls EXCEPT ![w] = call]
    BY <2>3, <2>4 DEF CallOf
  <2>6. s.serial <= serial
    BY <1>1 DEF FindAccount
  <2>7. Promise!Arrive(w, s)
    BY <1>u, <2>2, <2>5, <2>6 DEF Promise!Arrive, Calls, LiveSecrets
  <2> QED
    BY <2>7 DEF Promise!Next
<1>2. ASSUME FindToken(w) PROVE [Promise!Next]_(Promise!vars)
  <2>1. ASSUME NEW n, task' = [task EXCEPT ![w] =
                     [k |-> "checkRealm", secret |-> task[w].secret,
                      live |-> task[w].live, id |-> task[w].id,
                      realm |-> token[n].realm, perms |-> token[n].perms]]
        PROVE  UNCHANGED Promise!vars
    <3>1. Calls' = [Calls EXCEPT ![w] = CallOf(task[w])]
      BY <1>2, <2>1, OneCall DEF FindToken, CallOf
    <3>2. Calls' = Calls
      BY <1>c, <3>1
    <3> QED
      BY <1>u, <3>2 DEF Promise!vars, Calls, LiveSecrets
  <2>2. task[w].k \in CallKinds
    BY <1>2 DEF FindToken, CallKinds
  <2> QED
    BY <1>2, <1>f, <2>1, <2>2 DEF FindToken
<1>3. ASSUME NEW perm \in Perms, CheckRealm(w, perm) PROVE Promise!Next
  <2>1. ASSUME task' = [task EXCEPT ![w] =
                [k |-> "serve", secret |-> task[w].secret,
                 live |-> task[w].live, id |-> task[w].id,
                 realm |-> task[w].realm, perm |-> perm,
                 allowed |-> realm[task[w].realm].perms]]
        PROVE  Promise!Next
    <3>1. task[w].k = "checkRealm"
      BY <1>3 DEF CheckRealm
    <3>2. task[w].live
      BY <3>1 DEF CallsLive
    <3>3. Calls[w] = [st |-> "asked", secret |-> task[w].secret,
                      live |-> task[w].live]
      BY <1>c, <3>1 DEF CallOf
    <3>4. Calls' = [Calls EXCEPT ![w] =
                      [st |-> "granted", secret |-> task[w].secret,
                       live |-> task[w].live]]
      BY <2>1, OneCall DEF CallOf
    <3>5. [Calls[w] EXCEPT !.st = "granted"] =
            [st |-> "granted", secret |-> task[w].secret, live |-> task[w].live]
      BY <3>3
    <3>6. Calls' = [Calls EXCEPT ![w] = [Calls[w] EXCEPT !.st = "granted"]]
      BY <3>4, <3>5
    <3>7. Calls[w].st = "asked" /\ Calls[w].live
      BY <3>2, <3>3
    <3>8. Promise!Grant(w)
      BY <1>u, <3>6, <3>7 DEF Promise!Grant, Calls, LiveSecrets
    <3> QED
      BY <3>8 DEF Promise!Next
  <2>2. task[w].k \in CallKinds
    BY <1>3 DEF CheckRealm, CallKinds
  <2> QED
    BY <1>3, <1>f, <2>1, <2>2 DEF CheckRealm
<1>4. ASSUME Serve(w) PROVE Promise!Next
  BY <1>4, <1>f DEF Serve, CallKinds
<1> QED
  BY <1>1, <1>2, <1>3, <1>4 DEF RequestStep

\* Tables, queries and handlers together keep the promise of Credentials:
\* every step issues one secret, lets secrets die, is a step of a request, or
\* changes nothing a client could notice.
THEOREM KeepsPromise == Spec => PromiseKept
<1>1. Init => Promise!Init
  <2> SUFFICES ASSUME Init PROVE Promise!Init
    OBVIOUS
  <2>1. LiveSecrets = {}
    BY DEF Init, LiveSecrets, Live, Ids
  <2>2. Calls = [w \in Workers |-> Promise!None]
    BY DEF Init, Calls, CallOf, Idle, Promise!None
  <2> QED
    BY <2>1, <2>2 DEF Init, Promise!Init, LiveSecrets, Calls
<1>2. LiveInv /\ LiveInv' /\ [Next]_vars => [Promise!Next]_(Promise!vars)
  <2> SUFFICES ASSUME LiveInv, LiveInv', [Next]_vars
               PROVE  [Promise!Next]_(Promise!vars)
    OBVIOUS
  <2>0. /\ TypeOK /\ TypeOK' /\ CallsLive'
        /\ AccountEffect /\ TokenEffect
    BY StepEffect DEF LiveInv
  <2>1. ASSUME task' = task, serial' = serial PROVE Promise!Next
    BY <2>0, <2>1, DieStep DEF Calls
  <2>2. ASSUME NEW i \in AccountIds, NEW scope \in Scopes, NEW perms \in Grants,
               Register(i, scope, perms)
        PROVE  Promise!Next
    BY <2>1, <2>2 DEF Register
  <2>3. ASSUME NEW i \in AccountIds, CreateAccountByAdmin(i)
        PROVE  Promise!Next
    BY <2>1, <2>3 DEF CreateAccountByAdmin
  <2>4. ASSUME NEW n \in TokenIds, Expire(n) PROVE Promise!Next
    BY <2>1, <2>4 DEF Expire
  <2>5. ASSUME NEW w \in Workers, AccountStep(w) \/ RealmStep(w)
        PROVE  Promise!Next
    BY <2>0, <2>5, AccountCalls, RealmCalls, DieStep
  <2>6. ASSUME NEW w \in Workers, TokenStep(w) PROVE Promise!Next
    BY <2>0, <2>6, TokenPromise
  <2>7. ASSUME NEW w \in Workers, RequestStep(w)
        PROVE  [Promise!Next]_(Promise!vars)
    BY <2>0, <2>7, RequestPromise
  <2>8. CASE UNCHANGED vars
    BY <2>1, <2>8 DEF vars
  <2> QED
    BY <2>2, <2>3, <2>4, <2>5, <2>6, <2>7, <2>8 DEF Next
<1> QED
  BY <1>1, <1>2, LiveInductive, PTL DEF Spec, PromiseKept, Promise!Spec

(***************************************************************************)
(* Approvals                                                               *)
(***************************************************************************)
PermsStay ==
    \A r \in Ids(realm) \cap Ids(realm') :
        realm[r].status = "approved" /\ realm'[r].status = "approved"
            => realm'[r].perms = realm[r].perms

\* A new row takes an id that is not in use, so it changes no other row.
LEMMA NewRealmPerms ==
    ASSUME NEW r, NewRealmId(r), NEW row, realm' = Put(realm, r, row)
    PROVE  PermsStay
BY DEF NewRealmId, NextRowId, Put, Ids, PermsStay

\* Dropping rows changes no other row.
LEMMA DropRealmPerms ==
    ASSUME NEW S, realm' = Drop(realm, S)
    PROVE  PermsStay
BY DEF Drop, Ids, PermsStay

\* What a realm allows never changes while it stays approved: every change
\* of its permissions takes the approval away, and an approval that commits after
\* it, though it may have loaded the realm before, gives it back.
THEOREM ApprovalBinds == Spec => ApprovedPermsStable
<1>1. TypeOK /\ [Next]_vars => PermsStay
  <2> SUFFICES ASSUME TypeOK, [Next]_vars PROVE PermsStay
    OBVIOUS
  <2>0. ASSUME realm' = realm PROVE PermsStay
    BY <2>0 DEF PermsStay
  <2>1. ASSUME NEW i \in AccountIds, NEW scope \in Scopes, NEW perms \in Grants,
               Register(i, scope, perms)
        PROVE  PermsStay
    BY <2>0, <2>1, NewRealmPerms DEF Register
  <2>2. ASSUME NEW w \in Workers, AccountStep(w) PROVE PermsStay
    <3>1. ASSUME CommitApproveAccount(w) PROVE PermsStay
      BY <3>1 DEF CommitApproveAccount, PermsStay, Ids, TypeOK, IsTable,
         RealmRow
    <3> QED
      BY <2>0, <2>2, <3>1, DropRealmPerms DEF AccountStep, LoadAccount,
         CommitRejectAccount, CommitSetActive, CommitDeleteAccount,
         CommitBulkDelete, CommitRegenerateAlias, CreateAccountWithRealm
  <2>3. ASSUME NEW w \in Workers, RealmStep(w) PROVE PermsStay
    <3>1. ASSUME CommitNewRealm(w) PROVE PermsStay
      BY <2>0, <3>1, NewRealmPerms DEF CommitNewRealm
    <3>4. ASSUME CommitFirstRealm(w) PROVE PermsStay
      BY <2>0, <3>4, NewRealmPerms DEF CommitFirstRealm
    <3>2. ASSUME CommitRerequest(w) PROVE PermsStay
      BY <3>2 DEF CommitRerequest, PermsStay, Ids, TypeOK, IsTable, RealmRow
    <3>3. ASSUME CommitRealmStatus(w) PROVE PermsStay
      BY <3>3 DEF CommitRealmStatus, PermsStay, Ids, TypeOK, IsTable, RealmRow
    <3> QED
      BY <2>0, <2>3, <3>1, <3>2, <3>3, <3>4
         DEF RealmStep, AddRealm, LoadRequest, LoadRealm
  <2>4. ASSUME NEW w \in Workers, TokenStep(w) \/ RequestStep(w)
        PROVE  PermsStay
    BY <2>0, <2>4 DEF TokenStep, RequestStep, LoadNewToken, CommitNewToken,
       LoadRevokeToken, CommitRevokeToken, FindAccount, FindToken, CheckRealm,
       Serve
  <2> QED
    BY <2>0, <2>1, <2>2, <2>3, <2>4
       DEF Next, vars, CreateAccountByAdmin, Expire
<1>2. PermsStay => \A r \in Ids(realm) \cap Ids(realm') :
          /\ realm[r].status = "approved" /\ realm'[r].status = "approved"
          /\ realm[r].owner = realm'[r].owner
          => realm'[r].perms = realm[r].perms
  BY DEF PermsStay
<1> QED
  BY <1>1, <1>2, TypeCorrect, PTL DEF Spec, ApprovedPermsStable

-----------------------------------------------------------------------------
(***************************************************************************)
(* The realm of a name                                                     *)
(***************************************************************************)
LEMMA FqdnType == \A place \in Realms :
    /\ place.value \in Hostnames /\ place.domain \in Hostnames /\ get_fqdn(place) \in Hostnames
    /\ Len(get_fqdn(place)) = Len(place.value) + Len(place.domain)
  BY ConcatProperties DEF Realms, Hostnames, get_fqdn

\* What is left of a name after its first n labels.
LEMMA Rest ==
    ASSUME NEW h \in Hostnames, NEW n \in 0 .. Len(h)
    PROVE  /\ SubSeq(h, n + 1, Len(h)) \in Hostnames
           /\ Len(SubSeq(h, n + 1, Len(h))) = Len(h) - n
           /\ \A i \in 1 .. Len(h) - n : SubSeq(h, n + 1, Len(h))[i] = h[n + i]
  <1> DEFINE m == n + 1
  <1>1. Len(h) \in Nat /\ m \in Int /\ n \in Nat /\ n <= Len(h)
    BY LenProperties DEF Hostnames
  <1>2. \A i \in m .. Len(h) : h[i] \in Labels
    BY <1>1, ElementOfSeq DEF Hostnames
  <1>3. /\ SubSeq(h, m, Len(h)) \in Seq(Labels)
        /\ Len(SubSeq(h, m, Len(h))) = IF m <= Len(h) THEN Len(h) - m + 1 ELSE 0
        /\ \A i \in 1 .. Len(h) - m + 1 : SubSeq(h, m, Len(h))[i] = h[m + i - 1]
    <2> HIDE DEF m
    <2> QED
      BY <1>1, <1>2, SubSeqProperties
  <1> QED
    BY <1>1, <1>3 DEF Hostnames

\* A name ends with another if something is left of it after its first labels.
LEMMA EndsWithRest ==
    ASSUME NEW h \in Hostnames, NEW s \in Hostnames
    PROVE  EndsWith(h, s) <=> \E n \in 1 .. Len(h) : SubSeq(h, n + 1, Len(h)) = s
  <1>1. Len(h) \in Nat /\ Len(s) \in Nat
    BY LenProperties DEF Hostnames
  <1>2. ASSUME EndsWith(h, s) PROVE \E n \in 1 .. Len(h) : SubSeq(h, n + 1, Len(h)) = s
    <2>1. Len(h) - Len(s) \in 1 .. Len(h)
      BY <1>1, <1>2 DEF EndsWith
    <2>2. SubSeq(h, Len(h) - Len(s) + 1, Len(h)) = s
      BY <1>2 DEF EndsWith
    <2> QED
      BY <2>1, <2>2
  <1>3. ASSUME NEW n \in 1 .. Len(h), SubSeq(h, n + 1, Len(h)) = s PROVE EndsWith(h, s)
    <2>1. Len(s) = Len(h) - n
      BY <1>3, Rest
    <2>2. Len(h) - Len(s) = n /\ Len(h) > Len(s)
      BY <1>1, <2>1
    <2> QED
      BY <1>3, <2>2 DEF EndsWith
  <1> QED
    BY <1>2, <1>3

\* The comparison of strings decides what a realm covers (matches_hostname).
THEOREM MatchIsCover ==
    ASSUME NEW place \in Realms, NEW h \in Hostnames
    PROVE  matches_hostname(place, h) <=> Covers(place, h)
  <1> DEFINE f == get_fqdn(place)
             Left(n) == SubSeq(h, n + 1, Len(h))
  <1>1. f \in Hostnames /\ Len(f) \in Nat /\ Len(h) \in Nat
    BY FqdnType, LenProperties DEF Hostnames
  <1>2. Left(0) = h
    BY SubSeqFull DEF Hostnames
  <1>3. EndsWith(h, f) <=> \E n \in 1 .. Len(h) : Left(n) = f
    BY <1>1, EndsWithRest
  <1>4. EndsWith(h, f) => h # f
    BY <1>1 DEF EndsWith
  <1>5. \A n \in 0 .. Len(h) : n = 0 \/ n \in 1 .. Len(h)
    BY <1>1
  <1>6. Covers(place, h) <=>
          \/ place.type # "subdomain_only" /\ h = f
          \/ place.type # "host" /\ EndsWith(h, f)
    <2> HIDE DEF Left
    <2>1. Covers(place, h) <=> \E n \in 0 .. Len(h) : /\ Left(n) = f
                                                      /\ place.type = "host" => n = 0
                                                      /\ place.type = "subdomain_only" => n > 0
      BY DEF Covers, Left
    <2>2. 0 \in 0 .. Len(h) /\ \A n \in 1 .. Len(h) : n \in 0 .. Len(h) /\ n > 0 /\ n # 0
      BY <1>1
    <2> QED
      BY <1>2, <1>3, <1>5, <2>1, <2>2
  <1>7. place.type \in Types
    BY DEF Realms
  <1>8. CASE place.type = "host"
    BY <1>6, <1>8 DEF matches_hostname
  <1>9. CASE place.type = "subdomain"
    BY <1>6, <1>9 DEF matches_hostname
  <1>10. CASE place.type = "subdomain_only"
    BY <1>4, <1>6, <1>10 DEF matches_hostname
  <1> QED
    BY <1>7, <1>8, <1>9, <1>10 DEF Types

\* Of a record name that does not repeat its zone, check_permission tells
\* exactly whether the provider will put the record under the realm.
THEOREM CheckExact ==
    ASSUME NEW place \in Realms, NEW zone \in Hostnames, NEW name \in Hostnames
    PROVE  CheckIsExact(place, zone, name)
  <1> SUFFICES ASSUME name = << >> \/ ~Complete(zone, name)
               PROVE  check_permission(place, zone, name)
                        <=> zone = place.domain /\ Covers(place, Written(zone, name))
    BY DEF CheckIsExact
  <1>1. Written(zone, name) \in Hostnames
    BY ConcatProperties DEF Written, Hostnames
  <1>2. _resolve_fqdn(zone, name) = Written(zone, name)
    <2>1. CASE name = << >>
      <3>1. << >> \o zone = zone
        BY ConcatEmptySeq DEF Hostnames
      <3> QED
        BY <2>1, <3>1 DEF _resolve_fqdn, Written
    <2>2. CASE name # << >>
      BY <2>2 DEF _resolve_fqdn, Written
    <2> QED
      BY <2>1, <2>2
  <1>3. matches_hostname(place, Written(zone, name)) <=> Covers(place, Written(zone, name))
    BY <1>1, MatchIsCover
  <1> QED
    BY <1>2, <1>3 DEF check_permission, matches_domain

\* The two parts of a parsed name make the name again.
LEMMA Parsed ==
    ASSUME NEW h \in Hostnames, Len(h) >= 2
    PROVE  LET parsed == parse_hostname(h)
           IN /\ parsed.domain \in Hostnames /\ parsed.record \in Hostnames
              /\ Len(parsed.domain) = 2
              /\ parsed.domain[1] = h[Len(h) - 1] /\ parsed.domain[2] = h[Len(h)]
              /\ Written(parsed.domain, parsed.record) = h
  <1> DEFINE d == SubSeq(h, Len(h) - 1, Len(h))
             r == SubSeq(h, 1, Len(h) - 2)
             k == Len(h) - 2
  <1>1. Len(h) \in Nat /\ k \in 0 .. Len(h) /\ k + 1 = Len(h) - 1
    BY LenProperties DEF Hostnames
  <1>2. /\ SubSeq(h, k + 1, Len(h)) \in Hostnames
        /\ Len(SubSeq(h, k + 1, Len(h))) = Len(h) - k
        /\ \A i \in 1 .. Len(h) - k : SubSeq(h, k + 1, Len(h))[i] = h[k + i]
    BY <1>1, Rest
  <1>3. SubSeq(h, k + 1, Len(h)) = d
    BY <1>1
  <1>4. d \in Hostnames /\ Len(d) = 2 /\ d[1] = h[Len(h) - 1] /\ d[2] = h[Len(h)]
    <2>1. Len(h) - k = 2 /\ k + 1 = Len(h) - 1 /\ k + 2 = Len(h)
      BY <1>1
    <2> QED
      BY <1>2, <1>3, <2>1
  <1>5. r \in Hostnames
    <2>1. \A i \in 1 .. k : h[i] \in Labels
      BY <1>1, ElementOfSeq DEF Hostnames
    <2> QED
      BY <1>1, <2>1, SubSeqProperties DEF Hostnames
  <1>6. r \o d = h
    <2>1. SubSeq(h, 1, k) \o SubSeq(h, k + 1, Len(h)) = SubSeq(h, 1, Len(h))
      <3>1. h \in Seq(Labels) /\ 1 \in 1 .. Len(h) + 1 /\ k \in 1 - 1 .. Len(h)
            /\ Len(h) \in k .. Len(h)
        BY <1>1 DEF Hostnames
      <3> HIDE DEF k
      <3> QED
        BY <3>1, ConcatAdjacentSubSeq
    <2> QED
      BY <1>3, <2>1, SubSeqFull DEF Hostnames
  <1> QED
    BY <1>4, <1>5, <1>6 DEF parse_hostname, Written

\* A DDNS update writes the name it was asked for.  It is granted exactly to
\* the realms that cover the name if their zone has two labels, and to no other
\* realm (process_ddns_update, parse_hostname).
THEOREM DdnsExact ==
    ASSUME NEW place \in Realms, NEW hostname \in Hostnames
    PROVE  DdnsIsExact(place, hostname)
  <1> DEFINE d == parse_hostname(hostname).domain
             r == parse_hostname(hostname).record
  <1>1. CASE ~(Len(hostname) >= 2)
    BY <1>1 DEF DdnsIsExact, ddns_granted
  <1>2. CASE Len(hostname) >= 2
    <2>1. /\ d \in Hostnames /\ r \in Hostnames /\ Len(d) = 2 /\ Written(d, r) = hostname
          /\ d[1] = hostname[Len(hostname) - 1] /\ d[2] = hostname[Len(hostname)]
      BY <1>2, Parsed
    <2>2. ddns_granted(place, hostname) <=> check_permission(place, d, r)
      BY <1>2 DEF ddns_granted
    <2>3. Len(place.domain) # 2 => ~ddns_granted(place, hostname)
      BY <2>1, <2>2 DEF check_permission, matches_domain
    <2>4. CheckIsExact(place, d, r)
      BY <2>1, CheckExact
    <2>5. ASSUME Len(place.domain) = 2, Covers(place, hostname) PROVE d = place.domain
      <3> DEFINE v == Len(place.value)
                 z == Len(hostname)
      <3>1. place.value \in Hostnames /\ place.domain \in Hostnames /\ v \in Nat /\ z \in Nat
        BY FqdnType, LenProperties DEF Hostnames
      <3>2. PICK n \in 0 .. z : SubSeq(hostname, n + 1, z) = get_fqdn(place)
        BY <2>5 DEF Covers
      <3>3. \A i \in 1 .. v + 2 : get_fqdn(place)[i] = IF i <= v THEN place.value[i]
                                                       ELSE place.domain[i - v]
        <4>1. \A i \in 1 .. v + Len(place.domain) :
                 (place.value \o place.domain)[i] = IF i <= v THEN place.value[i]
                                                    ELSE place.domain[i - v]
          BY <3>1, ConcatProperties DEF Hostnames
        <4> QED
          BY <2>5, <4>1 DEF get_fqdn
      <3>4. /\ Len(get_fqdn(place)) = z - n
            /\ \A i \in 1 .. z - n : get_fqdn(place)[i] = hostname[n + i]
        BY <3>2, Rest
      <3>5. z - n = v + 2
        BY <2>5, <3>4, FqdnType
      <3>6. place.domain[1] = hostname[z - 1] /\ place.domain[2] = hostname[z]
        <4>1. v + 1 \in 1 .. v + 2 /\ v + 2 \in 1 .. v + 2 /\ ~(v + 1 <= v) /\ ~(v + 2 <= v)
              /\ v + 1 - v = 1 /\ v + 2 - v = 2 /\ n + (v + 1) = z - 1 /\ n + (v + 2) = z
          BY <3>1, <3>5
        <4>2. get_fqdn(place)[v + 1] = place.domain[1] /\ get_fqdn(place)[v + 2] = place.domain[2]
          BY <3>3, <4>1, SMTT(60)
        <4>3. get_fqdn(place)[v + 1] = hostname[z - 1] /\ get_fqdn(place)[v + 2] = hostname[z]
          BY <3>4, <3>5, <4>1
        <4> QED
          BY <4>2, <4>3
      <3>7. \A i \in 1 .. Len(d) : d[i] = place.domain[i]
        BY <2>1, <3>6
      <3> QED
        BY <2>1, <2>5, <3>1, <3>7, SeqEqual, SMTT(60) DEF Hostnames
    <2>6. CheckIsExact(place, d, r) <=>
            (r = << >> \/ ~Complete(d, r) =>
               (check_permission(place, d, r) <=> d = place.domain /\ Covers(place, hostname)))
      BY <2>1 DEF CheckIsExact
    <2>7. Len(place.domain) = 2 /\ (r = << >> \/ ~Complete(d, r))
            => (ddns_granted(place, hostname) <=> Covers(place, hostname))
      BY <2>2, <2>4, <2>5, <2>6
    <2> QED
      BY <2>1, <2>3, <2>7 DEF DdnsIsExact
  <1> QED
    BY <1>1, <1>2
=============================================================================

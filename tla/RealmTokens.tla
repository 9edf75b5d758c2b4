---------------------------- MODULE RealmTokens ----------------------------
(***************************************************************************)
(* Accounts, the realms they may manage, the API tokens of a realm, and    *)
(* the API requests that authenticate with such a token.                   *)
(*                                                                         *)
(* The three tables are shared by all gunicorn worker threads.  A handler  *)
(* reads its rows outside any transaction (pysqlite opens one only at the  *)
(* first INSERT, UPDATE or DELETE) and writes them in one transaction, so  *)
(* a web handler is two steps, Load and Commit, with any steps of other    *)
(* workers between them; an API request reads account, token and realm in  *)
(* three queries before it calls the DNS backend.                          *)
(*                                                                         *)
(* Record types and operations are one set of permissions, since they are  *)
(* stored, restricted and checked alike.  The secret of a token is its     *)
(* (alias, serial) pair: the bcrypt hash accepts exactly the string that   *)
(* was minted.  An alias and a serial are never generated twice.           *)
(***************************************************************************)
EXTENDS Integers, FiniteSets, Tables

CONSTANTS Workers,     \* worker threads of all gunicorn processes
          Scopes,      \* domain + realm_type + realm_value of a realm
          Names,       \* token names
          Perms,       \* what a realm may allow: operations, record types
          MaxAccount,  \* bounds: row ids of the three tables,
          MaxRealm,
          MaxToken,
          MaxAlias,    \* aliases and token secrets ever generated
          MaxSerial

ASSUME BoundsAssumption ==
    {MaxAccount, MaxRealm, MaxToken, MaxAlias, MaxSerial} \subseteq Nat

VARIABLES account,   \* table accounts, by row id
          realm,     \* table account_realms
          token,     \* table api_tokens
          task,      \* what each worker has read and is about to do
          aliases,   \* how many aliases were generated so far
          serial     \* how many token secrets were generated so far

vars == <<account, realm, token, task, aliases, serial>>

AccountIds == 1 .. MaxAccount
RealmIds   == 1 .. MaxRealm
TokenIds   == 1 .. MaxToken

Secrets    == [alias : 1 .. MaxAlias, serial : 1 .. MaxSerial]
Grants     == (SUBSET Perms) \ {{}}    \* validate_operations: at least one

\* is_active = 0 is both "awaiting approval" and "disabled".
AccountRow == [active : BOOLEAN, alias : 1 .. MaxAlias]

RealmRow == [owner  : AccountIds,
             scope  : Scopes,
             status : {"pending", "approved", "rejected"},
             perms  : Grants]

\* perms = {} is the NULL column: inherit from the realm.
TokenRow == [realm   : RealmIds,
             name    : Names,
             secret  : Secrets,
             perms   : SUBSET Perms,
             active  : BOOLEAN,
             expired : BOOLEAN]

RealmsOf(i) == {r \in Ids(realm) : realm[r].owner = i}
TokensIn(R) == {n \in Ids(token) : token[n].realm \in R}
Holders(a) == {i \in Ids(account) : account[i].alias = a}

(***************************************************************************)
(* Tasks of the workers.                                                   *)
(***************************************************************************)
Idle == [k |-> "idle"]

AccountOps == {"approve", "reject", "disable", "enable", "delete",
               "bulkDelete", "regenerate"}
RealmOps == {"approveRealm", "rejectRealm", "revokeRealm"}

AccountTask == [k : AccountOps, id : AccountIds,
                rs : SUBSET RealmIds, ts : SUBSET TokenIds]
RealmTask   == [k : RealmOps \cup {"preapprove"}, id : RealmIds]
RequestTask == [k : {"newRealm"}, owner : AccountIds, scope : Scopes,
                perms : Grants, admin : BOOLEAN]
                 \cup
               [k : {"firstRealm"}, owner : AccountIds, scope : Scopes,
                perms : Grants]
                 \cup
               [k : {"rerequest"}, id : RealmIds, old : Grants,
                perms : Grants, admin : BOOLEAN]
TokenTask   == [k : {"newToken"}, realm : RealmIds, name : Names,
                perms : SUBSET Perms, alias : 1 .. MaxAlias]
                 \cup
               [k : {"revokeToken"}, id : TokenIds]
\* live: ghost, the secret was live when the request arrived.
CallTask    == [k : {"findToken"}, secret : Secrets, live : BOOLEAN,
                id : AccountIds]
                 \cup
               [k : {"checkRealm"}, secret : Secrets, live : BOOLEAN,
                id : AccountIds, realm : RealmIds, perms : SUBSET Perms]
                 \cup
               [k : {"serve"}, secret : Secrets, live : BOOLEAN,
                id : AccountIds, realm : RealmIds, perm : Perms,
                allowed : Grants]

Task == {Idle} \cup AccountTask \cup RealmTask \cup RequestTask
          \cup TokenTask \cup CallTask

Begin(w, t) == /\ task[w] = Idle
               /\ task' = [task EXCEPT ![w] = t]
Finish(w) == task' = [task EXCEPT ![w] = Idle]

\* The secret authenticates as far as its own row and alias are concerned.
Live(s) == \E n \in Ids(token) : /\ token[n].secret = s
                                 /\ token[n].active
                                 /\ ~token[n].expired
                                 /\ Holders(s.alias) # {}

NewRealmId(r) == r \in RealmIds /\ NextRowId(realm, r)

Init == /\ account = << >>
        /\ realm = << >>
        /\ token = << >>
        /\ task = [w \in Workers |-> Idle]
        /\ aliases = 0
        /\ serial = 0

-----------------------------------------------------------------------------
(***************************************************************************)
(* Accounts                                                                *)
(***************************************************************************)
InsertAccount(i, active) ==
    /\ i \in AccountIds
    /\ NextRowId(account, i)
    /\ aliases < MaxAlias
    /\ aliases' = aliases + 1
    /\ account' = Put(account, i, [active |-> active, alias |-> aliases'])

\* finalize_registration_with_realms: the account waits for approval, with
\* the realms the applicant asked for.
Register(i, scope, perms) ==
    /\ InsertAccount(i, FALSE)
    /\ \/ realm' = realm
       \/ \E r \in RealmIds :
             /\ NewRealmId(r)
             /\ realm' = Put(realm, r, [owner |-> i, scope |-> scope,
                                        status |-> "pending", perms |-> perms])
             /\ \A q \in RealmsOf(i) : realm[q].scope # scope
    /\ UNCHANGED <<token, task, serial>>

CreateAccountByAdmin(i) ==
    /\ InsertAccount(i, TRUE)
    /\ UNCHANGED <<realm, token, task, serial>>

\* account_create of the admin portal, with a realm for the new account.
CreateAccountWithRealm(w, i, scope, perms) ==
    /\ InsertAccount(i, TRUE)
    /\ Begin(w, [k |-> "firstRealm", owner |-> i, scope |-> scope,
                 perms |-> perms])
    /\ UNCHANGED <<realm, token, serial>>

\* What a handler on an account checks before it writes.  Enabling an active
\* account, or disabling an inactive one, writes nothing.
MayBegin(k, i) ==
    \/ k \in {"approve", "reject", "enable"} /\ ~account[i].active
    \/ k = "disable" /\ account[i].active
    \/ k \in {"delete", "bulkDelete", "regenerate"}

\* account_delete reads the account's realms; the ORM cascade of a bulk
\* delete and regenerate_user_alias read its tokens too.
LoadAccount(w, k, i) ==
    /\ i \in Ids(account)
    /\ MayBegin(k, i)
    /\ Begin(w, [k |-> k, id |-> i,
                 rs |-> IF k \in {"delete", "bulkDelete"}
                          THEN RealmsOf(i) ELSE {},
                 ts |-> IF k \in {"bulkDelete", "regenerate"}
                          THEN TokensIn(RealmsOf(i)) ELSE {}])
    /\ UNCHANGED <<account, realm, token, aliases, serial>>

CommitApproveAccount(w) ==
    /\ task[w].k = "approve"
    /\ LET i == task[w].id IN
       IF i \in Ids(account)
         THEN /\ account' = [account EXCEPT ![i].active = TRUE]
              /\ realm' = [r \in Ids(realm) |->
                             IF /\ realm[r].owner = i
                                /\ realm[r].status = "pending"
                               THEN [realm[r] EXCEPT !.status = "approved"]
                               ELSE realm[r]]
         ELSE UNCHANGED <<account, realm>>    \* StaleDataError
    /\ Finish(w)
    /\ UNCHANGED <<token, aliases, serial>>

\* The realms go in one bulk DELETE, which neither the ORM nor SQLite
\* (foreign keys are not enforced) follows to the realms' tokens.
CommitRejectAccount(w) ==
    /\ task[w].k = "reject"
    /\ realm' = Drop(realm, RealmsOf(task[w].id))
    /\ account' = Drop(account, {task[w].id})
    /\ Finish(w)
    /\ UNCHANGED <<token, aliases, serial>>

CommitSetActive(w) ==
    /\ task[w].k \in {"enable", "disable"}
    /\ account' = IF task[w].id \in Ids(account)
                    THEN [account EXCEPT ![task[w].id].active =
                                                     (task[w].k = "enable")]
                    ELSE account
    /\ Finish(w)
    /\ UNCHANGED <<realm, token, aliases, serial>>

CommitDeleteAccount(w) ==
    /\ task[w].k = "delete"
    /\ token' = Drop(token, TokensIn(task[w].rs))
    /\ realm' = Drop(realm, RealmsOf(task[w].id))
    /\ account' = Drop(account, {task[w].id})
    /\ Finish(w)
    /\ UNCHANGED <<aliases, serial>>

\* Mutant: the account is only switched off.
CommitBulkDelete_KeepsAccount(w) ==
    /\ task[w].k = "bulkDelete"
    /\ token' = Drop(token, task[w].ts)
    /\ realm' = Drop(realm, task[w].rs)
    /\ account' = [i \in Ids(account) |-> IF i = task[w].id
                                            THEN [account[i] EXCEPT !.active = FALSE]
                                            ELSE account[i]]
    /\ Finish(w)
    /\ UNCHANGED <<aliases, serial>>

\* The rows go by the ids that were read, whoever has them now.
CommitBulkDelete(w) ==
    /\ task[w].k = "bulkDelete"
    /\ token' = Drop(token, task[w].ts)
    /\ realm' = Drop(realm, task[w].rs)
    /\ account' = Drop(account, {task[w].id})
    /\ Finish(w)
    /\ UNCHANGED <<aliases, serial>>

\* A token committed since the load keeps its row, under the old alias.
CommitRegenerateAlias(w) ==
    /\ task[w].k = "regenerate"
    /\ IF task[w].id \in Ids(account)
         THEN /\ aliases < MaxAlias
              /\ aliases' = aliases + 1
              /\ account' = [account EXCEPT ![task[w].id].alias = aliases']
              /\ token' = Drop(token, task[w].ts)
         ELSE UNCHANGED <<account, token, aliases>>
    /\ Finish(w)
    /\ UNCHANGED <<realm, serial>>

-----------------------------------------------------------------------------
(***************************************************************************)
(* Realms                                                                  *)
(***************************************************************************)
\* request_realm, called by the account's user or (admin) for the account:
\* a known scope may only be asked for again after a rejection.
LoadRequest(w, i, scope, perms, admin) ==
    /\ i \in Ids(account)
    /\ admin \/ account[i].active
    /\ \/ /\ \A r \in RealmsOf(i) : realm[r].scope # scope
          /\ Begin(w, [k |-> "newRealm", owner |-> i, scope |-> scope,
                       perms |-> perms, admin |-> admin])
       \/ \E r \in RealmsOf(i) :
             /\ realm[r].scope = scope
             /\ realm[r].status = "rejected"
             /\ Begin(w, [k |-> "rerequest", id |-> r, old |-> realm[r].perms,
                          perms |-> perms, admin |-> admin])
    /\ UNCHANGED <<account, realm, token, aliases, serial>>

\* account_add_realm of the admin portal.
AddRealm(w, i, scope, perms) == LoadRequest(w, i, scope, perms, TRUE)

\* create_realm_by_admin goes on to approve what request_realm committed.
ThenApprove(w, r) ==
    IF task[w].admin
      THEN task' = [task EXCEPT ![w] = [k |-> "preapprove", id |-> r]]
      ELSE Finish(w)

CommitNewRealm(w) ==
    /\ task[w].k = "newRealm"
    /\ IF \E q \in RealmsOf(task[w].owner) : realm[q].scope = task[w].scope
         THEN Finish(w) /\ UNCHANGED realm      \* uq_account_realm
         ELSE \E r \in RealmIds :
                /\ NewRealmId(r)
                /\ realm' = Put(realm, r, [owner  |-> task[w].owner,
                                           scope  |-> task[w].scope,
                                           status |-> "pending",
                                           perms  |-> task[w].perms])
                /\ ThenApprove(w, r)
    /\ UNCHANGED <<account, token, aliases, serial>>

\* account_create inserts an approved realm, whatever has become of the account
\* since its own commit.
CommitFirstRealm(w) ==
    /\ task[w].k = "firstRealm"
    /\ \/ /\ \E q \in RealmsOf(task[w].owner) : realm[q].scope = task[w].scope
          /\ UNCHANGED realm                   \* uq_account_realm
       \/ /\ \A q \in RealmsOf(task[w].owner) : realm[q].scope # task[w].scope
          /\ \E r \in RealmIds :
                /\ NewRealmId(r)
                /\ realm' = Put(realm, r, [owner  |-> task[w].owner,
                                           scope  |-> task[w].scope,
                                           status |-> "approved",
                                           perms  |-> task[w].perms])
    /\ Finish(w)
    /\ UNCHANGED <<account, token, aliases, serial>>

\* Mutant: a new request keeps the status.
CommitRerequest_KeepsStatus(w) ==
    /\ task[w].k = "rerequest"
    /\ realm' = IF task[w].id \in Ids(realm)
                  THEN [realm EXCEPT ![task[w].id].perms = task[w].perms]
                  ELSE realm
    /\ Finish(w)
    /\ UNCHANGED <<account, token, aliases, serial>>

\* The UPDATE writes the columns that differ from the row as it was loaded.
CommitRerequest(w) ==
    /\ task[w].k = "rerequest"
    /\ LET t == task[w] IN
       IF t.id \in Ids(realm)
         THEN /\ realm' = [realm EXCEPT
                             ![t.id].status = "pending",
                             ![t.id].perms = IF t.perms = t.old THEN @
                                                                ELSE t.perms]
              /\ ThenApprove(w, t.id)
         ELSE Finish(w) /\ UNCHANGED realm
    /\ UNCHANGED <<account, token, aliases, serial>>

\* approve_realm and reject_realm, and the three actions of api_realms_bulk.
LoadRealm(w, k, r) ==
    /\ r \in Ids(realm)
    /\ realm[r].status = IF k = "revokeRealm" THEN "approved" ELSE "pending"
    /\ Begin(w, [k |-> k, id |-> r])
    /\ UNCHANGED <<account, realm, token, aliases, serial>>

\* Mutant: a fourth status, as realm_revoke tries to write.
CommitRealmStatus_Revoked(w) ==
    /\ task[w].k \in RealmOps \cup {"preapprove"}
    /\ realm' = IF task[w].id \in Ids(realm)
                  THEN [realm EXCEPT ![task[w].id].status =
                          IF task[w].k \in {"approveRealm", "preapprove"}
                            THEN "approved" ELSE "revoked"]
                  ELSE realm
    /\ Finish(w)
    /\ UNCHANGED <<account, token, aliases, serial>>

CommitRealmStatus(w) ==
    /\ task[w].k \in RealmOps \cup {"preapprove"}
    /\ realm' = IF task[w].id \in Ids(realm)
                  THEN [realm EXCEPT ![task[w].id].status =
                          IF task[w].k \in {"approveRealm", "preapprove"}
                            THEN "approved" ELSE "rejected"]
                  ELSE realm
    /\ Finish(w)
    /\ UNCHANGED <<account, token, aliases, serial>>

-----------------------------------------------------------------------------
(***************************************************************************)
(* Tokens                                                                  *)
(***************************************************************************)
LoadNewToken(w, r, name, perms) ==
    /\ r \in Ids(realm)
    /\ LET i == realm[r].owner IN
       /\ i \in Ids(account)
       /\ account[i].active
       /\ realm[r].status = "approved"
       /\ \A n \in TokensIn({r}) : token[n].name # name
       /\ perms \subseteq realm[r].perms
       /\ Begin(w, [k |-> "newToken", realm |-> r, name |-> name,
                    perms |-> perms, alias |-> account[i].alias])
    /\ UNCHANGED <<account, realm, token, aliases, serial>>

\* Mutant: a token of the same name is replaced instead of refused.
CommitNewToken_Replaces(w) ==
    /\ task[w].k = "newToken"
    /\ serial < MaxSerial
    /\ serial' = serial + 1
    /\ LET t == task[w]
           same == {n \in TokensIn({t.realm}) : token[n].name = t.name}
       IN \E n \in TokenIds :
             /\ IF same = {} THEN NextRowId(token, n) ELSE n \in same
             /\ token' = Put(token, n,
                  [realm |-> t.realm, name |-> t.name,
                   secret |-> [alias |-> t.alias, serial |-> serial'],
                   perms |-> t.perms, active |-> TRUE, expired |-> FALSE])
    /\ Finish(w)
    /\ UNCHANGED <<account, realm, aliases>>

CommitNewToken(w) ==
    /\ task[w].k = "newToken"
    /\ LET t == task[w] IN
       IF \E n \in TokensIn({t.realm}) : token[n].name = t.name
         THEN UNCHANGED <<token, serial>>       \* uq_realm_token_name
         ELSE \E n \in TokenIds :
                /\ NextRowId(token, n)
                /\ serial < MaxSerial
                /\ serial' = serial + 1
                /\ token' = Put(token, n,
                     [realm |-> t.realm, name |-> t.name,
                      secret |-> [alias |-> t.alias, serial |-> serial'],
                      perms |-> t.perms, active |-> TRUE, expired |-> FALSE])
    /\ Finish(w)
    /\ UNCHANGED <<account, realm, aliases>>

\* By the owner or an administrator; both follow token.realm, so a token
\* whose realm row is gone cannot be revoked.
LoadRevokeToken(w, n) ==
    /\ n \in Ids(token)
    /\ token[n].realm \in Ids(realm)
    /\ token[n].active
    /\ Begin(w, [k |-> "revokeToken", id |-> n])
    /\ UNCHANGED <<account, realm, token, aliases, serial>>

\* Mutant: revoking toggles is_active.
CommitRevokeToken_Toggles(w) ==
    /\ task[w].k = "revokeToken"
    /\ token' = IF task[w].id \in Ids(token)
                  THEN [token EXCEPT ![task[w].id].active = ~@]
                  ELSE token
    /\ Finish(w)
    /\ UNCHANGED <<account, realm, aliases, serial>>

CommitRevokeToken(w) ==
    /\ task[w].k = "revokeToken"
    /\ token' = IF task[w].id \in Ids(token)
                  THEN [token EXCEPT ![task[w].id].active = FALSE]
                  ELSE token
    /\ Finish(w)
    /\ UNCHANGED <<account, realm, aliases, serial>>

\* Time passes the expires_at of a token.
Expire(n) ==
    /\ n \in Ids(token)
    /\ ~token[n].expired
    /\ token' = [token EXCEPT ![n].expired = TRUE]
    /\ UNCHANGED <<account, realm, task, aliases, serial>>

-----------------------------------------------------------------------------
(***************************************************************************)
(* API requests.  Clients may present any secret that was ever minted.     *)
(* A request that fails a check is answered without any other effect.      *)
(***************************************************************************)
FindAccount(w, s) ==
    /\ s.serial <= serial
    /\ \E i \in Holders(s.alias) :
          /\ account[i].active
          /\ Begin(w, [k |-> "findToken", secret |-> s, live |-> Live(s),
                       id |-> i])
    /\ UNCHANGED <<account, realm, token, aliases, serial>>

\* Mutant: is_active is not looked at.
FindToken_AlsoRevoked(w) ==
    /\ task[w].k = "findToken"
    /\ LET c == task[w] IN
       \E n \in TokensIn(RealmsOf(c.id)) :
          /\ token[n].secret = c.secret
          /\ ~token[n].expired
          /\ task' = [task EXCEPT ![w] =
               [k |-> "checkRealm", secret |-> c.secret, live |-> c.live,
                id |-> c.id, realm |-> token[n].realm,
                perms |-> token[n].perms]]
    /\ UNCHANGED <<account, realm, token, aliases, serial>>

FindToken(w) ==
    /\ task[w].k = "findToken"
    /\ LET c == task[w]
           found == {n \in TokensIn(RealmsOf(c.id)) : token[n].secret = c.secret}
       IN \/ \E n \in found :
                /\ token[n].active
                /\ ~token[n].expired
                /\ task' = [task EXCEPT ![w] =
                     [k |-> "checkRealm", secret |-> c.secret, live |-> c.live,
                      id |-> c.id, realm |-> token[n].realm,
                      perms |-> token[n].perms]]
          \/ /\ \A n \in found : ~token[n].active \/ token[n].expired
             /\ Finish(w)
    /\ UNCHANGED <<account, realm, token, aliases, serial>>

\* The token's own restriction replaces the realm's permissions.
Effective(perms, realmPerms) == IF perms # {} THEN perms ELSE realmPerms

CheckRealm(w, perm) ==
    /\ task[w].k = "checkRealm"
    /\ LET c == task[w] IN
       IF /\ c.realm \in Ids(realm)
          /\ realm[c.realm].status = "approved"
          /\ perm \in Effective(c.perms, realm[c.realm].perms)
         THEN task' = [task EXCEPT ![w] =
                [k |-> "serve", secret |-> c.secret, live |-> c.live,
                 id |-> c.id, realm |-> c.realm, perm |-> perm,
                 allowed |-> realm[c.realm].perms]]
         ELSE Finish(w)
    /\ UNCHANGED <<account, realm, token, aliases, serial>>

\* The backend call and the answer.
Serve(w) ==
    /\ task[w].k = "serve"
    /\ Finish(w)
    /\ UNCHANGED <<account, realm, token, aliases, serial>>

-----------------------------------------------------------------------------
AccountStep(w) ==
    \/ \E k \in AccountOps, i \in AccountIds : LoadAccount(w, k, i)
    \/ \E i \in AccountIds, scope \in Scopes, perms \in Grants :
          CreateAccountWithRealm(w, i, scope, perms)
    \/ CommitApproveAccount(w)
    \/ CommitRejectAccount(w)
    \/ CommitSetActive(w)
    \/ CommitDeleteAccount(w)
    \/ CommitBulkDelete(w)
    \/ CommitRegenerateAlias(w)

RealmStep(w) ==
    \/ \E i \in AccountIds, scope \in Scopes, perms \in Grants :
          LoadRequest(w, i, scope, perms, FALSE) \/ AddRealm(w, i, scope, perms)
    \/ CommitNewRealm(w)
    \/ CommitFirstRealm(w)
    \/ CommitRerequest(w)
    \/ \E k \in RealmOps, r \in RealmIds : LoadRealm(w, k, r)
    \/ CommitRealmStatus(w)

TokenStep(w) ==
    \/ \E r \in RealmIds, name \in Names, perms \in SUBSET Perms :
          LoadNewToken(w, r, name, perms)
    \/ CommitNewToken(w)
    \/ \E n \in TokenIds : LoadRevokeToken(w, n)
    \/ CommitRevokeToken(w)

RequestStep(w) ==
    \/ \E s \in Secrets : FindAccount(w, s)
    \/ FindToken(w)
    \/ \E perm \in Perms : CheckRealm(w, perm)
    \/ Serve(w)

Next ==
    \/ \E i \in AccountIds : \E scope \in Scopes, perms \in Grants :
          Register(i, scope, perms)
    \/ \E i \in AccountIds : CreateAccountByAdmin(i)
    \/ \E n \in TokenIds : Expire(n)
    \/ \E w \in Workers : AccountStep(w) \/ RealmStep(w) \/ TokenStep(w)
                            \/ RequestStep(w)

Spec == Init /\ [][Next]_vars

-----------------------------------------------------------------------------
(***************************************************************************)
(* The promise about secrets, in terms of the tables and tasks.            *)
(***************************************************************************)
CallOf(t) ==
    IF t.k \in {"findToken", "checkRealm", "serve"}
      THEN [st |-> IF t.k = "serve" THEN "granted" ELSE "asked",
            secret |-> t.secret, live |-> t.live]
      ELSE [st |-> "none"]

Promise == INSTANCE Credentials WITH
              minted <- serial,
              live   <- {s \in Secrets : Live(s)},
              calls  <- [w \in Workers |-> CallOf(task[w])]

-----------------------------------------------------------------------------
(***************************************************************************)
(* Properties                                                              *)
(***************************************************************************)
\* The tables hold well-formed rows and every worker a well-formed task.
TypeOK ==
    /\ IsTable(account, AccountIds, AccountRow)
    /\ IsTable(realm, RealmIds, RealmRow)
    /\ IsTable(token, TokenIds, TokenRow)
    /\ task \in [Workers -> Task]
    /\ aliases \in 0 .. MaxAlias
    /\ serial \in 0 .. MaxSerial

\* A request reaches the DNS backend only with a secret that was live when
\* the request arrived: whatever other workers commit between its queries,
\* it cannot profit from a token that was revoked, expired, deleted or cut
\* off by a new alias before (authenticate_token).
ServedWasLive ==
    \A w \in Workers : task[w].k = "serve" => task[w].live

\* The request of w is under a realm of whoever holds the alias of its secret.
CallAtHome(w) ==
    \A i \in Holders(task[w].secret.alias) :
        task[w].realm \in Ids(realm) /\ realm[task[w].realm].owner = i

\* A bulk deletion ends and takes realm r from an account it was not asked to
\* delete: r had that account's realm when the ids were read.
Strays(b, r) == /\ task[b].k = "bulkDelete" /\ task'[b] = Idle
                /\ r \in task[b].rs \cap Ids(realm)
                /\ realm[r].owner # task[b].id

\* A request that finds its token is under a realm of the account the secret
\* was minted for, as long as that account has the alias.  Only a bulk deletion
\* of another account that ends while the request is under way can take this
\* from it, and then another account may get the realm's id before the realm is
\* read: nothing else the workers do, and no token that outlived its realm, has
\* a request served in a stranger's realm (authenticate_token, reject_account,
\* api_accounts_bulk).
StaysAtHome ==
    [][\A w \in Workers :
          /\ task'[w].k \in {"checkRealm", "serve"}
          /\ task[w].k = "findToken" \/ CallAtHome(w)
          => CallAtHome(w)' \/ \E b \in Workers : Strays(b, task'[w].realm)]_vars

\* Revocation, expiry, deletion and a new alias are final: a secret that was
\* minted and is not live never becomes live again, also when ids are reused
\* or a handler commits what it read long ago.
DeadSecretsStayDead ==
    [][\A s \in Secrets : s.serial <= serial /\ ~Live(s) => ~Live(s)']_vars

\* Tables, queries and handlers together keep the promise of Credentials:
\* secrets are issued one by one without touching others, die once, and only
\* requests with a secret that was live on arrival are granted
\* (create_token, revoke_token, authenticate_token, check_permission).
PromiseKept == Promise!Spec

\* What a realm allows never changes while it stays approved: a request for
\* other permissions takes the realm out of service, however old the row it
\* has loaded, and only an approval that commits after it puts them into force
\* (request_realm, approve_realm).  That approval may have loaded the realm
\* before the request: nobody has to have looked at the new permissions.
ApprovedPermsStable ==
    [][\A r \in Ids(realm) \cap Ids(realm') :
          /\ realm[r].status = "approved" /\ realm'[r].status = "approved"
          /\ realm[r].owner = realm'[r].owner
          => realm'[r].perms = realm[r].perms]_vars

=============================================================================

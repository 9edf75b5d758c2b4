------------------------------ MODULE Backends ------------------------------
(***************************************************************************)
(* DNS backends, the domain roots an administrator offers on them, the     *)
(* grants that open a root to an account, and the realms users request     *)
(* under a root.  The tables are shared by all gunicorn worker threads.    *)
(*                                                                         *)
(* A handler reads first and writes in a later transaction.  It is two     *)
(* steps, Load and Commit, where that matters; a handler that writes one   *)
(* row blindly, or whose reads only make it refuse what a UNIQUE           *)
(* constraint refuses anyway, has the effect it would have at once.        *)
(*                                                                         *)
(* Left out: whether a backend or a provider is active, the limits of a    *)
(* root and of a grant (max_realms and the others), and a realm's status   *)
(* and value: nothing in this part reads them, except that a request for   *)
(* a value the account has is refused, or keeps the realm's former root.   *)
(***************************************************************************)
EXTENDS Integers, FiniteSets, Tables

CONSTANTS Workers,    \* worker threads of all gunicorn processes
          Domains,    \* root_domain of a domain root
          MaxAccount, \* bounds: row ids of the five tables
          MaxBackend,
          MaxRoot,
          MaxGrant,
          MaxRealm

ASSUME BackendsAssumption ==
    /\ {MaxAccount, MaxBackend, MaxRoot, MaxGrant, MaxRealm} \subseteq Nat
    /\ IsFiniteSet(Workers)

VARIABLES account, \* table accounts, by row id
          backend, \* table backend_services
          root,    \* table managed_domain_roots
          grant,   \* table domain_root_grants
          realm,   \* table account_realms
          job,     \* what each worker is about to commit
          late,    \* ghost: realms since the account lost its access to a root
          misjudged    \* ghost: times a wrong configuration was called working,
                   \* since the backend's row was last inserted or edited

vars == <<account, backend, root, grant, realm, job, late, misjudged>>

AccountIds == 1 .. MaxAccount
BackendIds == 1 .. MaxBackend
RootIds    == 1 .. MaxRoot
GrantIds   == 1 .. MaxGrant
RealmIds   == 1 .. MaxRealm
Most == Cardinality(Workers)

AccountRow == {"user"}
\* What the fields of the form amount to: credentials that work or do not.
BackendConfigs == {"right", "wrong"}
\* owner = 0: the platform's.
BackendRow == [owner : 0 .. MaxAccount, config : BackendConfigs,
               status : {"untested", "success", "failed"}]
RootRow    == [backend : BackendIds, domain : Domains, public : BOOLEAN, active : BOOLEAN]
\* A revoked grant may be past its expiry as well.
GrantRow   == [root : RootIds, account : AccountIds, state : {"live", "expired", "revoked"}]
RealmRow   == [owner : AccountIds, root : RootIds]

Idle == [k |-> "idle"]
Job == {Idle}
    \cup [k : {"realm", "grant"}, account : AccountIds, root : RootIds]
    \cup [k : {"reinstate"}, id : GrantIds]
    \cup [k : {"dropRoot"}, id : RootIds, grants : SUBSET GrantIds]
    \cup [k : {"dropBackend"}, id : BackendIds, roots : SUBSET RootIds]
    \cup [k : {"test"}, id : BackendIds, row : BackendRow]

Begin(w, j) == job[w] = Idle /\ job' = [job EXCEPT ![w] = j]
Commit(w, k) == job[w].k = k /\ job' = [job EXCEPT ![w] = Idle]

RootsOn(b) == {r \in Ids(root) : root[r].backend = b}
GrantsOf(a, r) == {g \in Ids(grant) : grant[g].account = a /\ grant[g].root = r}

\* Mutant: an expired grant opens the root until it is revoked.
Opens_Expired(a, r) ==
    /\ r \in Ids(root)
    /\ root[r].active
    /\ root[r].public \/ \E g \in GrantsOf(a, r) : grant[g].state # "revoked"

\* get_available_domain_roots_for_account: the root is active, and public or
\* granted to the account by a grant that is neither revoked nor expired.
Opens(a, r) ==
    /\ r \in Ids(root)
    /\ root[r].active
    /\ root[r].public \/ \E g \in GrantsOf(a, r) : grant[g].state = "live"

\* What the tables say about the access, whatever a handler makes of them.
Access(a, r) ==
    /\ r \in Ids(root)
    /\ root[r].active
    /\ root[r].public \/ \E g \in GrantsOf(a, r) : grant[g].state = "live"

\* late is counted from the moment an access is lost.
Recount == late' = [p \in AccountIds \X RootIds |-> IF Access(p[1], p[2])' THEN 0 ELSE late[p]]

Init == /\ account = << >>
        /\ backend = << >>
        /\ root = << >>
        /\ grant = << >>
        /\ realm = << >>
        /\ job = [w \in Workers |-> Idle]
        /\ late = [p \in AccountIds \X RootIds |-> 0]
        /\ misjudged = [b \in BackendIds |-> 0]

-----------------------------------------------------------------------------
(***************************************************************************)
(* Accounts come and go (RealmTokens has their life cycle).  A deleted     *)
(* account takes its realms along, but neither its grants nor its          *)
(* backends.                                                               *)
(***************************************************************************)
InsertAccount(i) ==
    /\ i \in AccountIds
    /\ NextRowId(account, i)
    /\ account' = Put(account, i, "user")
    /\ UNCHANGED <<backend, root, grant, realm, job, late, misjudged>>

DeleteAccount(a) ==
    /\ account' = Drop(account, {a})
    /\ realm' = Drop(realm, {i \in Ids(realm) : realm[i].owner = a})
    /\ UNCHANGED <<backend, root, grant, job, late, misjudged>>

-----------------------------------------------------------------------------
(***************************************************************************)
(* Backends, of the platform and of users                                  *)
(***************************************************************************)
InsertBackend(b, owner, config) ==
    /\ b \in BackendIds
    /\ NextRowId(backend, b)
    /\ backend' = Put(backend, b, [owner |-> owner, config |-> config, status |-> "untested"])
    /\ misjudged' = [misjudged EXCEPT ![b] = 0]
    /\ UNCHANGED <<account, root, grant, realm, job, late>>

\* admin.backend_create: for the platform or for a user.
CreateBackend(b, owner, config) ==
    /\ owner \in Ids(account) \cup {0}
    /\ InsertBackend(b, owner, config)

\* account.backend_create: the user's own.
CreateOwnBackend(b, a, config) ==
    /\ a \in Ids(account)
    /\ InsertBackend(b, a, config)

ChangeBackend(b, owner, config) ==
    /\ backend' = [backend EXCEPT ![b].owner = owner, ![b].config = config]
    /\ misjudged' = [misjudged EXCEPT ![b] = 0]
    /\ UNCHANGED <<account, root, grant, realm, job, late>>

\* admin.backend_edit: the owner is what the form says.  Neither edit takes
\* back what a test has found.
EditBackend(b, owner, config) ==
    /\ b \in Ids(backend)
    /\ owner \in Ids(account) \cup {0}
    /\ ChangeBackend(b, owner, config)

\* account.backend_edit.
EditOwnBackend(b, a, config) ==
    /\ b \in Ids(backend)
    /\ a \in Ids(account)
    /\ backend[b].owner = a
    /\ ChangeBackend(b, a, config)

\* admin.backend_test reads the configuration and calls the provider ...
LoadTest(w, b) ==
    /\ b \in Ids(backend)
    /\ Begin(w, [k |-> "test", id |-> b, row |-> backend[b]])
    /\ UNCHANGED <<account, backend, root, grant, realm, late, misjudged>>

\* ... and so does account.backend_test, for the owner.
LoadOwnTest(w, a, b) ==
    /\ a \in Ids(account)
    /\ b \in Ids(backend)
    /\ backend[b].owner = a
    /\ LoadTest(w, b)

Verdict(w, b, verdict) ==
    /\ backend' = [backend EXCEPT ![b].status = verdict]
    /\ misjudged' = [misjudged EXCEPT ![b] = IF /\ verdict = "success"
                                        /\ backend[b].config = "wrong"
                                        /\ @ <= Most
                                      THEN @ + 1 ELSE @]

\* Mutant: the row is written whatever the provider said.
CommitTest_Success(w) ==
    /\ Commit(w, "test")
    /\ LET b == job[w].id
       IN IF b \in Ids(backend) THEN Verdict(w, b, "success") ELSE UNCHANGED <<backend, misjudged>>
    /\ UNCHANGED <<account, root, grant, realm, late>>

\* The provider takes right credentials unless it is out of reach.  What it
\* said is written to the row of that id, if it is still there and the status
\* is not the one that was read.
CommitTest(w) ==
    /\ Commit(w, "test")
    /\ LET b == job[w].id
           row == job[w].row
       IN \E verdict \in IF row.config = "right" THEN {"success", "failed"} ELSE {"failed"} :
            IF b \in Ids(backend) /\ verdict # row.status
              THEN Verdict(w, b, verdict)
              ELSE UNCHANGED <<backend, misjudged>>
    /\ UNCHANGED <<account, root, grant, realm, late>>

\* admin.backend_delete refuses if there are domain roots.
LoadDropBackend(w, b) ==
    /\ b \in Ids(backend)
    /\ RootsOn(b) = {}
    /\ Begin(w, [k |-> "dropBackend", id |-> b, roots |-> {}])
    /\ UNCHANGED <<account, backend, root, grant, realm, late, misjudged>>

\* account.backend_delete asks for the owner only ...
LoadDropOwnBackend(w, a, b) ==
    /\ a \in Ids(account)
    /\ b \in Ids(backend)
    /\ backend[b].owner = a
    /\ Begin(w, [k |-> "dropBackend", id |-> b, roots |-> RootsOn(b)])
    /\ UNCHANGED <<account, backend, root, grant, realm, late, misjudged>>

\* ... but the ORM would take the backend from the roots it has loaded, and
\* the column may not be NULL: nothing happens then.
CommitDropBackend(w) ==
    /\ Commit(w, "dropBackend")
    /\ backend' = IF job[w].roots = {} THEN Drop(backend, {job[w].id}) ELSE backend
    /\ UNCHANGED <<account, root, grant, realm, late, misjudged>>

-----------------------------------------------------------------------------
(***************************************************************************)
(* Domain roots                                                            *)
(***************************************************************************)
\* UNIQUE (backend_service_id, root_domain).
FreeOn(b, d, r) == \A q \in RootsOn(b) \ {r} : root[q].domain # d

\* admin.domain_root_create: the form may be as old as a backend that has been
\* deleted, and nobody looks.
CreateRoot(r, row) ==
    /\ r \in RootIds
    /\ NextRowId(root, r)
    /\ FreeOn(row.backend, row.domain, r)
    /\ root' = Put(root, r, row)
    /\ UNCHANGED <<account, backend, grant, realm, job, misjudged>>
    /\ Recount

\* admin.domain_root_edit, _enable and _disable: everything but the domain.
EditRoot(r, row) ==
    /\ r \in Ids(root)
    /\ row.domain = root[r].domain
    /\ FreeOn(row.backend, row.domain, r)
    /\ root' = Put(root, r, row)
    /\ UNCHANGED <<account, backend, grant, realm, job, misjudged>>
    /\ Recount

\* admin.domain_root_delete refuses if there are realms; the ORM loads the
\* grants to delete them with the root.
LoadDropRoot(w, r) ==
    /\ r \in Ids(root)
    /\ \A i \in Ids(realm) : realm[i].root # r
    /\ Begin(w, [k |-> "dropRoot", id |-> r,
                 grants |-> {g \in Ids(grant) : grant[g].root = r}])
    /\ UNCHANGED <<account, backend, root, grant, realm, late, misjudged>>

CommitDropRoot(w) ==
    /\ Commit(w, "dropRoot")
    /\ root' = Drop(root, {job[w].id})
    /\ grant' = Drop(grant, job[w].grants)
    /\ UNCHANGED <<account, backend, realm, misjudged>>
    /\ Recount

-----------------------------------------------------------------------------
(***************************************************************************)
(* Grants                                                                  *)
(***************************************************************************)
\* admin.domain_root_grant_add: a revoked grant of the account is reinstated,
\* one that is not revoked is left alone, and without one a row is inserted.
LoadGrant(w, r, a) ==
    /\ r \in Ids(root)
    /\ a \in Ids(account)
    /\ \/ GrantsOf(a, r) = {} /\ Begin(w, [k |-> "grant", account |-> a, root |-> r])
       \/ \E g \in GrantsOf(a, r) : /\ grant[g].state = "revoked"
                                    /\ Begin(w, [k |-> "reinstate", id |-> g])
    /\ UNCHANGED <<account, backend, root, grant, realm, late, misjudged>>

\* UNIQUE (domain_root_id, account_id): the second of two inserts fails.
CommitGrant(w, g) ==
    /\ Commit(w, "grant")
    /\ LET j == job[w]
       IN IF GrantsOf(j.account, j.root) = {}
            THEN /\ g \in GrantIds
                 /\ NextRowId(grant, g)
                 /\ grant' = Put(grant, g, [root |-> j.root, account |-> j.account, state |-> "live"])
            ELSE UNCHANGED grant
    /\ UNCHANGED <<account, backend, root, realm, misjudged>>
    /\ Recount

\* A grant that was reinstated by somebody else and has expired since may keep
\* its date, if the form has the one that was read.
CommitReinstate(w) ==
    /\ Commit(w, "reinstate")
    /\ LET g == job[w].id
       IN IF g \in Ids(grant)
            THEN \E s \in {"live"} \cup ({grant[g].state} \ {"revoked"}) :
                   grant' = [grant EXCEPT ![g].state = s]
            ELSE UNCHANGED grant
    /\ UNCHANGED <<account, backend, root, realm, misjudged>>
    /\ Recount

\* admin.domain_root_grant_revoke.
Revoke(g) ==
    /\ g \in Ids(grant)
    /\ grant[g].state # "revoked"
    /\ grant' = [grant EXCEPT ![g].state = "revoked"]
    /\ UNCHANGED <<account, backend, root, realm, job, misjudged>>
    /\ Recount

\* expires_at passes.
Expire(g) ==
    /\ g \in Ids(grant)
    /\ grant[g].state = "live"
    /\ grant' = [grant EXCEPT ![g].state = "expired"]
    /\ UNCHANGED <<account, backend, root, realm, job, misjudged>>
    /\ Recount

-----------------------------------------------------------------------------
(***************************************************************************)
(* Requests for a realm                                                    *)
(***************************************************************************)
\* account.request_realm_view: the roots that are open to the account are read
\* first, and the one the user chose is taken from them ...
LoadRealm(w, a, r) ==
    /\ a \in Ids(account)
    /\ Opens(a, r)
    /\ Begin(w, [k |-> "realm", account |-> a, root |-> r])
    /\ UNCHANGED <<account, backend, root, grant, realm, late, misjudged>>

\* ... and request_realm inserts the realm for the root's id.
CommitRealm(w, i) ==
    /\ Commit(w, "realm")
    /\ i \in RealmIds
    /\ NextRowId(realm, i)
    /\ LET j == job[w]
           p == <<j.account, j.root>>
       IN /\ realm' = Put(realm, i, [owner |-> j.account, root |-> j.root])
          /\ late' = [late EXCEPT ![p] = IF Access(j.account, j.root) \/ @ > Most
                                           THEN @ ELSE @ + 1]
    /\ UNCHANGED <<account, backend, root, grant, misjudged>>

AccountStep == \/ \E i \in AccountIds : InsertAccount(i)
               \/ \E a \in Ids(account) : DeleteAccount(a)
BackendStep ==
    \E b \in BackendIds, c \in BackendConfigs :
      \/ \E o \in 0 .. MaxAccount : CreateBackend(b, o, c) \/ EditBackend(b, o, c)
      \/ \E a \in AccountIds : CreateOwnBackend(b, a, c) \/ EditOwnBackend(b, a, c)
RootStep == \E r \in RootIds, row \in RootRow : CreateRoot(r, row) \/ EditRoot(r, row)
GrantStep == \E g \in GrantIds : Revoke(g) \/ Expire(g)

Load(w) == \/ \E b \in BackendIds : LoadDropBackend(w, b) \/ LoadTest(w, b)
           \/ \E a \in AccountIds, b \in BackendIds :
                LoadDropOwnBackend(w, a, b) \/ LoadOwnTest(w, a, b)
           \/ \E r \in RootIds : LoadDropRoot(w, r)
           \/ \E a \in AccountIds, r \in RootIds : LoadGrant(w, r, a) \/ LoadRealm(w, a, r)

Write(w) == \/ CommitDropBackend(w)
            \/ CommitTest(w)
            \/ CommitDropRoot(w)
            \/ \E g \in GrantIds : CommitGrant(w, g)
            \/ CommitReinstate(w)
            \/ \E i \in RealmIds : CommitRealm(w, i)

Next == AccountStep \/ BackendStep \/ RootStep \/ GrantStep
        \/ \E w \in Workers : Load(w) \/ Write(w)

Spec == Init /\ [][Next]_vars

-----------------------------------------------------------------------------
\* Every variable has its type.
TypeOK ==
    /\ IsTable(account, AccountIds, AccountRow)
    /\ IsTable(backend, BackendIds, BackendRow)
    /\ IsTable(root, RootIds, RootRow)
    /\ IsTable(grant, GrantIds, GrantRow)
    /\ IsTable(realm, RealmIds, RealmRow)
    /\ job \in [Workers -> Job]
    /\ late \in [AccountIds \X RootIds -> 0 .. Most + 1]
    /\ misjudged \in [BackendIds -> 0 .. Most + 1]

\* Once an account has lost its access to a domain root, by revocation, expiry,
\* an edit or the deletion of the root, only the requests under way bring it
\* another realm there, one per worker at most, however often ids are reused
\* (get_available_domain_roots_for_account, request_realm_view).
LateFew == \A p \in AccountIds \X RootIds : late[p] <= Most

\* A backend whose credentials are wrong is called working by the tests that
\* were under way when the row was written last, one per worker at most, if its
\* id was given out again too; every later test finds out (backend_test).
FalseSuccessFew == \A b \in BackendIds : misjudged[b] <= Most

=============================================================================

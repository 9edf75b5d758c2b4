-------------------------- MODULE Backends_proofs --------------------------
(***************************************************************************)
(* Theorems about Backends, for any workers, domains and table sizes:      *)
(* types; how many realms an account gets under a root it has lost; and    *)
(* how often a wrong configuration is called working.  Then the theorems   *)
(* about Notifications.                                                    *)
(***************************************************************************)
EXTENDS Backends, Sequences, TLAPS, FiniteSetTheorems, FunctionTheorems

USE DEF Begin, Commit

LEMMA Bounds == /\ MaxAccount \in Nat /\ MaxBackend \in Nat /\ MaxRoot \in Nat
                /\ MaxGrant \in Nat /\ MaxRealm \in Nat
                /\ IsFiniteSet(Workers) /\ Most \in Nat
  BY BackendsAssumption, FS_CardinalityType DEF Most

-----------------------------------------------------------------------------
(***************************************************************************)
(* Tables and jobs                                                         *)
(***************************************************************************)
LEMMA PutTable ==
    ASSUME NEW t, NEW ids, NEW rows, IsTable(t, ids, rows), NEW i \in ids, NEW r \in rows
    PROVE  IsTable(Put(t, i, r), ids, rows)
  BY DEF IsTable, Ids, Put

LEMMA DropTable ==
    ASSUME NEW t, NEW ids, NEW rows, IsTable(t, ids, rows), NEW S
    PROVE  IsTable(Drop(t, S), ids, rows)
  BY DEF IsTable, Ids, Drop

LEMMA SetTable ==
    ASSUME NEW t, NEW ids, NEW rows, IsTable(t, ids, rows), NEW i, NEW r \in rows
    PROVE  IsTable([t EXCEPT ![i] = r], ids, rows)
  BY DEF IsTable, Ids

LEMMA RowIn ==
    ASSUME NEW t, NEW ids, NEW rows, IsTable(t, ids, rows), NEW i \in Ids(t)
    PROVE  i \in ids /\ t[i] \in rows
  BY DEF IsTable, Ids

\* A new row's id was not in use.
LEMMA NewRow ==
    ASSUME NEW t, NEW n \in Nat, Ids(t) \subseteq 1 .. n, NEW i \in 1 .. n, NextRowId(t, i)
    PROVE  i \notin Ids(t)
  BY DEF NextRowId

LEMMA JobKind ==
    ASSUME NEW j \in Job
    PROVE  /\ j.k \in {"realm", "grant"} => j.account \in AccountIds /\ j.root \in RootIds
           /\ j.k = "reinstate" => j.id \in GrantIds
           /\ j.k = "dropRoot" => j.id \in RootIds /\ j.grants \in SUBSET GrantIds
           /\ j.k = "dropBackend" => j.id \in BackendIds /\ j.roots \in SUBSET RootIds
           /\ j.k = "test" => j.id \in BackendIds /\ j.row \in BackendRow
  BY DEF Job, Idle

LEMMA JobIn ==
    /\ Idle \in Job /\ Idle.k = "idle"
    /\ \A k \in {"realm", "grant"}, a \in AccountIds, r \in RootIds :
          LET j == [k |-> k, account |-> a, root |-> r]
          IN j \in Job /\ j.k = k /\ j.account = a /\ j.root = r
    /\ \A g \in GrantIds : LET j == [k |-> "reinstate", id |-> g]
                           IN j \in Job /\ j.k = "reinstate"
    /\ \A r \in RootIds, S \in SUBSET GrantIds :
          LET j == [k |-> "dropRoot", id |-> r, grants |-> S]
          IN j \in Job /\ j.k = "dropRoot"
    /\ \A b \in BackendIds, S \in SUBSET RootIds :
          LET j == [k |-> "dropBackend", id |-> b, roots |-> S]
          IN j \in Job /\ j.k = "dropBackend"
    /\ \A b \in BackendIds, row \in BackendRow :
          LET j == [k |-> "test", id |-> b, row |-> row]
          IN j \in Job /\ j.k = "test" /\ j.id = b /\ j.row = row
  BY DEF Job, Idle

LEMMA JobType ==
    ASSUME TypeOK, NEW w \in Workers, NEW j \in Job, job' = [job EXCEPT ![w] = j]
    PROVE  /\ job' \in [Workers -> Job]
           /\ \A v \in Workers : job'[v] = IF v = w THEN j ELSE job[v]
  BY DEF TypeOK

\* What a worker may come to be about to commit, and when.
Begins(j) ==
    \/ /\ j.k = "realm"
       /\ j.account \in AccountIds
       /\ j.root \in RootIds
       /\ Access(j.account, j.root)
    \/ /\ j.k = "test"
       /\ j.id \in Ids(backend)
       /\ j.row = backend[j.id]
    \/ j.k \notin {"realm", "test"}

LEMMA LoadJob ==
    ASSUME TypeOK, NEW w \in Workers, Load(w)
    PROVE  \E j \in Job : /\ job' = [job EXCEPT ![w] = j]
                          /\ Begins(j)
                          /\ UNCHANGED <<account, backend, root, grant, realm, late, misjudged>>
  <1>1. ASSUME NEW b \in BackendIds, NEW row, b \in Ids(backend), row = backend[b],
               job' = [job EXCEPT ![w] = [k |-> "test", id |-> b, row |-> row]],
               UNCHANGED <<account, backend, root, grant, realm, late, misjudged>>
        PROVE  \E j \in Job : /\ job' = [job EXCEPT ![w] = j]
                              /\ Begins(j)
                              /\ UNCHANGED <<account, backend, root, grant, realm, late, misjudged>>
    <2> DEFINE j == [k |-> "test", id |-> b, row |-> row]
    <2>1. row \in BackendRow
      BY <1>1, RowIn DEF TypeOK
    <2>2. j \in Job /\ j.k = "test" /\ j.id = b /\ j.row = row
      BY <2>1, JobIn
    <2>3. job' = [job EXCEPT ![w] = j]
      BY <1>1
    <2> HIDE DEF j
    <2> QED
      BY <1>1, <2>2, <2>3 DEF Begins
  <1>2. ASSUME NEW b \in BackendIds, NEW S \in SUBSET RootIds,
               job' = [job EXCEPT ![w] = [k |-> "dropBackend", id |-> b, roots |-> S]],
               UNCHANGED <<account, backend, root, grant, realm, late, misjudged>>
        PROVE  \E j \in Job : /\ job' = [job EXCEPT ![w] = j]
                              /\ Begins(j)
                              /\ UNCHANGED <<account, backend, root, grant, realm, late, misjudged>>
    <2> DEFINE j == [k |-> "dropBackend", id |-> b, roots |-> S]
    <2>1. j \in Job /\ j.k = "dropBackend"
      BY JobIn
    <2>2. job' = [job EXCEPT ![w] = j]
      BY <1>2
    <2> HIDE DEF j
    <2> QED
      BY <1>2, <2>1, <2>2 DEF Begins
  <1>3. ASSUME NEW r \in RootIds, LoadDropRoot(w, r)
        PROVE  \E j \in Job : /\ job' = [job EXCEPT ![w] = j]
                              /\ Begins(j)
                              /\ UNCHANGED <<account, backend, root, grant, realm, late, misjudged>>
    <2> DEFINE S == {g \in Ids(grant) : grant[g].root = r}
               j == [k |-> "dropRoot", id |-> r, grants |-> S]
    <2>1. S \in SUBSET GrantIds
      BY DEF TypeOK, IsTable
    <2>2. j \in Job /\ j.k = "dropRoot"
      BY <2>1, JobIn
    <2>3. job' = [job EXCEPT ![w] = j]
      BY <1>3 DEF LoadDropRoot
    <2> HIDE DEF j
    <2> QED
      BY <1>3, <2>2, <2>3 DEF Begins, LoadDropRoot
  <1>4. ASSUME NEW a \in AccountIds, NEW r \in RootIds, NEW k \in {"realm", "grant"},
               k = "realm" => Access(a, r),
               job' = [job EXCEPT ![w] = [k |-> k, account |-> a, root |-> r]],
               UNCHANGED <<account, backend, root, grant, realm, late, misjudged>>
        PROVE  \E j \in Job : /\ job' = [job EXCEPT ![w] = j]
                              /\ Begins(j)
                              /\ UNCHANGED <<account, backend, root, grant, realm, late, misjudged>>
    <2> DEFINE j == [k |-> k, account |-> a, root |-> r]
    <2>1. j \in Job /\ j.k = k /\ j.account = a /\ j.root = r
      BY JobIn
    <2>2. job' = [job EXCEPT ![w] = j]
      BY <1>4
    <2> HIDE DEF j
    <2> QED
      BY <1>4, <2>1, <2>2 DEF Begins
  <1>5. ASSUME NEW g \in GrantIds,
               job' = [job EXCEPT ![w] = [k |-> "reinstate", id |-> g]],
               UNCHANGED <<account, backend, root, grant, realm, late, misjudged>>
        PROVE  \E j \in Job : /\ job' = [job EXCEPT ![w] = j]
                              /\ Begins(j)
                              /\ UNCHANGED <<account, backend, root, grant, realm, late, misjudged>>
    <2> DEFINE j == [k |-> "reinstate", id |-> g]
    <2>1. j \in Job /\ j.k = "reinstate"
      BY JobIn
    <2>2. job' = [job EXCEPT ![w] = j]
      BY <1>5
    <2> HIDE DEF j
    <2> QED
      BY <1>5, <2>1, <2>2 DEF Begins
  <1>6. CASE \E b \in BackendIds : LoadTest(w, b)
    BY <1>1, <1>6 DEF LoadTest
  <1>7. CASE \E a \in AccountIds, b \in BackendIds : LoadOwnTest(w, a, b)
    BY <1>1, <1>7 DEF LoadOwnTest, LoadTest
  <1>8. CASE \E b \in BackendIds : LoadDropBackend(w, b)
    BY <1>2, <1>8 DEF LoadDropBackend
  <1>9. CASE \E a \in AccountIds, b \in BackendIds : LoadDropOwnBackend(w, a, b)
    <2>1. \A b \in BackendIds : RootsOn(b) \in SUBSET RootIds
      BY DEF RootsOn, TypeOK, IsTable
    <2> QED
      BY <1>2, <1>9, <2>1 DEF LoadDropOwnBackend
  <1>10. CASE \E a \in AccountIds, r \in RootIds : LoadGrant(w, r, a)
    <2>1. PICK a \in AccountIds, r \in RootIds : LoadGrant(w, r, a)
      BY <1>10
    <2>2. GrantsOf(a, r) \subseteq GrantIds
      BY DEF GrantsOf, TypeOK, IsTable
    <2>3. CASE job' = [job EXCEPT ![w] = [k |-> "grant", account |-> a, root |-> r]]
      BY <1>4, <2>1, <2>3 DEF LoadGrant
    <2>4. CASE \E g \in GrantIds : job' = [job EXCEPT ![w] = [k |-> "reinstate", id |-> g]]
      BY <1>5, <2>1, <2>4 DEF LoadGrant
    <2> QED
      BY <2>1, <2>2, <2>3, <2>4 DEF LoadGrant
  <1>11. CASE \E a \in AccountIds, r \in RootIds : LoadRealm(w, a, r)
    BY <1>4, <1>11 DEF LoadRealm, Opens, Access
  <1> QED
    BY <1>3, <1>6, <1>7, <1>8, <1>9, <1>10, <1>11 DEF Load

-----------------------------------------------------------------------------
(***************************************************************************)
(* Types                                                                   *)
(***************************************************************************)
LEMMA TypeInit == Init => TypeOK
  <1> SUFFICES ASSUME Init PROVE TypeOK
    OBVIOUS
  <1>1. /\ IsTable(account, AccountIds, AccountRow)
        /\ IsTable(backend, BackendIds, BackendRow)
        /\ IsTable(root, RootIds, RootRow)
        /\ IsTable(grant, GrantIds, GrantRow)
        /\ IsTable(realm, RealmIds, RealmRow)
    BY DEF Init, IsTable, Ids
  <1>2. job \in [Workers -> Job]
    BY JobIn DEF Init
  <1>3. 0 \in 0 .. Most + 1
    BY Bounds
  <1>4. /\ late \in [AccountIds \X RootIds -> 0 .. Most + 1]
        /\ misjudged \in [BackendIds -> 0 .. Most + 1]
    BY <1>3 DEF Init
  <1> QED
    BY <1>1, <1>2, <1>4 DEF TypeOK

\* The counters stay within their bounds.
LEMMA RecountType ==
    ASSUME TypeOK, Recount
    PROVE  late' \in [AccountIds \X RootIds -> 0 .. Most + 1]
  <1>1. \A p \in AccountIds \X RootIds :
           (IF Access(p[1], p[2])' THEN 0 ELSE late[p]) \in 0 .. Most + 1
    <2>1. 0 \in 0 .. Most + 1
      BY Bounds
    <2> QED
      BY <2>1 DEF TypeOK
  <1> QED
    BY <1>1 DEF Recount

LEMMA VerdictType ==
    ASSUME TypeOK, NEW w \in Workers, NEW b \in Ids(backend),
           NEW v \in {"success", "failed"}, Verdict(w, b, v)
    PROVE  /\ IsTable(backend', BackendIds, BackendRow)
           /\ misjudged' \in [BackendIds -> 0 .. Most + 1]
  <1>1. b \in BackendIds /\ backend[b] \in BackendRow
    BY RowIn DEF TypeOK
  <1>2. [backend[b] EXCEPT !.status = v] \in BackendRow
    BY <1>1 DEF BackendRow
  <1>3. IsTable(backend', BackendIds, BackendRow)
    <2> DEFINE r == [backend[b] EXCEPT !.status = v]
    <2>1. backend' = [backend EXCEPT ![b] = r]
      BY DEF Verdict
    <2>2. r \in BackendRow
      BY <1>2
    <2> HIDE DEF r
    <2> QED
      BY <2>1, <2>2, SetTable DEF TypeOK
  <1>4. misjudged[b] \in 0 .. Most + 1
    BY <1>1 DEF TypeOK
  <1>5. (IF v = "success" /\ backend[b].config = "wrong" /\ misjudged[b] <= Most
           THEN misjudged[b] + 1 ELSE misjudged[b]) \in 0 .. Most + 1
    BY <1>4, Bounds
  <1>6. misjudged' \in [BackendIds -> 0 .. Most + 1]
    BY <1>1, <1>5 DEF TypeOK, Verdict
  <1> QED
    BY <1>3, <1>6

\* What a commit leaves of the worker's job, and what it took from it.
LEMMA WriteJob ==
    ASSUME TypeOK, NEW w \in Workers, Write(w)
    PROVE  /\ job' = [job EXCEPT ![w] = Idle]
           /\ job' \in [Workers -> Job]
           /\ job[w] \in Job
  <1>1. job' = [job EXCEPT ![w] = Idle]
    BY DEF Write, CommitDropBackend, CommitTest, CommitDropRoot, CommitGrant, CommitReinstate,
           CommitRealm
  <1> QED
    BY <1>1, JobIn, JobType DEF TypeOK

LEMMA TypeWrite ==
    ASSUME TypeOK, NEW w \in Workers, Write(w)
    PROVE  TypeOK'
  <1>1. job' \in [Workers -> Job] /\ job[w] \in Job
    BY WriteJob
  <1>2. CASE CommitDropBackend(w)
    <2>1. backend' = Drop(backend, {job[w].id}) \/ UNCHANGED backend
      BY <1>2 DEF CommitDropBackend
    <2>2. IsTable(backend', BackendIds, BackendRow)
      BY <2>1, DropTable DEF TypeOK
    <2> QED
      BY <1>1, <1>2, <2>2 DEF CommitDropBackend, TypeOK
  <1>3. CASE CommitTest(w)
    <2>1. \/ \E b \in Ids(backend), v \in {"success", "failed"} : Verdict(w, b, v)
          \/ UNCHANGED <<backend, misjudged>>
      BY <1>3 DEF CommitTest
    <2>2. /\ IsTable(backend', BackendIds, BackendRow)
          /\ misjudged' \in [BackendIds -> 0 .. Most + 1]
      BY <2>1, VerdictType DEF TypeOK
    <2> QED
      BY <1>1, <1>3, <2>2 DEF CommitTest, TypeOK
  <1>4. CASE CommitDropRoot(w)
    <2>1. IsTable(root', RootIds, RootRow) /\ IsTable(grant', GrantIds, GrantRow)
      BY <1>4, DropTable DEF CommitDropRoot, TypeOK
    <2>2. late' \in [AccountIds \X RootIds -> 0 .. Most + 1]
      BY <1>4, RecountType DEF CommitDropRoot
    <2> QED
      BY <1>1, <1>4, <2>1, <2>2 DEF CommitDropRoot, TypeOK
  <1>5. CASE \E g \in GrantIds : CommitGrant(w, g)
    <2>1. PICK g \in GrantIds : CommitGrant(w, g)
      BY <1>5
    <2> DEFINE r == [root |-> job[w].root, account |-> job[w].account, state |-> "live"]
    <2>2. r \in GrantRow
      BY <1>1, <2>1, JobKind DEF CommitGrant, GrantRow
    <2>3. grant' = Put(grant, g, r) \/ UNCHANGED grant
      BY <2>1 DEF CommitGrant
    <2> HIDE DEF r
    <2>4. IsTable(grant', GrantIds, GrantRow)
      BY <2>2, <2>3, PutTable DEF TypeOK
    <2>5. late' \in [AccountIds \X RootIds -> 0 .. Most + 1]
      BY <2>1, RecountType DEF CommitGrant
    <2> QED
      BY <1>1, <2>1, <2>4, <2>5 DEF CommitGrant, TypeOK
  <1>6. CASE CommitReinstate(w)
    <2> DEFINE g == job[w].id
    <2>1. IsTable(grant', GrantIds, GrantRow)
      <3>1. CASE g \in Ids(grant)
        <4>1. grant[g] \in GrantRow
          BY <3>1, RowIn DEF TypeOK
        <4>2. PICK s \in {"live"} \cup ({grant[g].state} \ {"revoked"}) :
                 grant' = [grant EXCEPT ![g].state = s]
          BY <1>6, <3>1 DEF CommitReinstate
        <4> DEFINE r == [grant[g] EXCEPT !.state = s]
        <4>3. r \in GrantRow
          BY <4>1 DEF GrantRow
        <4>4. grant' = [grant EXCEPT ![g] = r]
          BY <4>2
        <4> HIDE DEF r
        <4> QED
          BY <4>3, <4>4, SetTable DEF TypeOK
      <3>2. CASE g \notin Ids(grant)
        BY <1>6, <3>2 DEF CommitReinstate, TypeOK
      <3> QED
        BY <3>1, <3>2
    <2>2. late' \in [AccountIds \X RootIds -> 0 .. Most + 1]
      BY <1>6, RecountType DEF CommitReinstate
    <2> QED
      BY <1>1, <1>6, <2>1, <2>2 DEF CommitReinstate, TypeOK
  <1>7. CASE \E i \in RealmIds : CommitRealm(w, i)
    <2>1. PICK i \in RealmIds : CommitRealm(w, i)
      BY <1>7
    <2>2. job[w].account \in AccountIds /\ job[w].root \in RootIds
      BY <1>1, <2>1, JobKind DEF CommitRealm
    <2> DEFINE r == [owner |-> job[w].account, root |-> job[w].root]
               p == <<job[w].account, job[w].root>>
    <2>3. IsTable(realm', RealmIds, RealmRow)
      <3>1. r \in RealmRow
        BY <2>2 DEF RealmRow
      <3>2. realm' = Put(realm, i, r)
        BY <2>1 DEF CommitRealm
      <3> HIDE DEF r
      <3> QED
        BY <3>1, <3>2, PutTable DEF TypeOK
    <2>4. late' \in [AccountIds \X RootIds -> 0 .. Most + 1]
      <3>1. late[p] \in 0 .. Most + 1
        BY <2>2 DEF TypeOK
      <3>2. late[p] <= Most => late[p] + 1 \in 0 .. Most + 1
        BY <3>1, Bounds
      <3>3. \E n \in 0 .. Most + 1 : late' = [late EXCEPT ![p] = n]
        <4> DEFINE n == IF Access(job[w].account, job[w].root) \/ late[p] > Most
                          THEN late[p] ELSE late[p] + 1
        <4>1. late' = [late EXCEPT ![p] = n]
          BY <2>1 DEF CommitRealm
        <4>2. late[p] > Most \/ late[p] <= Most
          BY <3>1, Bounds
        <4>3. n \in 0 .. Most + 1
          BY <3>1, <3>2, <4>2
        <4> HIDE DEF n
        <4> QED
          BY <4>1, <4>3
      <3> QED
        BY <3>3 DEF TypeOK
    <2> QED
      BY <1>1, <2>1, <2>3, <2>4 DEF CommitRealm, TypeOK
  <1> QED
    BY <1>2, <1>3, <1>4, <1>5, <1>6, <1>7 DEF Write

LEMMA TypeAccountStep == ASSUME TypeOK, AccountStep PROVE TypeOK'
  <1>1. CASE \E i \in AccountIds : InsertAccount(i)
    <2>1. PICK i \in AccountIds : InsertAccount(i)
      BY <1>1
    <2>2. IsTable(account', AccountIds, AccountRow)
      BY <2>1, PutTable DEF InsertAccount, TypeOK, AccountRow
    <2> QED
      BY <2>1, <2>2 DEF InsertAccount, TypeOK
  <1>2. CASE \E a \in Ids(account) : DeleteAccount(a)
    <2>1. PICK a \in Ids(account) : DeleteAccount(a)
      BY <1>2
    <2>2. IsTable(account', AccountIds, AccountRow) /\ IsTable(realm', RealmIds, RealmRow)
      BY <2>1, DropTable DEF DeleteAccount, TypeOK
    <2> QED
      BY <2>1, <2>2 DEF DeleteAccount, TypeOK
  <1> QED
    BY <1>1, <1>2 DEF AccountStep

\* A backend is inserted or edited.
LEMMA BackendStepIs ==
    ASSUME TypeOK, BackendStep
    PROVE  \E b \in BackendIds, row \in BackendRow :
              /\ \/ NextRowId(backend, b) /\ backend' = Put(backend, b, row)
                 \/ b \in Ids(backend) /\ backend' = [backend EXCEPT ![b] = row]
              /\ misjudged' = [misjudged EXCEPT ![b] = 0]
              /\ UNCHANGED <<account, root, grant, realm, job, late>>
  <1>1. Ids(account) \cup {0} \subseteq 0 .. MaxAccount /\ AccountIds \subseteq 0 .. MaxAccount
    BY Bounds DEF TypeOK, IsTable, AccountIds
  <1>2. ASSUME NEW b \in BackendIds, NEW c \in BackendConfigs, NEW o \in 0 .. MaxAccount,
               InsertBackend(b, o, c)
        PROVE  \E row \in BackendRow :
                 /\ NextRowId(backend, b) /\ backend' = Put(backend, b, row)
                 /\ misjudged' = [misjudged EXCEPT ![b] = 0]
                 /\ UNCHANGED <<account, root, grant, realm, job, late>>
    <2> DEFINE row == [owner |-> o, config |-> c, status |-> "untested"]
    <2>1. row \in BackendRow
      BY DEF BackendRow
    <2>2. backend' = Put(backend, b, row)
      BY <1>2 DEF InsertBackend
    <2> HIDE DEF row
    <2> QED
      BY <1>2, <2>1, <2>2 DEF InsertBackend
  <1>3. ASSUME NEW b \in Ids(backend), NEW c \in BackendConfigs, NEW o \in 0 .. MaxAccount,
               ChangeBackend(b, o, c)
        PROVE  \E row \in BackendRow :
                 /\ backend' = [backend EXCEPT ![b] = row]
                 /\ misjudged' = [misjudged EXCEPT ![b] = 0]
                 /\ UNCHANGED <<account, root, grant, realm, job, late>>
    <2> DEFINE row == [backend[b] EXCEPT !.owner = o, !.config = c]
    <2>1. backend[b] \in BackendRow /\ backend \in [Ids(backend) -> BackendRow]
      BY RowIn DEF TypeOK, IsTable
    <2>2. row \in BackendRow
      BY <2>1 DEF BackendRow
    <2>3. backend' = [backend EXCEPT ![b] = row]
      <3>1. backend' = [backend EXCEPT ![b].owner = o, ![b].config = c]
        BY <1>3 DEF ChangeBackend
      <3>2. b \in DOMAIN backend
        BY DEF Ids
      <3> QED
        BY <2>1, <3>1, <3>2
    <2> HIDE DEF row
    <2> QED
      BY <1>3, <2>2, <2>3 DEF ChangeBackend
  <1>4. PICK b \in BackendIds, c \in BackendConfigs :
          \/ \E o \in 0 .. MaxAccount : CreateBackend(b, o, c) \/ EditBackend(b, o, c)
          \/ \E a \in AccountIds : CreateOwnBackend(b, a, c) \/ EditOwnBackend(b, a, c)
    BY DEF BackendStep
  <1>5. \/ \E o \in 0 .. MaxAccount : InsertBackend(b, o, c)
        \/ b \in Ids(backend) /\ \E o \in 0 .. MaxAccount : ChangeBackend(b, o, c)
    BY <1>1, <1>4 DEF CreateBackend, EditBackend, CreateOwnBackend, EditOwnBackend
  <1>6. CASE \E o \in 0 .. MaxAccount : InsertBackend(b, o, c)
    BY <1>2, <1>6
  <1>7. CASE b \in Ids(backend) /\ \E o \in 0 .. MaxAccount : ChangeBackend(b, o, c)
    BY <1>3, <1>7
  <1> QED
    BY <1>5, <1>6, <1>7

LEMMA TypeBackendStep == ASSUME TypeOK, BackendStep PROVE TypeOK'
  <1>1. PICK b \in BackendIds, row \in BackendRow :
              /\ \/ NextRowId(backend, b) /\ backend' = Put(backend, b, row)
                 \/ b \in Ids(backend) /\ backend' = [backend EXCEPT ![b] = row]
              /\ misjudged' = [misjudged EXCEPT ![b] = 0]
              /\ UNCHANGED <<account, root, grant, realm, job, late>>
    BY BackendStepIs
  <1>2. IsTable(backend', BackendIds, BackendRow)
    <2>1. IsTable(Put(backend, b, row), BackendIds, BackendRow)
      BY PutTable DEF TypeOK
    <2>2. IsTable([backend EXCEPT ![b] = row], BackendIds, BackendRow)
      BY SetTable DEF TypeOK
    <2>3. \/ backend' = Put(backend, b, row)
          \/ backend' = [backend EXCEPT ![b] = row]
      BY <1>1
    <2> QED
      BY <2>1, <2>2, <2>3
  <1>3. misjudged' \in [BackendIds -> 0 .. Most + 1]
    <2>1. 0 \in 0 .. Most + 1
      BY Bounds
    <2> QED
      BY <1>1, <2>1 DEF TypeOK
  <1> QED
    BY <1>1, <1>2, <1>3 DEF TypeOK

LEMMA TypeRootStep == ASSUME TypeOK, RootStep PROVE TypeOK'
  <1>1. PICK r \in RootIds, row \in RootRow : CreateRoot(r, row) \/ EditRoot(r, row)
    BY DEF RootStep
  <1>2. IsTable(root', RootIds, RootRow)
    BY <1>1, PutTable DEF CreateRoot, EditRoot, TypeOK
  <1>3. late' \in [AccountIds \X RootIds -> 0 .. Most + 1]
    BY <1>1, RecountType DEF CreateRoot, EditRoot
  <1> QED
    BY <1>1, <1>2, <1>3 DEF CreateRoot, EditRoot, TypeOK

LEMMA TypeGrantStep == ASSUME TypeOK, GrantStep PROVE TypeOK'
  <1>1. PICK g \in GrantIds : Revoke(g) \/ Expire(g)
    BY DEF GrantStep
  <1>2. IsTable(grant', GrantIds, GrantRow)
    <2>1. PICK s \in {"revoked", "expired"} :
             g \in Ids(grant) /\ grant' = [grant EXCEPT ![g].state = s]
      BY <1>1 DEF Revoke, Expire
    <2> DEFINE row == [grant[g] EXCEPT !.state = s]
    <2>4. grant[g] \in GrantRow
      BY <2>1, RowIn DEF TypeOK
    <2>2. row \in GrantRow
      BY <2>4 DEF GrantRow
    <2>3. grant' = [grant EXCEPT ![g] = row]
      BY <2>1
    <2> HIDE DEF row
    <2> QED
      BY <2>2, <2>3, SetTable DEF TypeOK
  <1>3. late' \in [AccountIds \X RootIds -> 0 .. Most + 1]
    BY <1>1, RecountType DEF Revoke, Expire
  <1> QED
    BY <1>1, <1>2, <1>3 DEF Revoke, Expire, TypeOK

LEMMA TypeLoad == ASSUME TypeOK, NEW w \in Workers, Load(w) PROVE TypeOK'
  <1>1. PICK j \in Job : /\ job' = [job EXCEPT ![w] = j]
                         /\ UNCHANGED <<account, backend, root, grant, realm, late, misjudged>>
    BY LoadJob
  <1> QED
    BY <1>1, JobType DEF TypeOK

LEMMA TypeStep == TypeOK /\ [Next]_vars => TypeOK'
  <1> SUFFICES ASSUME TypeOK, [Next]_vars PROVE TypeOK'
    OBVIOUS
  <1>1. CASE UNCHANGED vars
    BY <1>1 DEF vars, TypeOK
  <1>2. CASE Next
    BY <1>2, TypeAccountStep, TypeBackendStep, TypeRootStep, TypeGrantStep, TypeLoad, TypeWrite
       DEF Next
  <1> QED
    BY <1>1, <1>2

\* Every variable has its type.
THEOREM TypeCorrect == Spec => []TypeOK
  BY TypeInit, TypeStep, PTL DEF Spec

-----------------------------------------------------------------------------
(***************************************************************************)
(* What has happened, and the workers that may make it happen once more    *)
(***************************************************************************)
LEMMA Counts ==
    ASSUME NEW S \in SUBSET Workers, NEW T \in SUBSET Workers, NEW n \in Nat, NEW m \in Nat,
           n + Cardinality(S) <= Most,
           \/ m = 0
           \/ m <= n /\ T \subseteq S
           \/ m <= n + 1 /\ \E w \in S : T \subseteq S \ {w}
    PROVE  m + Cardinality(T) <= Most
  <1>1. /\ IsFiniteSet(S) /\ IsFiniteSet(T)
        /\ Cardinality(S) \in Nat /\ Cardinality(T) \in Nat /\ Cardinality(T) <= Most
    BY Bounds, FS_Subset, FS_CardinalityType DEF Most
  <1>2. CASE m = 0
    BY <1>1, <1>2, Bounds
  <1>3. CASE m <= n /\ T \subseteq S
    <2>1. Cardinality(T) <= Cardinality(S)
      BY <1>1, <1>3, FS_Subset
    <2> QED
      BY <1>1, <1>3, <2>1, Bounds
  <1>4. CASE m <= n + 1 /\ \E w \in S : T \subseteq S \ {w}
    <2>1. PICK w \in S : T \subseteq S \ {w}
      BY <1>4
    <2>2. /\ IsFiniteSet(S \ {w})
          /\ Cardinality(S \ {w}) = Cardinality(S) - 1
      BY <1>1, FS_RemoveElement
    <2>3. Cardinality(T) <= Cardinality(S \ {w})
      BY <2>1, <2>2, FS_Subset
    <2> QED
      BY <1>1, <1>4, <2>2, <2>3, Bounds
  <1> QED
    BY <1>2, <1>3, <1>4

\* The workers about to insert a realm of an account under a root, and about
\* to write what a test of right credentials found.
Asking(p) == {w \in Workers : /\ job[w].k = "realm"
                              /\ job[w].account = p[1]
                              /\ job[w].root = p[2]}
Testing(b) == {w \in Workers : /\ job[w].k = "test"
                               /\ job[w].id = b
                               /\ job[w].row.config = "right"}

\* A worker that commits is in none of these sets any more.
LEMMA WriteSets ==
    ASSUME TypeOK, NEW w \in Workers, job' = [job EXCEPT ![w] = Idle]
    PROVE  /\ \A p : Asking(p)' \subseteq Asking(p) \ {w}
           /\ \A b : Testing(b)' \subseteq Testing(b) \ {w}
  <1>1. \A v \in Workers : job'[v] = IF v = w THEN Idle ELSE job[v]
    BY JobIn, JobType
  <1>2. Idle.k \notin {"realm", "test"}
    BY JobIn
  <1>3. ASSUME NEW p PROVE Asking(p)' \subseteq Asking(p) \ {w}
    BY <1>1, <1>2 DEF Asking
  <1>4. ASSUME NEW b PROVE Testing(b)' \subseteq Testing(b) \ {w}
    BY <1>1, <1>2 DEF Testing
  <1> QED
    BY <1>3, <1>4

\* A worker that begins is in the sets of what it has begun.
LEMMA LoadSets ==
    ASSUME TypeOK, NEW w \in Workers, NEW j \in Job, job' = [job EXCEPT ![w] = j], Begins(j)
    PROVE  /\ \A p \in AccountIds \X RootIds :
                 Asking(p)' \subseteq Asking(p) \/ Access(p[1], p[2])
           /\ \A b \in BackendIds :
                 \/ Testing(b)' \subseteq Testing(b)
                 \/ b \in Ids(backend) /\ backend[b].config = "right"
  <1>1. \A v \in Workers : job'[v] = IF v = w THEN j ELSE job[v]
    BY JobType
  <1>2. ASSUME NEW p \in AccountIds \X RootIds, ~Access(p[1], p[2])
        PROVE  Asking(p)' \subseteq Asking(p)
    <2>1. ~(j.k = "realm" /\ j.account = p[1] /\ j.root = p[2])
      BY <1>2 DEF Begins
    <2> QED
      BY <1>1, <2>1 DEF Asking
  <1>3. ASSUME NEW b \in BackendIds, ~(b \in Ids(backend) /\ backend[b].config = "right")
        PROVE  Testing(b)' \subseteq Testing(b)
    <2>1. ~(j.k = "test" /\ j.id = b /\ j.row.config = "right")
      BY <1>3 DEF Begins
    <2> QED
      BY <1>1, <2>1 DEF Testing
  <1> QED
    BY <1>2, <1>3

-----------------------------------------------------------------------------
(***************************************************************************)
(* Realms under a lost root                                                *)
(***************************************************************************)
\* Each request under way may add one to late; there is nothing to add while
\* the account has its access.
LateAt(p) == /\ Access(p[1], p[2]) => late[p] = 0
             /\ late[p] + Cardinality(Asking(p)) <= Most
LateInv == TypeOK /\ \A p \in AccountIds \X RootIds : LateAt(p)

LEMMA LateInit == Init => LateInv
  <1> SUFFICES ASSUME Init, NEW p \in AccountIds \X RootIds PROVE LateAt(p)
    BY TypeInit DEF LateInv
  <1>1. late[p] = 0 /\ Asking(p) = {}
    BY JobIn DEF Init, Asking
  <1> QED
    BY <1>1, Bounds, FS_EmptySet DEF LateAt

\* What every step does to late.
LateEffect(p) ==
    /\ Access(p[1], p[2])' => late'[p] = 0
    /\ \/ late'[p] = 0
       \/ late'[p] <= late[p] /\ Asking(p)' \subseteq Asking(p)
       \/ late'[p] <= late[p] + 1 /\ \E w \in Asking(p) : Asking(p)' \subseteq Asking(p) \ {w}

LEMMA LateNat ==
    ASSUME TypeOK, NEW p \in AccountIds \X RootIds
    PROVE  late[p] \in Nat /\ late[p] <= late[p]
  BY Bounds DEF TypeOK

LEMMA LateKeeps ==
    ASSUME LateInv, TypeOK', NEW p \in AccountIds \X RootIds, LateEffect(p)
    PROVE  LateAt(p)'
  <1>1. late[p] \in Nat /\ late'[p] \in Nat
    BY Bounds DEF LateInv, TypeOK
  <1>2. Asking(p) \in SUBSET Workers /\ Asking(p)' \in SUBSET Workers
    BY DEF Asking
  <1>3. late[p] + Cardinality(Asking(p)) <= Most
    BY DEF LateInv, LateAt
  <1>4. late'[p] + Cardinality(Asking(p)') <= Most
    BY <1>1, <1>2, <1>3, Counts DEF LateEffect
  <1> QED
    BY <1>4 DEF LateEffect, LateAt

\* A step that counts anew and begins no request.
LEMMA RecountEffect ==
    ASSUME LateInv, NEW p \in AccountIds \X RootIds, Recount, Asking(p)' \subseteq Asking(p)
    PROVE  LateEffect(p)
  <1>1. late'[p] = IF Access(p[1], p[2])' THEN 0 ELSE late[p]
    BY DEF Recount
  <1>2. late[p] <= late[p]
    BY LateNat DEF LateInv
  <1> QED
    BY <1>1, <1>2 DEF LateEffect

\* A step that changes neither accesses nor counts.
LEMMA QuietEffect ==
    ASSUME LateInv, NEW p \in AccountIds \X RootIds, UNCHANGED <<root, grant, late>>,
           Asking(p)' \subseteq Asking(p) \/ Access(p[1], p[2])
    PROVE  LateEffect(p)
  <1>1. Access(p[1], p[2])' = Access(p[1], p[2])
    BY DEF Access, GrantsOf, Ids
  <1>2. late[p] <= late[p] /\ (Access(p[1], p[2]) => late[p] = 0)
    BY LateNat DEF LateInv, LateAt
  <1> QED
    BY <1>1, <1>2 DEF LateEffect

LEMMA RealmEffect ==
    ASSUME LateInv, NEW w \in Workers, NEW i \in RealmIds, CommitRealm(w, i),
           NEW p \in AccountIds \X RootIds
    PROVE  LateEffect(p)
  <1>1. Asking(p)' \subseteq Asking(p) \ {w} /\ TypeOK
    BY WriteSets DEF CommitRealm, LateInv
  <1> DEFINE q == <<job[w].account, job[w].root>>
  <1>2. q \in AccountIds \X RootIds /\ q[1] = job[w].account /\ q[2] = job[w].root
    <2>1. job[w] \in Job /\ job[w].k = "realm"
      BY <1>1 DEF CommitRealm, TypeOK
    <2> QED
      BY <2>1, JobKind
  <1>3. CASE p = q /\ ~Access(q[1], q[2])
    <2>1. w \in Asking(p)
      BY <1>2, <1>3 DEF Asking, CommitRealm
    <2>2. ~Access(p[1], p[2])'
      BY <1>3 DEF CommitRealm, Access, GrantsOf, Ids
    <2>3. late'[p] <= late[p] + 1
      <3> DEFINE n == IF Access(q[1], q[2]) \/ late[q] > Most THEN late[q] ELSE late[q] + 1
      <3>1. late' = [late EXCEPT ![q] = n]
        BY <1>2 DEF CommitRealm
      <3>2. late'[p] = n
        BY <1>1, <1>2, <1>3, <3>1 DEF TypeOK
      <3>3. n <= late[p] + 1
        BY <1>1, <1>3, LateNat
      <3> QED
        BY <3>2, <3>3
    <2> QED
      BY <1>1, <2>1, <2>2, <2>3 DEF LateEffect
  <1>4. CASE ~(p = q /\ ~Access(q[1], q[2]))
    <2>1. late'[p] = late[p]
      <3> DEFINE n == IF Access(q[1], q[2]) \/ late[q] > Most THEN late[q] ELSE late[q] + 1
      <3>1. late' = [late EXCEPT ![q] = n]
        BY <1>2 DEF CommitRealm
      <3>2. p = q => n = late[q]
        BY <1>4
      <3> HIDE DEF n, q
      <3> QED
        BY <1>1, <1>2, <3>1, <3>2 DEF TypeOK
    <2>2. Access(p[1], p[2])' = Access(p[1], p[2])
      BY DEF CommitRealm, Access, GrantsOf, Ids
    <2>3. late[p] <= late[p] /\ (Access(p[1], p[2]) => late[p] = 0)
      BY LateNat DEF LateInv, LateAt
    <2> QED
      BY <1>1, <2>1, <2>2, <2>3 DEF LateEffect
  <1> QED
    BY <1>3, <1>4

LEMMA LateStep == LateInv /\ [Next]_vars => LateInv'
  <1> SUFFICES ASSUME LateInv, [Next]_vars PROVE LateInv'
    OBVIOUS
  <1>1. TypeOK /\ TypeOK'
    BY TypeStep DEF LateInv
  <1> SUFFICES ASSUME NEW p \in AccountIds \X RootIds PROVE LateEffect(p)
    BY <1>1, LateKeeps DEF LateInv
  <1>2. ASSUME UNCHANGED job PROVE Asking(p)' \subseteq Asking(p)
    BY <1>2 DEF Asking
  <1>3. CASE UNCHANGED vars
    BY <1>2, <1>3, QuietEffect DEF vars
  <1>4. CASE AccountStep
    BY <1>2, <1>4, QuietEffect DEF AccountStep, InsertAccount, DeleteAccount
  <1>5. CASE BackendStep
    BY <1>1, <1>2, <1>5, QuietEffect, BackendStepIs
  <1>6. CASE RootStep
    BY <1>2, <1>6, RecountEffect DEF RootStep, CreateRoot, EditRoot
  <1>7. CASE GrantStep
    BY <1>2, <1>7, RecountEffect DEF GrantStep, Revoke, Expire
  <1>8. ASSUME NEW w \in Workers, Load(w) PROVE LateEffect(p)
    BY <1>1, <1>8, LoadJob, LoadSets, QuietEffect
  <1>9. ASSUME NEW w \in Workers, Write(w) PROVE LateEffect(p)
    <2>1. Asking(p)' \subseteq Asking(p)
      BY <1>1, <1>9, WriteJob, WriteSets
    <2>2. CASE CommitDropBackend(w)
      BY <2>1, <2>2, QuietEffect DEF CommitDropBackend
    <2>3. CASE CommitTest(w)
      BY <2>1, <2>3, QuietEffect DEF CommitTest
    <2>4. CASE CommitDropRoot(w)
      BY <2>1, <2>4, RecountEffect DEF CommitDropRoot
    <2>5. CASE \E g \in GrantIds : CommitGrant(w, g)
      BY <2>1, <2>5, RecountEffect DEF CommitGrant
    <2>6. CASE CommitReinstate(w)
      BY <2>1, <2>6, RecountEffect DEF CommitReinstate
    <2>7. CASE \E i \in RealmIds : CommitRealm(w, i)
      BY <2>7, RealmEffect
    <2> QED
      BY <1>9, <2>2, <2>3, <2>4, <2>5, <2>6, <2>7 DEF Write
  <1> QED
    BY <1>3, <1>4, <1>5, <1>6, <1>7, <1>8, <1>9 DEF Next

\* An account that has lost its access to a domain root gets at most one more
\* realm there per worker (get_available_domain_roots_for_account,
\* request_realm_view).
THEOREM LateRealmsAreFew == Spec => []LateFew
  <1>1. LateInv => LateFew
    <2> SUFFICES ASSUME LateInv, NEW p \in AccountIds \X RootIds PROVE late[p] <= Most
      BY DEF LateFew
    <2>1. Asking(p) \in SUBSET Workers /\ late[p] \in Nat
      BY LateNat DEF Asking, LateInv
    <2>2. Cardinality(Asking(p)) \in Nat
      BY <2>1, Bounds, FS_Subset, FS_CardinalityType
    <2>3. late[p] + Cardinality(Asking(p)) <= Most
      BY DEF LateInv, LateAt
    <2> QED
      BY <2>1, <2>2, <2>3, Bounds
  <1> QED
    BY <1>1, LateInit, LateStep, PTL DEF Spec

-----------------------------------------------------------------------------
(***************************************************************************)
(* Verdicts on a wrong configuration                                       *)
(***************************************************************************)
\* Each test of right credentials under way may call a wrong configuration
\* working; none has while the configuration is right.
JudgedAt(b) == /\ b \in Ids(backend) /\ backend[b].config = "right" => misjudged[b] = 0
               /\ misjudged[b] + Cardinality(Testing(b)) <= Most
JudgedInv == TypeOK /\ \A b \in BackendIds : JudgedAt(b)

LEMMA JudgedInit == Init => JudgedInv
  <1> SUFFICES ASSUME Init, NEW b \in BackendIds PROVE JudgedAt(b)
    BY TypeInit DEF JudgedInv
  <1>1. misjudged[b] = 0 /\ Testing(b) = {}
    BY JobIn DEF Init, Testing
  <1> QED
    BY <1>1, Bounds, FS_EmptySet DEF JudgedAt

\* What every step does to misjudged.
JudgedEffect(b) ==
    /\ b \in Ids(backend)' /\ backend'[b].config = "right" => misjudged'[b] = 0
    /\ \/ misjudged'[b] = 0
       \/ misjudged'[b] <= misjudged[b] /\ Testing(b)' \subseteq Testing(b)
       \/ /\ misjudged'[b] <= misjudged[b] + 1
          /\ \E w \in Testing(b) : Testing(b)' \subseteq Testing(b) \ {w}

LEMMA JudgedNat ==
    ASSUME TypeOK, NEW b \in BackendIds
    PROVE  misjudged[b] \in Nat /\ misjudged[b] <= misjudged[b]
  BY Bounds DEF TypeOK

LEMMA JudgedKeeps ==
    ASSUME JudgedInv, TypeOK', NEW b \in BackendIds, JudgedEffect(b)
    PROVE  JudgedAt(b)'
  <1>1. misjudged[b] \in Nat /\ misjudged'[b] \in Nat
    BY Bounds DEF JudgedInv, TypeOK
  <1>2. Testing(b) \in SUBSET Workers /\ Testing(b)' \in SUBSET Workers
    BY DEF Testing
  <1>3. misjudged[b] + Cardinality(Testing(b)) <= Most
    BY DEF JudgedInv, JudgedAt
  <1>4. misjudged'[b] + Cardinality(Testing(b)') <= Most
    BY <1>1, <1>2, <1>3, Counts DEF JudgedEffect
  <1> QED
    BY <1>4 DEF JudgedEffect, JudgedAt

\* A step that leaves the backends as they are.
LEMMA SameBackends ==
    ASSUME JudgedInv, NEW b \in BackendIds, UNCHANGED <<backend, misjudged>>,
           \/ Testing(b)' \subseteq Testing(b)
           \/ b \in Ids(backend) /\ backend[b].config = "right"
    PROVE  JudgedEffect(b)
  <1>1. /\ misjudged[b] <= misjudged[b]
        /\ b \in Ids(backend) /\ backend[b].config = "right" => misjudged[b] = 0
    BY JudgedNat DEF JudgedInv, JudgedAt
  <1> QED
    BY <1>1 DEF JudgedEffect, Ids

\* A backend that is inserted or edited starts anew; the others do not change.
LEMMA EditedEffect ==
    ASSUME JudgedInv, BackendStep, NEW b \in BackendIds
    PROVE  JudgedEffect(b)
  <1>1. PICK c \in BackendIds, row \in BackendRow :
              /\ \/ NextRowId(backend, c) /\ backend' = Put(backend, c, row)
                 \/ c \in Ids(backend) /\ backend' = [backend EXCEPT ![c] = row]
              /\ misjudged' = [misjudged EXCEPT ![c] = 0]
              /\ UNCHANGED <<account, root, grant, realm, job, late>>
    BY BackendStepIs DEF JudgedInv
  <1>2. Testing(b)' \subseteq Testing(b)
    BY <1>1 DEF Testing
  <1>3. CASE b = c
    BY <1>1, <1>3 DEF JudgedEffect, JudgedInv, TypeOK
  <1>4. CASE b # c
    <2>1. misjudged'[b] = misjudged[b]
      BY <1>1, <1>4 DEF JudgedInv, TypeOK
    <2>2. b \in Ids(backend)' => b \in Ids(backend) /\ backend'[b] = backend[b]
      BY <1>1, <1>4 DEF Put, Ids, JudgedInv, TypeOK, IsTable
    <2>3. /\ misjudged[b] <= misjudged[b]
          /\ b \in Ids(backend) /\ backend[b].config = "right" => misjudged[b] = 0
      BY JudgedNat DEF JudgedInv, JudgedAt
    <2> QED
      BY <1>2, <2>1, <2>2, <2>3 DEF JudgedEffect
  <1> QED
    BY <1>3, <1>4

LEMMA VerdictEffect ==
    ASSUME JudgedInv, NEW w \in Workers, CommitTest(w), NEW b \in BackendIds
    PROVE  JudgedEffect(b)
  <1>1. /\ TypeOK
        /\ Testing(b)' \subseteq Testing(b) \ {w}
        /\ misjudged[b] \in Nat
        /\ misjudged[b] <= misjudged[b]
        /\ b \in Ids(backend) /\ backend[b].config = "right" => misjudged[b] = 0
    BY WriteSets, JudgedNat DEF CommitTest, JudgedInv, JudgedAt
  <1> DEFINE c == job[w].id
             row == job[w].row
  <1>2. c \in BackendIds /\ row \in BackendRow
    <2>1. job[w] \in Job /\ job[w].k = "test"
      BY <1>1 DEF CommitTest, TypeOK
    <2> QED
      BY <2>1, JobKind
  <1>3. CASE UNCHANGED <<backend, misjudged>>
    BY <1>1, <1>3, SameBackends
  <1>4. CASE c \in Ids(backend) /\ \E v \in {"success", "failed"} :
                 Verdict(w, c, v) /\ (v = "success" => row.config = "right")
    <2>1. PICK v \in {"success", "failed"} :
                 Verdict(w, c, v) /\ (v = "success" => row.config = "right")
      BY <1>4
    <2>2. backend[c] \in BackendRow /\ backend \in [Ids(backend) -> BackendRow]
      BY <1>1, <1>4, RowIn DEF TypeOK, IsTable
    <2>3. /\ Ids(backend)' = Ids(backend)
          /\ \A d \in Ids(backend) : backend'[d].config = backend[d].config
      <3> DEFINE r == [backend[c] EXCEPT !.status = v]
      <3>1. backend' = [backend EXCEPT ![c] = r]
        BY <2>1 DEF Verdict
      <3>2. r.config = backend[c].config
        BY <2>2 DEF BackendRow
      <3> HIDE DEF r
      <3> QED
        BY <2>2, <3>1, <3>2 DEF Ids
    <2> DEFINE hit == v = "success" /\ backend[c].config = "wrong" /\ misjudged[c] <= Most
               n == IF hit THEN misjudged[c] + 1 ELSE misjudged[c]
    <2>4. misjudged' = [misjudged EXCEPT ![c] = n]
      BY <2>1 DEF Verdict
    <2>5. CASE b = c /\ hit
      <3>1. misjudged'[b] = misjudged[b] + 1
        BY <1>1, <1>2, <2>4, <2>5 DEF TypeOK
      <3>2. w \in Testing(b)
        BY <2>1, <2>5 DEF CommitTest, Testing
      <3>3. backend'[b].config # "right"
        BY <1>4, <2>3, <2>5
      <3>4. misjudged'[b] <= misjudged[b] + 1
        BY <1>1, <3>1
      <3> HIDE DEF hit
      <3> QED
        BY <1>1, <3>2, <3>3, <3>4 DEF JudgedEffect
    <2>6. CASE ~(b = c /\ hit)
      <3>1. misjudged'[b] = misjudged[b]
        <4>1. b = c => n = misjudged[b]
          BY <2>6
        <4> HIDE DEF n, c
        <4> QED
          BY <1>1, <1>2, <2>4, <4>1 DEF TypeOK
      <3>2. b \in Ids(backend)' => b \in Ids(backend) /\ backend'[b].config = backend[b].config
        BY <2>3
      <3> QED
        BY <1>1, <3>1, <3>2 DEF JudgedEffect
    <2> QED
      BY <2>5, <2>6
  <1> QED
    BY <1>3, <1>4 DEF CommitTest

LEMMA JudgedStep == JudgedInv /\ [Next]_vars => JudgedInv'
  <1> SUFFICES ASSUME JudgedInv, [Next]_vars PROVE JudgedInv'
    OBVIOUS
  <1>1. TypeOK /\ TypeOK'
    BY TypeStep DEF JudgedInv
  <1> SUFFICES ASSUME NEW b \in BackendIds PROVE JudgedEffect(b)
    BY <1>1, JudgedKeeps DEF JudgedInv
  <1>2. ASSUME UNCHANGED job PROVE Testing(b)' \subseteq Testing(b)
    BY <1>2 DEF Testing
  <1>3. CASE UNCHANGED vars
    BY <1>2, <1>3, SameBackends DEF vars
  <1>4. CASE AccountStep
    BY <1>2, <1>4, SameBackends DEF AccountStep, InsertAccount, DeleteAccount
  <1>5. CASE BackendStep
    BY <1>5, EditedEffect
  <1>6. CASE RootStep
    BY <1>2, <1>6, SameBackends DEF RootStep, CreateRoot, EditRoot
  <1>7. CASE GrantStep
    BY <1>2, <1>7, SameBackends DEF GrantStep, Revoke, Expire
  <1>8. ASSUME NEW w \in Workers, Load(w) PROVE JudgedEffect(b)
    BY <1>1, <1>8, LoadJob, LoadSets, SameBackends
  <1>9. ASSUME NEW w \in Workers, Write(w) PROVE JudgedEffect(b)
    <2>1. Testing(b)' \subseteq Testing(b)
      BY <1>1, <1>9, WriteJob, WriteSets
    <2>2. CASE CommitDropBackend(w)
      <3>1. UNCHANGED misjudged /\ misjudged[b] <= misjudged[b]
        BY <1>1, <2>2, JudgedNat DEF CommitDropBackend
      <3>2. b \in Ids(backend)' => b \in Ids(backend) /\ backend'[b] = backend[b]
        BY <2>2 DEF CommitDropBackend, Drop, Ids
      <3>3. b \in Ids(backend) /\ backend[b].config = "right" => misjudged[b] = 0
        BY DEF JudgedInv, JudgedAt
      <3> QED
        BY <2>1, <3>1, <3>2, <3>3 DEF JudgedEffect
    <2>3. CASE CommitTest(w)
      BY <2>3, VerdictEffect
    <2>4. CASE CommitDropRoot(w)
      BY <2>1, <2>4, SameBackends DEF CommitDropRoot
    <2>5. CASE \E g \in GrantIds : CommitGrant(w, g)
      BY <2>1, <2>5, SameBackends DEF CommitGrant
    <2>6. CASE CommitReinstate(w)
      BY <2>1, <2>6, SameBackends DEF CommitReinstate
    <2>7. CASE \E i \in RealmIds : CommitRealm(w, i)
      BY <2>1, <2>7, SameBackends DEF CommitRealm
    <2> QED
      BY <1>9, <2>2, <2>3, <2>4, <2>5, <2>6, <2>7 DEF Write
  <1> QED
    BY <1>3, <1>4, <1>5, <1>6, <1>7, <1>8, <1>9 DEF Next

\* A backend whose credentials are wrong is called working at most once per
\* worker after its row was written (backend_test).
THEOREM FalseVerdictsAreFew == Spec => []FalseSuccessFew
  <1>1. JudgedInv => FalseSuccessFew
    <2> SUFFICES ASSUME JudgedInv, NEW b \in BackendIds PROVE misjudged[b] <= Most
      BY DEF FalseSuccessFew
    <2>1. Testing(b) \in SUBSET Workers /\ misjudged[b] \in Nat
      BY JudgedNat DEF Testing, JudgedInv
    <2>2. Cardinality(Testing(b)) \in Nat
      BY <2>1, Bounds, FS_Subset, FS_CardinalityType
    <2>3. misjudged[b] + Cardinality(Testing(b)) <= Most
      BY DEF JudgedInv, JudgedAt
    <2> QED
      BY <2>1, <2>2, <2>3, Bounds
  <1> QED
    BY <1>1, JudgedInit, JudgedStep, PTL DEF Spec
-----------------------------------------------------------------------------
(***************************************************************************)
(* Notifications, for any workers, processes and people: types, that both  *)
(* addresses hear of a change, and how many e-mails reach somebody else.   *)
(***************************************************************************)
CONSTANTS Processes, Process, NotifyUser, NotifyAdmin, MaxUser, MaxEvent
VARIABLES people, task, mails, queue, draining, users, n, changes, settled, over, strays
NT == INSTANCE Notifications WITH account <- people, job <- task

LEMMA NotificationsFacts ==
    ASSUME NT!NotificationsAssumption
    PROVE  /\ {MaxAccount, MaxUser} \subseteq Nat \ {0}
           /\ MaxEvent \in Nat
           /\ {NotifyUser, NotifyAdmin} \subseteq BOOLEAN
           /\ Process \in [Workers -> Processes]
           /\ IsFiniteSet(Workers) /\ Workers # {}
  BY DEF NT!NotificationsAssumption, NT!IsFiniteSet, IsFiniteSet

LEMMA SameSize == \A T : NT!Cardinality(T) = Cardinality(T)
  BY DEF NT!IsFiniteSet, IsFiniteSet, NT!Cardinality, Cardinality

LEMMA NoticeBounds ==
    ASSUME NT!NotificationsAssumption PROVE
    /\ MaxAccount \in Nat /\ MaxAccount >= 1 /\ MaxUser \in Nat /\ MaxUser >= 1 /\ MaxEvent \in Nat
    /\ Process \in [Workers -> Processes]
    /\ IsFiniteSet(Workers) /\ Workers # {} /\ NT!Most \in Nat /\ NT!Most >= 1
  <1>1. /\ MaxAccount \in Nat /\ MaxAccount >= 1 /\ MaxUser \in Nat /\ MaxUser >= 1 /\ MaxEvent \in Nat
        /\ Process \in [Workers -> Processes]
        /\ IsFiniteSet(Workers) /\ Workers # {}
    BY NotificationsFacts
  <1>2. Cardinality(Workers) \in Nat /\ Cardinality(Workers) # 0
    BY <1>1, FS_CardinalityType, FS_EmptySet
  <1> QED
    BY <1>1, <1>2, SameSize DEF NT!Most

-----------------------------------------------------------------------------
(***************************************************************************)
(* Notices                                                                 *)
(***************************************************************************)
LEMMA KindList ==
    ASSUME NT!NotificationsAssumption
    PROVE  NT!Kinds = {"register", "request", "approve", "reject", "approveRealm", "rejectRealm",
                           "login", "lock", "password", "revoke", "rotate", "address", "change",
                           "verify", "code", "reset"}
  BY DEF NT!Kinds, NT!Notices

LEMMA ChangeNotices ==
    ASSUME NT!NotificationsAssumption PROVE
    /\ "change" \in NT!Kinds
    /\ NT!Notices["change"] = <<"email_changed_old", "email_changed_new">>
    /\ Len(NT!Notices["change"]) = 2 /\ Head(NT!Notices["change"]) = "email_changed_old"
    /\ Tail(NT!Notices["change"]) = <<"email_changed_new">>
    /\ Len(Tail(NT!Notices["change"])) = 1 /\ Head(Tail(NT!Notices["change"])) = "email_changed_new"
  <1>1. NT!Notices["change"] = <<"email_changed_old", "email_changed_new">>
    BY DEF NT!Notices
  <1>2. Tail(<<"email_changed_old", "email_changed_new">>) = <<"email_changed_new">>
    OBVIOUS
  <1> QED
    BY <1>1, <1>2, KindList

LEMMA OtherNotices ==
    ASSUME NT!NotificationsAssumption, NEW k \in NT!Kinds, k # "change"
    PROVE  /\ Len(NT!Notices[k]) = 1 /\ Head(NT!Notices[k]) \notin NT!Parts
           /\ Head(NT!Notices[k]) = "account_rejected" <=> k = "reject"
  <1>1. \/ k = "register" /\ NT!Notices[k] = <<"admin_pending_account">>
        \/ k = "request" /\ NT!Notices[k] = <<"realm_pending">>
        \/ k = "approve" /\ NT!Notices[k] = <<"account_approved">>
        \/ k = "reject" /\ NT!Notices[k] = <<"account_rejected">>
        \/ k = "approveRealm" /\ NT!Notices[k] = <<"realm_approved">>
        \/ k = "rejectRealm" /\ NT!Notices[k] = <<"realm_rejected">>
        \/ k = "login" /\ NT!Notices[k] = <<"failed_login">>
        \/ k = "lock" /\ NT!Notices[k] = <<"2fa_lockout">>
        \/ k = "password" /\ NT!Notices[k] = <<"password_changed">>
        \/ k = "revoke" /\ NT!Notices[k] = <<"token_revoked">>
        \/ k = "rotate" /\ NT!Notices[k] = <<"credential_rotation">>
        \/ k = "address" /\ NT!Notices[k] = <<"email_changed">>
        \/ k = "verify" /\ NT!Notices[k] = <<"verification">>
        \/ k = "code" /\ NT!Notices[k] = <<"2fa">>
        \/ k = "reset" /\ NT!Notices[k] = <<"password_reset">>
    BY KindList DEF NT!Notices
  <1>2. \A x : Len(<<x>>) = 1 /\ Head(<<x>>) = x
    OBVIOUS
  <1>3. PICK x : /\ NT!Notices[k] = <<x>>
                 /\ x \notin {"email_changed_old", "email_changed_new"}
                 /\ x = "account_rejected" <=> k = "reject"
    BY <1>1
  <1> QED
    BY <1>2, <1>3 DEF NT!Parts

\* What a handler of each kind may have still to tell.
Todo(k) == IF k = "change" THEN {NT!Notices["change"], Tail(NT!Notices["change"])} ELSE {NT!Notices[k]}
Todos == {NT!Notices[k] : k \in NT!Kinds} \cup {Tail(NT!Notices["change"])}

LEMMA TodoFacts ==
    ASSUME NT!NotificationsAssumption, NEW k \in NT!Kinds, NEW t \in Todo(k)
    PROVE  /\ t \in Todos
           /\ k = "change" => Head(t) \in NT!Parts
           /\ k # "change" => /\ Len(t) = 1 /\ Head(t) \notin NT!Parts
                              /\ Head(t) = "account_rejected" <=> k = "reject"
           /\ Len(t) # 1 => k = "change" /\ t = NT!Notices["change"]
  BY ChangeNotices, OtherNotices DEF Todo, Todos, NT!Parts

LEMMA TodoStart ==
    ASSUME NT!NotificationsAssumption
    PROVE  \A k \in NT!Kinds : NT!Notices[k] \in Todo(k)
  BY DEF Todo

-----------------------------------------------------------------------------
(***************************************************************************)
(* Types                                                                   *)
(***************************************************************************)
\* A job is about people and events there have been, and has its own notices to
\* send; its event is a change of an address if that is what the handler does.
Good(j, events, persons, changed) ==
    /\ j.n <= events /\ j.user <= persons
    /\ j.todo \in Todo(j.k)
    /\ j.n = 0 => j.todo = NT!Notices[j.k]
    /\ j.n # 0 => (j.n \in changed <=> j.k = "change")
JobOK(j) == Good(j, n, users, changes)

Waiting == {w \in Workers : NT!Loaded(w)}

JobsInv  == \A w \in Workers : task[w] # NT!Idle => JobOK(task[w])
MailsInv == /\ mails \subseteq NT!MailType /\ IsFiniteSet(mails)
            /\ \A m \in mails : m.n <= n /\ (m.n \in changes <=> m.part \in NT!Parts)
QueueInv == /\ queue \in [Processes -> Seq(NT!Events)]
            /\ \A p \in Processes : \A i \in DOMAIN queue[p] : queue[p][i] <= n
RoomInv  == n + Cardinality(Waiting) <= MaxEvent
RowsInv  == /\ NT!IsTable(people, 1 .. MaxAccount, [user : NT!Users, alerts : BOOLEAN])
            /\ \A i \in NT!Ids(people) : people[i].user <= users
RestInv  == /\ draining \subseteq Processes
            /\ users \in 0 .. MaxUser
            /\ n \in 0 .. MaxEvent
            /\ changes \subseteq 1 .. n
            /\ over \subseteq 1 .. n
            /\ settled \subseteq changes \X NT!Parts
            /\ strays \in [NT!Users -> Nat]

NoticeTypes ==
    /\ task \in [Workers -> NT!Job]
    /\ JobsInv
    /\ MailsInv
    /\ QueueInv
    /\ RoomInv
    /\ RowsInv
    /\ RestInv

LEMMA TypeInvHasTypes ==
    ASSUME NT!NotificationsAssumption
    PROVE  NoticeTypes => NT!TypeOK
  <1> SUFFICES ASSUME NoticeTypes PROVE NT!TypeOK
    OBVIOUS
  <1>1. ASSUME NEW p \in Processes, NEW i \in DOMAIN queue[p] PROVE queue[p][i] \in 1 .. n
    <2>1. queue[p] \in Seq(NT!Events) /\ queue[p][i] <= n
      BY DEF NoticeTypes, QueueInv
    <2>2. queue[p][i] \in NT!Events
      BY <2>1
    <2> QED
      BY <2>1, <2>2, NoticeBounds DEF NT!Events, NoticeTypes, RestInv
  <1> QED
    BY <1>1 DEF NoticeTypes, NT!TypeOK, MailsInv, RowsInv, RestInv

LEMMA IdleJob ==
    ASSUME NT!NotificationsAssumption
    PROVE  NT!Idle \in NT!Job /\ \A j \in NT!Job : j # NT!Idle => j \in [k : NT!Kinds, id : 0 .. MaxAccount,
                                   user : 0 .. MaxUser, n : 0 .. MaxEvent, todo : Todos]
  BY DEF NT!Job, Todos

LEMMA BusyJob ==
    ASSUME NT!NotificationsAssumption, NEW j \in NT!Job, j # NT!Idle
    PROVE  /\ j.k \in NT!Kinds /\ j.id \in 0 .. MaxAccount /\ j.user \in 0 .. MaxUser
           /\ j.n \in 0 .. MaxEvent /\ j.todo \in Todos
  BY IdleJob

LEMMA NewJob ==
    ASSUME NT!NotificationsAssumption,
           NEW k \in NT!Kinds, NEW id \in 0 .. MaxAccount, NEW u \in 0 .. MaxUser,
           NEW e \in 0 .. MaxEvent, NEW t \in Todos, NEW j,
           j = [k |-> k, id |-> id, user |-> u, n |-> e, todo |-> t]
    PROVE  /\ j \in NT!Job /\ j # NT!Idle
           /\ j.k = k /\ j.id = id /\ j.user = u /\ j.n = e /\ j.todo = t
  <1>1. j \in NT!Job
    BY DEF NT!Job, Todos
  <1>2. j.k = k /\ j.id = id /\ j.user = u /\ j.n = e /\ j.todo = t
    OBVIOUS
  <1>3. j # NT!Idle
    <2>1. NT!Idle.k = "idle"
      BY DEF NT!Idle
    <2>2. "idle" \notin NT!Kinds
      BY KindList
    <2> QED
      BY <1>2, <2>1, <2>2
  <1> QED
    BY <1>1, <1>2, <1>3

\* A job whose fields change.
LEMMA JobHappens ==
    ASSUME NT!NotificationsAssumption, NEW j \in NT!Job, j # NT!Idle, NEW e
    PROVE  [j EXCEPT !.n = e] = [k |-> j.k, id |-> j.id, user |-> j.user, n |-> e, todo |-> j.todo]
  <1>1. j \in [k : NT!Kinds, id : 0 .. MaxAccount, user : 0 .. MaxUser, n : 0 .. MaxEvent, todo : Todos]
    BY IdleJob
  <1>2. PICK a, b, c, d, f : a = j.k /\ b = j.id /\ c = j.user /\ d = j.n /\ f = j.todo
    OBVIOUS
  <1>3. j = [k |-> a, id |-> b, user |-> c, n |-> d, todo |-> f]
    BY <1>1, <1>2
  <1>4. [j EXCEPT !.n = e] = [k |-> a, id |-> b, user |-> c, n |-> e, todo |-> f]
    BY <1>3
  <1> QED
    BY <1>2, <1>4


LEMMA JobReturns ==
    ASSUME NT!NotificationsAssumption, NEW j \in NT!Job, j # NT!Idle, NEW t
    PROVE  [j EXCEPT !.todo = t] = [k |-> j.k, id |-> j.id, user |-> j.user, n |-> j.n, todo |-> t]
  <1>1. j \in [k : NT!Kinds, id : 0 .. MaxAccount, user : 0 .. MaxUser, n : 0 .. MaxEvent, todo : Todos]
    BY IdleJob
  <1>2. PICK a, b, c, d, f : a = j.k /\ b = j.id /\ c = j.user /\ d = j.n /\ f = j.todo
    OBVIOUS
  <1>3. j = [k |-> a, id |-> b, user |-> c, n |-> d, todo |-> f]
    BY <1>1, <1>2
  <1>4. [j EXCEPT !.todo = t] = [k |-> a, id |-> b, user |-> c, n |-> d, todo |-> t]
    BY <1>3
  <1> QED
    BY <1>2, <1>4


LEMMA NoticesTypeInit ==
    ASSUME NT!NotificationsAssumption
    PROVE  NT!Init => NoticeTypes
  <1> SUFFICES ASSUME NT!Init PROVE NoticeTypes
    OBVIOUS
  <1>1. /\ task \in [Workers -> NT!Job] /\ mails \subseteq NT!MailType /\ draining \subseteq Processes
        /\ users \in 0 .. MaxUser /\ n \in 0 .. MaxEvent /\ changes \subseteq 1 .. n
        /\ over \subseteq 1 .. n /\ settled \subseteq changes \X NT!Parts
    BY NoticeBounds, IdleJob DEF NT!Init
  <1>2. strays \in [NT!Users -> Nat]
    BY DEF NT!Init
  <1>3. /\ NT!IsTable(people, 1 .. MaxAccount, [user : NT!Users, alerts : BOOLEAN])
        /\ \A i \in NT!Ids(people) : people[i].user <= users
    BY NoticeBounds DEF NT!Init, NT!Users, NT!IsTable, NT!Ids, NT!Put
  <1>4. queue \in [Processes -> Seq(NT!Events)]
    BY DEF NT!Init
  <1>5. \A p \in Processes : \A i \in DOMAIN queue[p] : queue[p][i] <= n
    BY DEF NT!Init
  <1>6. Waiting = {} /\ mails = {} /\ n = 0 /\ \A w \in Workers : task[w] = NT!Idle
    BY DEF NT!Init, Waiting, NT!Loaded
  <1> QED
    BY <1>1, <1>2, <1>3, <1>4, <1>5, <1>6, FS_EmptySet, NoticeBounds DEF NoticeTypes, JobsInv,
       MailsInv, QueueInv, RoomInv, RowsInv, RestInv

Others(w) == \A v \in Workers : v # w => task'[v] = task[v]

LEMMA Takes ==
    ASSUME NT!NotificationsAssumption,
           task \in [Workers -> NT!Job], NEW w \in Workers, NEW j \in NT!Job, task' = [task EXCEPT ![w] = j]
    PROVE  task' \in [Workers -> NT!Job] /\ Others(w) /\ task'[w] = j
  BY DEF Others

\* What a handler does until its commit.
NoticeBegins(w) ==
    /\ task' \in [Workers -> NT!Job] /\ Others(w) /\ task[w] = NT!Idle /\ task'[w] # NT!Idle
    /\ task'[w].n = 0 /\ task'[w].todo = NT!Notices[task'[w].k]
    /\ \/ task'[w].user = NT!Nobody
       \/ task'[w].id \in NT!Ids(people) /\ task'[w].user = people[task'[w].id].user
    /\ n + Cardinality(Waiting) < MaxEvent
    /\ UNCHANGED <<people, mails, queue, draining, users, n, changes, settled, over, strays>>

Commits(w) ==
    /\ task' \in [Workers -> NT!Job] /\ Others(w) /\ NT!Loaded(w) /\ task'[w] # NT!Idle
    /\ n' = n + 1 /\ task'[w].n = n + 1
    /\ task'[w].k = task[w].k /\ task'[w].todo = task[w].todo
    /\ changes' = IF task[w].k = "change" THEN changes \cup {n + 1} ELSE changes
    /\ UNCHANGED <<mails, queue, draining, settled, over, strays>>

Keeps(w) ==
    /\ task'[w].id = task[w].id /\ task'[w].user = task[w].user /\ users' = users
    /\ \/ people' = people
       \/ task[w].k = "reject" /\ people' = NT!Drop(people, {task[w].id})

Creates(w, i) ==
    /\ users < MaxUser /\ users' = users + 1
    /\ NT!NextRowId(people, i) /\ people' = NT!Put(people, i, [user |-> users + 1, alerts |-> FALSE])
    /\ task'[w].id = i /\ task'[w].user = users + 1

Aborts(w) ==
    /\ task' \in [Workers -> NT!Job] /\ Others(w) /\ task[w] # NT!Idle /\ task[w].n = 0 /\ task'[w] = NT!Idle
    /\ UNCHANGED <<people, mails, queue, draining, users, n, changes, settled, over, strays>>

\* A new address is committed, its log is not yet written.
Moves(w) ==
    /\ task' \in [Workers -> NT!Job] /\ Others(w) /\ NT!Loaded(w) /\ task'[w] # NT!Idle /\ task'[w].n = 0
    /\ task[w].k = "address" /\ task'[w].k = "change" /\ task'[w].todo = NT!Notices["change"]
    /\ task'[w].id = task[w].id /\ task'[w].user = task[w].user
    /\ UNCHANGED <<people, mails, queue, draining, users, n, changes, settled, over, strays>>

Deletes(w, i) ==
    /\ task[w] = NT!Idle /\ people' = NT!Drop(people, {i})
    /\ UNCHANGED <<task, mails, queue, draining, users, n, changes, settled, over, strays>>

LEMMA NoticeFacts ==
    ASSUME NT!NotificationsAssumption, NoticeTypes
    PROVE  /\ task \in [Workers -> NT!Job]
           /\ n \in Nat /\ n \in 0 .. MaxEvent /\ users \in Nat /\ users \in 0 .. MaxUser
           /\ \A w \in Workers : task[w] # NT!Idle =>
                /\ JobOK(task[w]) /\ task[w].k \in NT!Kinds /\ task[w].id \in 0 .. MaxAccount
                /\ task[w].user \in 0 .. MaxUser /\ task[w].n \in 0 .. MaxEvent /\ task[w].todo \in Todos
           /\ \A i \in NT!Ids(people) : i \in 1 .. MaxAccount /\ people[i].user \in NT!Users
                                       /\ people[i].user <= users
           /\ IsFiniteSet(Waiting) /\ Cardinality(Waiting) \in Nat
  <1>1. task \in [Workers -> NT!Job] /\ n \in 0 .. MaxEvent /\ users \in 0 .. MaxUser
    BY DEF NoticeTypes, RestInv
  <1>2. ASSUME NEW w \in Workers, task[w] # NT!Idle
        PROVE  /\ JobOK(task[w]) /\ task[w].k \in NT!Kinds /\ task[w].id \in 0 .. MaxAccount
               /\ task[w].user \in 0 .. MaxUser /\ task[w].n \in 0 .. MaxEvent /\ task[w].todo \in Todos
    BY <1>1, <1>2, BusyJob DEF NoticeTypes, JobsInv
  <1>3. \A i \in NT!Ids(people) : i \in 1 .. MaxAccount /\ people[i].user \in NT!Users
                                /\ people[i].user <= users
    BY DEF NoticeTypes, RowsInv, NT!IsTable
  <1>4. IsFiniteSet(Waiting) /\ Cardinality(Waiting) \in Nat
    <2>1. Waiting \in SUBSET Workers
      BY DEF Waiting
    <2> QED
      BY <2>1, NoticeBounds, FS_Subset, FS_CardinalityType
  <1>5. n \in Nat /\ users \in Nat
    BY <1>1, NoticeBounds
  <1> QED
    BY <1>1, <1>2, <1>3, <1>4, <1>5

LEMMA LoadBegins ==
    ASSUME NT!NotificationsAssumption, NoticeTypes, NEW w \in Workers,
           \/ \E k \in NT!Kinds, i \in NT!Ids(people) : NT!LoadAccount(w, k, i)
           \/ \E k \in NT!Kinds : NT!LoadApplicant(w, k)
    PROVE  NoticeBegins(w)
  <1>1. ASSUME NEW k \in NT!Kinds, NEW id \in 0 .. MaxAccount, NEW u \in 0 .. MaxUser, NT!Begin(w, k, id, u),
               u = NT!Nobody \/ (id \in NT!Ids(people) /\ u = people[id].user)
        PROVE  NoticeBegins(w)
    <2>1. PICK j : j = [k |-> k, id |-> id, user |-> u, n |-> 0, todo |-> NT!Notices[k]]
      OBVIOUS
    <2>2. 0 \in 0 .. MaxEvent /\ NT!Notices[k] \in Todos
      BY NoticeBounds DEF Todos
    <2>3. j \in NT!Job /\ j # NT!Idle /\ j.k = k /\ j.id = id /\ j.user = u /\ j.n = 0 /\ j.todo = NT!Notices[k]
      BY <2>1, <2>2, NewJob
    <2>4. task[w] = NT!Idle /\ task' = [task EXCEPT ![w] = j] /\ n + Cardinality(Waiting) < MaxEvent
      BY <1>1, <2>1, SameSize DEF NT!Begin, Waiting
    <2>5. UNCHANGED <<people, mails, queue, draining, users, n, changes, settled, over, strays>>
      BY <1>1 DEF NT!Begin, NT!ghosts
    <2>6. task' \in [Workers -> NT!Job] /\ Others(w) /\ task'[w] = j
      BY <2>3, <2>4, Takes, NoticeFacts
    <2> QED
      BY <1>1, <2>3, <2>4, <2>5, <2>6 DEF NoticeBegins
  <1>2. ASSUME NEW k \in NT!Kinds, NEW i \in NT!Ids(people), NT!LoadAccount(w, k, i) PROVE NoticeBegins(w)
    <2>1. i \in 0 .. MaxAccount /\ people[i].user \in 0 .. MaxUser
      BY NoticeFacts, NoticeBounds DEF NT!Users
    <2> QED
      BY <1>1, <1>2, <2>1 DEF NT!LoadAccount
  <1>3. ASSUME NEW k \in NT!Kinds, NT!LoadApplicant(w, k) PROVE NoticeBegins(w)
    <2>1. 0 \in 0 .. MaxAccount /\ NT!Nobody \in 0 .. MaxUser
      BY NoticeBounds DEF NT!Nobody
    <2> QED
      BY <1>1, <1>3, <2>1 DEF NT!LoadApplicant
  <1> QED
    BY <1>2, <1>3

\* A worker that is about to commit leaves room for its event.
LEMMA RoomLeft ==
    ASSUME NT!NotificationsAssumption, NoticeTypes, NEW w \in Workers, NT!Loaded(w)
    PROVE  n + 1 \in 0 .. MaxEvent
  <1>1. w \in Waiting
    BY DEF Waiting
  <1>2. Cardinality(Waiting) >= 1
    BY <1>1, NoticeFacts, FS_EmptySet
  <1> QED
    BY <1>2, NoticeFacts, NoticeBounds DEF NoticeTypes, RoomInv

LEMMA CommitCommits ==
    ASSUME NT!NotificationsAssumption, NoticeTypes, NEW w \in Workers,
           \/ NT!CommitUpdate(w) \/ NT!CommitOfRealm(w) \/ NT!CommitInsert(w)
           \/ \E i \in 1 .. MaxAccount : NT!CommitRegister(w, i)
           \/ NT!CommitReject(w)
    PROVE  Commits(w) /\ (Keeps(w) \/ \E i \in 1 .. MaxAccount : Creates(w, i))
  <1>1. NT!Event(w) /\ NT!Loaded(w) /\ task[w] # NT!Idle /\ task[w] \in NT!Job /\ n' = n + 1
        /\ UNCHANGED <<mails, queue, draining, settled, over, strays>>
    BY NoticeFacts DEF NT!CommitUpdate, NT!CommitOfRealm, NT!CommitInsert, NT!CommitRegister,
       NT!CommitReject, NT!Event, NT!Loaded
  <1>2. /\ task[w].k \in NT!Kinds /\ task[w].id \in 0 .. MaxAccount /\ task[w].user \in 0 .. MaxUser
        /\ n + 1 \in 0 .. MaxEvent /\ task[w].todo \in Todos
    BY <1>1, NoticeFacts, RoomLeft
  <1>3. changes' = IF task[w].k = "change" THEN changes \cup {n + 1} ELSE changes
    BY <1>1 DEF NT!CommitUpdate, NT!CommitOfRealm, NT!CommitInsert, NT!CommitRegister,
       NT!CommitReject, NT!OfRealm, NT!Inserts
  <1>4. CASE NT!CommitUpdate(w) \/ NT!CommitOfRealm(w) \/ NT!CommitInsert(w) \/ NT!CommitReject(w)
    <2>1. PICK j : j = [k |-> task[w].k, id |-> task[w].id, user |-> task[w].user, n |-> n + 1, todo |-> task[w].todo]
      OBVIOUS
    <2>2. task' = [task EXCEPT ![w] = j]
      <3>1. [task[w] EXCEPT !.n = n + 1] = j
        BY <1>1, <2>1, JobHappens
      <3> QED
        BY <1>4, <3>1 DEF NT!CommitUpdate, NT!CommitOfRealm, NT!CommitInsert, NT!CommitReject, NT!Happened
    <2>3. /\ j \in NT!Job /\ j # NT!Idle /\ j.k = task[w].k /\ j.id = task[w].id /\ j.user = task[w].user
          /\ j.n = n + 1 /\ j.todo = task[w].todo
      BY <1>2, <2>1, NewJob
    <2>4. task' \in [Workers -> NT!Job] /\ Others(w) /\ task'[w] = j
      BY <2>2, <2>3, Takes, NoticeFacts
    <2>5. users' = users /\ (people' = people \/ (task[w].k = "reject" /\ people' = NT!Drop(people, {task[w].id})))
      BY <1>4 DEF NT!CommitUpdate, NT!CommitOfRealm, NT!CommitInsert, NT!CommitReject
    <2> QED
      BY <1>1, <1>3, <2>3, <2>4, <2>5 DEF Commits, Keeps
  <1>5. ASSUME NEW i \in 1 .. MaxAccount, NT!CommitRegister(w, i)
        PROVE  Commits(w) /\ Creates(w, i)
    <2>1. PICK j : j = [k |-> task[w].k, id |-> i, user |-> users + 1, n |-> n + 1, todo |-> task[w].todo]
      OBVIOUS
    <2>2. /\ users < MaxUser /\ users' = users + 1 /\ users + 1 \in 0 .. MaxUser /\ i \in 0 .. MaxAccount
          /\ NT!NextRowId(people, i) /\ people' = NT!Put(people, i, [user |-> users + 1, alerts |-> FALSE])
      <3>1. users < MaxUser /\ users' = users + 1 /\ NT!NextRowId(people, i)
            /\ people' = NT!Put(people, i, [user |-> users', alerts |-> FALSE])
        BY <1>5 DEF NT!CommitRegister
      <3>2. users + 1 \in 0 .. MaxUser /\ i \in 0 .. MaxAccount
        BY <3>1, NoticeFacts, NoticeBounds
      <3> QED
        BY <3>1, <3>2
    <2>3. task' = [task EXCEPT ![w] = j]
      <3>1. [task[w] EXCEPT !.n = n + 1, !.id = i, !.user = users + 1] = j
        <4>1. PICK b \in NT!Job : b = task[w] /\ b # NT!Idle
          BY <1>1
        <4>2. b = [k |-> b.k, id |-> b.id, user |-> b.user, n |-> b.n, todo |-> b.todo]
          BY <4>1, IdleJob
        <4>3. PICK x, y, z, u, t : x = b.k /\ y = b.id /\ z = b.user /\ u = b.n /\ t = b.todo
          OBVIOUS
        <4>4. PICK me, us : me = n + 1 /\ us = users + 1
          OBVIOUS
        <4>5. b = [k |-> x, id |-> y, user |-> z, n |-> u, todo |-> t]
          BY <4>2, <4>3
        <4>6. PICK b1 : b1 = [b EXCEPT !.n = me]
          OBVIOUS
        <4>7. b1 = [k |-> x, id |-> y, user |-> z, n |-> me, todo |-> t]
          BY <4>5, <4>6
        <4>8. PICK b2 : b2 = [b1 EXCEPT !.id = i]
          OBVIOUS
        <4>9. b2 = [k |-> x, id |-> i, user |-> z, n |-> me, todo |-> t]
          BY <4>7, <4>8
        <4>10. [b2 EXCEPT !.user = us] = [k |-> x, id |-> i, user |-> us, n |-> me, todo |-> t]
          BY <4>9
        <4>11. [b EXCEPT !.n = me, !.id = i, !.user = us] = [b2 EXCEPT !.user = us]
          BY <4>5, <4>6, <4>8
        <4> QED
          BY <2>1, <4>1, <4>3, <4>4, <4>10, <4>11
      <3>2. task' = [task EXCEPT ![w] = [task[w] EXCEPT !.n = n + 1, !.id = i, !.user = users + 1]]
        BY <1>1, <1>5, <2>2, NoticeFacts DEF NT!CommitRegister
      <3> QED
        BY <3>1, <3>2
    <2>4. /\ j \in NT!Job /\ j # NT!Idle /\ j.k = task[w].k /\ j.id = i /\ j.user = users + 1
          /\ j.n = n + 1 /\ j.todo = task[w].todo
      BY <1>2, <2>1, <2>2, NewJob
    <2>5. task' \in [Workers -> NT!Job] /\ Others(w) /\ task'[w] = j
      BY <2>3, <2>4, Takes, NoticeFacts
    <2> QED
      BY <1>1, <1>3, <2>2, <2>4, <2>5 DEF Commits, Creates
  <1> QED
    BY <1>4, <1>5

LEMMA AbortAborts ==
    ASSUME NT!NotificationsAssumption, NoticeTypes, NEW w \in Workers, NT!Abort(w)
    PROVE  Aborts(w)
  <1>1. task[w] # NT!Idle /\ task[w].n = 0
    BY DEF NT!Abort, NT!Loaded
  <1>2. task' = [task EXCEPT ![w] = NT!Idle]
    BY DEF NT!Abort
  <1>3. task' \in [Workers -> NT!Job] /\ Others(w) /\ task'[w] = NT!Idle
    BY <1>2, IdleJob, Takes, NoticeFacts
  <1> QED
    BY <1>1, <1>3 DEF NT!Abort, Aborts, NT!ghosts

LEMMA ChangeMoves ==
    ASSUME NT!NotificationsAssumption, NoticeTypes, NEW w \in Workers, NT!ChangeAddress(w)
    PROVE  Moves(w)
  <1>1. NT!Loaded(w) /\ task[w] # NT!Idle /\ task[w].n = 0 /\ task[w] \in NT!Job /\ task[w].k = "address"
    BY NoticeFacts DEF NT!ChangeAddress, NT!Loaded
  <1>2. /\ task[w].id \in 0 .. MaxAccount /\ task[w].user \in 0 .. MaxUser /\ 0 \in 0 .. MaxEvent
        /\ "change" \in NT!Kinds /\ NT!Notices["change"] \in Todos
    BY <1>1, NoticeFacts, NoticeBounds, ChangeNotices DEF Todos
  <1>3. PICK j : j = [k |-> "change", id |-> task[w].id, user |-> task[w].user, n |-> 0,
                      todo |-> NT!Notices["change"]]
    OBVIOUS
  <1>4. /\ j \in NT!Job /\ j # NT!Idle /\ j.k = "change" /\ j.id = task[w].id /\ j.user = task[w].user
        /\ j.n = 0 /\ j.todo = NT!Notices["change"]
    BY <1>2, <1>3, NewJob
  <1>5. [task[w] EXCEPT !.k = "change", !.todo = NT!Notices["change"]] = j
    <2>1. PICK b \in NT!Job : b = task[w] /\ b # NT!Idle
      BY <1>1
    <2>2. PICK x, y, z, u, t : x = b.k /\ y = b.id /\ z = b.user /\ u = b.n /\ t = b.todo
      OBVIOUS
    <2>3. b = [k |-> x, id |-> y, user |-> z, n |-> u, todo |-> t]
      BY <2>1, <2>2, IdleJob
    <2>4. PICK c : c = NT!Notices["change"]
      OBVIOUS
    <2>5. PICK d : d = [b EXCEPT !.k = "change"]
      OBVIOUS
    <2>6. d = [k |-> "change", id |-> y, user |-> z, n |-> u, todo |-> t]
      BY <2>3, <2>5
    <2>7. [d EXCEPT !.todo = c] = [k |-> "change", id |-> y, user |-> z, n |-> u, todo |-> c]
      BY <2>6
    <2>8. [b EXCEPT !.k = "change", !.todo = c] = [d EXCEPT !.todo = c]
      BY <2>3, <2>5
    <2> QED
      BY <1>1, <1>3, <2>1, <2>2, <2>4, <2>7, <2>8
  <1>6. task' = [task EXCEPT ![w] = j]
    <2>1. task' = [task EXCEPT ![w] = [task[w] EXCEPT !.k = "change", !.todo = NT!Notices["change"]]]
      BY <1>1, NoticeFacts DEF NT!ChangeAddress
    <2> QED
      BY <1>5, <2>1
  <1>7. task' \in [Workers -> NT!Job] /\ Others(w) /\ task'[w] = j
    BY <1>4, <1>6, Takes, NoticeFacts
  <1>8. UNCHANGED <<people, mails, queue, draining, users, n, changes, settled, over, strays>>
    BY DEF NT!ChangeAddress, NT!ghosts
  <1> QED
    BY <1>1, <1>4, <1>7, <1>8 DEF Moves

\* A worker returns from a notify function.
Returns(w) ==
    /\ task' \in [Workers -> NT!Job] /\ Others(w) /\ task[w] # NT!Idle /\ task[w].n # 0
    /\ \/ task'[w] = NT!Idle /\ Len(task[w].todo) = 1
       \/ /\ task'[w] # NT!Idle /\ task[w].k = "change" /\ task[w].todo = NT!Notices["change"]
          /\ task'[w].k = task[w].k /\ task'[w].id = task[w].id /\ task'[w].user = task[w].user
          /\ task'[w].n = task[w].n /\ task'[w].todo = Tail(task[w].todo)
    /\ UNCHANGED <<people, draining, users, n, changes, over>>

\* Only handlers that read the address again may reach someone else.
Whom(w, t) == \/ t \in {NT!Nobody, task[w].user}
              \/ task[w].k \notin {"reject", "change"} /\ NT!Found(w) /\ t = NT!Now(w)

Letter(w, t) == [n |-> task[w].n, part |-> NT!Part(Head(task[w].todo)), about |-> task[w].user,
                 to |-> t, at |-> Process[w]]

Posts(w, whom) ==
    /\ \A t \in whom : Whom(w, t)
    /\ task[w].k = "change" => whom # {}
    /\ mails' = mails \cup {Letter(w, t) : t \in whom}
    /\ \/ queue' = queue
       \/ queue' = [queue EXCEPT ![Process[w]] = Append(@, task[w].n)]
    /\ UNCHANGED <<settled, strays>>

Sends(w, t) ==
    /\ Whom(w, t) /\ task[w].k # "change"
    /\ NT!Arrive(task[w].user, t)
    /\ UNCHANGED <<mails, queue, settled>>

Fails(w) ==
    /\ settled' = IF task[w].k = "change" THEN settled \cup {<<task[w].n, Head(task[w].todo)>>} ELSE settled
    /\ UNCHANGED <<mails, queue, strays>>

LEMMA ReturnReturns ==
    ASSUME NT!NotificationsAssumption, NoticeTypes, NEW w \in Workers, NT!Committed(w), NT!Return(w)
    PROVE  Returns(w)
  <1>1. task[w] # NT!Idle /\ task[w].n # 0 /\ task[w] \in NT!Job
    BY NoticeFacts DEF NT!Committed
  <1>2. task[w].k \in NT!Kinds /\ task[w].todo \in Todo(task[w].k)
    BY <1>1, NoticeFacts DEF JobOK, Good
  <1>3. UNCHANGED <<people, draining, users, n, changes, over>>
    BY DEF NT!Return
  <1>4. CASE Len(task[w].todo) = 1
    <2>1. task' = [task EXCEPT ![w] = NT!Idle]
      BY <1>4 DEF NT!Return
    <2>2. task' \in [Workers -> NT!Job] /\ Others(w) /\ task'[w] = NT!Idle
      BY <2>1, IdleJob, Takes, NoticeFacts
    <2> QED
      BY <1>1, <1>3, <1>4, <2>2 DEF Returns
  <1>5. CASE Len(task[w].todo) # 1
    <2>1. task[w].k = "change" /\ task[w].todo = NT!Notices["change"]
      BY <1>2, <1>5, TodoFacts
    <2>2. PICK t : t = Tail(task[w].todo)
      OBVIOUS
    <2>3. t \in Todos
      BY <2>1, <2>2 DEF Todos
    <2>4. PICK j : j = [k |-> task[w].k, id |-> task[w].id, user |-> task[w].user, n |-> task[w].n, todo |-> t]
      OBVIOUS
    <2>5. [task[w] EXCEPT !.todo = t] = j
      BY <1>1, <2>4, JobReturns
    <2>6. task' = [task EXCEPT ![w] = j]
      <3>1. task' = [task EXCEPT ![w] = [task[w] EXCEPT !.todo = Tail(task[w].todo)]]
        BY <1>1, <1>5, NoticeFacts DEF NT!Return
      <3> QED
        BY <2>2, <2>5, <3>1
    <2>7. /\ j \in NT!Job /\ j # NT!Idle /\ j.k = task[w].k /\ j.id = task[w].id /\ j.user = task[w].user
          /\ j.n = task[w].n /\ j.todo = t
      BY <1>1, <2>3, <2>4, NewJob, BusyJob
    <2>8. task' \in [Workers -> NT!Job] /\ Others(w) /\ task'[w] = j
      BY <2>6, <2>7, Takes, NoticeFacts
    <2> QED
      BY <1>1, <1>3, <2>1, <2>2, <2>7, <2>8 DEF Returns
  <1> QED
    BY <1>4, <1>5

\* Which handler calls a notify function.
LEMMA Caller ==
    ASSUME NT!NotificationsAssumption, NoticeTypes, NEW w \in Workers, NEW notice, NT!Doing(w, notice)
    PROVE  /\ NT!Committed(w) /\ Head(task[w].todo) = notice
           /\ task[w].k = "change" => notice \in NT!Parts
           /\ task[w].k = "reject" => notice = "account_rejected"
  <1>1. NT!Committed(w) /\ task[w] # NT!Idle /\ Head(task[w].todo) = notice
    BY DEF NT!Doing, NT!Committed
  <1>2. task[w].k \in NT!Kinds /\ task[w].todo \in Todo(task[w].k)
    BY <1>1, NoticeFacts DEF JobOK, Good
  <1> QED
    BY <1>1, <1>2, TodoFacts

LEMMA PeopleKnown ==
    ASSUME NT!NotificationsAssumption, NoticeTypes, NEW w \in Workers, task[w] # NT!Idle
    PROVE  /\ NT!Nobody \in 0 .. MaxUser /\ task[w].user \in 0 .. MaxUser
           /\ NT!Found(w) => NT!Now(w) \in 0 .. MaxUser
  <1>1. NT!Nobody \in 0 .. MaxUser
    BY NoticeBounds DEF NT!Nobody
  <1> QED
    BY <1>1, NoticeFacts, NoticeBounds DEF NT!Found, NT!Now, NT!Users

LEMMA MailPosts ==
    ASSUME NT!NotificationsAssumption,
           NoticeTypes, NEW w \in Workers, NEW notice, NEW t, NT!Mail(w, notice, t),
           t \in {NT!Nobody, task[w].user} \/ (notice \notin NT!Parts \cup {"account_rejected"} /\ NT!Found(w) /\ t = NT!Now(w))
    PROVE  Returns(w) /\ \E whom \in SUBSET (0 .. MaxUser) : Posts(w, whom)
  <1>1. NT!Doing(w, notice) /\ NT!Return(w) /\ NT!Post(w, notice, {t}) /\ UNCHANGED <<queue, settled, strays>>
    BY DEF NT!Mail
  <1>2. /\ NT!Committed(w) /\ Head(task[w].todo) = notice
        /\ task[w].k = "change" => notice \in NT!Parts
        /\ task[w].k = "reject" => notice = "account_rejected"
    BY <1>1, Caller
  <1>3. Whom(w, t)
    BY <1>2 DEF Whom
  <1>4. t \in 0 .. MaxUser
    BY <1>2, PeopleKnown DEF NT!Committed
  <1>5. mails' = mails \cup {Letter(w, x) : x \in {t}}
    BY <1>1, <1>2 DEF NT!Post, Letter
  <1>6. Posts(w, {t})
    BY <1>1, <1>3, <1>5 DEF Posts
  <1> QED
    BY <1>1, <1>2, <1>4, <1>6, ReturnReturns

LEMMA AlertPosts ==
    ASSUME NT!NotificationsAssumption,
           NoticeTypes, NEW w \in Workers, NEW notice, NEW chat, NEW whom, NT!Alert(w, notice, chat, whom),
           notice \notin NT!Parts \cup {"account_rejected"}, whom \subseteq {NT!Nobody, NT!Now(w)}
    PROVE  Returns(w) /\ \E T \in SUBSET (0 .. MaxUser) : Posts(w, T)
  <1>1. NT!Doing(w, notice) /\ NT!Found(w) /\ NT!Return(w) /\ UNCHANGED <<settled, strays>>
    BY DEF NT!Alert
  <1>2. /\ NT!Committed(w) /\ Head(task[w].todo) = notice
        /\ task[w].k # "change" /\ task[w].k # "reject"
    BY <1>1, Caller
  <1>3. \A t \in whom : Whom(w, t) /\ t \in 0 .. MaxUser
    <2>1. \A t \in whom : Whom(w, t)
      BY <1>1, <1>2 DEF Whom
    <2> QED
      BY <1>1, <1>2, <2>1, PeopleKnown DEF NT!Committed
  <1>4. queue' = queue \/ queue' = [queue EXCEPT ![Process[w]] = Append(@, task[w].n)]
    BY DEF NT!Alert
  <1>5. NT!Post(w, notice, whom) \/ mails' = mails
    BY DEF NT!Alert
  <1>6. CASE NT!Post(w, notice, whom)
    <2>1. mails' = mails \cup {Letter(w, x) : x \in whom}
      BY <1>2, <1>6 DEF NT!Post, Letter
    <2>2. Posts(w, whom)
      BY <1>1, <1>2, <1>3, <1>4, <2>1 DEF Posts
    <2> QED
      BY <1>1, <1>2, <1>3, <2>2, ReturnReturns
  <1>7. CASE mails' = mails
    <2>1. Posts(w, {})
      BY <1>1, <1>2, <1>4, <1>7 DEF Posts
    <2> QED
      BY <1>1, <1>2, <2>1, ReturnReturns
  <1> QED
    BY <1>5, <1>6, <1>7

LEMMA SendNowSends ==
    ASSUME NT!NotificationsAssumption,
           NoticeTypes, NEW w \in Workers, NEW notice, NEW t, NT!SendNow(w, notice, t),
           notice \notin NT!Parts \cup {"account_rejected"}, t = NT!Nobody \/ (NT!Found(w) /\ t = NT!Now(w))
    PROVE  Returns(w) /\ \E x \in 0 .. MaxUser : Sends(w, x)
  <1>1. /\ NT!Doing(w, notice) /\ NT!Return(w) /\ NT!Arrive(task[w].user, t)
        /\ UNCHANGED <<mails, queue, settled>>
    BY DEF NT!SendNow
  <1>2. /\ NT!Committed(w) /\ Head(task[w].todo) = notice
        /\ task[w].k # "change" /\ task[w].k # "reject"
    BY <1>1, Caller
  <1>3. Whom(w, t) /\ t \in 0 .. MaxUser
    <2>1. Whom(w, t)
      BY <1>2 DEF Whom
    <2> QED
      BY <1>2, <2>1, PeopleKnown DEF NT!Committed
  <1>4. Sends(w, t)
    BY <1>1, <1>2, <1>3 DEF Sends
  <1> QED
    BY <1>1, <1>2, <1>3, <1>4, ReturnReturns

LEMMA NotifyEffect ==
    ASSUME NT!NotificationsAssumption, NoticeTypes, NEW w \in Workers, NT!Notify(w)
    PROVE  /\ Returns(w)
           /\ \/ \E whom \in SUBSET (0 .. MaxUser) : Posts(w, whom)
              \/ \E t \in 0 .. MaxUser : Sends(w, t)
              \/ Fails(w)
  <1>1. CASE NT!notify_admin_pending_account(w) \/ NT!notify_realm_pending(w)
    BY <1>1, MailPosts DEF NT!notify_admin_pending_account, NT!notify_realm_pending
  <1>2. CASE NT!notify_account_approved(w)
    BY <1>2, MailPosts DEF NT!notify_account_approved, NT!Parts
  <1>3. CASE NT!notify_account_rejected(w)
    BY <1>3, MailPosts DEF NT!notify_account_rejected
  <1>4. CASE NT!notify_realm_approved(w)
    BY <1>4, MailPosts DEF NT!notify_realm_approved, NT!Parts, NT!Same
  <1>5. CASE NT!notify_realm_rejected(w)
    BY <1>5, MailPosts DEF NT!notify_realm_rejected, NT!Parts, NT!Same
  <1>6. CASE NT!notify_token_revoked(w)
    BY <1>6, MailPosts DEF NT!notify_token_revoked, NT!Parts, NT!Same
  <1>7. CASE NT!notify_credential_rotation(w)
    BY <1>7, MailPosts DEF NT!notify_credential_rotation, NT!Parts
  <1>8. CASE NT!notify_email_changed_old(w) \/ NT!notify_email_changed_new(w)
    BY <1>8, MailPosts DEF NT!notify_email_changed_old, NT!notify_email_changed_new
  <1>9. CASE NT!notify_failed_login(w)
    BY <1>9, AlertPosts DEF NT!notify_failed_login, NT!Parts
  <1>10. CASE NT!notify_password_changed(w)
    BY <1>10, AlertPosts DEF NT!notify_password_changed, NT!Parts
  <1>11. CASE NT!notify_2fa_lockout(w)
    BY <1>11, AlertPosts DEF NT!notify_2fa_lockout, NT!Parts
  <1>12. CASE NT!send_verification_email(w)
    BY <1>12, SendNowSends DEF NT!send_verification_email, NT!Parts
  <1>13. CASE NT!send_2fa_email(w)
    BY <1>13, SendNowSends DEF NT!send_2fa_email, NT!Parts
  <1>14. CASE NT!send_password_reset_email(w)
    BY <1>14, SendNowSends DEF NT!send_password_reset_email, NT!Parts
  <1>15. CASE NT!Fail(w)
    <2>1. NT!Committed(w) /\ NT!Return(w) /\ Fails(w)
      BY <1>15 DEF NT!Fail, Fails
    <2> QED
      BY <2>1, ReturnReturns
  <1> QED
    BY <1>1, <1>2, <1>3, <1>4, <1>5, <1>6, <1>7, <1>8, <1>9, <1>10, <1>11, <1>12, <1>13, <1>14,
       <1>15 DEF NT!Notify

-----------------------------------------------------------------------------
(***************************************************************************)
(* Every step keeps the types                                              *)
(***************************************************************************)
LEMMA GoodStays ==
    ASSUME NT!NotificationsAssumption, NEW j \in NT!Job, j # NT!Idle,
           NEW e1 \in Nat, NEW e2 \in Nat, e1 <= e2, NEW p1 \in Nat, NEW p2 \in Nat, p1 <= p2,
           NEW c1, NEW c2, c1 \subseteq c2, \A x \in c2 : x \in c1 \/ x = e1 + 1,
           Good(j, e1, p1, c1)
    PROVE  Good(j, e2, p2, c2)
  <1>1. j.n \in Nat /\ j.user \in Nat
    BY BusyJob, NoticeBounds
  <1> QED
    BY <1>1 DEF Good

\* Jobs of workers that do nothing stay good.
LEMMA OthersStay ==
    ASSUME NT!NotificationsAssumption, NoticeTypes, n' \in Nat, n <= n', users' \in Nat, users <= users',
           changes \subseteq changes', \A x \in changes' : x \in changes \/ x = n + 1,
           NEW v \in Workers, task[v] # NT!Idle, task'[v] = task[v]
    PROVE  Good(task'[v], n', users', changes')
  <1>1. PICK j \in NT!Job : j = task[v]
    BY NoticeFacts
  <1>2. PICK e1 \in Nat, e2 \in Nat, p1 \in Nat, p2 \in Nat : e1 = n /\ e2 = n' /\ p1 = users /\ p2 = users'
    BY NoticeFacts
  <1>3. PICK c1, c2 : c1 = changes /\ c2 = changes'
    OBVIOUS
  <1>4. Good(j, e1, p1, c1)
    BY <1>1, <1>2, <1>3, NoticeFacts DEF JobOK
  <1>5. Good(j, e2, p2, c2)
    BY <1>1, <1>2, <1>3, <1>4, GoodStays
  <1> QED
    BY <1>1, <1>2, <1>3, <1>5

\* What a worker does alone.
LEMMA JobsStep ==
    ASSUME NT!NotificationsAssumption, NoticeTypes, n' \in Nat, n <= n', users' \in Nat, users <= users',
           changes \subseteq changes', \A x \in changes' : x \in changes \/ x = n + 1,
           NEW w \in Workers, Others(w),
           task'[w] # NT!Idle => Good(task'[w], n', users', changes')
    PROVE  JobsInv'
  <1>1. ASSUME NEW v \in Workers, task'[v] # NT!Idle PROVE Good(task'[v], n', users', changes')
    BY <1>1, OthersStay DEF Others
  <1> QED
    BY <1>1 DEF JobsInv, JobOK

\* Mails and queues when nothing new is sent.
LEMMA MailsStep ==
    ASSUME NT!NotificationsAssumption, NoticeTypes, mails' \subseteq mails, n' \in Nat, n <= n',
           changes \subseteq changes', \A x \in changes' : x \in changes \/ x = n + 1
    PROVE  MailsInv'
  <1>1. mails' \subseteq NT!MailType /\ IsFiniteSet(mails')
    BY FS_Subset DEF NoticeTypes, MailsInv
  <1>2. ASSUME NEW m \in mails' PROVE m.n <= n' /\ (m.n \in changes' <=> m.part \in NT!Parts)
    <2>1. m \in mails /\ m.n \in Nat
      BY DEF NoticeTypes, MailsInv, NT!MailType, NT!Events
    <2>2. m.n <= n /\ (m.n \in changes <=> m.part \in NT!Parts)
      BY <2>1 DEF NoticeTypes, MailsInv
    <2> QED
      BY <2>1, <2>2, NoticeFacts
  <1> QED
    BY <1>1, <1>2 DEF MailsInv

LEMMA QueueStep ==
    ASSUME NT!NotificationsAssumption, NoticeTypes, queue' = queue, n' \in Nat, n <= n'
    PROVE  QueueInv'
  <1>1. queue' \in [Processes -> Seq(NT!Events)]
    BY DEF NoticeTypes, QueueInv
  <1>2. ASSUME NEW p \in Processes, NEW i \in DOMAIN queue'[p] PROVE queue'[p][i] <= n'
    <2>1. queue[p] \in Seq(NT!Events) /\ queue[p][i] <= n
      BY <1>2 DEF NoticeTypes, QueueInv
    <2>2. queue[p][i] \in Nat
      <3>1. queue[p][i] \in NT!Events
        BY <1>2, <2>1
      <3> QED
        BY <3>1 DEF NT!Events
    <2> QED
      BY <2>1, <2>2, NoticeFacts
  <1> QED
    BY <1>1, <1>2 DEF QueueInv

LEMMA RowsDrop ==
    ASSUME NT!NotificationsAssumption, NoticeTypes, NEW S, people' = NT!Drop(people, S), users' = users
    PROVE  RowsInv'
  BY DEF NoticeTypes, RowsInv, NT!IsTable, NT!Drop, NT!Ids

LEMMA BeginsTypes ==
    ASSUME NT!NotificationsAssumption, NoticeTypes, NEW w \in Workers, NoticeBegins(w)
    PROVE  NoticeTypes'
  <1>1. /\ task' \in [Workers -> NT!Job] /\ Others(w) /\ task[w] = NT!Idle /\ task'[w] # NT!Idle
        /\ task'[w].n = 0 /\ task'[w].todo = NT!Notices[task'[w].k]
        /\ UNCHANGED <<people, mails, queue, draining, users, n, changes, settled, over, strays>>
    BY DEF NoticeBegins
  <1>2. JobsInv'
    <2>1. task'[w].user <= users /\ 0 <= n
      <3>1. task'[w].user \in 0 .. MaxUser /\ task'[w].k \in NT!Kinds
        BY <1>1, BusyJob
      <3>2. CASE task'[w].user = NT!Nobody
        BY <3>2, NoticeFacts DEF NT!Nobody
      <3>3. CASE task'[w].id \in NT!Ids(people) /\ task'[w].user = people[task'[w].id].user
        BY <3>3, NoticeFacts
      <3> QED
        BY <3>2, <3>3, NoticeFacts DEF NoticeBegins
    <2>2. task'[w].todo \in Todo(task'[w].k)
      BY <1>1, BusyJob, TodoStart
    <2>3. Good(task'[w], n', users', changes')
      BY <1>1, <2>1, <2>2 DEF Good
    <2> QED
      BY <1>1, <2>3, JobsStep, NoticeFacts
  <1>3. MailsInv' /\ QueueInv' /\ RowsInv' /\ RestInv'
    BY <1>1, MailsStep, QueueStep, NoticeFacts DEF NoticeTypes, RowsInv, RestInv
  <1>4. RoomInv'
    <2>1. Waiting' = Waiting \cup {w} /\ w \notin Waiting
      BY <1>1 DEF Waiting, NT!Loaded, Others
    <2>2. Cardinality(Waiting') = Cardinality(Waiting) + 1
      BY <2>1, NoticeFacts, FS_AddElement
    <2>3. n + Cardinality(Waiting) < MaxEvent
      BY DEF NoticeBegins
    <2> QED
      BY <1>1, <2>2, <2>3, NoticeFacts, NoticeBounds DEF RoomInv
  <1> QED
    BY <1>1, <1>2, <1>3, <1>4 DEF NoticeTypes

LEMMA CommitsTypes ==
    ASSUME NT!NotificationsAssumption,
           NoticeTypes, NEW w \in Workers, Commits(w), Keeps(w) \/ \E i \in 1 .. MaxAccount : Creates(w, i)
    PROVE  NoticeTypes'
  <1>1. /\ task' \in [Workers -> NT!Job] /\ Others(w) /\ NT!Loaded(w) /\ task[w] # NT!Idle /\ task[w].n = 0
        /\ task'[w] # NT!Idle /\ n' = n + 1 /\ task'[w].n = n + 1
        /\ task'[w].k = task[w].k /\ task'[w].todo = task[w].todo
        /\ changes' = IF task[w].k = "change" THEN changes \cup {n + 1} ELSE changes
        /\ UNCHANGED <<mails, queue, draining, settled, over, strays>>
    BY DEF Commits, NT!Loaded
  <1>2. n' \in Nat /\ n <= n' /\ n' \in 0 .. MaxEvent /\ n + 1 # 0
    BY <1>1, RoomLeft, NoticeFacts
  <1>3. /\ users' \in 0 .. MaxUser /\ users <= users' /\ users' \in Nat /\ task'[w].user <= users'
        /\ RowsInv'
    <2>1. CASE Keeps(w)
      <3>1. users' = users /\ task'[w].user = task[w].user
        BY <2>1 DEF Keeps
      <3>2. RowsInv'
        <4>1. CASE people' = people
          BY <3>1, <4>1 DEF NoticeTypes, RowsInv
        <4>2. CASE people' = NT!Drop(people, {task[w].id})
          BY <3>1, <4>2, RowsDrop
        <4> QED
          BY <2>1, <4>1, <4>2 DEF Keeps
      <3> QED
        BY <1>1, <3>1, <3>2, NoticeFacts DEF JobOK, Good
    <2>2. ASSUME NEW i \in 1 .. MaxAccount, Creates(w, i)
          PROVE  /\ users' \in 0 .. MaxUser /\ users <= users' /\ users' \in Nat /\ task'[w].user <= users'
                 /\ RowsInv'
      <3>1. /\ users' = users + 1 /\ users' \in 1 .. MaxUser /\ task'[w].user = users + 1
            /\ people' = NT!Put(people, i, [user |-> users', alerts |-> FALSE])
        BY <2>2, NoticeFacts, NoticeBounds DEF Creates
      <3>2. PICK row \in [user : NT!Users, alerts : BOOLEAN] : row = [user |-> users', alerts |-> FALSE] /\ row.user = users'
        <4>1. PICK row : row = [user |-> users', alerts |-> FALSE]
          OBVIOUS
        <4>2. users' \in NT!Users
          BY <3>1 DEF NT!Users
        <4>3. row \in [user : NT!Users, alerts : BOOLEAN]
          BY <4>1, <4>2
        <4>4. row.user = users'
          BY <4>1
        <4> QED
          BY <4>1, <4>3, <4>4
      <3>3. NT!IsTable(people', 1 .. MaxAccount, [user : NT!Users, alerts : BOOLEAN])
        BY <3>1, <3>2 DEF NoticeTypes, RowsInv, NT!IsTable, NT!Put, NT!Ids
      <3>4. \A x \in NT!Ids(people') : people'[x].user <= users'
        <4> SUFFICES ASSUME NEW x \in NT!Ids(people') PROVE people'[x].user <= users'
          OBVIOUS
        <4>1. x = i \/ (x \in NT!Ids(people) /\ x # i)
          BY <3>1 DEF NT!Put, NT!Ids
        <4>2. CASE x = i
          <5>1. people'[x] = row
            BY <3>1, <3>2, <4>2 DEF NT!Put, NT!Ids
          <5> QED
            BY <3>1, <3>2, <5>1
        <4>3. CASE x \in NT!Ids(people) /\ x # i
          <5>1. people'[x] = people[x]
            BY <3>1, <4>3 DEF NT!Put, NT!Ids
          <5>2. people[x].user \in NT!Users /\ people[x].user <= users
            BY <4>3, NoticeFacts
          <5> QED
            BY <3>1, <5>1, <5>2, NoticeFacts DEF NT!Users
        <4> QED
          BY <4>1, <4>2, <4>3
      <3>5. RowsInv'
        BY <3>3, <3>4 DEF RowsInv
      <3>6. users' \in 0 .. MaxUser /\ users <= users' /\ users' \in Nat /\ task'[w].user <= users'
        BY <3>1, NoticeFacts
      <3> QED
        BY <3>5, <3>6
    <2> QED
      BY <2>1, <2>2
  <1>4. changes \subseteq changes' /\ \A x \in changes' : x \in changes \/ x = n + 1
    BY <1>1
  <1>5. JobsInv'
    <2>1. task[w].todo \in Todo(task[w].k)
      BY <1>1, NoticeFacts DEF JobOK, Good
    <2>2. n + 1 \in changes' <=> task[w].k = "change"
      <3>1. n + 1 \notin changes
        BY NoticeFacts DEF NoticeTypes, RestInv
      <3> QED
        BY <1>1, <3>1
    <2>3. Good(task'[w], n', users', changes')
      BY <1>1, <1>2, <1>3, <2>1, <2>2 DEF Good
    <2> QED
      BY <1>1, <1>2, <1>3, <1>4, <2>3, JobsStep
  <1>6. MailsInv' /\ QueueInv'
    BY <1>1, <1>2, <1>4, MailsStep, QueueStep
  <1>7. RestInv'
    <2>1. changes' \subseteq 1 .. n' /\ over' \subseteq 1 .. n'
      BY <1>1, NoticeFacts DEF NoticeTypes, RestInv
    <2> QED
      BY <1>1, <1>2, <1>3, <1>4, <2>1 DEF NoticeTypes, RestInv
  <1>8. RoomInv'
    <2>1. Waiting' = Waiting \ {w} /\ w \in Waiting
      BY <1>1, <1>2 DEF Waiting, NT!Loaded, Others
    <2>2. Cardinality(Waiting') = Cardinality(Waiting) - 1
      BY <2>1, NoticeFacts, FS_RemoveElement
    <2> QED
      BY <1>1, <2>2, NoticeFacts, NoticeBounds DEF NoticeTypes, RoomInv
  <1> QED
    BY <1>1, <1>3, <1>5, <1>6, <1>7, <1>8 DEF NoticeTypes

\* Steps without an event of their own leave the room for those that wait.
LEMMA RoomStep ==
    ASSUME NT!NotificationsAssumption,
           NoticeTypes, n' = n, \A v \in Workers : task'[v] # NT!Idle /\ task'[v].n = 0 => task'[v] = task[v]
    PROVE  RoomInv'
  <1>1. Waiting' \in SUBSET Waiting
    BY DEF Waiting, NT!Loaded
  <1>2. Cardinality(Waiting') <= Cardinality(Waiting) /\ Cardinality(Waiting') \in Nat
    BY <1>1, NoticeFacts, FS_Subset, FS_CardinalityType
  <1> QED
    BY <1>2, NoticeFacts, NoticeBounds DEF NoticeTypes, RoomInv

LEMMA AbortsTypes ==
    ASSUME NT!NotificationsAssumption, NoticeTypes, NEW w \in Workers, Aborts(w)
    PROVE  NoticeTypes'
  <1>1. /\ task' \in [Workers -> NT!Job] /\ Others(w) /\ task'[w] = NT!Idle
        /\ UNCHANGED <<people, mails, queue, draining, users, n, changes, settled, over, strays>>
    BY DEF Aborts
  <1>2. JobsInv'
    BY <1>1, JobsStep, NoticeFacts
  <1>3. MailsInv' /\ QueueInv' /\ RowsInv' /\ RestInv'
    BY <1>1, MailsStep, QueueStep, NoticeFacts, SMTT(60) DEF NoticeTypes, RowsInv, RestInv
  <1>4. RoomInv'
    BY <1>1, RoomStep DEF Others
  <1> QED
    BY <1>1, <1>2, <1>3, <1>4 DEF NoticeTypes

LEMMA MovesTypes ==
    ASSUME NT!NotificationsAssumption, NoticeTypes, NEW w \in Workers, Moves(w)
    PROVE  NoticeTypes'
  <1>1. /\ task' \in [Workers -> NT!Job] /\ Others(w) /\ NT!Loaded(w) /\ task[w] # NT!Idle
        /\ task'[w] # NT!Idle /\ task'[w].n = 0 /\ task'[w].k = "change"
        /\ task'[w].todo = NT!Notices["change"] /\ task'[w].user = task[w].user
        /\ UNCHANGED <<people, mails, queue, draining, users, n, changes, settled, over, strays>>
    BY DEF Moves, NT!Loaded
  <1>2. JobsInv'
    <2>1. task[w].user <= users /\ 0 <= n
      BY <1>1, NoticeFacts DEF JobOK, Good
    <2>2. task'[w].todo \in Todo("change")
      BY <1>1, TodoStart, ChangeNotices
    <2>3. Good(task'[w], n', users', changes')
      BY <1>1, <2>1, <2>2 DEF Good
    <2> QED
      BY <1>1, <2>3, JobsStep, NoticeFacts
  <1>3. MailsInv' /\ QueueInv' /\ RowsInv' /\ RestInv'
    BY <1>1, MailsStep, QueueStep, NoticeFacts, SMTT(60) DEF NoticeTypes, RowsInv, RestInv
  <1>4. RoomInv'
    <2>1. Waiting' = Waiting
      BY <1>1 DEF Waiting, NT!Loaded, Others
    <2> QED
      BY <1>1, <2>1 DEF NoticeTypes, RoomInv
  <1> QED
    BY <1>1, <1>2, <1>3, <1>4 DEF NoticeTypes

\* The jobs stay as they are.
LEMMA JobsUnchanged ==
    ASSUME NT!NotificationsAssumption, NoticeTypes, task' = task, UNCHANGED <<users, n, changes>>
    PROVE  task' \in [Workers -> NT!Job] /\ JobsInv' /\ RoomInv'
  <1>1. JobsInv'
    BY DEF NoticeTypes, JobsInv, JobOK
  <1> QED
    BY <1>1, RoomStep, NoticeFacts

LEMMA DeletesTypes ==
    ASSUME NT!NotificationsAssumption, NoticeTypes, NEW w \in Workers, NEW i, Deletes(w, i)
    PROVE  NoticeTypes'
  <1>1. /\ people' = NT!Drop(people, {i})
        /\ UNCHANGED <<task, mails, queue, draining, users, n, changes, settled, over, strays>>
    BY DEF Deletes
  <1>2. MailsInv' /\ QueueInv' /\ RowsInv' /\ RestInv'
    BY <1>1, MailsStep, QueueStep, RowsDrop, NoticeFacts DEF NoticeTypes, RestInv
  <1> QED
    BY <1>1, <1>2, JobsUnchanged DEF NoticeTypes

LEMMA AlertsTypes ==
    ASSUME NT!NotificationsAssumption, NoticeTypes, NEW i \in NT!Ids(people), NT!SetAlerts(i)
    PROVE  NoticeTypes'
  <1>1. /\ people' = [people EXCEPT ![i].alerts = ~@]
        /\ UNCHANGED <<task, mails, queue, draining, users, n, changes, settled, over, strays>>
    BY DEF NT!SetAlerts, NT!ghosts
  <1>2. RowsInv'
    <2>1. NT!IsTable(people', 1 .. MaxAccount, [user : NT!Users, alerts : BOOLEAN])
      BY <1>1 DEF NoticeTypes, RowsInv, NT!IsTable, NT!Ids
    <2>2. \A x \in NT!Ids(people) : people'[x].user = people[x].user
      BY <1>1 DEF NoticeTypes, RowsInv, NT!IsTable, NT!Ids
    <2> QED
      BY <1>1, <2>1, <2>2 DEF NoticeTypes, RowsInv, NT!Ids
  <1>3. MailsInv' /\ QueueInv' /\ RestInv'
    BY <1>1, MailsStep, QueueStep, NoticeFacts DEF NoticeTypes, RestInv
  <1> QED
    BY <1>1, <1>2, <1>3, JobsUnchanged DEF NoticeTypes

\* A letter is about the event and the user of the job that posts it.
LEMMA LetterFields ==
    ASSUME NT!NotificationsAssumption,
           NoticeTypes, NEW w \in Workers, task[w] # NT!Idle, task[w].n # 0, NEW t \in 0 .. MaxUser, NEW m, m = Letter(w, t)
    PROVE  /\ m \in NT!MailType /\ m.n = task[w].n /\ m.part = NT!Part(Head(task[w].todo))
           /\ m.about = task[w].user /\ m.to = t /\ m.at = Process[w]
           /\ m.n <= n /\ (m.n \in changes <=> m.part \in NT!Parts)
           /\ m.n \in changes => m.part = Head(task[w].todo)
  <1>1. /\ task[w].n \in NT!Events /\ task[w].user \in 0 .. MaxUser /\ Process[w] \in Processes
        /\ Good(task[w], n, users, changes) /\ task[w].k \in NT!Kinds
    BY NoticeFacts, NoticeBounds DEF NT!Events, JobOK
  <1>2. PICK p : p = NT!Part(Head(task[w].todo))
    OBVIOUS
  <1>3. p \in NT!Parts \cup {"other"}
    BY <1>2 DEF NT!Part
  <1>4. /\ m.n = task[w].n /\ m.part = p /\ m.about = task[w].user /\ m.to = t /\ m.at = Process[w]
        /\ m = [n |-> task[w].n, part |-> p, about |-> task[w].user, to |-> t, at |-> Process[w]]
    BY <1>2 DEF Letter
  <1>5. m \in NT!MailType
    BY <1>1, <1>3, <1>4 DEF NT!MailType
  <1>6. task[w].n <= n /\ (task[w].n \in changes <=> task[w].k = "change")
    BY <1>1 DEF Good
  <1>7. task[w].n \in changes <=> Head(task[w].todo) \in NT!Parts
    <2>1. task[w].todo \in Todo(task[w].k)
      BY <1>1 DEF Good
    <2> QED
      BY <1>1, <1>6, <2>1, TodoFacts
  <1>8. p = (IF Head(task[w].todo) \in NT!Parts THEN Head(task[w].todo) ELSE "other") /\ "other" \notin NT!Parts
    BY <1>2 DEF NT!Part, NT!Parts
  <1> QED
    BY <1>2, <1>4, <1>5, <1>6, <1>7, <1>8

\* An e-mail that strays counts for the user it is about.
LEMMA ArrivesAt ==
    ASSUME NT!NotificationsAssumption, NoticeTypes, NEW about \in 0 .. MaxUser, NEW to, NT!Arrive(about, to)
    PROVE  /\ strays' \in [NT!Users -> Nat]
           /\ \A u \in NT!Users : strays'[u] = IF u = about /\ to \notin {about, NT!Nobody} THEN strays[u] + 1
                                           ELSE strays[u]
  <1>1. strays \in [NT!Users -> Nat]
    BY DEF NoticeTypes, RestInv
  <1>2. CASE to \in {about, NT!Nobody} \/ about = NT!Nobody
    <2>1. strays' = strays
      BY <1>2 DEF NT!Arrive
    <2> QED
      BY <1>1, <1>2, <2>1 DEF NT!Users, NT!Nobody
  <1>3. CASE to \notin {about, NT!Nobody} /\ about # NT!Nobody
    <2>1. strays' = [strays EXCEPT ![about] = @ + 1]
      BY <1>3 DEF NT!Arrive
    <2>2. about \in NT!Users
      BY <1>3, NoticeBounds DEF NT!Users, NT!Nobody
    <2> QED
      BY <1>1, <1>3, <2>1, <2>2
  <1> QED
    BY <1>2, <1>3

LEMMA ReturnsTypes ==
    ASSUME NT!NotificationsAssumption, NoticeTypes, NEW w \in Workers, Returns(w),
           \/ \E whom \in SUBSET (0 .. MaxUser) : Posts(w, whom)
           \/ \E t \in 0 .. MaxUser : Sends(w, t)
           \/ Fails(w)
    PROVE  NoticeTypes'
  <1>1. /\ task' \in [Workers -> NT!Job] /\ Others(w) /\ task[w] # NT!Idle /\ task[w].n # 0
        /\ UNCHANGED <<people, draining, users, n, changes, over>>
    BY DEF Returns
  <1>2. Good(task[w], n, users, changes) /\ task[w].k \in NT!Kinds /\ task[w].todo \in Todo(task[w].k)
    BY <1>1, NoticeFacts DEF JobOK, Good
  <1>3. task'[w] # NT!Idle => task'[w].n = task[w].n
    BY DEF Returns
  <1>4. JobsInv'
    <2>1. ASSUME task'[w] # NT!Idle PROVE Good(task'[w], n', users', changes')
      <3>1. /\ task[w].k = "change" /\ task'[w].k = task[w].k /\ task'[w].user = task[w].user
            /\ task'[w].n = task[w].n /\ task'[w].todo = Tail(NT!Notices["change"])
        BY <2>1 DEF Returns
      <3>2. task'[w].todo \in Todo(task'[w].k)
        BY <3>1 DEF Todo
      <3> QED
        BY <1>1, <1>2, <3>1, <3>2 DEF Good
    <2> QED
      BY <1>1, <2>1, JobsStep, NoticeFacts
  <1>5. RoomInv'
    BY <1>1, <1>3, RoomStep DEF Others
  <1>6. RowsInv'
    BY <1>1 DEF NoticeTypes, RowsInv
  <1>7. ASSUME NEW whom \in SUBSET (0 .. MaxUser), Posts(w, whom) PROVE NoticeTypes'
    <2>1. /\ mails' = mails \cup {Letter(w, t) : t \in whom} /\ UNCHANGED <<settled, strays>>
          /\ queue' = queue \/ queue' = [queue EXCEPT ![Process[w]] = Append(@, task[w].n)]
      BY <1>7 DEF Posts
    <2>2. MailsInv'
      <3>1. IsFiniteSet({Letter(w, t) : t \in whom})
        <4>1. IsFiniteSet(0 .. MaxUser)
          BY FS_Interval, NoticeBounds
        <4>2. IsFiniteSet(whom)
          BY <4>1, FS_Subset
        <4>3. PICK T : T = {Letter(w, t) : t \in whom}
          OBVIOUS
        <4>4. PICK f : f = [t \in whom |-> Letter(w, t)]
          OBVIOUS
        <4>5. f \in Surjection(whom, T)
          BY <4>3, <4>4 DEF Surjection
        <4> QED
          BY <4>2, <4>3, <4>5, FS_Surjection DEF ExistsSurjection
      <3>2. IsFiniteSet(mails')
        BY <2>1, <3>1, FS_Union DEF NoticeTypes, MailsInv
      <3>3. ASSUME NEW m \in mails' PROVE m \in NT!MailType /\ m.n <= n' /\ (m.n \in changes' <=> m.part \in NT!Parts)
        <4>1. CASE m \in mails
          BY <1>1, <4>1 DEF NoticeTypes, MailsInv
        <4>2. ASSUME NEW t \in whom, m = Letter(w, t)
              PROVE  m \in NT!MailType /\ m.n <= n' /\ (m.n \in changes' <=> m.part \in NT!Parts)
          BY <1>1, <4>2, LetterFields
        <4> QED
          BY <2>1, <4>1, <4>2
      <3> QED
        BY <3>2, <3>3 DEF MailsInv
    <2>3. QueueInv'
      <3>1. CASE queue' = queue
        BY <1>1, <3>1, QueueStep, NoticeFacts
      <3>2. CASE queue' = [queue EXCEPT ![Process[w]] = Append(@, task[w].n)]
        <4>1. PICK e \in NT!Events : e = task[w].n /\ e <= n
          BY <1>1, <1>2, NoticeFacts DEF NT!Events, Good
        <4>2. queue \in [Processes -> Seq(NT!Events)]
          BY DEF NoticeTypes, QueueInv
        <4>3. queue' \in [Processes -> Seq(NT!Events)]
          <5>1. Append(queue[Process[w]], e) \in Seq(NT!Events)
            BY <4>1, <4>2, NoticeBounds
          <5> QED
            BY <3>2, <4>1, <4>2, <5>1
        <4>4. ASSUME NEW p \in Processes, NEW i \in DOMAIN queue'[p] PROVE queue'[p][i] <= n'
          <5>1. CASE queue'[p] = queue[p]
            BY <1>1, <4>4, <5>1 DEF NoticeTypes, QueueInv
          <5>2. CASE queue'[p] = Append(queue[p], e)
            <6>1. PICK s \in Seq(NT!Events) : s = queue[p]
              BY <4>2
            <6>2. i \in DOMAIN Append(s, e)
              BY <4>4, <5>2, <6>1
            <6>3. (i \in DOMAIN s /\ Append(s, e)[i] = s[i]) \/ Append(s, e)[i] = e
              BY <6>2
            <6>4. CASE i \in DOMAIN s /\ Append(s, e)[i] = s[i]
              <7>1. queue[p][i] <= n
                BY <6>1, <6>4 DEF NoticeTypes, QueueInv
              <7> QED
                BY <1>1, <5>2, <6>1, <6>4, <7>1
            <6> QED
              BY <1>1, <4>1, <5>2, <6>1, <6>3, <6>4
          <5>3. queue'[p] = queue[p] \/ queue'[p] = Append(queue[p], e)
            BY <3>2, <4>1, <4>2
          <5> QED
            BY <5>1, <5>2, <5>3
        <4> QED
          BY <4>3, <4>4 DEF QueueInv
      <3> QED
        BY <2>1, <3>1, <3>2
    <2>4. RestInv'
      BY <1>1, <2>1 DEF NoticeTypes, RestInv
    <2> QED
      BY <1>1, <1>4, <1>5, <1>6, <2>2, <2>3, <2>4 DEF NoticeTypes
  <1>8. ASSUME NEW t \in 0 .. MaxUser, Sends(w, t) PROVE NoticeTypes'
    <2>1. UNCHANGED <<mails, queue, settled>> /\ NT!Arrive(task[w].user, t)
      BY <1>8 DEF Sends
    <2>2. MailsInv' /\ QueueInv'
      BY <1>1, <2>1, MailsStep, QueueStep, NoticeFacts
    <2>3. strays' \in [NT!Users -> Nat]
      BY <1>1, <2>1, ArrivesAt, NoticeFacts
    <2>4. RestInv'
      BY <1>1, <2>1, <2>3 DEF NoticeTypes, RestInv
    <2> QED
      BY <1>1, <1>4, <1>5, <1>6, <2>2, <2>4 DEF NoticeTypes
  <1>9. ASSUME Fails(w) PROVE NoticeTypes'
    <2>1. UNCHANGED <<mails, queue, strays>>
      BY <1>9 DEF Fails
    <2>2. MailsInv' /\ QueueInv'
      BY <1>1, <2>1, MailsStep, QueueStep, NoticeFacts
    <2>3. settled' \subseteq changes \X NT!Parts
      <3>1. settled \subseteq changes \X NT!Parts
        BY DEF NoticeTypes, RestInv
      <3>2. task[w].k = "change" => task[w].n \in changes /\ Head(task[w].todo) \in NT!Parts
        BY <1>1, <1>2, TodoFacts DEF Good
      <3> QED
        BY <1>9, <3>1, <3>2 DEF Fails
    <2>4. RestInv'
      BY <1>1, <2>1, <2>3 DEF NoticeTypes, RestInv
    <2> QED
      BY <1>1, <1>4, <1>5, <1>6, <2>2, <2>4 DEF NoticeTypes
  <1> QED
    BY <1>7, <1>8, <1>9

LEMMA DeliverTypes ==
    ASSUME NT!NotificationsAssumption, NoticeTypes, NEW m \in mails, NT!Deliver(m)
    PROVE  NoticeTypes'
  <1>1. /\ mails' \subseteq mails /\ NT!Arrive(m.about, m.to)
        /\ settled' = IF m.n \in changes THEN settled \cup {<<m.n, m.part>>} ELSE settled
        /\ UNCHANGED <<people, task, queue, draining, users, n, changes, over>>
    BY DEF NT!Deliver
  <1>2. m.about \in 0 .. MaxUser /\ (m.n \in changes => m.part \in NT!Parts)
    BY DEF NoticeTypes, MailsInv, NT!MailType
  <1>3. strays' \in [NT!Users -> Nat]
    BY <1>1, <1>2, ArrivesAt
  <1>4. settled' \subseteq changes \X NT!Parts
    BY <1>1, <1>2 DEF NoticeTypes, RestInv
  <1>5. MailsInv' /\ QueueInv'
    BY <1>1, MailsStep, QueueStep, NoticeFacts
  <1>6. RowsInv' /\ RestInv'
    BY <1>1, <1>3, <1>4 DEF NoticeTypes, RowsInv, RestInv
  <1> QED
    BY <1>1, <1>5, <1>6, JobsUnchanged DEF NoticeTypes

LEMMA SendAlertTypes ==
    ASSUME NT!NotificationsAssumption, NoticeTypes, NEW p \in Processes, NT!SendAlert(p)
    PROVE  NoticeTypes'
  <1>1. /\ queue[p] # << >> /\ queue' = [queue EXCEPT ![p] = Tail(@)] /\ over' = over \cup {Head(queue[p])}
        /\ UNCHANGED <<people, task, mails, draining, users, n, changes, settled, strays>>
    BY DEF NT!SendAlert
  <1>2. queue \in [Processes -> Seq(NT!Events)]
    BY DEF NoticeTypes, QueueInv
  <1>3. PICK s \in Seq(NT!Events) : s = queue[p]
    BY <1>2
  <1>4. /\ Tail(s) \in Seq(NT!Events) /\ 1 \in DOMAIN s /\ Head(s) = s[1] /\ Head(s) \in NT!Events
        /\ \A i \in DOMAIN Tail(s) : i + 1 \in DOMAIN s /\ Tail(s)[i] = s[i + 1]
    BY <1>1, <1>3
  <1>5. QueueInv'
    <2>1. queue' \in [Processes -> Seq(NT!Events)]
      BY <1>1, <1>2, <1>3, <1>4
    <2>2. ASSUME NEW q \in Processes, NEW i \in DOMAIN queue'[q] PROVE queue'[q][i] <= n'
      <3>1. CASE q = p
        <4>1. queue'[q] = Tail(s)
          BY <1>1, <1>2, <1>3, <3>1
        <4>2. i \in DOMAIN Tail(s)
          BY <2>2, <4>1
        <4>3. queue'[q][i] = queue[p][i + 1] /\ i + 1 \in DOMAIN queue[p]
          BY <1>3, <1>4, <4>1, <4>2
        <4> QED
          BY <1>1, <4>3 DEF NoticeTypes, QueueInv
      <3>2. CASE q # p
        BY <1>1, <1>2, <2>2, <3>2 DEF NoticeTypes, QueueInv
      <3> QED
        BY <3>1, <3>2
    <2> QED
      BY <2>1, <2>2 DEF QueueInv
  <1>6. over' \subseteq 1 .. n
    <2>1. Head(s) <= n
      BY <1>3, <1>4 DEF NoticeTypes, QueueInv
    <2>2. Head(s) \in 1 .. n
      BY <1>4, <2>1, NoticeFacts, NoticeBounds DEF NT!Events
    <2> QED
      BY <1>1, <1>3, <2>2 DEF NoticeTypes, RestInv
  <1>7. MailsInv'
    BY <1>1, MailsStep, NoticeFacts
  <1>8. RowsInv' /\ RestInv'
    BY <1>1, <1>6 DEF NoticeTypes, RowsInv, RestInv
  <1> QED
    BY <1>1, <1>5, <1>7, <1>8, JobsUnchanged DEF NoticeTypes

LEMMA DrainTypes ==
    ASSUME NT!NotificationsAssumption, NoticeTypes, NEW p \in Processes, NT!Drain(p)
    PROVE  NoticeTypes'
  <1>1. /\ draining' = draining \cup {p}
        /\ UNCHANGED <<people, task, mails, queue, users, n, changes, settled, over, strays>>
    BY DEF NT!Drain, NT!ghosts
  <1>2. MailsInv' /\ QueueInv'
    BY <1>1, MailsStep, QueueStep, NoticeFacts
  <1>3. RowsInv' /\ RestInv'
    BY <1>1 DEF NoticeTypes, RowsInv, RestInv
  <1> QED
    BY <1>1, <1>2, <1>3, JobsUnchanged DEF NoticeTypes

\* What the mails at a process settle.
LEMMA MailsSettle ==
    ASSUME NT!NotificationsAssumption, NoticeTypes, NEW p \in Processes
    PROVE  {<<m.n, m.part>> : m \in {x \in NT!MailsAt(p) : x.n \in changes}} \subseteq changes \X NT!Parts
  BY DEF NoticeTypes, MailsInv, NT!MailsAt

LEMMA ExitTypes ==
    ASSUME NT!NotificationsAssumption, NoticeTypes, NEW p \in Processes, NT!Exit(p)
    PROVE  NoticeTypes'
  <1>1. /\ draining' = draining \ {p} /\ mails' = mails \ NT!MailsAt(p) /\ NT!Settle(p)
        /\ UNCHANGED <<people, task, queue, users, n, changes, over, strays>>
    BY DEF NT!Exit
  <1>2. settled' \subseteq changes \X NT!Parts
    BY <1>1, MailsSettle DEF NT!Settle, NoticeTypes, RestInv
  <1>3. MailsInv' /\ QueueInv'
    BY <1>1, MailsStep, QueueStep, NoticeFacts
  <1>4. RowsInv' /\ RestInv'
    BY <1>1, <1>2 DEF NoticeTypes, RowsInv, RestInv
  <1> QED
    BY <1>1, <1>3, <1>4, JobsUnchanged DEF NoticeTypes

\* What a killed worker had still to send are notices of a changed address.
LEMMA LeftSettles ==
    ASSUME NT!NotificationsAssumption, NoticeTypes, NEW w \in Workers
    PROVE  NT!Left(w) \subseteq changes \X NT!Parts
  <1>1. CASE task[w] = NT!Idle \/ task[w].n \notin changes
    BY <1>1 DEF NT!Left
  <1>2. CASE task[w] # NT!Idle /\ task[w].n \in changes
    <2>1. /\ Good(task[w], n, users, changes) /\ task[w].k \in NT!Kinds /\ task[w].n # 0
      BY <1>2, NoticeFacts DEF JobOK, NoticeTypes, RestInv
    <2>2. task[w].k = "change" /\ task[w].todo \in {NT!Notices["change"], Tail(NT!Notices["change"])}
      BY <1>2, <2>1 DEF Good, Todo
    <2>3. \A t \in {NT!Notices["change"], Tail(NT!Notices["change"])} : \A i \in DOMAIN t : t[i] \in NT!Parts
      <3>1. NT!Notices["change"] = <<"email_changed_old", "email_changed_new">>
            /\ Tail(NT!Notices["change"]) = <<"email_changed_new">>
        BY ChangeNotices
      <3>2. \A i \in DOMAIN <<"email_changed_old", "email_changed_new">> :
                <<"email_changed_old", "email_changed_new">>[i] \in NT!Parts
        BY DEF NT!Parts
      <3>3. \A i \in DOMAIN <<"email_changed_new">> : <<"email_changed_new">>[i] \in NT!Parts
        BY DEF NT!Parts
      <3> QED
        BY <3>1, <3>2, <3>3
    <2>4. PICK t : t = task[w].todo
      OBVIOUS
    <2>5. \A i \in DOMAIN t : t[i] \in NT!Parts
      BY <2>2, <2>3, <2>4
    <2>6. NT!Left(w) = {<<task[w].n, t[i]>> : i \in DOMAIN t}
      BY <1>2, <2>4 DEF NT!Left
    <2> QED
      BY <1>2, <2>5, <2>6
  <1> QED
    BY <1>1, <1>2

LEMMA KillTypes ==
    ASSUME NT!NotificationsAssumption, NoticeTypes, NEW p \in Processes, NT!Kill(p)
    PROVE  NoticeTypes'
  <1>1. /\ task' = [w \in Workers |-> IF w \in {v \in Workers : Process[v] = p} THEN NT!Idle ELSE task[w]]
        /\ mails' = mails \ NT!MailsAt(p)
        /\ settled' = settled \cup {<<m.n, m.part>> : m \in {x \in NT!MailsAt(p) : x.n \in changes}}
                              \cup (UNION {NT!Left(w) : w \in {v \in Workers : Process[v] = p}})
        /\ over' = over \cup {queue[p][i] : i \in DOMAIN queue[p]}
        /\ queue' = [queue EXCEPT ![p] = << >>]
        /\ draining' = draining \ {p}
        /\ UNCHANGED <<people, users, n, changes, strays>>
    BY DEF NT!Kill
  <1>2. \A v \in Workers : task'[v] = NT!Idle \/ task'[v] = task[v]
    BY <1>1
  <1>3. task' \in [Workers -> NT!Job]
    BY <1>1, IdleJob, NoticeFacts
  <1>4. JobsInv'
    <2>1. ASSUME NEW v \in Workers, task'[v] # NT!Idle PROVE Good(task'[v], n', users', changes')
      BY <1>1, <1>2, <2>1, OthersStay, NoticeFacts
    <2> QED
      BY <2>1 DEF JobsInv, JobOK
  <1>5. RoomInv'
    BY <1>1, <1>2, RoomStep
  <1>6. settled' \subseteq changes \X NT!Parts
    <2>1. UNION {NT!Left(w) : w \in {v \in Workers : Process[v] = p}} \subseteq changes \X NT!Parts
      BY LeftSettles
    <2> QED
      BY <1>1, <2>1, MailsSettle DEF NoticeTypes, RestInv
  <1>7. queue \in [Processes -> Seq(NT!Events)]
    BY DEF NoticeTypes, QueueInv
  <1>8. QueueInv'
    <2>1. queue' \in [Processes -> Seq(NT!Events)]
      BY <1>1, <1>7
    <2>2. ASSUME NEW q \in Processes, NEW i \in DOMAIN queue'[q] PROVE queue'[q][i] <= n'
      <3>1. q # p
        BY <1>1, <1>7, <2>2
      <3> QED
        BY <1>1, <1>7, <2>2, <3>1 DEF NoticeTypes, QueueInv
    <2> QED
      BY <2>1, <2>2 DEF QueueInv
  <1>9. over' \subseteq 1 .. n
    <2>1. ASSUME NEW i \in DOMAIN queue[p] PROVE queue[p][i] \in 1 .. n
      <3>1. queue[p][i] \in NT!Events
        BY <1>7, <2>1
      <3>2. queue[p][i] <= n
        BY <2>1 DEF NoticeTypes, QueueInv
      <3> QED
        BY <3>1, <3>2, NoticeFacts, NoticeBounds DEF NT!Events
    <2> QED
      BY <1>1, <2>1 DEF NoticeTypes, RestInv
  <1>10. MailsInv'
    BY <1>1, MailsStep, NoticeFacts
  <1>11. RowsInv' /\ RestInv'
    BY <1>1, <1>6, <1>9 DEF NoticeTypes, RowsInv, RestInv
  <1> QED
    BY <1>3, <1>4, <1>5, <1>8, <1>10, <1>11 DEF NoticeTypes

\* What a step of a handler does.
LEMMA HandlerEffect ==
    ASSUME NT!NotificationsAssumption, NoticeTypes, NEW w \in Workers, NT!Handler(w)
    PROVE  \/ NoticeBegins(w)
           \/ Commits(w) /\ (Keeps(w) \/ \E i \in 1 .. MaxAccount : Creates(w, i))
           \/ Aborts(w)
           \/ Moves(w)
           \/ \E i \in NT!Ids(people) : Deletes(w, i)
  <1>1. ASSUME NEW i \in NT!Ids(people), NT!DeleteAccount(w, i) PROVE Deletes(w, i)
    BY <1>1 DEF NT!DeleteAccount, Deletes, NT!ghosts
  <1> QED
    BY <1>1, LoadBegins, CommitCommits, AbortAborts, ChangeMoves DEF NT!Handler

LEMMA NoticesTypeStep ==
    ASSUME NT!NotificationsAssumption
    PROVE  NoticeTypes /\ [NT!Next]_NT!vars => NoticeTypes'
  <1> SUFFICES ASSUME NoticeTypes, [NT!Next]_NT!vars PROVE NoticeTypes'
    OBVIOUS
  <1>1. ASSUME NEW w \in Workers, NT!Handler(w) PROVE NoticeTypes'
    BY <1>1, HandlerEffect, BeginsTypes, CommitsTypes, AbortsTypes, MovesTypes, DeletesTypes
  <1>2. ASSUME NEW w \in Workers, NT!Notify(w) PROVE NoticeTypes'
    BY <1>2, NotifyEffect, ReturnsTypes
  <1>3. CASE UNCHANGED NT!vars
    <2>1. UNCHANGED <<people, task, mails, queue, draining, users, n, changes, settled, over, strays>>
      BY <1>3 DEF NT!vars
    <2>2. MailsInv' /\ QueueInv'
      BY <2>1, MailsStep, QueueStep, NoticeFacts
    <2>3. RowsInv' /\ RestInv'
      BY <2>1 DEF NoticeTypes, RowsInv, RestInv
    <2> QED
      BY <2>1, <2>2, <2>3, JobsUnchanged DEF NoticeTypes
  <1> QED
    BY <1>1, <1>2, <1>3, AlertsTypes, DeliverTypes, SendAlertTypes, DrainTypes, ExitTypes, KillTypes
       DEF NT!Next

\* Every variable has its type, and an alert waits for an event that was
\* committed, whatever the numbers of workers, processes and people.
THEOREM NoticesTypeCorrect ==
    ASSUME NT!NotificationsAssumption
    PROVE  NT!Spec => []NT!TypeOK
  <1>1. NT!Init => NoticeTypes
    BY NoticesTypeInit
  <1>2. NoticeTypes /\ [NT!Next]_NT!vars => NoticeTypes'
    BY NoticesTypeStep
  <1>3. NoticeTypes => NT!TypeOK
    BY TypeInvHasTypes
  <1> QED
    BY <1>1, <1>2, <1>3, PTL DEF NT!Spec

-----------------------------------------------------------------------------
(***************************************************************************)
(* Both addresses hear of the change                                       *)
(***************************************************************************)
Owed(t) == {t[i] : i \in DOMAIN t}
Owes(w, c, part) == task[w] # NT!Idle /\ task[w].n = c /\ part \in Owed(task[w].todo)
Posted(c, part) == \E m \in mails : m.n = c /\ m.part = part

Hears(c, part) ==
    \/ <<c, part>> \in settled
    \/ Posted(c, part)
    \/ \E w \in Workers : Owes(w, c, part)

HearInv == \A c \in changes, part \in NT!Parts : Hears(c, part)

LEMMA OwedNotices ==
    ASSUME NT!NotificationsAssumption PROVE
    /\ Owed(NT!Notices["change"]) = NT!Parts
    /\ \A t \in Todo("change") : \A part \in Owed(t) :
          part = Head(t) \/ (t = NT!Notices["change"] /\ part \in Owed(Tail(t)))
    /\ Len(NT!Notices["change"]) # 1
  <1>1. NT!Notices["change"] = <<"email_changed_old", "email_changed_new">>
        /\ Tail(NT!Notices["change"]) = <<"email_changed_new">>
        /\ Head(NT!Notices["change"]) = "email_changed_old"
        /\ Head(Tail(NT!Notices["change"])) = "email_changed_new"
        /\ Len(NT!Notices["change"]) = 2
    BY ChangeNotices
  <1>2. Owed(<<"email_changed_old", "email_changed_new">>) = NT!Parts
    BY DEF Owed, NT!Parts
  <1>3. Owed(<<"email_changed_new">>) = {"email_changed_new"}
    BY DEF Owed
  <1>4. \A t \in Todo("change") : t = NT!Notices["change"] \/ t = Tail(NT!Notices["change"])
    BY DEF Todo
  <1>5. \A part \in Owed(NT!Notices["change"]) : part = Head(NT!Notices["change"]) \/ part \in Owed(Tail(NT!Notices["change"]))
    BY <1>1, <1>2, <1>3 DEF NT!Parts
  <1>6. \A part \in Owed(Tail(NT!Notices["change"])) : part = Head(Tail(NT!Notices["change"]))
    BY <1>1, <1>3
  <1>7. \A t \in Todo("change") : \A part \in Owed(t) :
           part = Head(t) \/ (t = NT!Notices["change"] /\ part \in Owed(Tail(t)))
    BY <1>4, <1>5, <1>6
  <1>8. Owed(NT!Notices["change"]) = NT!Parts
    BY <1>1, <1>2
  <1>9. Len(NT!Notices["change"]) # 1
    BY <1>1
  <1> QED
    BY <1>7, <1>8, <1>9

LEMMA HearMeans == ASSUME NT!NotificationsAssumption, NoticeTypes, HearInv PROVE NT!BothAddressesHear
  <1>1. ASSUME NEW c \in changes, NEW part \in NT!Parts PROVE <<c, part>> \in settled \cup NT!Pending
    <2>1. Hears(c, part)
      BY DEF HearInv
    <2>2. CASE Posted(c, part)
      BY <2>2 DEF Posted, NT!Pending
    <2>3. ASSUME NEW w \in Workers, Owes(w, c, part) PROVE <<c, part>> \in NT!Pending
      <3>1. PICK i \in DOMAIN task[w].todo : task[w].todo[i] = part
        BY <2>3 DEF Owes, Owed
      <3>2. <<c, part>> \in NT!Left(w)
        BY <2>3, <3>1 DEF NT!Left, Owes
      <3> QED
        BY <3>2 DEF NT!Pending
    <2> QED
      BY <2>1, <2>2, <2>3 DEF Hears
  \* what is not a change of an address, or was not logged, sends no such notice
  <1>2. ASSUME NEW e \in NT!Events, NEW part \in NT!Parts, <<e, part>> \in settled \cup NT!Pending
        PROVE  e \in changes
    <2>1. CASE <<e, part>> \in settled
      BY <2>1 DEF NoticeTypes, RestInv
    <2>2. ASSUME NEW m \in mails, <<e, part>> = <<m.n, m.part>> PROVE e \in changes
      BY <2>2 DEF NoticeTypes, MailsInv
    <2>3. ASSUME NEW w \in Workers, <<e, part>> \in NT!Left(w) PROVE e \in changes
      BY <2>3, LeftSettles
    <2> QED
      BY <1>2, <2>1, <2>2, <2>3 DEF NT!Pending
  <1>3. ASSUME NEW e \in NT!Events PROVE NT!Heard(e) = IF e \in changes THEN NT!Parts ELSE {}
    BY <1>1, <1>2 DEF NT!Heard
  <1> QED
    BY <1>3 DEF NT!BothAddressesHear

\* It is enough that what was heard of stays so.
LEMMA HearsStay ==
    ASSUME NT!NotificationsAssumption, HearInv, changes' = changes,
           \A c \in changes, part \in NT!Parts : Hears(c, part) => Hears(c, part)'
    PROVE  HearInv'
  BY DEF HearInv

LEMMA CommitsHear ==
    ASSUME NT!NotificationsAssumption, NoticeTypes, HearInv, NEW w \in Workers, Commits(w)
    PROVE  HearInv'
  <1>1. /\ Others(w) /\ task[w] # NT!Idle /\ task[w].n = 0 /\ task'[w] # NT!Idle /\ n' = n + 1
        /\ task'[w].n = n + 1 /\ task'[w].todo = task[w].todo
        /\ changes' = IF task[w].k = "change" THEN changes \cup {n + 1} ELSE changes
        /\ mails' = mails /\ settled' = settled
    BY DEF Commits, NT!Loaded
  <1>2. ASSUME NEW c \in changes, NEW part \in NT!Parts PROVE Hears(c, part)'
    <2>1. Hears(c, part) /\ c # 0
      BY NoticeFacts DEF HearInv, NoticeTypes, RestInv
    <2>2. ASSUME NEW v \in Workers, Owes(v, c, part) PROVE Owes(v, c, part)'
      <3>1. v # w
        BY <1>1, <2>1, <2>2 DEF Owes
      <3> QED
        BY <1>1, <2>2, <3>1 DEF Owes, Others
    <2> QED
      BY <1>1, <2>1, <2>2 DEF Hears, Posted
  <1>3. ASSUME task[w].k = "change", NEW part \in NT!Parts, NEW c, c = n + 1 PROVE Hears(c, part)'
    <2>1. task[w].todo = NT!Notices["change"]
      BY <1>1, <1>3, NoticeFacts DEF JobOK, Good
    <2>2. part \in Owed(task'[w].todo)
      BY <1>1, <2>1, OwedNotices
    <2>3. Owes(w, c, part)'
      BY <1>1, <1>3, <2>2 DEF Owes
    <2> QED
      BY <2>3 DEF Hears
  <1>4. ASSUME NEW c \in changes', NEW part \in NT!Parts PROVE Hears(c, part)'
    BY <1>1, <1>2, <1>3
  <1> QED
    BY <1>4 DEF HearInv

LEMMA BeginsHear ==
    ASSUME NT!NotificationsAssumption, HearInv, NEW w \in Workers, NoticeBegins(w) \/ Aborts(w) \/ Moves(w), NoticeTypes
    PROVE  HearInv'
  <1>1. /\ Others(w) /\ (task[w] = NT!Idle \/ task[w].n = 0)
        /\ mails' = mails /\ settled' = settled /\ changes' = changes
    BY DEF NoticeBegins, Aborts, Moves, NT!Loaded
  <1>2. ASSUME NEW c \in changes, NEW part \in NT!Parts, Hears(c, part) PROVE Hears(c, part)'
    <2>1. c # 0
      BY NoticeFacts DEF NoticeTypes, RestInv
    <2>2. ASSUME NEW v \in Workers, Owes(v, c, part) PROVE Owes(v, c, part)'
      <3>1. v # w
        BY <1>1, <2>1, <2>2 DEF Owes
      <3> QED
        BY <1>1, <2>2, <3>1 DEF Owes, Others
    <2> QED
      BY <1>1, <1>2, <2>2 DEF Hears, Posted
  <1> QED
    BY <1>1, <1>2, HearsStay

LEMMA QuietHear ==
    ASSUME NT!NotificationsAssumption, HearInv, UNCHANGED <<task, mails, settled, changes>>
    PROVE  HearInv'
  <1>1. ASSUME NEW c \in changes, NEW part \in NT!Parts, Hears(c, part) PROVE Hears(c, part)'
    BY <1>1 DEF Hears, Posted, Owes
  <1> QED
    BY <1>1, HearsStay

LEMMA ReturnsHear ==
    ASSUME NT!NotificationsAssumption, NoticeTypes, HearInv, NEW w \in Workers, Returns(w),
           \/ \E whom \in SUBSET (0 .. MaxUser) : Posts(w, whom)
           \/ \E t \in 0 .. MaxUser : Sends(w, t)
           \/ Fails(w)
    PROVE  HearInv'
  <1>1. /\ Others(w) /\ task[w] # NT!Idle /\ task[w].n # 0 /\ changes' = changes
        /\ Good(task[w], n, users, changes)
    BY NoticeFacts DEF Returns, JobOK
  <1>2. mails \subseteq mails' /\ settled \subseteq settled'
    BY DEF Posts, Sends, Fails
  <1>3. ASSUME NEW c \in changes, NEW part \in NT!Parts, Owes(w, c, part)
        PROVE  Hears(c, part)'
    <2>1. task[w].n = c /\ task[w].k = "change" /\ task[w].todo \in Todo("change") /\ part \in Owed(task[w].todo)
      BY <1>1, <1>3 DEF Owes, Good
    <2>2. CASE part = Head(task[w].todo)
      <3>1. ASSUME NEW whom \in SUBSET (0 .. MaxUser), Posts(w, whom) PROVE Posted(c, part)'
        <4>1. PICK t \in whom : t \in 0 .. MaxUser /\ Letter(w, t) \in mails'
          BY <2>1, <3>1 DEF Posts
        <4>2. PICK m : m = Letter(w, t)
          OBVIOUS
        <4>3. m \in mails' /\ m.n = c /\ m.part = part
          BY <1>1, <2>1, <2>2, <4>1, <4>2, LetterFields
        <4> QED
          BY <4>3 DEF Posted
      <3>2. ASSUME Fails(w) PROVE <<c, part>> \in settled'
        BY <2>1, <2>2, <3>2 DEF Fails
      <3>3. ~ \E t \in 0 .. MaxUser : Sends(w, t)
        BY <2>1 DEF Sends
      <3> QED
        BY <3>1, <3>2, <3>3 DEF Hears
    <2>3. CASE task[w].todo = NT!Notices["change"] /\ part \in Owed(Tail(task[w].todo))
      <3>1. /\ task'[w] # NT!Idle /\ task'[w].n = task[w].n /\ task'[w].todo = Tail(task[w].todo)
        BY <2>3, OwedNotices DEF Returns
      <3>2. Owes(w, c, part)'
        BY <2>1, <2>3, <3>1 DEF Owes
      <3> QED
        BY <3>2 DEF Hears
    <2> QED
      BY <2>1, <2>2, <2>3, OwedNotices
  <1>4. ASSUME NEW c \in changes, NEW part \in NT!Parts, Hears(c, part) PROVE Hears(c, part)'
    <2>1. ASSUME NEW v \in Workers, v # w, Owes(v, c, part) PROVE Owes(v, c, part)'
      BY <1>1, <2>1 DEF Owes, Others
    <2>2. Posted(c, part) => Posted(c, part)'
      BY <1>2 DEF Posted
    <2> QED
      BY <1>2, <1>3, <1>4, <2>1, <2>2 DEF Hears
  <1> QED
    BY <1>1, <1>4, HearsStay

\* What leaves a process is settled.
LEMMA LeavesHear ==
    ASSUME NT!NotificationsAssumption, NoticeTypes, HearInv, changes' = changes, settled \subseteq settled',
           \A m \in mails : m \notin mails' /\ m.n \in changes => <<m.n, m.part>> \in settled',
           \A w \in Workers : task'[w] = task[w] \/ NT!Left(w) \subseteq settled'
    PROVE  HearInv'
  <1>1. ASSUME NEW c \in changes, NEW part \in NT!Parts, Posted(c, part) PROVE Hears(c, part)'
    <2>1. PICK m \in mails : m.n = c /\ m.part = part
      BY <1>1 DEF Posted
    <2>2. CASE m \in mails'
      <3>1. Posted(c, part)'
        BY <2>1, <2>2 DEF Posted
      <3> QED
        BY <3>1 DEF Hears
    <2>3. CASE m \notin mails'
      BY <2>1, <2>3 DEF Hears
    <2> QED
      BY <2>2, <2>3
  <1>2. ASSUME NEW c \in changes, NEW part \in NT!Parts, NEW w \in Workers, Owes(w, c, part) PROVE Hears(c, part)'
    <2>1. CASE task'[w] = task[w]
      <3>1. Owes(w, c, part)'
        BY <1>2, <2>1 DEF Owes
      <3> QED
        BY <3>1 DEF Hears
    <2>2. CASE NT!Left(w) \subseteq settled'
      <3>1. PICK i \in DOMAIN task[w].todo : task[w].todo[i] = part
        BY <1>2 DEF Owes, Owed
      <3>2. <<c, part>> \in NT!Left(w)
        BY <1>2, <3>1 DEF NT!Left, Owes
      <3> QED
        BY <2>2, <3>2 DEF Hears
    <2> QED
      BY <2>1, <2>2
  <1>3. ASSUME NEW c \in changes, NEW part \in NT!Parts, Hears(c, part) PROVE Hears(c, part)'
    BY <1>1, <1>2, <1>3 DEF Hears
  <1> QED
    BY <1>3, HearsStay

LEMMA DeliverHears ==
    ASSUME NT!NotificationsAssumption, NoticeTypes, HearInv, NEW m \in mails, NT!Deliver(m)
    PROVE  HearInv'
  <1>1. /\ mails' = mails \ {m} /\ task' = task /\ changes' = changes
        /\ settled' = IF m.n \in changes THEN settled \cup {<<m.n, m.part>>} ELSE settled
    BY DEF NT!Deliver
  <1> QED
    BY <1>1, LeavesHear

LEMMA ExitHears ==
    ASSUME NT!NotificationsAssumption, NoticeTypes, HearInv, NEW p \in Processes, NT!Exit(p)
    PROVE  HearInv'
  <1>1. /\ mails' = mails \ NT!MailsAt(p) /\ task' = task /\ changes' = changes
        /\ settled' = settled \cup {<<m.n, m.part>> : m \in {x \in NT!MailsAt(p) : x.n \in changes}}
    BY DEF NT!Exit, NT!Settle
  <1> QED
    BY <1>1, LeavesHear

LEMMA KillHears ==
    ASSUME NT!NotificationsAssumption, NoticeTypes, HearInv, NEW p \in Processes, NT!Kill(p)
    PROVE  HearInv'
  <1>1. /\ task' = [w \in Workers |-> IF w \in {v \in Workers : Process[v] = p} THEN NT!Idle ELSE task[w]]
        /\ mails' = mails \ NT!MailsAt(p)
        /\ settled' = settled \cup {<<m.n, m.part>> : m \in {x \in NT!MailsAt(p) : x.n \in changes}}
                              \cup (UNION {NT!Left(w) : w \in {v \in Workers : Process[v] = p}})
        /\ changes' = changes
    BY DEF NT!Kill
  <1>2. ASSUME NEW w \in Workers PROVE task'[w] = task[w] \/ NT!Left(w) \subseteq settled'
    <2>1. CASE Process[w] = p
      BY <1>1, <2>1
    <2>2. CASE Process[w] # p
      BY <1>1, <2>2
    <2> QED
      BY <2>1, <2>2
  <1>3. \A m \in mails : m \notin mails' /\ m.n \in changes => <<m.n, m.part>> \in settled'
    BY <1>1
  <1>4. settled \subseteq settled'
    BY <1>1
  <1> QED
    BY <1>1, <1>2, <1>3, <1>4, LeavesHear

LEMMA HearStep ==
    ASSUME NT!NotificationsAssumption
    PROVE  NoticeTypes /\ HearInv /\ [NT!Next]_NT!vars => HearInv'
  <1> SUFFICES ASSUME NoticeTypes, HearInv, [NT!Next]_NT!vars PROVE HearInv'
    OBVIOUS
  <1>1. ASSUME NEW w \in Workers, NT!Handler(w) PROVE HearInv'
    <2>1. ASSUME NEW i \in NT!Ids(people), Deletes(w, i) PROVE HearInv'
      BY <2>1, QuietHear DEF Deletes
    <2> QED
      BY <1>1, <2>1, HandlerEffect, BeginsHear, CommitsHear
  <1>2. ASSUME NEW w \in Workers, NT!Notify(w) PROVE HearInv'
    BY <1>2, NotifyEffect, ReturnsHear
  <1>3. ASSUME NEW i \in NT!Ids(people), NT!SetAlerts(i) PROVE HearInv'
    BY <1>3, QuietHear DEF NT!SetAlerts, NT!ghosts
  <1>4. ASSUME NEW p \in Processes, NT!SendAlert(p) PROVE HearInv'
    BY <1>4, QuietHear DEF NT!SendAlert
  <1>5. ASSUME NEW p \in Processes, NT!Drain(p) PROVE HearInv'
    BY <1>5, QuietHear DEF NT!Drain, NT!ghosts
  <1>6. CASE UNCHANGED NT!vars
    BY <1>6, QuietHear DEF NT!vars
  <1> QED
    BY <1>1, <1>2, <1>3, <1>4, <1>5, <1>6, DeliverHears, ExitHears, KillHears DEF NT!Next

\* When an administrator changes an address, both addresses are told of it, each
\* whatever became of the other notice, or neither is, because the change could
\* not be logged (account_change_email).
THEOREM BothHear ==
    ASSUME NT!NotificationsAssumption
    PROVE  NT!Spec => []NT!BothAddressesHear
  <1>1. NT!Init => NoticeTypes /\ HearInv
    BY NoticesTypeInit DEF NT!Init, HearInv
  <1>2. NoticeTypes /\ HearInv /\ [NT!Next]_NT!vars => (NoticeTypes /\ HearInv)'
    BY NoticesTypeStep, HearStep
  <1>3. NoticeTypes /\ HearInv => NT!BothAddressesHear
    BY HearMeans
  <1> QED
    BY <1>1, <1>2, <1>3, PTL DEF NT!Spec

-----------------------------------------------------------------------------
(***************************************************************************)
(* Few e-mails stray                                                       *)
(***************************************************************************)
\* Nobody has two rows, and a job about somebody who has a row has its id.
HomeInv ==
    /\ \A i, j \in NT!Ids(people) : people[i].user = people[j].user => i = j
    /\ \A i \in NT!Ids(people), w \in Workers :
          task[w] # NT!Idle /\ task[w].user = people[i].user => task[w].id = i

Here(u) == u > users \/ \E i \in NT!Ids(people) : people[i].user = u
Astray(u) == {m \in mails : m.about = u /\ m.to \notin {u, NT!Nobody}}
Risky(u) == {w \in Workers : task[w] # NT!Idle /\ task[w].user = u /\ task[w].k # "reject"}

\* While somebody has a row, or none yet, no e-mail about them strays.  After
\* that the strays, the e-mails about to be, and the jobs that may still send one
\* are fewer than the workers: one of these deleted the row.
FewAt(u) ==
    IF Here(u) THEN strays[u] = 0 /\ Astray(u) = {}
    ELSE strays[u] + Cardinality(Astray(u)) + Cardinality(Risky(u)) < NT!Most

StrayInv == HomeInv /\ \A u \in NT!Users : FewAt(u)

LEMMA FewFacts ==
    ASSUME NT!NotificationsAssumption, NoticeTypes, NEW u \in NT!Users
    PROVE  /\ strays[u] \in Nat
           /\ IsFiniteSet(Astray(u)) /\ Cardinality(Astray(u)) \in Nat
           /\ IsFiniteSet(Risky(u)) /\ Cardinality(Risky(u)) \in Nat
  <1>1. Astray(u) \subseteq mails /\ IsFiniteSet(mails)
    BY DEF Astray, NoticeTypes, MailsInv
  <1>2. Risky(u) \subseteq Workers
    BY DEF Risky
  <1> QED
    BY <1>1, <1>2, NoticeBounds, FS_Subset, FS_CardinalityType DEF NoticeTypes, RestInv

LEMMA FewIsFew == ASSUME NT!NotificationsAssumption, NoticeTypes, StrayInv PROVE NT!StraysFew
  <1> SUFFICES ASSUME NEW u \in NT!Users PROVE strays[u] < NT!Most
    BY DEF NT!StraysFew
  <1>1. FewAt(u)
    BY DEF StrayInv
  <1> QED
    BY <1>1, FewFacts, NoticeBounds DEF FewAt

LEMMA SmallerCount ==
    ASSUME NT!NotificationsAssumption, NEW S, NEW T, IsFiniteSet(T), S \subseteq T
    PROVE  IsFiniteSet(S) /\ Cardinality(S) \in Nat /\ Cardinality(T) \in Nat /\ Cardinality(S) <= Cardinality(T)
  BY FS_Subset, FS_CardinalityType

LEMMA OneFewer ==
    ASSUME NT!NotificationsAssumption, NEW S, NEW T, IsFiniteSet(T), NEW x \in T, S \subseteq T \ {x}
    PROVE  IsFiniteSet(S) /\ Cardinality(S) \in Nat /\ Cardinality(T) \in Nat /\ Cardinality(S) + 1 <= Cardinality(T)
  <1>1. IsFiniteSet(T \ {x}) /\ Cardinality(T \ {x}) = Cardinality(T) - 1
    BY FS_RemoveElement
  <1> QED
    BY <1>1, FS_Subset, FS_CardinalityType

LEMMA OneMore ==
    ASSUME NT!NotificationsAssumption, NEW S, NEW T, IsFiniteSet(T), NEW x, S \subseteq T \cup {x}
    PROVE  IsFiniteSet(S) /\ Cardinality(S) \in Nat /\ Cardinality(T) \in Nat /\ Cardinality(S) <= Cardinality(T) + 1
  <1>1. IsFiniteSet(T \cup {x}) /\ Cardinality(T \cup {x}) <= Cardinality(T) + 1
    <2>1. Cardinality(T) \in Nat
      BY FS_CardinalityType
    <2>2. PICK U : U = T \cup {x}
      OBVIOUS
    <2>3. IsFiniteSet(U) /\ Cardinality(U) = IF x \in T THEN Cardinality(T) ELSE Cardinality(T) + 1
      BY <2>2, FS_AddElement
    <2> QED
      BY <2>1, <2>2, <2>3
  <1> QED
    BY <1>1, FS_Subset, FS_CardinalityType

\* Nothing happens to somebody.
LEMMA FewStay ==
    ASSUME NT!NotificationsAssumption,
           NoticeTypes, NEW u \in NT!Users, FewAt(u), Here(u)' <=> Here(u), strays'[u] = strays[u],
           Astray(u)' \subseteq Astray(u), ~Here(u) => Risky(u)' \subseteq Risky(u)
    PROVE  FewAt(u)'
  <1>1. CASE Here(u)
    BY <1>1 DEF FewAt
  <1>2. CASE ~Here(u)
    <2>1. PICK a1, a2, r1, r2 : a1 = Astray(u) /\ a2 = Astray(u)' /\ r1 = Risky(u) /\ r2 = Risky(u)'
      OBVIOUS
    <2>2. PICK s \in Nat : s = strays[u]
      BY FewFacts
    <2>3. Cardinality(a2) \in Nat /\ Cardinality(a1) \in Nat /\ Cardinality(a2) <= Cardinality(a1)
      BY <2>1, FewFacts, SmallerCount
    <2>4. Cardinality(r2) \in Nat /\ Cardinality(r1) \in Nat /\ Cardinality(r2) <= Cardinality(r1)
      BY <1>2, <2>1, FewFacts, SmallerCount
    <2>5. s + Cardinality(a1) + Cardinality(r1) < NT!Most
      BY <1>2, <2>1, <2>2 DEF FewAt
    <2>6. s + Cardinality(a2) + Cardinality(r2) < NT!Most
      BY <2>3, <2>4, <2>5, NoticeBounds
    <2> QED
      BY <1>2, <2>1, <2>2, <2>6 DEF FewAt, NT!Most
  <1> QED
    BY <1>1, <1>2

\* Somebody loses the row to a worker that sends nothing about them.
LEMMA FewLeave ==
    ASSUME NT!NotificationsAssumption,
           NoticeTypes, NEW u \in NT!Users, FewAt(u), Here(u), strays'[u] = strays[u],
           Astray(u)' \subseteq Astray(u), NEW w \in Workers, w \notin Risky(u)'
    PROVE  FewAt(u)'
  <1>1. strays'[u] = 0 /\ Astray(u)' = {}
    BY DEF FewAt
  <1>2. PICK r : r = Risky(u)'
    OBVIOUS
  <1>3. r \subseteq Workers \ {w}
    BY <1>2 DEF Risky
  <1>4. Cardinality(r) \in Nat /\ Cardinality(r) + 1 <= NT!Most
    BY <1>3, OneFewer, NoticeBounds, SameSize DEF NT!Most
  <1>5. Cardinality({}) = 0
    BY FS_EmptySet
  <1>6. 0 + 0 + Cardinality(r) < NT!Most
    BY <1>4, NoticeBounds
  <1> QED
    BY <1>1, <1>2, <1>5, <1>6 DEF FewAt, NT!Most

\* A job that may send a stray does so, and is over.
LEMMA FewShift ==
    ASSUME NT!NotificationsAssumption, NoticeTypes, NEW u \in NT!Users, FewAt(u), ~Here(u), ~Here(u)',
           NEW w \in Risky(u), Risky(u)' \subseteq Risky(u) \ {w},
           \/ strays'[u] = strays[u] /\ \E x : Astray(u)' \subseteq Astray(u) \cup {x}
           \/ strays'[u] = strays[u] + 1 /\ Astray(u)' \subseteq Astray(u)
    PROVE  FewAt(u)'
  <1>1. PICK a1, a2, r1, r2 : a1 = Astray(u) /\ a2 = Astray(u)' /\ r1 = Risky(u) /\ r2 = Risky(u)'
    OBVIOUS
  <1>2. PICK s \in Nat : s = strays[u]
    BY FewFacts
  <1>3. Cardinality(r2) \in Nat /\ Cardinality(r1) \in Nat /\ Cardinality(r2) + 1 <= Cardinality(r1)
    BY <1>1, FewFacts, OneFewer
  <1>4. s + Cardinality(a1) + Cardinality(r1) < NT!Most
    BY <1>1, <1>2 DEF FewAt
  <1>5. CASE strays'[u] = strays[u] /\ \E x : Astray(u)' \subseteq Astray(u) \cup {x}
    <2>1. PICK x : a2 \subseteq a1 \cup {x}
      BY <1>1, <1>5
    <2>2. Cardinality(a2) \in Nat /\ Cardinality(a1) \in Nat /\ Cardinality(a2) <= Cardinality(a1) + 1
      BY <1>1, <2>1, FewFacts, OneMore
    <2>3. s + Cardinality(a2) + Cardinality(r2) < NT!Most
      BY <1>3, <1>4, <2>2, NoticeBounds
    <2> QED
      BY <1>1, <1>2, <1>5, <2>3 DEF FewAt, NT!Most
  <1>6. CASE strays'[u] = strays[u] + 1 /\ Astray(u)' \subseteq Astray(u)
    <2>1. Cardinality(a2) \in Nat /\ Cardinality(a1) \in Nat /\ Cardinality(a2) <= Cardinality(a1)
      BY <1>1, <1>6, FewFacts, SmallerCount
    <2>2. (s + 1) + Cardinality(a2) + Cardinality(r2) < NT!Most
      BY <1>3, <1>4, <2>1, NoticeBounds
    <2> QED
      BY <1>1, <1>2, <1>6, <2>2 DEF FewAt, NT!Most
  <1> QED
    BY <1>5, <1>6

\* A stray arrives.
LEMMA FewArrive ==
    ASSUME NT!NotificationsAssumption,
           NoticeTypes, NEW u \in NT!Users, FewAt(u), ~Here(u), ~Here(u)', Risky(u)' = Risky(u),
           NEW m \in Astray(u), Astray(u)' \subseteq Astray(u) \ {m}, strays'[u] = strays[u] + 1
    PROVE  FewAt(u)'
  <1>1. PICK a1, a2, r : a1 = Astray(u) /\ a2 = Astray(u)' /\ r = Risky(u)
    OBVIOUS
  <1>2. PICK s \in Nat : s = strays[u]
    BY FewFacts
  <1>3. Cardinality(a2) \in Nat /\ Cardinality(a1) \in Nat /\ Cardinality(a2) + 1 <= Cardinality(a1)
    BY <1>1, FewFacts, OneFewer
  <1>4. Cardinality(r) \in Nat
    BY <1>1, FewFacts
  <1>5. s + Cardinality(a1) + Cardinality(r) < NT!Most
    BY <1>1, <1>2 DEF FewAt
  <1>6. (s + 1) + Cardinality(a2) + Cardinality(r) < NT!Most
    BY <1>3, <1>4, <1>5, NoticeBounds
  <1> QED
    BY <1>1, <1>2, <1>6 DEF FewAt, NT!Most

\* Rows and jobs at most go.
LEMMA HomeStay ==
    ASSUME NT!NotificationsAssumption,
           HomeInv, \A i \in NT!Ids(people') : i \in NT!Ids(people) /\ people'[i].user = people[i].user,
           \A v \in Workers : task'[v] # NT!Idle =>
              task[v] # NT!Idle /\ task'[v].user = task[v].user /\ task'[v].id = task[v].id
    PROVE  HomeInv'
  BY DEF HomeInv

LEMMA RiskyStay ==
    ASSUME NT!NotificationsAssumption,
           NEW u, NEW v, v \in Risky(u)', task'[v] = task[v] PROVE v \in Risky(u)
  BY DEF Risky

LEMMA UsersAreSomebody ==
    ASSUME NT!NotificationsAssumption
    PROVE  \A u \in NT!Users : u \in Nat /\ u # NT!Nobody
  BY NoticeBounds DEF NT!Users, NT!Nobody

LEMMA BeginsStray ==
    ASSUME NT!NotificationsAssumption, NoticeTypes, StrayInv, NEW w \in Workers, NoticeBegins(w)
    PROVE  StrayInv'
  <1>1. /\ Others(w) /\ task[w] = NT!Idle /\ task'[w] # NT!Idle /\ task' \in [Workers -> NT!Job]
        /\ task'[w].user = NT!Nobody \/ (task'[w].id \in NT!Ids(people) /\ task'[w].user = people[task'[w].id].user)
        /\ UNCHANGED <<people, mails, users, strays>>
    BY DEF NoticeBegins
  <1>2. HomeInv'
    <2>1. ASSUME NEW i \in NT!Ids(people), NEW v \in Workers, task'[v] # NT!Idle, task'[v].user = people[i].user
          PROVE  task'[v].id = i
      <3>1. CASE v # w
        BY <1>1, <2>1, <3>1 DEF Others, StrayInv, HomeInv
      <3>2. CASE v = w
        <4>1. people[i].user # NT!Nobody
          BY UsersAreSomebody, NoticeFacts
        <4> QED
          BY <1>1, <2>1, <3>2, <4>1 DEF StrayInv, HomeInv
      <3> QED
        BY <3>1, <3>2
    <2> QED
      BY <1>1, <2>1 DEF StrayInv, HomeInv
  <1>3. ASSUME NEW u \in NT!Users PROVE FewAt(u)'
    <2>1. (Here(u)' <=> Here(u)) /\ strays'[u] = strays[u] /\ Astray(u)' \subseteq Astray(u)
      BY <1>1 DEF Here, Astray
    <2>2. ASSUME ~Here(u), NEW v, v \in Risky(u)' PROVE v \in Risky(u)
      <3>1. v # w
        BY <1>1, <2>2, UsersAreSomebody DEF Risky, Here
      <3> QED
        BY <1>1, <2>2, <3>1, RiskyStay DEF Others, Risky
    <2> QED
      BY <2>1, <2>2, FewStay DEF StrayInv
  <1> QED
    BY <1>2, <1>3 DEF StrayInv

\* Nobody's row goes, or one does, and w has nothing to send about its owner.
LEMMA RowsGo ==
    ASSUME NT!NotificationsAssumption,
           NoticeTypes, StrayInv, NEW S, people' = people \/ people' = NT!Drop(people, S),
           UNCHANGED <<mails, users, strays>>,
           \A v \in Workers : task'[v] # NT!Idle =>
              task[v] # NT!Idle /\ task'[v].user = task[v].user /\ task'[v].id = task[v].id /\ task'[v].k = task[v].k,
           NEW w \in Workers, people' # people => task'[w] = NT!Idle \/ task'[w].k = "reject"
    PROVE  StrayInv'
  <1>1. \A i \in NT!Ids(people') : i \in NT!Ids(people) /\ people'[i].user = people[i].user
    BY DEF NT!Drop, NT!Ids
  <1>2. HomeInv'
    BY <1>1, HomeStay DEF StrayInv
  <1>3. ASSUME NEW u \in NT!Users PROVE FewAt(u)'
    <2>1. strays'[u] = strays[u] /\ Astray(u)' \subseteq Astray(u) /\ Risky(u)' \subseteq Risky(u)
      BY DEF Astray, Risky
    <2>2. FewAt(u)
      BY DEF StrayInv
    <2>3. Here(u)' => Here(u)
      BY <1>1 DEF Here
    <2>4. CASE Here(u)' <=> Here(u)
      BY <2>1, <2>2, <2>4, FewStay
    <2>5. CASE Here(u) /\ ~Here(u)'
      <3>1. people' # people
        BY <2>5 DEF Here
      <3>2. w \notin Risky(u)'
        BY <3>1 DEF Risky
      <3> QED
        BY <2>1, <2>2, <2>5, <3>2, FewLeave
    <2> QED
      BY <2>3, <2>4, <2>5
  <1> QED
    BY <1>2, <1>3 DEF StrayInv

LEMMA CommitsStray ==
    ASSUME NT!NotificationsAssumption, NoticeTypes, StrayInv, NEW w \in Workers, Commits(w),
           Keeps(w) \/ \E i \in 1 .. MaxAccount : Creates(w, i)
    PROVE  StrayInv'
  <1>1. /\ Others(w) /\ task[w] # NT!Idle /\ task'[w] # NT!Idle /\ task'[w].k = task[w].k
        /\ mails' = mails /\ strays' = strays
    BY DEF Commits, NT!Loaded
  <1>2. CASE Keeps(w)
    <2>1. \A v \in Workers : task'[v] # NT!Idle =>
              task[v] # NT!Idle /\ task'[v].user = task[v].user /\ task'[v].id = task[v].id /\ task'[v].k = task[v].k
      BY <1>1, <1>2 DEF Others, Keeps
    <2>2. users' = users /\ (people' = people \/ people' = NT!Drop(people, {task[w].id}))
      BY <1>2 DEF Keeps
    <2>3. people' # people => task'[w].k = "reject"
      BY <1>1, <1>2 DEF Keeps
    <2> QED
      BY <1>1, <2>1, <2>2, <2>3, RowsGo
  <1>3. ASSUME NEW i \in 1 .. MaxAccount, Creates(w, i) PROVE StrayInv'
    <2>1. /\ users' = users + 1 /\ task'[w].user = users + 1 /\ task'[w].id = i
          /\ \A j \in NT!Ids(people) : j < i
          /\ people' = NT!Put(people, i, [user |-> users + 1, alerts |-> FALSE])
      BY <1>3 DEF Creates, NT!NextRowId
    <2>2. /\ i \notin NT!Ids(people) /\ NT!Ids(people') = NT!Ids(people) \cup {i}
          /\ \A j \in NT!Ids(people) : people'[j] = people[j]
          /\ people'[i].user = users + 1
      <3>1. i \notin NT!Ids(people)
        BY <2>1
      <3>2. PICK row : row = [user |-> users + 1, alerts |-> FALSE] /\ row.user = users + 1
        <4>1. PICK x : x = users + 1
          OBVIOUS
        <4>2. PICK row : row = [user |-> x, alerts |-> FALSE]
          OBVIOUS
        <4>3. row.user = x
          BY <4>2
        <4> QED
          BY <4>1, <4>2, <4>3
      <3>3. NT!Ids(people') = NT!Ids(people) \cup {i} /\ people'[i] = row /\ \A j \in NT!Ids(people) : people'[j] = people[j]
        BY <2>1, <3>1, <3>2 DEF NT!Put, NT!Ids
      <3> QED
        BY <3>1, <3>2, <3>3
    <2>3. \A j \in NT!Ids(people) : people[j].user <= users /\ people[j].user \in Nat
      BY NoticeFacts, UsersAreSomebody
    <2>4. \A v \in Workers : v # w => task'[v] = task[v]
      BY <1>1 DEF Others
    <2>5. \A v \in Workers : task[v] # NT!Idle => task[v].user <= users /\ task[v].user \in Nat
      BY NoticeFacts, NoticeBounds DEF JobOK, Good
    <2>6. HomeInv'
      <3>1. ASSUME NEW j \in NT!Ids(people'), NEW k \in NT!Ids(people'), people'[j].user = people'[k].user PROVE j = k
        BY <2>2, <2>3, <3>1, NoticeFacts DEF StrayInv, HomeInv
      <3>2. ASSUME NEW j \in NT!Ids(people'), NEW v \in Workers, task'[v] # NT!Idle, task'[v].user = people'[j].user
            PROVE  task'[v].id = j
        <4>1. CASE v = w /\ j = i
          BY <2>1, <4>1
        <4>2. CASE v = w /\ j # i
          <5>1. people[j].user <= users /\ people[j].user \in Nat
            BY <2>2, <2>3, <4>2
          <5>2. people[j].user = users + 1
            BY <2>1, <2>2, <3>2, <4>2
          <5> QED
            BY <5>1, <5>2, NoticeFacts
        <4>3. CASE v # w /\ j = i
          BY <2>2, <2>4, <2>5, <3>2, <4>3, NoticeFacts
        <4>4. CASE v # w /\ j # i
          BY <2>2, <2>4, <3>2, <4>4 DEF StrayInv, HomeInv
        <4> QED
          BY <4>1, <4>2, <4>3, <4>4
      <3> QED
        BY <3>1, <3>2 DEF HomeInv
    <2>7. ASSUME NEW u \in NT!Users PROVE FewAt(u)'
      <3>1. u \in Nat
        BY UsersAreSomebody
      <3>2. Here(u) => Here(u)'
        <4>1. CASE u > users
          <5>1. u = users + 1 \/ u > users'
            BY <2>1, <3>1, <4>1, NoticeFacts
          <5> QED
            BY <2>2, <5>1 DEF Here
        <4>2. CASE \E j \in NT!Ids(people) : people[j].user = u
          BY <2>2, <4>2 DEF Here
        <4> QED
          BY <4>1, <4>2 DEF Here
      <3>3. Here(u)' => Here(u)
        <4>1. CASE u > users'
          BY <2>1, <3>1, <4>1, NoticeFacts DEF Here
        <4>2. ASSUME NEW j \in NT!Ids(people'), people'[j].user = u PROVE Here(u)
          <5>1. CASE j = i
            <6>1. u = users + 1
              BY <2>2, <4>2, <5>1
            <6>2. u > users
              BY <6>1, NoticeFacts
            <6> QED
              BY <6>2 DEF Here
          <5>2. CASE j # i
            BY <2>2, <4>2, <5>2 DEF Here
          <5> QED
            BY <5>1, <5>2
        <4> QED
          BY <4>1, <4>2 DEF Here
      <3>4. ASSUME ~Here(u), NEW v, v \in Risky(u)' PROVE v \in Risky(u)
        <4>1. v # w
          <5>1. ~ (u > users)
            BY <3>4 DEF Here
          <5>2. u # users + 1
            BY <3>1, <5>1, NoticeFacts
          <5> QED
            BY <2>1, <3>4, <5>2 DEF Risky
        <4> QED
          BY <2>4, <3>4, <4>1, RiskyStay DEF Risky
      <3>5. strays'[u] = strays[u] /\ Astray(u)' \subseteq Astray(u)
        BY <1>1 DEF Astray
      <3> QED
        BY <3>2, <3>3, <3>4, <3>5, FewStay DEF StrayInv
    <2> QED
      BY <2>6, <2>7 DEF StrayInv
  <1> QED
    BY <1>2, <1>3

\* To somebody who has a row, e-mails go to the right address.
LEMMA WhomHome ==
    ASSUME NT!NotificationsAssumption,
           NoticeTypes, StrayInv, NEW w \in Workers, task[w] # NT!Idle, NEW u \in NT!Users, u = task[w].user,
           NEW t, Whom(w, t), t \notin {u, NT!Nobody}
    PROVE  ~Here(u) /\ task[w].k # "reject" /\ task[w].k # "change" /\ t = NT!Now(w)
  <1>1. task[w].k # "reject" /\ task[w].k # "change" /\ t = NT!Now(w)
    BY DEF Whom
  <1>2. ~ (u > users)
    <2>1. u <= users /\ u \in Nat
      BY NoticeFacts, UsersAreSomebody DEF JobOK, Good
    <2> QED
      BY <2>1, NoticeFacts
  <1>3. ASSUME NEW i \in NT!Ids(people), people[i].user = u PROVE FALSE
    <2>1. task[w].id = i
      BY <1>3 DEF StrayInv, HomeInv
    <2>2. NT!Now(w) = u
      BY <1>3, <2>1 DEF NT!Now
    <2> QED
      BY <1>1, <2>2
  <1> QED
    BY <1>1, <1>2, <1>3 DEF Here

LEMMA ReturnsStray ==
    ASSUME NT!NotificationsAssumption, NoticeTypes, StrayInv, NEW w \in Workers, Returns(w),
           \/ \E whom \in SUBSET (0 .. MaxUser) : Posts(w, whom)
           \/ \E t \in 0 .. MaxUser : Sends(w, t)
           \/ Fails(w)
    PROVE  StrayInv'
  <1>1. /\ Others(w) /\ task[w] # NT!Idle /\ task[w].n # 0 /\ people' = people /\ users' = users
        /\ task'[w] # NT!Idle => task[w].k = "change" /\ task'[w].k = task[w].k /\ task'[w].id = task[w].id
                             /\ task'[w].user = task[w].user
    BY DEF Returns
  <1>2. \A v \in Workers : task'[v] # NT!Idle =>
            task[v] # NT!Idle /\ task'[v].user = task[v].user /\ task'[v].id = task[v].id /\ task'[v].k = task[v].k
    BY <1>1 DEF Others
  <1>3. HomeInv'
    BY <1>1, <1>2, HomeStay DEF StrayInv
  <1>4. task[w].user \in 0 .. MaxUser
    BY <1>1, NoticeFacts
  <1>5. ASSUME NEW u \in NT!Users PROVE FewAt(u)'
    <2>1. (Here(u)' <=> Here(u)) /\ Risky(u)' \subseteq Risky(u) /\ FewAt(u)
      BY <1>1, <1>2 DEF Here, Risky, StrayInv
    <2>2. ASSUME NEW t, u = task[w].user, Whom(w, t), t \notin {u, NT!Nobody}
          PROVE  /\ ~Here(u) /\ ~Here(u)' /\ t = NT!Now(w)
                 /\ w \in Risky(u) /\ Risky(u)' \subseteq Risky(u) \ {w}
      <3>1. ~Here(u) /\ task[w].k # "reject" /\ task[w].k # "change" /\ t = NT!Now(w)
        BY <1>1, <2>2, WhomHome
      <3>2. w \in Risky(u)
        BY <1>1, <2>2, <3>1 DEF Risky
      <3>3. w \notin Risky(u)'
        BY <1>1, <3>1 DEF Risky
      <3> QED
        BY <2>1, <3>1, <3>2, <3>3
    <2>3. ASSUME NEW whom \in SUBSET (0 .. MaxUser), Posts(w, whom) PROVE FewAt(u)'
      <3>1. /\ mails' = mails \cup {Letter(w, t) : t \in whom} /\ strays' = strays
            /\ \A t \in whom : Whom(w, t) /\ t \in 0 .. MaxUser
        BY <2>3 DEF Posts
      <3>2. ASSUME NEW m, m \in Astray(u)', m \notin Astray(u)
            PROVE  \E t \in whom : m = Letter(w, t) /\ t \notin {u, NT!Nobody} /\ u = task[w].user
        <4>1. m \in mails' /\ m.about = u /\ m.to \notin {u, NT!Nobody} /\ m \notin mails
          BY <3>2 DEF Astray
        <4>2. PICK t \in whom : m = Letter(w, t)
          BY <3>1, <4>1
        <4>3. m.about = task[w].user /\ m.to = t
          BY <4>2 DEF Letter
        <4> QED
          BY <4>1, <4>2, <4>3
      <3>3. CASE Astray(u)' \subseteq Astray(u)
        BY <2>1, <3>1, <3>3, FewStay
      <3>4. ASSUME NEW m, m \in Astray(u)', m \notin Astray(u) PROVE FewAt(u)'
        <4>1. PICK t \in whom : m = Letter(w, t) /\ t \notin {u, NT!Nobody} /\ u = task[w].user
          BY <3>2, <3>4
        <4>2. /\ ~Here(u) /\ ~Here(u)' /\ t = NT!Now(w)
              /\ w \in Risky(u) /\ Risky(u)' \subseteq Risky(u) \ {w}
          BY <2>2, <3>1, <4>1
        <4>3. ASSUME NEW x, x \in Astray(u)', x \notin Astray(u) PROVE x = m
          <5>1. PICK y \in whom : x = Letter(w, y) /\ y \notin {u, NT!Nobody}
            BY <3>2, <4>3
          <5>2. y = NT!Now(w)
            BY <2>2, <3>1, <4>1, <5>1
          <5> QED
            BY <4>1, <4>2, <5>1, <5>2
        <4>4. Astray(u)' \subseteq Astray(u) \cup {m}
          BY <4>3
        <4> QED
          BY <2>1, <3>1, <4>2, <4>4, FewShift
      <3> QED
        BY <3>3, <3>4
    <2>4. ASSUME NEW t \in 0 .. MaxUser, Sends(w, t) PROVE FewAt(u)'
      <3>1. Whom(w, t) /\ NT!Arrive(task[w].user, t) /\ mails' = mails
        BY <2>4 DEF Sends
      <3>2. strays'[u] = IF u = task[w].user /\ t \notin {task[w].user, NT!Nobody} THEN strays[u] + 1 ELSE strays[u]
        BY <1>4, <3>1, ArrivesAt
      <3>3. Astray(u)' \subseteq Astray(u)
        BY <3>1 DEF Astray
      <3>4. CASE u = task[w].user /\ t \notin {u, NT!Nobody}
        <4>1. /\ ~Here(u) /\ ~Here(u)' /\ w \in Risky(u) /\ Risky(u)' \subseteq Risky(u) \ {w}
          BY <2>2, <3>1, <3>4
        <4>2. strays'[u] = strays[u] + 1
          BY <3>2, <3>4
        <4> QED
          BY <2>1, <3>3, <4>1, <4>2, FewShift
      <3>5. CASE ~ (u = task[w].user /\ t \notin {u, NT!Nobody})
        <4>1. strays'[u] = strays[u]
          BY <3>2, <3>5
        <4> QED
          BY <2>1, <3>3, <4>1, FewStay
      <3> QED
        BY <3>4, <3>5
    <2>5. ASSUME Fails(w) PROVE FewAt(u)'
      <3>1. strays' = strays /\ Astray(u)' \subseteq Astray(u)
        BY <2>5 DEF Fails, Astray
      <3> QED
        BY <2>1, <3>1, FewStay
    <2> QED
      BY <2>3, <2>4, <2>5
  <1> QED
    BY <1>3, <1>5 DEF StrayInv

LEMMA DeliverStray ==
    ASSUME NT!NotificationsAssumption, NoticeTypes, StrayInv, NEW m \in mails, NT!Deliver(m)
    PROVE  StrayInv'
  <1>1. mails' = mails \ {m} /\ NT!Arrive(m.about, m.to) /\ UNCHANGED <<people, task, users>>
    BY DEF NT!Deliver
  <1>2. HomeInv'
    BY <1>1 DEF StrayInv, HomeInv
  <1>3. m.about \in 0 .. MaxUser
    BY DEF NoticeTypes, MailsInv, NT!MailType
  <1>4. ASSUME NEW u \in NT!Users PROVE FewAt(u)'
    <2>1. FewAt(u) /\ (Here(u)' <=> Here(u)) /\ Risky(u)' = Risky(u) /\ Astray(u)' = Astray(u) \ {m}
      BY <1>1 DEF StrayInv, Here, Risky, Astray
    <2>2. strays'[u] = IF u = m.about /\ m.to \notin {m.about, NT!Nobody} THEN strays[u] + 1 ELSE strays[u]
      BY <1>1, <1>3, ArrivesAt
    <2>3. CASE m \in Astray(u)
      <3>1. ~Here(u) /\ ~Here(u)'
        BY <2>1, <2>3 DEF FewAt
      <3>2. strays'[u] = strays[u] + 1
        BY <2>2, <2>3 DEF Astray
      <3> QED
        BY <2>1, <2>3, <3>1, <3>2, FewArrive
    <2>4. CASE m \notin Astray(u)
      <3>1. strays'[u] = strays[u]
        BY <2>2, <2>4 DEF Astray
      <3> QED
        BY <2>1, <3>1, FewStay
    <2> QED
      BY <2>3, <2>4
  <1> QED
    BY <1>2, <1>4 DEF StrayInv

\* No e-mail arrives, and no job begins.
LEMMA QuietStray ==
    ASSUME NT!NotificationsAssumption,
           NoticeTypes, StrayInv, users' = users, strays' = strays, mails' \subseteq mails,
           NT!Ids(people') = NT!Ids(people), \A i \in NT!Ids(people) : people'[i].user = people[i].user,
           \A v \in Workers : task'[v] # NT!Idle =>
              /\ task[v] # NT!Idle /\ task'[v].user = task[v].user /\ task'[v].id = task[v].id
              /\ task'[v].k # "reject" => task[v].k # "reject"
    PROVE  StrayInv'
  <1>1. HomeInv'
    BY HomeStay DEF StrayInv
  <1>2. ASSUME NEW u \in NT!Users PROVE FewAt(u)'
    <2>1. Here(u)' <=> Here(u)
      BY DEF Here
    <2>2. Astray(u)' \subseteq Astray(u) /\ Risky(u)' \subseteq Risky(u)
      BY DEF Astray, Risky
    <2> QED
      BY <2>1, <2>2, FewStay DEF StrayInv
  <1> QED
    BY <1>1, <1>2 DEF StrayInv

LEMMA StrayStep ==
    ASSUME NT!NotificationsAssumption
    PROVE  NoticeTypes /\ StrayInv /\ [NT!Next]_NT!vars => StrayInv'
  <1> SUFFICES ASSUME NoticeTypes, StrayInv, [NT!Next]_NT!vars PROVE StrayInv'
    OBVIOUS
  <1>1. ASSUME NEW w \in Workers, NT!Handler(w) PROVE StrayInv'
    <2>1. CASE NoticeBegins(w)
      BY <2>1, BeginsStray
    <2>2. CASE Commits(w) /\ (Keeps(w) \/ \E i \in 1 .. MaxAccount : Creates(w, i))
      BY <2>2, CommitsStray
    <2>3. CASE Aborts(w)
      BY <2>3, QuietStray DEF Aborts, Others
    <2>4. ASSUME NEW i \in NT!Ids(people), Deletes(w, i) PROVE StrayInv'
      BY <2>4, RowsGo DEF Deletes
    <2>5. CASE Moves(w)
      BY <2>5, QuietStray DEF Moves, Others, NT!Loaded
    <2> QED
      BY <1>1, <2>1, <2>2, <2>3, <2>4, <2>5, HandlerEffect
  <1>2. ASSUME NEW w \in Workers, NT!Notify(w) PROVE StrayInv'
    BY <1>2, NotifyEffect, ReturnsStray
  <1>3. ASSUME NEW i \in NT!Ids(people), NT!SetAlerts(i) PROVE StrayInv'
    <2>1. people' = [people EXCEPT ![i].alerts = ~@] /\ UNCHANGED <<task, mails, users, strays>>
      BY <1>3 DEF NT!SetAlerts, NT!ghosts
    <2>2. NT!Ids(people') = NT!Ids(people) /\ \A j \in NT!Ids(people) : people'[j].user = people[j].user
      BY <2>1 DEF NoticeTypes, RowsInv, NT!IsTable, NT!Ids
    <2> QED
      BY <2>1, <2>2, QuietStray
  <1>4. ASSUME NEW p \in Processes, NT!SendAlert(p) \/ NT!Drain(p) \/ NT!Exit(p) PROVE StrayInv'
    BY <1>4, QuietStray DEF NT!SendAlert, NT!Drain, NT!Exit, NT!ghosts
  <1>5. ASSUME NEW p \in Processes, NT!Kill(p) PROVE StrayInv'
    BY <1>5, QuietStray DEF NT!Kill
  <1>6. CASE UNCHANGED NT!vars
    BY <1>6, QuietStray DEF NT!vars
  <1> QED
    BY <1>1, <1>2, <1>3, <1>4, <1>5, <1>6, DeliverStray DEF NT!Next

LEMMA StrayInit ==
    ASSUME NT!NotificationsAssumption
    PROVE  NT!Init => StrayInv
  <1> SUFFICES ASSUME NT!Init PROVE StrayInv
    OBVIOUS
  <1>1. /\ NT!Ids(people) = {1} /\ people[1].user = 1 /\ users = 1 /\ mails = {}
        /\ \A w \in Workers : task[w] = NT!Idle
    BY DEF NT!Init, NT!Put, NT!Ids
  <1>2. HomeInv
    BY <1>1 DEF HomeInv
  <1>3. ASSUME NEW u \in NT!Users PROVE FewAt(u)
    <2>1. u = 1 \/ u > users
      BY <1>1, NoticeBounds DEF NT!Users
    <2>2. Here(u)
      BY <1>1, <2>1 DEF Here
    <2>3. strays[u] = 0 /\ Astray(u) = {}
      BY <1>1 DEF NT!Init, Astray
    <2> QED
      BY <2>2, <2>3 DEF FewAt
  <1> QED
    BY <1>2, <1>3 DEF StrayInv

\* E-mails about a deleted account reach whoever has its row id now only from the
\* handlers that were under way when it was deleted, and of these there are fewer
\* than workers (notification_service.py, send_email_async).
THEOREM StraysAreFew ==
    ASSUME NT!NotificationsAssumption
    PROVE  NT!Spec => []NT!StraysFew
  <1>1. NT!Init => NoticeTypes /\ StrayInv
    BY NoticesTypeInit, StrayInit
  <1>2. NoticeTypes /\ StrayInv /\ [NT!Next]_NT!vars => (NoticeTypes /\ StrayInv)'
    BY NoticesTypeStep, StrayStep
  <1>3. NoticeTypes /\ StrayInv => NT!StraysFew
    BY FewIsFew
  <1> QED
    BY <1>1, <1>2, <1>3, PTL DEF NT!Spec

=============================================================================

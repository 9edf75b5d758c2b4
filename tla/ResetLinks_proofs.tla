------------------------- MODULE ResetLinks_proofs -------------------------
(***************************************************************************)
(* Theorems about ResetLinks, for any workers and table sizes: types, that *)
(* a spent, replaced or swept link stays dead, what a redemption leaves    *)
(* behind, and how many unused links requests that overtake each other     *)
(* leave an account.                                                       *)
(***************************************************************************)
EXTENDS ResetLinks, TLAPS, FiniteSetTheorems

USE DEF Do

LEMMA Bounds == /\ MaxAccount \in Nat /\ MaxRow \in Nat /\ MaxHolder \in Nat /\ MaxLink \in Nat
                /\ IsFiniteSet(Workers) /\ Cardinality(Workers) \in Nat
  BY BoundsAssumption, FS_CardinalityType

-----------------------------------------------------------------------------
(***************************************************************************)
(* Tables and tasks                                                        *)
(***************************************************************************)
LEMMA PutTable ==
    ASSUME NEW t, NEW ids, NEW rows, IsTable(t, ids, rows), NEW i \in ids, NEW r \in rows
    PROVE  IsTable(Put(t, i, r), ids, rows)
  BY DEF IsTable, Ids, Put

LEMMA DropTable ==
    ASSUME NEW t, NEW ids, NEW rows, IsTable(t, ids, rows), NEW S
    PROVE  IsTable(Drop(t, S), ids, rows)
  BY DEF IsTable, Ids, Drop

LEMMA SetTable ==
    ASSUME NEW t, NEW ids, NEW rows, IsTable(t, ids, rows), NEW i, NEW r \in rows
    PROVE  IsTable([t EXCEPT ![i] = r], ids, rows)
  BY DEF IsTable, Ids

LEMMA RowIn ==
    ASSUME NEW t, NEW ids, NEW rows, IsTable(t, ids, rows), NEW i \in Ids(t)
    PROVE  i \in ids /\ t[i] \in rows
  BY DEF IsTable, Ids

\* A new row's id was not in use.
LEMMA NewRow ==
    ASSUME NEW t, NEW n \in Nat, Ids(t) \subseteq 1 .. n, NEW i \in 1 .. n, NextRowId(t, i)
    PROVE  i \notin Ids(t)
  BY DEF NextRowId

LEMMA TaskKind ==
    ASSUME NEW t \in Task
    PROVE  /\ t.k = "find" => /\ t.id \in AccountIds
                              /\ t.types \in SUBSET Types
                              /\ t.next \in Types \cup {"none"}
                              /\ t.older \in 0 .. MaxLink
           /\ t.k = "drop" => /\ t.id \in AccountIds
                              /\ t.seen \in SUBSET RowIds
                              /\ t.next \in Types \cup {"none"}
                              /\ t.older \in 0 .. MaxLink
           /\ t.k = "insert" => t.id \in AccountIds /\ t.next \in Types
           /\ t.k = "mail" => t.id \in AccountIds /\ t.next \in Types /\ t.secret \in Secrets
           /\ t.k = "check" => t.id \in AccountIds /\ t.secret \in Secrets
           /\ t.k = "reset" => t.id \in AccountIds /\ t.secret \in Secrets /\ t.row \in RowIds
  BY DEF Task, Idle, InvalidateTask, RedeemTask

LEMMA TaskIn ==
    /\ Idle \in Task /\ Idle.k = "idle"
    /\ \A i \in AccountIds, types \in SUBSET Types, next \in Types \cup {"none"},
          older \in 0 .. MaxLink : Find(i, types, next, older) \in Task
    /\ \A i \in AccountIds, S \in SUBSET RowIds, next \in Types \cup {"none"},
          older \in 0 .. MaxLink :
             [k |-> "drop", id |-> i, next |-> next, older |-> older, seen |-> S] \in Task
    /\ \A i \in AccountIds, next \in Types : [k |-> "insert", id |-> i, next |-> next] \in Task
    /\ \A i \in AccountIds, next \in Types, s \in Secrets :
          [k |-> "mail", id |-> i, next |-> next, secret |-> s] \in Task
    /\ \A i \in AccountIds, s \in Secrets : [k |-> "check", id |-> i, secret |-> s] \in Task
    /\ \A i \in AccountIds, s \in Secrets, n \in RowIds :
          [k |-> "reset", id |-> i, secret |-> s, row |-> n] \in Task
  BY DEF Task, Idle, InvalidateTask, RedeemTask, Find

LEMMA DoTask ==
    ASSUME TypeOK, NEW w \in Workers, NEW t \in Task, Do(w, t)
    PROVE  /\ task' \in [Workers -> Task]
           /\ \A v \in Workers : task'[v] = IF v = w THEN t ELSE task[v]
  BY DEF TypeOK

-----------------------------------------------------------------------------
(***************************************************************************)
(* Types                                                                   *)
(***************************************************************************)
LEMMA TypeInit == Init => TypeOK
  <1> SUFFICES ASSUME Init PROVE TypeOK
    OBVIOUS
  <1>1. IsTable(account, AccountIds, AccountRow) /\ IsTable(link, RowIds, LinkRow)
    BY DEF Init, IsTable, Ids
  <1>2. task \in [Workers -> Task]
    BY TaskIn DEF Init
  <1>3. 0 \in 0 .. MaxHolder /\ 0 \in 0 .. MaxLink /\ 0 \in 0 .. 2
    BY Bounds
  <1> QED
    BY <1>1, <1>2, <1>3 DEF Init, TypeOK

LEMMA TypeCreate ==
    ASSUME TypeOK, NEW w \in Workers, NEW i \in AccountIds, NEW b \in BOOLEAN,
           CreateAccount(w, i, b)
    PROVE  TypeOK'
  <1>1. holders + 1 \in 1 .. MaxHolder /\ holders' \in 0 .. MaxHolder
    BY Bounds DEF TypeOK, CreateAccount
  <1>2. IsTable(account', AccountIds, AccountRow)
    <2>1. [holder |-> holders + 1] \in AccountRow
      BY <1>1 DEF AccountRow
    <2> QED
      BY <2>1, PutTable DEF CreateAccount, TypeOK
  <1>3. task' \in [Workers -> Task]
    <2>1. Find(i, {"invite"}, "invite", 0) \in Task
      BY TaskIn, Bounds DEF Types
    <2> QED
      BY <2>1 DEF CreateAccount, TypeOK
  <1> QED
    BY <1>1, <1>2, <1>3 DEF CreateAccount, TypeOK

LEMMA TypeInvalidate ==
    ASSUME TypeOK, NEW w \in Workers, FindUnused(w) \/ DropUnused(w)
    PROVE  TypeOK'
  <1>1. task[w] \in Task
    BY DEF TypeOK
  <1>2. CASE FindUnused(w)
    <2> DEFINE t == task[w]
               S == {n \in Ids(link) : link[n].target = t.id /\ link[n].type \in t.types
                                       /\ ~link[n].used}
    <2>1. S \in SUBSET RowIds
      BY DEF TypeOK, IsTable
    <2>2. [k |-> "drop", id |-> t.id, next |-> t.next, older |-> t.older, seen |-> S] \in Task
      BY <1>1, <1>2, <2>1, TaskKind, TaskIn DEF FindUnused
    <2>3. task' \in [Workers -> Task]
      BY <1>2, <2>2, TaskIn, ZenonT(60) DEF FindUnused, TypeOK
    <2> QED
      BY <1>2, <2>3 DEF FindUnused, TypeOK
  <1>3. CASE DropUnused(w)
    <2>1. IsTable(link', RowIds, LinkRow)
      BY <1>3, DropTable DEF DropUnused, TypeOK
    <2>2. task[w].next # "none"
             => [k |-> "insert", id |-> task[w].id, next |-> task[w].next] \in Task
      BY <1>1, <1>3, TaskKind, TaskIn DEF DropUnused
    <2>3. task' \in [Workers -> Task]
      BY <1>3, <2>2, TaskIn DEF DropUnused, TypeOK
    <2> QED
      BY <1>3, <2>1, <2>3 DEF DropUnused, TypeOK
  <1> QED
    BY <1>2, <1>3

\* The row that InsertLink writes.
Fresh(w) == [secret |-> minted + 1, target |-> task[w].id, type |-> task[w].next,
             used |-> FALSE, expired |-> FALSE]

LEMMA FreshLink ==
    ASSUME TypeOK, NEW w \in Workers, InsertLink(w)
    PROVE  /\ Fresh(w) \in LinkRow
           /\ minted + 1 \in Secrets
           /\ Mail(task[w], minted + 1) \in Task
           /\ \E n \in RowIds : n \notin Ids(link) /\ link' = Put(link, n, Fresh(w))
           /\ task[w].id \in AccountIds /\ task[w].next \in Types
  <1>1. task[w].id \in AccountIds /\ task[w].next \in Types
    <2>1. task[w] \in Task /\ task[w].k = "insert"
      BY DEF InsertLink, TypeOK
    <2> QED
      BY <2>1, TaskKind
  <1>2. minted + 1 \in Secrets
    BY Bounds DEF InsertLink, TypeOK, Secrets
  <1>3. Fresh(w) \in LinkRow
    BY <1>1, <1>2 DEF Fresh, LinkRow
  <1>4. Mail(task[w], minted + 1) \in Task
    BY <1>1, <1>2, TaskIn DEF Mail
  <1>5. \E n \in RowIds : n \notin Ids(link) /\ link' = Put(link, n, Fresh(w))
    <2>1. PICK n \in RowIds : NextRowId(link, n) /\ link' = Put(link, n, Fresh(w))
      BY DEF InsertLink, Fresh
    <2>2. n \notin Ids(link)
      BY <2>1, NewRow, Bounds DEF RowIds, TypeOK, IsTable
    <2> QED
      BY <2>1, <2>2
  <1> QED
    BY <1>1, <1>2, <1>3, <1>4, <1>5

LEMMA TypeInsert == ASSUME TypeOK, NEW w \in Workers, InsertLink(w) PROVE TypeOK'
  <1>1. IsTable(link', RowIds, LinkRow)
    BY FreshLink, PutTable DEF TypeOK
  <1>2. task' \in [Workers -> Task]
    BY FreshLink DEF InsertLink, TypeOK
  <1>3. minted' \in 0 .. MaxLink
    BY Bounds DEF InsertLink, TypeOK
  <1> QED
    BY <1>1, <1>2, <1>3 DEF InsertLink, TypeOK

LEMMA TypeSend ==
    ASSUME TypeOK, NEW w \in Workers, NEW type, SendLink(w, type)
    PROVE  TypeOK'
  <1>1. account[task[w].id].holder \in 0 .. MaxHolder
    <2>1. account[task[w].id] \in AccountRow
      BY RowIn DEF SendLink, TypeOK
    <2> QED
      BY <2>1, Bounds DEF AccountRow
  <1>2. mailed' \in [Secrets -> 0 .. MaxHolder]
    BY <1>1 DEF SendLink, TypeOK
  <1> QED
    BY <1>2, TaskIn DEF SendLink, TypeOK

LEMMA TypeRedeem ==
    ASSUME TypeOK, NEW w \in Workers,
           (\E n \in RowIds : VerifyLink(w, n)) \/ CheckLink(w) \/ CommitReset(w)
    PROVE  TypeOK'
  <1>1. task[w] \in Task
    BY DEF TypeOK
  <1>2. ASSUME NEW n \in RowIds, VerifyLink(w, n) PROVE TypeOK'
    <2>1. link[n] \in LinkRow
      BY <1>2, RowIn DEF VerifyLink, TypeOK
    <2>2. [k |-> "check", id |-> link[n].target, secret |-> link[n].secret] \in Task
      BY <2>1, TaskIn DEF LinkRow
    <2>3. task' \in [Workers -> Task] /\ IsTable(link', RowIds, LinkRow)
      BY <1>2, <2>2, DropTable DEF VerifyLink, TypeOK
    <2> QED
      BY <1>2, <2>3 DEF VerifyLink, TypeOK
  <1>3. CASE CheckLink(w)
    <2>1. task[w].id \in AccountIds /\ task[w].secret \in Secrets
      BY <1>1, <1>3, TaskKind DEF CheckLink
    <2>2. PICK t \in Task : Do(w, t)
      <3>1. \A n \in Ids(link) : [k |-> "reset", id |-> task[w].id, secret |-> task[w].secret,
                                  row |-> n] \in Task
        BY <2>1, TaskIn DEF TypeOK, IsTable
      <3> QED
        BY <1>3, <3>1, TaskIn DEF CheckLink
    <2> QED
      BY <1>3, <2>2 DEF CheckLink, TypeOK
  <1>4. CASE CommitReset(w)
    <2>1. task[w].id \in AccountIds /\ task[w].secret \in Secrets /\ task[w].row \in RowIds
      BY <1>1, <1>4, TaskKind DEF CommitReset
    <2>2. CASE task[w].id \in Ids(account) /\ task[w].row \in Ids(link)
      <3>1. Find(task[w].id, Types, "none", minted) \in Task
        BY <2>1, TaskIn DEF TypeOK
      <3>2. task' \in [Workers -> Task]
        BY <1>4, <2>2, <3>1 DEF CommitReset, TypeOK
      <3>3. IsTable(link', RowIds, LinkRow)
        <4> DEFINE r == [link[task[w].row] EXCEPT !.used = TRUE]
        <4>1. link[task[w].row] \in LinkRow
          BY <2>2, RowIn DEF TypeOK
        <4>2. r \in LinkRow
          BY <4>1 DEF LinkRow
        <4>3. link' = [link EXCEPT ![task[w].row] = r]
          BY <1>4, <2>2 DEF CommitReset
        <4> HIDE DEF r
        <4> QED
          BY <4>2, <4>3, SetTable DEF TypeOK
      <3>4. uses' \in [Secrets -> 0 .. 2]
        <4>1. uses[task[w].secret] \in 0 .. 2
          BY <2>1 DEF TypeOK
        <4>2. (IF uses[task[w].secret] < 2 THEN uses[task[w].secret] + 1
                                           ELSE uses[task[w].secret]) \in 0 .. 2
          BY <4>1
        <4>3. Used(task[w].secret)
          BY <1>4, <2>2 DEF CommitReset
        <4> QED
          BY <4>2, <4>3 DEF Used, TypeOK
      <3> QED
        BY <1>4, <3>2, <3>3, <3>4 DEF CommitReset, TypeOK
    <2>3. CASE ~(task[w].id \in Ids(account) /\ task[w].row \in Ids(link))
      <3>1. task' \in [Workers -> Task]
        BY <1>4, <2>3, TaskIn DEF CommitReset, TypeOK
      <3> QED
        BY <1>4, <2>3, <3>1 DEF CommitReset, TypeOK
    <2> QED
      BY <2>2, <2>3
  <1> QED
    BY <1>2, <1>3, <1>4

LEMMA TypeExpire == ASSUME TypeOK, NEW n \in RowIds, Expire(n) PROVE TypeOK'
  <1> DEFINE r == [link[n] EXCEPT !.expired = TRUE]
  <1>1. link[n] \in LinkRow
    BY RowIn DEF Expire, TypeOK
  <1>2. r \in LinkRow
    BY <1>1 DEF LinkRow
  <1>3. link' = [link EXCEPT ![n] = r]
    BY DEF Expire
  <1> HIDE DEF r
  <1>4. IsTable(link', RowIds, LinkRow)
    BY <1>2, <1>3, SetTable DEF TypeOK
  <1> QED
    BY <1>4 DEF Expire, TypeOK

LEMMA TypeStep == TypeOK /\ [Next]_vars => TypeOK'
  <1> SUFFICES ASSUME TypeOK, [Next]_vars PROVE TypeOK'
    OBVIOUS
  <1>1. CASE UNCHANGED vars
    BY <1>1 DEF vars, TypeOK
  <1>2. ASSUME NEW w \in Workers, NEW i \in AccountIds, DeleteAccount(w, i) PROVE TypeOK'
    <2>1. IsTable(account', AccountIds, AccountRow)
      BY <1>2, DropTable DEF DeleteAccount, TypeOK
    <2> QED
      BY <1>2, <2>1 DEF DeleteAccount, TypeOK
  <1>3. ASSUME NEW w \in Workers, NEW i \in AccountIds, RequestReset(w, i) PROVE TypeOK'
    <2>1. Find(i, {"reset"}, "reset", 0) \in Task
      BY TaskIn, Bounds DEF Types
    <2> QED
      BY <1>3, <2>1 DEF RequestReset, TypeOK
  <1>4. ASSUME NEW w \in Workers, Abort(w) PROVE TypeOK'
    BY <1>4, TaskIn DEF Abort, TypeOK
  <1>5. CASE Next
    BY <1>2, <1>3, <1>4, <1>5, TypeCreate, TypeInvalidate, TypeInsert, TypeSend, TypeRedeem,
       TypeExpire DEF Next, send_password_reset_email, send_account_invite_email
  <1> QED
    BY <1>1, <1>5

\* Every variable has its type.
THEOREM TypeCorrect == Spec => []TypeOK
  BY TypeInit, TypeStep, PTL DEF Spec

-----------------------------------------------------------------------------
(***************************************************************************)
(* What a step does to the links                                           *)
(***************************************************************************)
\* No link appears, and one that stays keeps what it is, except that it may
\* be used or expire.
Fewer ==
    /\ Ids(link') \subseteq Ids(link)
    /\ \A n \in Ids(link') : /\ link'[n].secret = link[n].secret
                             /\ link'[n].target = link[n].target
                             /\ link'[n].type = link[n].type
                             /\ link[n].used => link'[n].used
                             /\ link[n].expired => link'[n].expired

LEMMA SameLinks == UNCHANGED link => Fewer
  BY DEF Fewer, Ids

LEMMA DropLinks == ASSUME NEW S, link' = Drop(link, S) PROVE Fewer
  BY DEF Fewer, Ids, Drop

LEMMA MarkLinks ==
    ASSUME TypeOK, NEW n \in Ids(link),
           \/ link' = [link EXCEPT ![n].used = TRUE]
           \/ link' = [link EXCEPT ![n].expired = TRUE]
    PROVE  /\ Fewer
           /\ Ids(link') = Ids(link)
           /\ \A m \in Ids(link) : m # n => link'[m] = link[m]
           /\ link' = [link EXCEPT ![n].used = TRUE] => link'[n].used
  <1>1. link \in [Ids(link) -> LinkRow] /\ link[n] \in LinkRow
    BY RowIn DEF TypeOK, IsTable
  <1>2. CASE link' = [link EXCEPT ![n].used = TRUE]
    <2> DEFINE r == [link[n] EXCEPT !.used = TRUE]
    <2>1. link' = [link EXCEPT ![n] = r]
      BY <1>2
    <2>2. /\ r.secret = link[n].secret /\ r.target = link[n].target /\ r.type = link[n].type
          /\ r.used = TRUE /\ r.expired = link[n].expired
      BY <1>1 DEF LinkRow
    <2> HIDE DEF r
    <2> QED
      BY <1>1, <2>1, <2>2 DEF Fewer, Ids
  <1>3. CASE link' = [link EXCEPT ![n].expired = TRUE]
    <2> DEFINE r == [link[n] EXCEPT !.expired = TRUE]
    <2>1. link' = [link EXCEPT ![n] = r]
      BY <1>3
    <2>2. /\ r.secret = link[n].secret /\ r.target = link[n].target /\ r.type = link[n].type
          /\ r.used = link[n].used /\ r.expired = TRUE
      BY <1>1 DEF LinkRow
    <2> HIDE DEF r
    <2>3. link' = [link EXCEPT ![n].used = TRUE] => link'[n].used
      BY <1>1
    <2> QED
      BY <1>1, <2>1, <2>2, <2>3 DEF Fewer, Ids
  <1> QED
    BY <1>2, <1>3

\* Only InsertLink adds a link.
LEMMA LinkStep ==
    ASSUME TypeOK, [Next]_vars
    PROVE  \/ Fewer /\ minted' = minted
           \/ \E w \in Workers : InsertLink(w)
  <1>1. CASE UNCHANGED <<link, minted>>
    BY <1>1, SameLinks
  <1>2. ASSUME NEW w \in Workers, DropUnused(w) PROVE Fewer /\ minted' = minted
    BY <1>2, DropLinks DEF DropUnused
  <1>3. ASSUME NEW w \in Workers, NEW n \in RowIds, VerifyLink(w, n)
        PROVE  Fewer /\ minted' = minted
    BY <1>3, DropLinks, SameLinks DEF VerifyLink
  <1>4. ASSUME NEW w \in Workers, CommitReset(w) PROVE Fewer /\ minted' = minted
    BY <1>4, MarkLinks, SameLinks DEF CommitReset
  <1>5. ASSUME NEW n \in RowIds, Expire(n) PROVE Fewer /\ minted' = minted
    BY <1>5, MarkLinks DEF Expire
  <1>6. ASSUME NEW w \in Workers,
               \/ \E i \in AccountIds : \/ \E b \in BOOLEAN : CreateAccount(w, i, b)
                                        \/ DeleteAccount(w, i)
                                        \/ RequestReset(w, i)
               \/ FindUnused(w)
               \/ send_password_reset_email(w) \/ send_account_invite_email(w)
               \/ CheckLink(w) \/ Abort(w)
        PROVE  UNCHANGED <<link, minted>>
    BY <1>6 DEF CreateAccount, DeleteAccount, RequestReset, FindUnused, CheckLink, Abort,
                send_password_reset_email, send_account_invite_email, SendLink
  <1> QED
    BY <1>1, <1>2, <1>3, <1>4, <1>5, <1>6 DEF Next, vars

\* The other links stay as they are when one is inserted.
LEMMA InsertStep ==
    ASSUME TypeOK, NEW w \in Workers, InsertLink(w)
    PROVE  \E n \in RowIds :
              /\ n \notin Ids(link)
              /\ Ids(link') = Ids(link) \cup {n}
              /\ \A m \in Ids(link) : link'[m] = link[m]
              /\ link'[n].secret = minted + 1
              /\ link'[n].target = task[w].id
              /\ link'[n].type = task[w].next
              /\ minted \in Nat /\ minted' = minted + 1
  <1>1. PICK n \in RowIds : n \notin Ids(link) /\ link' = Put(link, n, Fresh(w))
    BY FreshLink
  <1>2. minted \in Nat /\ minted' = minted + 1
    BY DEF InsertLink, TypeOK
  <1> QED
    BY <1>1, <1>2 DEF Put, Ids, Fresh

-----------------------------------------------------------------------------
(***************************************************************************)
(* Secrets                                                                 *)
(***************************************************************************)
\* Every secret was generated, and no two links share one.
SecretsInv ==
    /\ TypeOK
    /\ \A n \in Ids(link) : link[n].secret <= minted
    /\ \A m, n \in Ids(link) : link[m].secret = link[n].secret => m = n

LEMMA LinkNat == ASSUME TypeOK, NEW n \in Ids(link) PROVE link[n].secret \in Nat
  <1>1. link[n] \in LinkRow
    BY RowIn DEF TypeOK
  <1>2. link[n].secret \in Secrets
    BY <1>1 DEF LinkRow
  <1> QED
    BY <1>2, Bounds DEF Secrets

LEMMA SecretsInit == Init => SecretsInv
  BY TypeInit DEF Init, SecretsInv, Ids

LEMMA SecretsStep == SecretsInv /\ [Next]_vars => SecretsInv'
  <1> SUFFICES ASSUME SecretsInv, [Next]_vars PROVE SecretsInv'
    OBVIOUS
  <1>1. TypeOK /\ TypeOK'
    BY TypeStep DEF SecretsInv
  <1>2. CASE Fewer /\ minted' = minted
    BY <1>1, <1>2 DEF Fewer, SecretsInv
  <1>3. ASSUME NEW w \in Workers, InsertLink(w) PROVE SecretsInv'
    <2>1. PICK n \in RowIds :
              /\ n \notin Ids(link)
              /\ Ids(link') = Ids(link) \cup {n}
              /\ \A m \in Ids(link) : link'[m] = link[m]
              /\ link'[n].secret = minted + 1
              /\ minted \in Nat /\ minted' = minted + 1
      BY <1>1, <1>3, InsertStep
    <2>2. \A m \in Ids(link) : link[m].secret \in Nat
      BY <1>1, LinkNat
    <2>3. \A m \in Ids(link) : link'[m].secret <= minted
      BY <2>1 DEF SecretsInv
    <2>4. \A m \in Ids(link') : link'[m].secret <= minted'
      BY <2>1, <2>2, <2>3
    <2>5. ASSUME NEW l \in Ids(link'), NEW m \in Ids(link'), link'[l].secret = link'[m].secret
          PROVE  l = m
      BY <2>1, <2>2, <2>3, <2>5 DEF SecretsInv
    <2> QED
      BY <1>1, <2>4, <2>5 DEF SecretsInv
  <1> QED
    BY <1>1, <1>2, <1>3, LinkStep

LEMMA DeadStep ==
    ASSUME SecretsInv, [Next]_vars, NEW s \in 1 .. minted, ~Live(s)
    PROVE  ~Live(s)'
  <1>1. TypeOK
    BY DEF SecretsInv
  <1>2. CASE Fewer
    BY <1>2 DEF Fewer, Live
  <1>3. ASSUME NEW w \in Workers, InsertLink(w) PROVE ~Live(s)'
    <2>1. PICK n \in RowIds :
              /\ Ids(link') = Ids(link) \cup {n}
              /\ \A m \in Ids(link) : link'[m] = link[m]
              /\ link'[n].secret = minted + 1
              /\ minted \in Nat
      BY <1>1, <1>3, InsertStep
    <2>2. s # link'[n].secret
      BY <2>1
    <2> QED
      BY <2>1, <2>2 DEF Live
  <1> QED
    BY <1>1, <1>2, <1>3, LinkStep

\* A link that is replaced, used, expired or swept stays dead
\* (generate_reset_token, invalidate_tokens_for_account, mark_used).
THEOREM DeadLinksStayDead == Spec => DeadLinkStaysDead
  <1>1. SecretsInv /\ [Next]_vars => [\A s \in 1 .. minted : ~Live(s) => ~Live(s)']_vars
    BY DeadStep
  <1> QED
    BY <1>1, SecretsInit, SecretsStep, PTL DEF Spec, DeadLinkStaysDead

-----------------------------------------------------------------------------
(***************************************************************************)
(* Spent links                                                             *)
(***************************************************************************)
\* A secret that set a password opens no link, and a worker that redeems a
\* secret holds the row of the only link that may still have it.
SpentInv ==
    /\ SecretsInv
    /\ \A s \in Secrets : uses[s] > 0 => s <= minted /\ ~Live(s)
    /\ \A w \in Workers : task[w].k \in {"check", "reset"} => task[w].secret <= minted
    /\ \A w \in Workers : task[w].k = "reset" =>
          \A n \in Ids(link) : link[n].secret = task[w].secret => n = task[w].row

LEMMA SpentInit == Init => SpentInv
  BY SecretsInit, TaskIn DEF Init, SpentInv

\* What a worker that redeems a link may come to hold.
Redeems(t) ==
    /\ t.k \in {"check", "reset"} => t.secret <= minted
    /\ t.k = "reset" => \A n \in Ids(link) : link[n].secret = t.secret => n = t.row

LEMMA NotRedeeming ==
    /\ Redeems(Idle)
    /\ \A i, types, next, older : Redeems(Find(i, types, next, older))
    /\ \A i, next, older, S :
          Redeems([k |-> "drop", id |-> i, next |-> next, older |-> older, seen |-> S])
    /\ \A i, next : Redeems([k |-> "insert", id |-> i, next |-> next])
    /\ \A t, s : Redeems(Mail(t, s))
  BY DEF Redeems, Idle, Find, Mail

\* What a step does to the task of a worker.
LEMMA RedeemStep ==
    ASSUME SpentInv, [Next]_vars, NEW v \in Workers
    PROVE  \/ task'[v] = task[v]
           \/ Redeems(task'[v])
  <1>1. SecretsInv /\ TypeOK
    BY DEF SpentInv, SecretsInv
  <1>2. ASSUME NEW w \in Workers, NEW t, Do(w, t), Redeems(t)
        PROVE  task'[v] = task[v] \/ Redeems(task'[v])
    BY <1>1, <1>2 DEF TypeOK
  <1>3. CASE UNCHANGED task
    BY <1>3
  <1>4. ASSUME NEW w \in Workers, NEW n \in RowIds, VerifyLink(w, n)
        PROVE  task'[v] = task[v] \/ Redeems(task'[v])
    <2> DEFINE t == [k |-> "check", id |-> link[n].target, secret |-> link[n].secret]
    <2>1. Redeems(t)
      BY <1>1, <1>4 DEF Redeems, SecretsInv, VerifyLink
    <2>2. UNCHANGED task \/ Do(w, t)
      BY <1>4 DEF VerifyLink
    <2> HIDE DEF t
    <2> QED
      BY <1>2, <2>1, <2>2
  <1>5. ASSUME NEW w \in Workers, CheckLink(w)
        PROVE  task'[v] = task[v] \/ Redeems(task'[v])
    <2>1. CASE Do(w, Idle)
      BY <1>2, <2>1, NotRedeeming
    <2>2. ASSUME NEW n \in Ids(link), link[n].secret = task[w].secret,
                 Do(w, [k |-> "reset", id |-> task[w].id, secret |-> task[w].secret, row |-> n])
          PROVE  task'[v] = task[v] \/ Redeems(task'[v])
      <3> DEFINE t == [k |-> "reset", id |-> task[w].id, secret |-> task[w].secret, row |-> n]
      <3>1. Redeems(t)
        BY <1>1, <2>2 DEF Redeems, SecretsInv
      <3>2. Do(w, t)
        BY <2>2
      <3> HIDE DEF t
      <3> QED
        BY <1>2, <3>1, <3>2
    <2> QED
      BY <1>5, <2>1, <2>2 DEF CheckLink
  <1>6. ASSUME NEW w \in Workers,
               \/ \E i \in AccountIds : \/ \E b \in BOOLEAN : CreateAccount(w, i, b)
                                        \/ DeleteAccount(w, i)
                                        \/ RequestReset(w, i)
               \/ FindUnused(w) \/ DropUnused(w) \/ InsertLink(w)
               \/ send_password_reset_email(w) \/ send_account_invite_email(w)
               \/ CommitReset(w) \/ Abort(w)
        PROVE  UNCHANGED task \/ \E t : Do(w, t) /\ Redeems(t)
    BY <1>6, NotRedeeming
       DEF CreateAccount, DeleteAccount, RequestReset, FindUnused, DropUnused, InsertLink,
           send_password_reset_email, send_account_invite_email, SendLink, CommitReset, Abort
  <1> QED
    BY <1>2, <1>3, <1>4, <1>5, <1>6 DEF Next, vars, Expire

\* The links that are there keep their secrets, so what a worker holds stays
\* what it was.
LEMMA RedeemsStays ==
    ASSUME SpentInv, [Next]_vars, NEW t, Redeems(t), t.k \in {"check", "reset"} => t.secret \in Secrets
    PROVE  Redeems(t)'
  <1>1. SecretsInv /\ TypeOK
    BY DEF SpentInv, SecretsInv
  <1>2. CASE Fewer /\ minted' = minted
    BY <1>2 DEF Fewer, Redeems
  <1>3. ASSUME NEW w \in Workers, InsertLink(w) PROVE Redeems(t)'
    <2>1. PICK n \in RowIds :
              /\ Ids(link') = Ids(link) \cup {n}
              /\ \A m \in Ids(link) : link'[m] = link[m]
              /\ link'[n].secret = minted + 1
              /\ minted \in Nat /\ minted' = minted + 1
      BY <1>1, <1>3, InsertStep
    <2>2. t.k \in {"check", "reset"} => t.secret \in Nat /\ t.secret # link'[n].secret
                                        /\ t.secret <= minted'
      BY <2>1 DEF Redeems, Secrets
    <2> QED
      BY <2>1, <2>2 DEF Redeems
  <1> QED
    BY <1>1, <1>2, <1>3, LinkStep

\* Only a redemption counts as a use.
LEMMA UsesStep ==
    ASSUME TypeOK, [Next]_vars
    PROVE  \/ uses' = uses
           \/ \E w \in Workers : /\ CommitReset(w)
                                 /\ task[w].id \in Ids(account)
                                 /\ task[w].row \in Ids(link)
  <1>1. ASSUME NEW w \in Workers,
               \/ \E i \in AccountIds : \/ \E b \in BOOLEAN : CreateAccount(w, i, b)
                                        \/ DeleteAccount(w, i)
                                        \/ RequestReset(w, i)
               \/ FindUnused(w) \/ DropUnused(w) \/ InsertLink(w)
               \/ send_password_reset_email(w) \/ send_account_invite_email(w)
               \/ \E n \in RowIds : VerifyLink(w, n)
               \/ CheckLink(w) \/ Abort(w)
        PROVE  uses' = uses
    BY <1>1 DEF CreateAccount, DeleteAccount, RequestReset, FindUnused, DropUnused, InsertLink,
                VerifyLink, CheckLink, Abort,
                send_password_reset_email, send_account_invite_email, SendLink
  <1> QED
    BY <1>1 DEF Next, vars, Expire, CommitReset

LEMMA SpentStep == SpentInv /\ [Next]_vars => SpentInv'
  <1> SUFFICES ASSUME SpentInv, [Next]_vars PROVE SpentInv'
    OBVIOUS
  <1>1. SecretsInv /\ TypeOK /\ SecretsInv' /\ TypeOK'
    BY SecretsStep DEF SpentInv, SecretsInv
  <1>2. ASSUME NEW v \in Workers, NEW t, task'[v] = t PROVE Redeems(t)'
    <2>1. Redeems(task[v])
      BY DEF SpentInv, Redeems
    <2>2. Redeems(t)
      BY <1>2, <2>1, RedeemStep
    <2>3. t \in Task
      BY <1>1, <1>2 DEF TypeOK
    <2>4. t.k \in {"check", "reset"} => t.secret \in Secrets
      BY <2>3, TaskKind
    <2> QED
      BY <2>2, <2>4, RedeemsStays
  <1>3. minted <= minted' /\ minted \in Nat
    BY <1>1, LinkStep, InsertStep DEF TypeOK
  <1>4. ASSUME NEW s \in Secrets, uses'[s] > 0 PROVE s <= minted' /\ ~Live(s)'
    <2>1. CASE uses[s] > 0
      <3>1. s \in 1 .. minted /\ ~Live(s)
        BY <1>3, <2>1 DEF SpentInv, Secrets
      <3>2. ~Live(s)'
        BY <1>1, <3>1, DeadStep
      <3>3. s <= minted'
        BY <1>1, <1>3, <3>1 DEF TypeOK
      <3> QED
        BY <3>2, <3>3
    <2>2. CASE ~(uses[s] > 0)
      <3>1. PICK w \in Workers : /\ CommitReset(w)
                                 /\ task[w].id \in Ids(account)
                                 /\ task[w].row \in Ids(link)
        BY <1>1, <1>4, <2>2, UsesStep
      <3>2. /\ link' = [link EXCEPT ![task[w].row].used = TRUE]
            /\ uses' = [uses EXCEPT ![task[w].secret] = IF @ < 2 THEN @ + 1 ELSE @]
            /\ task[w].k = "reset" /\ minted' = minted
        BY <3>1 DEF CommitReset, Used
      <3>3. s = task[w].secret
        BY <1>1, <1>4, <2>2, <3>2 DEF TypeOK
      <3>4. s <= minted
        BY <3>2, <3>3 DEF SpentInv
      <3>5. /\ Ids(link') = Ids(link)
            /\ \A m \in Ids(link) : link'[m].secret = link[m].secret
            /\ link'[task[w].row].used
        BY <1>1, <3>1, <3>2, MarkLinks DEF Fewer
      <3>6. \A m \in Ids(link') : link'[m].secret = s => link'[m].used
        BY <3>2, <3>3, <3>5 DEF SpentInv
      <3> QED
        BY <3>2, <3>4, <3>6 DEF Live
    <2> QED
      BY <2>1, <2>2
  <1>5. ASSUME NEW v \in Workers
        PROVE  /\ task'[v].k \in {"check", "reset"} => task'[v].secret <= minted'
               /\ task'[v].k = "reset" => \A n \in Ids(link') :
                     link'[n].secret = task'[v].secret => n = task'[v].row
    <2>1. PICK t : task'[v] = t
      OBVIOUS
    <2>2. Redeems(t)'
      BY <1>2, <2>1
    <2> QED
      BY <2>1, <2>2 DEF Redeems
  <1> QED
    BY <1>1, <1>4, <1>5 DEF SpentInv

\* Whoever redeems, deletes or reissues links at the same time, and although
\* the mark is written to a row id that may belong to another link by then, a
\* link that has set a password is never accepted again
\* (complete_password_reset).
THEOREM SpentLinksAreDead == Spec => []SpentLinkIsDead
  <1>1. SpentInv => SpentLinkIsDead
    BY DEF SpentInv, SpentLinkIsDead
  <1> QED
    BY <1>1, SpentInit, SpentStep, PTL DEF Spec

-----------------------------------------------------------------------------
(***************************************************************************)
(* The sweep after a redemption                                            *)
(***************************************************************************)
\* A worker that sweeps after a redemption looks for links of every kind,
\* and, once it has looked, has seen every unused one that is older than the
\* new password.
Sweeps(t) ==
    /\ t.k = "find" /\ t.next = "none" => t.types = Types /\ t.older <= minted
    /\ t.k = "drop" /\ t.next = "none" =>
          /\ t.older <= minted
          /\ \A n \in Ids(link) :
                link[n].target = t.id /\ link[n].secret <= t.older /\ ~link[n].used
                   => n \in t.seen
SweepInv == SecretsInv /\ \A w \in Workers : Sweeps(task[w])

LEMMA SweepInit == Init => SweepInv
  BY SecretsInit, TaskIn DEF Init, SweepInv, Sweeps

LEMMA NotSweeping ==
    /\ Sweeps(Idle)
    /\ \A i, types, next, older : next # "none" => Sweeps(Find(i, types, next, older))
    /\ \A i, next, older, S : next # "none" =>
          Sweeps([k |-> "drop", id |-> i, next |-> next, older |-> older, seen |-> S])
    /\ \A i, next : Sweeps([k |-> "insert", id |-> i, next |-> next])
    /\ \A t, s : Sweeps(Mail(t, s))
    /\ \A i, s : Sweeps([k |-> "check", id |-> i, secret |-> s])
    /\ \A i, s, n : Sweeps([k |-> "reset", id |-> i, secret |-> s, row |-> n])
  BY DEF Sweeps, Idle, Find, Mail

LEMMA SweepTasks ==
    ASSUME SweepInv, [Next]_vars, NEW v \in Workers
    PROVE  Sweeps(task'[v])
  <1>1. SecretsInv /\ TypeOK /\ Sweeps(task[v])
    BY DEF SweepInv, SecretsInv
  <1>2. ASSUME NEW w \in Workers, NEW t, Do(w, t), Sweeps(t)
        PROVE  Sweeps(task'[v])
    BY <1>1, <1>2 DEF TypeOK
  <1>3. CASE UNCHANGED task
    BY <1>1, <1>3
  <1>4. ASSUME NEW w \in Workers, FindUnused(w) PROVE Sweeps(task'[v])
    <2> DEFINE S == {n \in Ids(link) : /\ link[n].target = task[w].id
                                       /\ link[n].type \in task[w].types
                                       /\ ~link[n].used}
               t == [k |-> "drop", id |-> task[w].id, next |-> task[w].next,
                     older |-> task[w].older, seen |-> S]
    <2>1. Sweeps(t)
      <3>1. CASE task[w].next # "none"
        BY <3>1, NotSweeping
      <3>2. CASE task[w].next = "none"
        <4>1. task[w].types = Types /\ task[w].older <= minted
          BY <1>4, <3>2 DEF SweepInv, Sweeps, FindUnused
        <4>2. \A n \in Ids(link) : link[n].type \in Types
          <5>1. \A n \in Ids(link) : link[n] \in LinkRow
            BY <1>1, RowIn DEF TypeOK
          <5> QED
            BY <5>1 DEF LinkRow
        <4>3. \A n \in Ids(link) : link[n].target = task[w].id /\ ~link[n].used => n \in S
          BY <4>1, <4>2
        <4>4. t.k = "drop" /\ t.id = task[w].id /\ t.older = task[w].older /\ t.seen = S
          OBVIOUS
        <4> HIDE DEF S, t
        <4>5. t.older <= minted
          BY <4>1, <4>4
        <4>6. ASSUME NEW n \in Ids(link), link[n].target = t.id, ~link[n].used
              PROVE  n \in t.seen
          BY <4>3, <4>4, <4>6
        <4> QED
          BY <4>4, <4>5, <4>6 DEF Sweeps
      <3> QED
        BY <3>1, <3>2
    <2>2. Do(w, Idle) \/ Do(w, t)
      BY <1>4 DEF FindUnused
    <2> HIDE DEF t
    <2> QED
      BY <1>2, <2>1, <2>2, NotSweeping
  <1>5. ASSUME NEW w \in Workers, CommitReset(w) PROVE Sweeps(task'[v])
    <2>1. Sweeps(Find(task[w].id, Types, "none", minted))
      BY <1>1 DEF Sweeps, Find, TypeOK
    <2>2. Do(w, Idle) \/ Do(w, Find(task[w].id, Types, "none", minted))
      BY <1>5 DEF CommitReset
    <2> QED
      BY <1>2, <2>1, <2>2, NotSweeping
  <1>6. ASSUME NEW w \in Workers,
               \/ \E i \in AccountIds : \/ \E b \in BOOLEAN : CreateAccount(w, i, b)
                                        \/ DeleteAccount(w, i)
                                        \/ RequestReset(w, i)
               \/ DropUnused(w) \/ InsertLink(w)
               \/ send_password_reset_email(w) \/ send_account_invite_email(w)
               \/ \E n \in RowIds : VerifyLink(w, n)
               \/ CheckLink(w) \/ Abort(w)
        PROVE  UNCHANGED task \/ \E t : Do(w, t) /\ Sweeps(t)
    <2>1. Sweeps(Find(1, {"invite"}, "invite", 0)) /\ "invite" # "none" /\ "reset" # "none"
      BY NotSweeping
    <2> QED
      BY <1>6, <2>1, NotSweeping
         DEF CreateAccount, DeleteAccount, RequestReset, DropUnused, InsertLink, VerifyLink,
             send_password_reset_email, send_account_invite_email, SendLink, CheckLink, Abort
  <1> QED
    BY <1>2, <1>3, <1>4, <1>5, <1>6 DEF Next, vars, Expire

\* Links that are inserted later are newer.
LEMMA SweepsStays ==
    ASSUME SecretsInv, [Next]_vars, NEW t \in Task, Sweeps(t)
    PROVE  Sweeps(t)'
  <1>1. TypeOK /\ (t.k \in {"find", "drop"} => t.older \in Nat)
    BY TaskKind, Bounds DEF SecretsInv
  <1>2. CASE Fewer /\ minted' = minted
    BY <1>2 DEF Fewer, Sweeps
  <1>3. ASSUME NEW w \in Workers, InsertLink(w) PROVE Sweeps(t)'
    <2>1. PICK n \in RowIds :
              /\ Ids(link') = Ids(link) \cup {n}
              /\ \A m \in Ids(link) : link'[m] = link[m]
              /\ link'[n].secret = minted + 1
              /\ minted \in Nat /\ minted' = minted + 1
      BY <1>1, <1>3, InsertStep
    <2>2. t.k \in {"find", "drop"} /\ t.next = "none"
             => t.older <= minted' /\ ~(link'[n].secret <= t.older)
      BY <1>1, <2>1 DEF Sweeps
    <2>3. CASE t.k = "drop" /\ t.next = "none"
      <3>1. ASSUME NEW m \in Ids(link'), link'[m].target = t.id,
                   link'[m].secret <= t.older, ~link'[m].used
            PROVE  m \in t.seen
        <4>1. m \in Ids(link) /\ link'[m] = link[m]
          BY <2>1, <2>2, <2>3, <3>1
        <4> QED
          BY <2>3, <3>1, <4>1 DEF Sweeps
      <3> QED
        BY <2>2, <2>3, <3>1 DEF Sweeps
    <2>4. CASE ~(t.k = "drop" /\ t.next = "none")
      BY <2>2, <2>4 DEF Sweeps
    <2> QED
      BY <2>3, <2>4
  <1> QED
    BY <1>1, <1>2, <1>3, LinkStep

LEMMA SweepStep == SweepInv /\ [Next]_vars => SweepInv'
  <1> SUFFICES ASSUME SweepInv, [Next]_vars PROVE SweepInv'
    OBVIOUS
  <1>1. SecretsInv /\ SecretsInv'
    BY SecretsStep DEF SweepInv
  <1>2. ASSUME NEW v \in Workers PROVE Sweeps(task[v])'
    <2>1. PICK t : task'[v] = t
      OBVIOUS
    <2>2. t \in Task /\ Sweeps(t)
      BY <1>1, <2>1, SweepTasks DEF SecretsInv, TypeOK
    <2>3. Sweeps(t)'
      BY <1>1, <2>2, SweepsStays
    <2> QED
      BY <2>1, <2>3 DEF Sweeps
  <1> QED
    BY <1>1, <1>2 DEF SweepInv

\* When a redemption is over, no link of the account that is older than the
\* new password can change it again (complete_password_reset: "Invalidate
\* all other tokens for this account").
THEOREM ResetsEndOlderLinks == Spec => ResetEndsOlderLinks
  <1>1. SweepInv /\ [Next]_vars =>
          [\A w \in Workers :
              task[w].k = "drop" /\ task[w].next = "none" /\ DropUnused(w) =>
                 \A n \in Ids(link') :
                    link'[n].target = task[w].id /\ link'[n].secret <= task[w].older
                       => link'[n].used]_vars
    <2> SUFFICES ASSUME SweepInv, NEW w \in Workers, task[w].k = "drop", task[w].next = "none",
                        DropUnused(w), NEW n \in Ids(link'), link'[n].target = task[w].id,
                        link'[n].secret <= task[w].older
                 PROVE  link'[n].used
      OBVIOUS
    <2>1. Sweeps(task[w])
      BY DEF SweepInv
    <2>2. n \in Ids(link) /\ n \notin task[w].seen /\ link'[n] = link[n]
      BY DEF DropUnused, Drop, Ids
    <2> QED
      BY <2>1, <2>2 DEF Sweeps
  <1> QED
    BY <1>1, SweepInit, SweepStep, PTL DEF Spec, ResetEndsOlderLinks

-----------------------------------------------------------------------------
(***************************************************************************)
(* Unused links of an account                                              *)
(***************************************************************************)
HIDE DEF Do

Unused(i, type) == {n \in Ids(link) : /\ link[n].target = i
                                      /\ link[n].type = type
                                      /\ ~link[n].used}

\* The workers about to drop the links a new one replaces, those about to
\* insert the new one, and the links that the workers in A will drop.
Dropping(i, type) ==
    {w \in Workers : task[w].k = "drop" /\ task[w].id = i /\ task[w].next = type}
Inserting(i, type) ==
    {w \in Workers : task[w].k = "insert" /\ task[w].id = i /\ task[w].next = type}
Seen(A) == UNION {task[w].seen : w \in A}

\* Whichever of the droppers go on while the others die, each of them and
\* each inserter adds one link to those that are left.
RoomFor(i, type, A) ==
    Cardinality(Unused(i, type) \ Seen(A)) + Cardinality(A) + Cardinality(Inserting(i, type))
       <= Cardinality(Workers)
RoomAt(i, type) == \A A \in SUBSET Dropping(i, type) : RoomFor(i, type, A)

\* A new link replaces those of its own kind.
OwnKind(t) == t.k = "find" /\ t.next # "none" => t.types = {t.next}

RoomInv == /\ TypeOK
           /\ \A w \in Workers : OwnKind(task[w])
           /\ \A i \in AccountIds, type \in Types : RoomAt(i, type)

LEMMA RoomFinite ==
    ASSUME TypeOK, NEW i, NEW type
    PROVE  /\ IsFiniteSet(Unused(i, type)) /\ Unused(i, type) \in SUBSET RowIds
           /\ Dropping(i, type) \in SUBSET Workers
           /\ Inserting(i, type) \in SUBSET Workers
           /\ Dropping(i, type) \cap Inserting(i, type) = {}
  <1>1. Unused(i, type) \in SUBSET RowIds
    BY DEF Unused, TypeOK, IsTable
  <1>2. IsFiniteSet(RowIds)
    BY Bounds, FS_Interval DEF RowIds
  <1>3. IsFiniteSet(Unused(i, type))
    BY <1>1, <1>2, FS_Subset
  <1> QED
    BY <1>1, <1>3 DEF Dropping, Inserting

\* Cardinalities of a set that loses elements, or wins one.
LEMMA Smaller ==
    ASSUME NEW S, IsFiniteSet(S), NEW T \in SUBSET S
    PROVE  /\ IsFiniteSet(T) /\ Cardinality(T) \in Nat /\ Cardinality(S) \in Nat
           /\ Cardinality(T) <= Cardinality(S)
  BY FS_Subset, FS_CardinalityType

LEMMA OneMore ==
    ASSUME NEW S, IsFiniteSet(S), NEW x, NEW T \in SUBSET (S \cup {x})
    PROVE  /\ Cardinality(T) \in Nat /\ Cardinality(S) \in Nat
           /\ Cardinality(T) <= Cardinality(S) + 1
  <1>1. IsFiniteSet(S \cup {x}) /\ Cardinality(S \cup {x}) <= Cardinality(S) + 1
    <2>1. /\ IsFiniteSet(S \cup {x})
          /\ Cardinality(S \cup {x}) = IF x \in S THEN Cardinality(S) ELSE Cardinality(S) + 1
      BY FS_AddElement
    <2>2. Cardinality(S) \in Nat
      BY FS_CardinalityType
    <2> QED
      BY <2>1, <2>2
  <1> QED
    BY <1>1, Smaller, FS_CardinalityType, FS_Subset

LEMMA Apart ==
    ASSUME NEW S \in SUBSET Workers, NEW T \in SUBSET Workers, S \cap T = {}
    PROVE  Cardinality(S) + Cardinality(T) <= Cardinality(Workers)
  <1>1. IsFiniteSet(S) /\ IsFiniteSet(T) /\ Cardinality(S) \in Nat /\ Cardinality(T) \in Nat
    BY Bounds, Smaller
  <1>2. IsFiniteSet(S \cup T) /\ Cardinality(S \cup T) = Cardinality(S) + Cardinality(T)
    <2>1. /\ IsFiniteSet(S \cup T)
          /\ Cardinality(S \cup T) = Cardinality(S) + Cardinality(T) - Cardinality(S \cap T)
      BY <1>1, FS_Union
    <2>2. Cardinality(S \cap T) = 0
      BY FS_EmptySet
    <2> QED
      BY <1>1, <2>1, <2>2
  <1> QED
    BY <1>2, Bounds, Smaller

\* What a worker that goes from one task to another does to these sets.
LEMMA RoomSets ==
    ASSUME TypeOK, NEW w \in Workers, NEW t \in Task, Do(w, t), NEW i, NEW type
    PROVE  /\ t.k = "drop" /\ t.id = i /\ t.next = type
                 => Dropping(i, type)' = Dropping(i, type) \cup {w}
           /\ ~(t.k = "drop" /\ t.id = i /\ t.next = type)
                 => Dropping(i, type)' = Dropping(i, type) \ {w}
           /\ t.k = "insert" /\ t.id = i /\ t.next = type
                 => Inserting(i, type)' = Inserting(i, type) \cup {w}
           /\ ~(t.k = "insert" /\ t.id = i /\ t.next = type)
                 => Inserting(i, type)' = Inserting(i, type) \ {w}
           /\ \A A \in SUBSET Workers : w \notin A => Seen(A)' = Seen(A)
           /\ task'[w] = t
  <1>1. \A v \in Workers : task'[v] = IF v = w THEN t ELSE task[v]
    BY DoTask
  <1>2. ASSUME NEW A \in SUBSET Workers, w \notin A PROVE Seen(A)' = Seen(A)
    BY <1>1, <1>2 DEF Seen
  <1> QED
    BY <1>1, <1>2 DEF Dropping, Inserting

\* A step after which there are no more links, droppers and inserters than
\* before leaves the room there was.
LEMMA RoomKept ==
    ASSUME RoomInv, TypeOK', NEW i \in AccountIds, NEW type \in Types,
           Unused(i, type)' \subseteq Unused(i, type),
           Dropping(i, type)' \subseteq Dropping(i, type),
           Inserting(i, type)' \subseteq Inserting(i, type),
           \A A \in SUBSET Dropping(i, type)' : Seen(A)' = Seen(A)
    PROVE  RoomAt(i, type)'
  <1> SUFFICES ASSUME NEW A \in SUBSET Dropping(i, type)' PROVE RoomFor(i, type, A)'
    BY DEF RoomAt
  <1>1. RoomFor(i, type, A)
    BY DEF RoomInv, RoomAt
  <1> DEFINE S == Unused(i, type) \ Seen(A)
             T == Unused(i, type)' \ Seen(A)'
             I == Inserting(i, type)
             J == Inserting(i, type)'
  <1>2. IsFiniteSet(S) /\ T \in SUBSET S /\ IsFiniteSet(I) /\ J \in SUBSET I /\ IsFiniteSet(A)
    BY RoomFinite, Bounds, FS_Subset DEF RoomInv
  <1>3. /\ Cardinality(T) \in Nat /\ Cardinality(S) \in Nat /\ Cardinality(T) <= Cardinality(S)
        /\ Cardinality(J) \in Nat /\ Cardinality(I) \in Nat /\ Cardinality(J) <= Cardinality(I)
        /\ Cardinality(A) \in Nat
    BY <1>2, Smaller
  <1>4. Cardinality(S) + Cardinality(A) + Cardinality(I) <= Cardinality(Workers)
    BY <1>1 DEF RoomFor
  <1>5. Cardinality(T) + Cardinality(A) + Cardinality(J) <= Cardinality(Workers)
    BY <1>3, <1>4, Bounds
  <1> QED
    BY <1>5 DEF RoomFor

\* invalidate_tokens_for_account has found the unused links: all that are there.
LEMMA RoomFound ==
    ASSUME RoomInv, TypeOK', NEW w \in Workers, FindUnused(w),
           NEW i \in AccountIds, NEW type \in Types
    PROVE  RoomAt(i, type)'
  <1>1. TypeOK /\ task[w] \in Task /\ task[w].k = "find" /\ UNCHANGED link
    BY DEF RoomInv, TypeOK, FindUnused
  <1> DEFINE S == {n \in Ids(link) : /\ link[n].target = task[w].id
                                     /\ link[n].type \in task[w].types
                                     /\ ~link[n].used}
             d == [k |-> "drop", id |-> task[w].id, next |-> task[w].next,
                   older |-> task[w].older, seen |-> S]
  <1>2. PICK t \in Task : Do(w, t) /\ (t = Idle \/ t = d)
    <2>1. Do(w, Idle) \/ Do(w, d)
      BY DEF FindUnused
    <2>2. d = task'[w] => d \in Task
      BY DEF TypeOK
    <2>3. Do(w, d) => d = task'[w]
      BY <1>1 DEF TypeOK, Do
    <2> HIDE DEF d
    <2> QED
      BY <2>1, <2>2, <2>3, TaskIn
  <1>3. w \notin Dropping(i, type) /\ w \notin Inserting(i, type)
    BY <1>1 DEF Dropping, Inserting
  <1>4. t.k # "insert" /\ (t.k = "drop" => t = d)
    BY <1>2, TaskIn
  <1>5. Unused(i, type)' = Unused(i, type) /\ Inserting(i, type)' = Inserting(i, type)
    <2>1. Inserting(i, type)' = Inserting(i, type) \ {w}
      BY <1>1, <1>2, <1>4, RoomSets
    <2>2. Unused(i, type)' = Unused(i, type)
      BY <1>1 DEF Unused, Ids
    <2> QED
      BY <1>3, <2>1, <2>2
  <1>6. CASE ~(t.k = "drop" /\ t.id = i /\ t.next = type)
    <2>1. Dropping(i, type)' = Dropping(i, type)
      BY <1>1, <1>2, <1>3, <1>6, RoomSets
    <2>2. \A A \in SUBSET Dropping(i, type)' : Seen(A)' = Seen(A)
      BY <1>1, <1>2, <1>3, <2>1, RoomSets, RoomFinite
    <2> QED
      BY <1>5, <2>1, <2>2, RoomKept
  <1>7. CASE t.k = "drop" /\ t.id = i /\ t.next = type
    <2>1. Dropping(i, type)' = Dropping(i, type) \cup {w}
      BY <1>1, <1>2, <1>7, RoomSets
    <2>2. task'[w].seen = Unused(i, type)
      <3>1. t = d
        BY <1>4, <1>7
      <3>2. task[w].id = i /\ task[w].next = type /\ task[w].types = {type}
        BY <1>1, <1>7, <3>1 DEF RoomInv, OwnKind, Types
      <3>3. S = Unused(i, type)
        BY <3>2 DEF Unused
      <3>4. task'[w] = t /\ t.seen = S
        BY <1>1, <1>2, <3>1, DoTask
      <3> QED
        BY <3>3, <3>4
    <2> SUFFICES ASSUME NEW A \in SUBSET Dropping(i, type)' PROVE RoomFor(i, type, A)'
      BY DEF RoomAt
    <2>3. CASE w \notin A
      <3>1. A \in SUBSET Dropping(i, type) /\ Seen(A)' = Seen(A)
        BY <1>1, <1>2, <2>1, <2>3, RoomSets, RoomFinite
      <3>2. RoomFor(i, type, A)
        BY <3>1 DEF RoomInv, RoomAt
      <3> QED
        BY <1>5, <3>1, <3>2 DEF RoomFor
    <2>4. CASE w \in A
      <3>1. Unused(i, type)' \ Seen(A)' = {}
        BY <1>5, <2>2, <2>4 DEF Seen
      <3>2. /\ A \in SUBSET Workers /\ Inserting(i, type)' \in SUBSET Workers
            /\ A \cap Inserting(i, type)' = {}
        BY RoomFinite, TypeOK' DEF Dropping, Inserting
      <3>3. Cardinality(A) + Cardinality(Inserting(i, type)') <= Cardinality(Workers)
        BY <3>2, Apart
      <3>4. Cardinality(A) \in Nat /\ Cardinality(Inserting(i, type)') \in Nat
        BY <3>2, Bounds, Smaller
      <3>5. Cardinality(Unused(i, type)' \ Seen(A)') = 0
        BY <3>1, FS_EmptySet
      <3> QED
        BY <3>3, <3>4, <3>5 DEF RoomFor
    <2> QED
      BY <2>3, <2>4
  <1> QED
    BY <1>6, <1>7

\* A dropper that goes on leaves none of the links it has seen, and inserts.
LEMMA RoomDropped ==
    ASSUME RoomInv, TypeOK', NEW w \in Workers, DropUnused(w),
           NEW i \in AccountIds, NEW type \in Types
    PROVE  RoomAt(i, type)'
  <1>1. TypeOK /\ task[w] \in Task /\ task[w].k = "drop" /\ link' = Drop(link, task[w].seen)
    BY DEF RoomInv, TypeOK, DropUnused
  <1> DEFINE d == [k |-> "insert", id |-> task[w].id, next |-> task[w].next]
  <1>2. PICK t \in Task : /\ Do(w, t)
                          /\ \/ t = Idle /\ task[w].next = "none"
                             \/ t = d /\ task[w].next # "none"
    <2>1. \/ Do(w, Idle) /\ task[w].next = "none"
          \/ Do(w, d) /\ task[w].next # "none"
      BY DEF DropUnused
    <2>2. d = task'[w] => d \in Task
      BY DEF TypeOK
    <2>3. Do(w, d) => d = task'[w]
      BY <1>1 DEF TypeOK, Do
    <2> HIDE DEF d
    <2> QED
      BY <2>1, <2>2, <2>3, TaskIn
  <1>3. w \notin Inserting(i, type) /\ t.k # "drop"
    BY <1>1, <1>2, TaskIn DEF Inserting
  <1>4. /\ Unused(i, type)' \subseteq Unused(i, type) \ task[w].seen
        /\ Dropping(i, type)' = Dropping(i, type) \ {w}
    <2>1. Dropping(i, type)' = Dropping(i, type) \ {w}
      BY <1>1, <1>2, <1>3, RoomSets
    <2>2. Unused(i, type)' \subseteq Unused(i, type) \ task[w].seen
      BY <1>1 DEF Unused, Drop, Ids
    <2> QED
      BY <2>1, <2>2
  <1>5. \A A \in SUBSET Dropping(i, type)' : Seen(A)' = Seen(A)
    BY <1>1, <1>2, <1>4, RoomSets, RoomFinite
  <1>6. CASE ~(t.k = "insert" /\ t.id = i /\ t.next = type)
    <2>1. Inserting(i, type)' = Inserting(i, type)
      BY <1>1, <1>2, <1>3, <1>6, RoomSets
    <2> QED
      BY <1>4, <1>5, <2>1, RoomKept
  <1>7. CASE t.k = "insert" /\ t.id = i /\ t.next = type
    <2>1. w \in Dropping(i, type) /\ Inserting(i, type)' = Inserting(i, type) \cup {w}
      <3>1. t = d
        BY <1>2, <1>7, TaskIn
      <3> QED
        BY <1>1, <1>2, <1>7, <3>1, RoomSets DEF Dropping
    <2> SUFFICES ASSUME NEW A \in SUBSET Dropping(i, type)' PROVE RoomFor(i, type, A)'
      BY DEF RoomAt
    <2> DEFINE B == A \cup {w}
               U == Unused(i, type) \ Seen(B)
               V == Unused(i, type)' \ Seen(A)'
               I == Inserting(i, type)
               J == Inserting(i, type)'
    <2>2. B \in SUBSET Dropping(i, type) /\ w \notin A
      BY <1>4, <2>1
    <2>3. V \in SUBSET U
      <3>1. Seen(B) = Seen(A) \cup task[w].seen
        BY DEF Seen
      <3> QED
        BY <1>4, <1>5, <3>1
    <2>4. IsFiniteSet(U) /\ IsFiniteSet(A) /\ IsFiniteSet(I)
      BY <1>1, <2>2, RoomFinite, Bounds, FS_Subset
    <2>5. Cardinality(U) + Cardinality(B) + Cardinality(I) <= Cardinality(Workers)
      BY <2>2 DEF RoomInv, RoomAt, RoomFor
    <2>6. Cardinality(V) \in Nat /\ Cardinality(U) \in Nat /\ Cardinality(V) <= Cardinality(U)
      BY <2>3, <2>4, Smaller
    <2>7. Cardinality(A) \in Nat /\ Cardinality(B) = Cardinality(A) + 1
      BY <2>2, <2>4, FS_AddElement, FS_CardinalityType
    <2>8. Cardinality(J) \in Nat /\ Cardinality(I) \in Nat /\ Cardinality(J) <= Cardinality(I) + 1
      BY <2>1, <2>4, OneMore
    <2>9. Cardinality(V) + Cardinality(A) + Cardinality(J) <= Cardinality(Workers)
      BY <2>5, <2>6, <2>7, <2>8, Bounds
    <2> QED
      BY <2>9 DEF RoomFor
  <1> QED
    BY <1>6, <1>7

\* The new link takes the room of its inserter.
LEMMA RoomInserted ==
    ASSUME RoomInv, TypeOK', NEW w \in Workers, InsertLink(w),
           NEW i \in AccountIds, NEW type \in Types
    PROVE  RoomAt(i, type)'
  <1>1. TypeOK /\ task[w] \in Task /\ task[w].k = "insert"
    BY DEF RoomInv, TypeOK, InsertLink
  <1> DEFINE t == Mail(task[w], minted + 1)
  <1>2. t \in Task /\ t.k = "mail" /\ Do(w, t)
    BY <1>1, FreshLink DEF InsertLink, Mail
  <1> HIDE DEF t
  <1>3. /\ w \notin Dropping(i, type)
        /\ Dropping(i, type)' = Dropping(i, type) \ {w}
        /\ Inserting(i, type)' = Inserting(i, type) \ {w}
    <2>1. w \notin Dropping(i, type)
      BY <1>1 DEF Dropping
    <2>2. t.k # "drop" /\ t.k # "insert"
      BY <1>2
    <2> QED
      BY <1>1, <1>2, <2>1, <2>2, RoomSets
  <1>4. \A A \in SUBSET Dropping(i, type)' : Seen(A)' = Seen(A)
    BY <1>1, <1>2, <1>3, RoomSets, RoomFinite
  <1>5. PICK n \in RowIds :
              /\ Ids(link') = Ids(link) \cup {n}
              /\ \A m \in Ids(link) : link'[m] = link[m]
              /\ link'[n].target = task[w].id
              /\ link'[n].type = task[w].next
    BY <1>1, InsertStep
  <1>6. CASE ~(task[w].id = i /\ task[w].next = type)
    <2>1. Unused(i, type)' \subseteq Unused(i, type)
      BY <1>5, <1>6 DEF Unused
    <2> QED
      BY <1>3, <1>4, <2>1, RoomKept
  <1>7. CASE task[w].id = i /\ task[w].next = type
    <2>1. w \in Inserting(i, type) /\ Unused(i, type)' \subseteq Unused(i, type) \cup {n}
      BY <1>1, <1>5, <1>7 DEF Inserting, Unused
    <2> SUFFICES ASSUME NEW A \in SUBSET Dropping(i, type)' PROVE RoomFor(i, type, A)'
      BY DEF RoomAt
    <2> DEFINE U == Unused(i, type) \ Seen(A)
               V == Unused(i, type)' \ Seen(A)'
               I == Inserting(i, type)
               J == Inserting(i, type)'
    <2>2. V \in SUBSET (U \cup {n})
      BY <1>4, <2>1
    <2>3. IsFiniteSet(U) /\ IsFiniteSet(A) /\ IsFiniteSet(I)
      BY <1>1, <1>3, RoomFinite, Bounds, FS_Subset
    <2>4. Cardinality(U) + Cardinality(A) + Cardinality(I) <= Cardinality(Workers)
      BY <1>3 DEF RoomInv, RoomAt, RoomFor
    <2>5. Cardinality(V) \in Nat /\ Cardinality(U) \in Nat /\ Cardinality(V) <= Cardinality(U) + 1
      BY <2>2, <2>3, OneMore
    <2>6. Cardinality(J) = Cardinality(I) - 1 /\ Cardinality(I) \in Nat /\ Cardinality(A) \in Nat
      BY <1>3, <2>1, <2>3, FS_RemoveElement, FS_CardinalityType
    <2>7. Cardinality(V) + Cardinality(A) + Cardinality(J) <= Cardinality(Workers)
      BY <2>4, <2>5, <2>6, Bounds
    <2> QED
      BY <2>7 DEF RoomFor
  <1> QED
    BY <1>6, <1>7

\* Links that are dropped, used or expire leave room; so do tasks that end.
LEMMA RoomFewer ==
    ASSUME RoomInv, TypeOK', NEW i \in AccountIds, NEW type \in Types, Fewer,
           \A w \in Workers : \/ task'[w] = task[w]
                              \/ task'[w].k \notin {"drop", "insert"}
    PROVE  RoomAt(i, type)'
  <1>1. Unused(i, type)' \subseteq Unused(i, type)
    BY DEF Fewer, Unused
  <1>2. /\ Dropping(i, type)' \subseteq Dropping(i, type)
        /\ Inserting(i, type)' \subseteq Inserting(i, type)
    BY DEF Dropping, Inserting
  <1>3. ASSUME NEW A \in SUBSET Dropping(i, type)' PROVE Seen(A)' = Seen(A)
    <2>1. \A w \in A : task'[w] = task[w]
      BY <1>3 DEF Dropping
    <2> QED
      BY <2>1 DEF Seen
  <1> QED
    BY <1>1, <1>2, <1>3, RoomKept

LEMMA RoomQuiet ==
    ASSUME RoomInv, [Next]_vars,
           \A w \in Workers : ~FindUnused(w) /\ ~DropUnused(w) /\ ~InsertLink(w)
    PROVE  /\ Fewer
           /\ \A w \in Workers : /\ \/ task'[w] = task[w]
                                    \/ task'[w].k \notin {"drop", "insert"}
                                 /\ \/ task'[w] = task[w]
                                    \/ OwnKind(task'[w])
  <1>1. TypeOK /\ Fewer
    BY LinkStep DEF RoomInv
  <1>2. ASSUME NEW v \in Workers, NEW t, Do(v, t), t.k \notin {"drop", "insert"}, OwnKind(t),
               NEW w \in Workers
        PROVE  \/ task'[w] = task[w]
               \/ task'[w].k \notin {"drop", "insert"} /\ OwnKind(task'[w])
    BY <1>1, <1>2 DEF TypeOK, Do
  <1>3. CASE UNCHANGED task
    BY <1>1, <1>3
  <1>4. ASSUME NEW v \in Workers,
               \/ \E i \in AccountIds : \/ \E b \in BOOLEAN : CreateAccount(v, i, b)
                                        \/ DeleteAccount(v, i)
                                        \/ RequestReset(v, i)
               \/ send_password_reset_email(v) \/ send_account_invite_email(v)
               \/ \E n \in RowIds : VerifyLink(v, n)
               \/ CheckLink(v) \/ CommitReset(v) \/ Abort(v)
        PROVE  UNCHANGED task \/ \E t : Do(v, t) /\ t.k \notin {"drop", "insert"} /\ OwnKind(t)
    <2>1. \A t : t.k \in {"idle", "check", "reset"} =>
                    t.k \notin {"drop", "insert"} /\ OwnKind(t)
      BY DEF OwnKind
    <2>2. \A i, older : LET t == Find(i, Types, "none", older)
                        IN t.k \notin {"drop", "insert"} /\ OwnKind(t)
      BY DEF OwnKind, Find
    <2>3. \A i, type, older : LET t == Find(i, {type}, type, older)
                              IN t.k \notin {"drop", "insert"} /\ OwnKind(t)
      BY DEF OwnKind, Find
    <2>4. Idle.k = "idle"
      BY TaskIn
    <2> DEFINE Quiet == UNCHANGED task \/ \E t : /\ Do(v, t)
                                                 /\ t.k \notin {"drop", "insert"}
                                                 /\ OwnKind(t)
    <2>5. ASSUME NEW i \in AccountIds, \/ \E b \in BOOLEAN : CreateAccount(v, i, b)
                                       \/ DeleteAccount(v, i) \/ RequestReset(v, i)
          PROVE  Quiet
      BY <2>3, <2>5 DEF CreateAccount, DeleteAccount, RequestReset
    <2>6. CASE Do(v, Idle)
      BY <2>1, <2>4, <2>6
    <2>7. ASSUME NEW n \in RowIds, VerifyLink(v, n) PROVE Quiet
      <3>1. LET t == [k |-> "check", id |-> link[n].target, secret |-> link[n].secret]
            IN t.k \notin {"drop", "insert"} /\ OwnKind(t)
        BY <2>1
      <3> QED
        BY <2>7, <3>1 DEF VerifyLink
    <2>8. CASE CheckLink(v)
      <3>1. \A n : LET t == [k |-> "reset", id |-> task[v].id, secret |-> task[v].secret,
                             row |-> n]
                   IN t.k \notin {"drop", "insert"} /\ OwnKind(t)
        BY <2>1
      <3> QED
        BY <2>6, <2>8, <3>1 DEF CheckLink
    <2>9. CASE CommitReset(v)
      BY <2>2, <2>6, <2>9 DEF CommitReset
    <2> QED
      BY <1>4, <2>5, <2>6, <2>7, <2>8, <2>9
         DEF send_password_reset_email, send_account_invite_email, SendLink, Abort
  <1> QED
    BY <1>1, <1>2, <1>3, <1>4 DEF Next, vars, Expire

LEMMA RoomStep == RoomInv /\ [Next]_vars => RoomInv'
  <1> SUFFICES ASSUME RoomInv, [Next]_vars PROVE RoomInv'
    OBVIOUS
  <1>1. TypeOK /\ TypeOK'
    BY TypeStep DEF RoomInv
  <1>2. CASE \A w \in Workers : ~FindUnused(w) /\ ~DropUnused(w) /\ ~InsertLink(w)
    <2>1. \A i \in AccountIds, type \in Types : RoomAt(i, type)'
      BY <1>1, <1>2, RoomQuiet, RoomFewer
    <2>2. \A w \in Workers : OwnKind(task'[w])
      BY <1>2, RoomQuiet DEF RoomInv
    <2> QED
      BY <1>1, <2>1, <2>2 DEF RoomInv, OwnKind
  <1>3. ASSUME NEW w \in Workers, FindUnused(w) \/ DropUnused(w) \/ InsertLink(w)
        PROVE  RoomInv'
    <2>1. \A i \in AccountIds, type \in Types : RoomAt(i, type)'
      BY <1>1, <1>3, RoomFound, RoomDropped, RoomInserted
    <2>2. ASSUME NEW v \in Workers PROVE OwnKind(task'[v])
      <3>1. \A u \in Workers : u # w => task'[u] = task[u]
        BY <1>1, <1>3 DEF FindUnused, DropUnused, InsertLink, Do, TypeOK
      <3>2. task'[w].k \in {"idle", "drop", "insert", "mail"}
        BY <1>1, <1>3, TaskIn DEF FindUnused, DropUnused, InsertLink, Mail, Do, TypeOK
      <3> QED
        BY <3>1, <3>2 DEF RoomInv, OwnKind
    <2> QED
      BY <1>1, <2>1, <2>2 DEF RoomInv, OwnKind
  <1> QED
    BY <1>2, <1>3

LEMMA RoomInit == Init => RoomInv
  <1> SUFFICES ASSUME Init PROVE RoomInv
    OBVIOUS
  <1>1. TypeOK /\ \A w \in Workers : OwnKind(task[w])
    BY TypeInit, TaskIn DEF Init, OwnKind
  <1>2. ASSUME NEW i \in AccountIds, NEW type \in Types PROVE RoomAt(i, type)
    <2>1. Unused(i, type) = {} /\ Dropping(i, type) = {} /\ Inserting(i, type) = {}
      BY TaskIn DEF Init, Unused, Ids, Dropping, Inserting
    <2>2. Cardinality({}) = 0
      BY FS_EmptySet
    <2>3. \A A \in SUBSET Dropping(i, type) : A = {} /\ Unused(i, type) \ Seen(A) = {}
      BY <2>1
    <2> QED
      BY <2>1, <2>2, <2>3, Bounds DEF RoomAt, RoomFor
  <1> QED
    BY <1>1, <1>2 DEF RoomInv

\* Requests that overtake each other may leave an account several unused
\* links of a kind, since each sweeps what it saw and inserts its own, but
\* never more than there are workers (generate_reset_token).
THEOREM LinksAreBounded == Spec => []LinksBounded
  <1>1. RoomInv => LinksBounded
    <2> SUFFICES ASSUME RoomInv, NEW i \in AccountIds, NEW type \in Types
                 PROVE  Cardinality(Unused(i, type)) <= Cardinality(Workers)
      BY DEF LinksBounded, Unused
    <2>1. RoomFor(i, type, {})
      BY DEF RoomInv, RoomAt
    <2>2. Unused(i, type) \ Seen({}) = Unused(i, type)
      BY DEF Seen
    <2>3. Cardinality({}) = 0 /\ IsFiniteSet(Unused(i, type))
          /\ Cardinality(Unused(i, type)) \in Nat /\ Cardinality(Inserting(i, type)) \in Nat
      BY RoomFinite, Bounds, Smaller, FS_EmptySet DEF RoomInv
    <2> QED
      BY <2>1, <2>2, <2>3, Bounds DEF RoomFor
  <1> QED
    BY <1>1, RoomInit, RoomStep, PTL DEF Spec
=============================================================================

----------------------------- MODULE ResetLinks -----------------------------
(***************************************************************************)
(* Links that set the password of an account: "reset" links, asked for on  *)
(* the login page or by an administrator, and "invite" links of accounts   *)
(* an administrator created (password_reset.py, table reset_tokens).       *)
(*                                                                         *)
(* A row names its account by a plain number, target_id, not by a foreign  *)
(* key.  generate_reset_token deletes the unused links of the same kind in *)
(* one transaction and inserts the new link in the next.  A redeeming      *)
(* request looks at the link twice, spends a fifth of a second in bcrypt,  *)
(* and commits the password and the used mark together; a last transaction *)
(* deletes the other unused links of the account.  Any worker may be       *)
(* killed, or fail to send its mail, between two of these steps.           *)
(*                                                                         *)
(* Left out, because it changes no state: a request that comes from        *)
(* another network than the link is bound to, through the wrong route, or  *)
(* with an unacceptable password.                                          *)
(***************************************************************************)
EXTENDS Integers, FiniteSets, Tables

CONSTANTS Workers,     \* worker threads of all gunicorn processes
          MaxAccount,  \* bounds: row ids of accounts and reset_tokens,
          MaxRow,
          MaxHolder,   \* people who ever held an account,
          MaxLink      \* link secrets ever generated

ASSUME BoundsAssumption ==
    /\ {MaxAccount, MaxRow, MaxHolder, MaxLink} \subseteq Nat
    /\ IsFiniteSet(Workers)

VARIABLES account,  \* table accounts: who holds the account
          link,     \* table reset_tokens
          task,     \* what each worker has read and is about to do
          holders,  \* how many people got an account so far
          minted,   \* how many link secrets were generated so far
          mailed,   \* to whom each secret was mailed, 0 for nobody
          uses      \* ghost: how often each secret set a password

vars == <<account, link, task, holders, minted, mailed, uses>>

AccountIds == 1 .. MaxAccount
RowIds     == 1 .. MaxRow
Secrets    == 1 .. MaxLink
Types      == {"reset", "invite"}

AccountRow == [holder : 1 .. MaxHolder]
LinkRow    == [secret : Secrets, target : AccountIds, type : Types,
               used : BOOLEAN, expired : BOOLEAN]

\* The secret would still be accepted.
Live(s) == \E n \in Ids(link) : /\ link[n].secret = s
                                /\ ~link[n].used
                                /\ ~link[n].expired

Idle == [k |-> "idle"]

\* invalidate_tokens_for_account, for the kinds in types, on behalf of a new
\* link of kind next or, with next = "none", at the end of a redemption.
\* older: ghost, the links minted before the password was committed.
InvalidateTask ==
    [k : {"find"}, id : AccountIds, types : SUBSET Types,
     next : Types \cup {"none"}, older : 0 .. MaxLink]
      \cup
    [k : {"drop"}, id : AccountIds, seen : SUBSET RowIds,
     next : Types \cup {"none"}, older : 0 .. MaxLink]
      \cup
    [k : {"insert"}, id : AccountIds, next : Types]
      \cup
    [k : {"mail"}, id : AccountIds, next : Types, secret : Secrets]

RedeemTask == [k : {"check"}, id : AccountIds, secret : Secrets]
                \cup
              [k : {"reset"}, id : AccountIds, secret : Secrets, row : RowIds]

Task == {Idle} \cup InvalidateTask \cup RedeemTask

Do(w, t) == task' = [task EXCEPT ![w] = t]

\* What is left to do with a new link.
Mail(t, s) == [k |-> "mail", id |-> t.id, next |-> t.next, secret |-> s]

Find(i, types, next, older) ==
    [k |-> "find", id |-> i, types |-> types, next |-> next, older |-> older]

Init == /\ account = << >>
        /\ link = << >>
        /\ task = [w \in Workers |-> Idle]
        /\ holders = 0
        /\ minted = 0
        /\ mailed = [s \in Secrets |-> 0]
        /\ uses = [s \in Secrets |-> 0]

-----------------------------------------------------------------------------
\* An administrator creates or approves an account, with or without an
\* invitation.
CreateAccount(w, i, invite) ==
    /\ task[w] = Idle
    /\ holders < MaxHolder
    /\ i \in AccountIds
    /\ NextRowId(account, i)
    /\ holders' = holders + 1
    /\ account' = Put(account, i, [holder |-> holders + 1])
    /\ IF invite THEN Do(w, Find(i, {"invite"}, "invite", 0))
                 ELSE UNCHANGED task
    /\ UNCHANGED <<link, minted, mailed, uses>>

DeleteAccount(w, i) ==
    /\ task[w] = Idle
    /\ i \in Ids(account)
    /\ account' = Drop(account, {i})
    /\ UNCHANGED <<link, task, holders, minted, mailed, uses>>

\* The holder, or an administrator for the holder, asks for a reset link.
RequestReset(w, i) ==
    /\ task[w] = Idle
    /\ i \in Ids(account)
    /\ Do(w, Find(i, {"reset"}, "reset", 0))
    /\ UNCHANGED <<account, link, holders, minted, mailed, uses>>

-----------------------------------------------------------------------------
\* Mutant: only links that have expired are replaced.
FindUnused_OnlyExpired(w) ==
    /\ task[w].k = "find"
    /\ Do(w, [k |-> "drop", id |-> task[w].id, next |-> task[w].next,
              older |-> task[w].older,
              seen |-> {n \in Ids(link) : /\ link[n].target = task[w].id
                                          /\ link[n].type \in task[w].types
                                          /\ link[n].expired}])
    /\ UNCHANGED <<account, link, holders, minted, mailed, uses>>

\* invalidate_tokens_for_account: query.all().  After a redemption the commit
\* has expired the account object, and reading its id fails if it is gone.
FindUnused(w) ==
    /\ task[w].k = "find"
    /\ LET t == task[w]
       IN IF t.next = "none" /\ t.id \notin Ids(account)
            THEN Do(w, Idle)
            ELSE Do(w, [k |-> "drop", id |-> t.id, next |-> t.next,
                        older |-> t.older,
                        seen |-> {n \in Ids(link) : /\ link[n].target = t.id
                                                    /\ link[n].type \in t.types
                                                    /\ ~link[n].used}])
    /\ UNCHANGED <<account, link, holders, minted, mailed, uses>>

\* ... and the deletion of the rows it found, by their ids.
DropUnused(w) ==
    /\ task[w].k = "drop"
    /\ link' = Drop(link, task[w].seen)
    /\ IF task[w].next = "none"
         THEN Do(w, Idle)
         ELSE Do(w, [k |-> "insert", id |-> task[w].id, next |-> task[w].next])
    /\ UNCHANGED <<account, holders, minted, mailed, uses>>

\* Mutant: the row is built from an account without an id.
InsertLink_NoTarget(w) ==
    /\ task[w].k = "insert"
    /\ minted < MaxLink
    /\ \E n \in RowIds :
         /\ NextRowId(link, n)
         /\ link' = Put(link, n, [secret |-> minted + 1, target |-> 0,
                                  type |-> task[w].next,
                                  used |-> FALSE, expired |-> FALSE])
    /\ minted' = minted + 1
    /\ Do(w, Mail(task[w], minted + 1))
    /\ UNCHANGED <<account, holders, mailed, uses>>

\* Mutant: a link of the account that has expired gets a new expiry time, and
\* only without one a link is inserted.
InsertLink_Extends(w) ==
    /\ task[w].k = "insert"
    /\ LET over == {n \in Ids(link) : link[n].target = task[w].id
                                         /\ link[n].expired}
       IN \/ \E n \in over : /\ link' = [link EXCEPT ![n].expired = FALSE]
                             /\ Do(w, Mail(task[w], link[n].secret))
                             /\ UNCHANGED minted
          \/ /\ over = {}
             /\ minted < MaxLink
             /\ \E n \in RowIds :
                  /\ NextRowId(link, n)
                  /\ link' = Put(link, n, [secret |-> minted + 1,
                                           target |-> task[w].id,
                                           type |-> task[w].next,
                                           used |-> FALSE, expired |-> FALSE])
             /\ minted' = minted + 1
             /\ Do(w, Mail(task[w], minted + 1))
    /\ UNCHANGED <<account, holders, mailed, uses>>

\* The rest of generate_reset_token.
InsertLink(w) ==
    /\ task[w].k = "insert"
    /\ minted < MaxLink
    /\ \E n \in RowIds :
         /\ NextRowId(link, n)
         /\ link' = Put(link, n, [secret |-> minted + 1, target |-> task[w].id,
                                  type |-> task[w].next,
                                  used |-> FALSE, expired |-> FALSE])
    /\ minted' = minted + 1
    /\ Do(w, Mail(task[w], minted + 1))
    /\ UNCHANGED <<account, holders, mailed, uses>>

\* The commit has expired the account object: the address is read again, by
\* id, from whatever account has the id now.  Without one the request fails,
\* and so it may for want of a mail server (Abort); the link stays.
SendLink(w, type) ==
    /\ task[w].k = "mail"
    /\ task[w].next = type
    /\ task[w].id \in Ids(account)
    /\ mailed' = [mailed EXCEPT ![task[w].secret] = account[task[w].id].holder]
    /\ Do(w, Idle)
    /\ UNCHANGED <<account, link, holders, minted, uses>>

send_password_reset_email(w) == SendLink(w, "reset")
send_account_invite_email(w) == SendLink(w, "invite")

-----------------------------------------------------------------------------
\* verify_reset_token: a row that has expired, or whose account is gone, is
\* deleted.
VerifyLink(w, n) ==
    /\ task[w] = Idle
    /\ n \in Ids(link)
    /\ mailed[link[n].secret] # 0
    /\ ~link[n].used
    /\ IF link[n].expired \/ link[n].target \notin Ids(account)
         THEN link' = Drop(link, {n}) /\ UNCHANGED task
         ELSE /\ Do(w, [k |-> "check", id |-> link[n].target,
                        secret |-> link[n].secret])
              /\ UNCHANGED link
    /\ UNCHANGED <<account, holders, minted, mailed, uses>>

\* complete_password_reset: the link is looked up once more.
CheckLink(w) ==
    /\ task[w].k = "check"
    /\ LET t == task[w]
           rows == {n \in Ids(link) : link[n].secret = t.secret /\ ~link[n].used}
       IN \/ rows = {} /\ Do(w, Idle)
          \/ \E n \in rows : Do(w, [k |-> "reset", id |-> t.id,
                                    secret |-> t.secret, row |-> n])
    /\ UNCHANGED <<account, link, holders, minted, mailed, uses>>

\* One more password set with s.
Used(s) == uses' = [uses EXCEPT ![s] = IF @ < 2 THEN @ + 1 ELSE @]

\* Mutant: the used mark is left to the sweep that follows.
CommitReset_NoMark(w) ==
    /\ task[w].k = "reset"
    /\ task[w].id \in Ids(account)
    /\ Used(task[w].secret)
    /\ Do(w, Find(task[w].id, Types, "none", minted))
    /\ UNCHANGED <<account, link, holders, minted, mailed>>

\* Mutant: the sweep that follows takes reset links only.
CommitReset_SweepsResets(w) ==
    /\ task[w].k = "reset"
    /\ task[w].id \in Ids(account)
    /\ task[w].row \in Ids(link)
    /\ link' = [link EXCEPT ![task[w].row].used = TRUE]
    /\ Used(task[w].secret)
    /\ Do(w, Find(task[w].id, {"reset"}, "none", minted))
    /\ UNCHANGED <<account, holders, minted, mailed>>

\* ... and password and used mark are written, both by row id.  If either row
\* is gone the flush fails and the transaction is rolled back.
CommitReset(w) ==
    /\ task[w].k = "reset"
    /\ LET t == task[w]
       IN IF t.id \in Ids(account) /\ t.row \in Ids(link)
            THEN /\ link' = [link EXCEPT ![t.row].used = TRUE]
                 /\ Used(t.secret)
                 /\ Do(w, Find(t.id, Types, "none", minted))
            ELSE UNCHANGED <<link, uses>> /\ Do(w, Idle)
    /\ UNCHANGED <<account, holders, minted, mailed>>

\* The worker is killed, or the request fails between two transactions.
Abort(w) ==
    /\ task[w] # Idle
    /\ Do(w, Idle)
    /\ UNCHANGED <<account, link, holders, minted, mailed, uses>>

\* expires_at passes.
Expire(n) ==
    /\ n \in Ids(link)
    /\ ~link[n].expired
    /\ link' = [link EXCEPT ![n].expired = TRUE]
    /\ UNCHANGED <<account, task, holders, minted, mailed, uses>>

Next == \/ \E w \in Workers :
             \/ \E i \in AccountIds : \/ \E b \in BOOLEAN : CreateAccount(w, i, b)
                                      \/ DeleteAccount(w, i)
                                      \/ RequestReset(w, i)
             \/ FindUnused(w) \/ DropUnused(w) \/ InsertLink(w)
             \/ send_password_reset_email(w) \/ send_account_invite_email(w)
             \/ \E n \in RowIds : VerifyLink(w, n)
             \/ CheckLink(w) \/ CommitReset(w) \/ Abort(w)
        \/ \E n \in RowIds : Expire(n)

Spec == Init /\ [][Next]_vars

-----------------------------------------------------------------------------
\* Every variable has its type.
TypeOK ==
    /\ IsTable(account, AccountIds, AccountRow)
    /\ IsTable(link, RowIds, LinkRow)
    /\ task \in [Workers -> Task]
    /\ holders \in 0 .. MaxHolder
    /\ minted \in 0 .. MaxLink
    /\ mailed \in [Secrets -> 0 .. MaxHolder]
    /\ uses \in [Secrets -> 0 .. 2]

\* Whoever redeems, deletes or reissues links at the same time, and although
\* the mark is written to a row id that may belong to another link by then, a
\* link that has set a password is never accepted again
\* (complete_password_reset).
SpentLinkIsDead == \A s \in Secrets : uses[s] > 0 => ~Live(s)

\* A link that is replaced, used, expired or swept stays dead
\* (generate_reset_token, invalidate_tokens_for_account, mark_used).
DeadLinkStaysDead ==
    [][\A s \in 1 .. minted : ~Live(s) => ~Live(s)']_vars

\* When a redemption is over, no link of the account that is older than the
\* new password can change it again (complete_password_reset: "Invalidate
\* all other tokens for this account").
ResetEndsOlderLinks ==
    [][\A w \in Workers :
         task[w].k = "drop" /\ task[w].next = "none" /\ DropUnused(w) =>
             \A n \in Ids(link') :
                 link'[n].target = task[w].id /\ link'[n].secret <= task[w].older
                     => link'[n].used]_vars

\* Requests that overtake each other may leave an account several unused
\* links of a kind, since each sweeps what it saw and inserts its own, but
\* never more than there are workers (generate_reset_token).
LinksBounded ==
    \A i \in AccountIds, type \in Types :
        Cardinality({n \in Ids(link) : /\ link[n].target = i
                                      /\ link[n].type = type
                                      /\ ~link[n].used}) <= Cardinality(Workers)

=============================================================================

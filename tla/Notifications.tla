--------------------------- MODULE Notifications ---------------------------
(***************************************************************************)
(* What the filter tells people: e-mails and Telegram messages about what  *)
(* a handler has committed.                                                *)
(*                                                                         *)
(* A handler commits, then calls its notify functions in the request; an   *)
(* e-mail goes to a daemon thread of the process that waits some seconds   *)
(* before it sends, a Telegram message to the queue of the process's       *)
(* executor.  Codes are mailed in the request itself.  SQLAlchemy expires  *)
(* the rows of a committed session: a notify function reads the account    *)
(* again, by its row id, which may have been given out again.              *)
(*                                                                         *)
(* An address is abstracted to the account holder it belongs to.  What     *)
(* else a handler writes, and whether its own guards let it through, is    *)
(* left out: RealmTokens, Registration and AdminLogin have it.             *)
(***************************************************************************)
EXTENDS Integers, Sequences, FiniteSets, Tables

CONSTANTS Workers,     \* worker threads
          Processes,   \* gunicorn worker processes
          Process,     \* the process of each worker thread
          NotifyUser,  \* NOTIFY_USER_ON_2FA_LOCKOUT
          NotifyAdmin, \* NOTIFY_ADMIN_ON_2FA_LOCKOUT
          MaxAccount,  \* bounds: account row ids,
          MaxUser,     \* people who ever had an account,
          MaxEvent     \* and committed events

ASSUME NotificationsAssumption ==
    /\ {MaxAccount, MaxUser} \subseteq Nat \ {0}
    /\ MaxEvent \in Nat
    /\ {NotifyUser, NotifyAdmin} \subseteq BOOLEAN
    /\ Process \in [Workers -> Processes]
    /\ IsFiniteSet(Workers) /\ Workers # {}

VARIABLES account,  \* table accounts: whose row it is, wants Telegram alerts
          job,      \* what each worker is doing
          mails,    \* e-mails waiting in daemon threads
          queue,    \* Telegram messages queued in each process's executor
          draining, \* processes that take no more requests
          users,    \* people who have had an account so far
          n,        \* committed events
          changes,  \* ghost: the changes of an address that were logged
          settled,  \* ghost: notices of these that were sent, failed or lost
          over,     \* ghost: events whose Telegram message was tried or killed
          strays    \* ghost: e-mails about a user that reached someone else

vars == <<account, job, mails, queue, draining, users, n, changes,
          settled, over, strays>>
ghosts == <<changes, settled, over, strays>>

Users  == 1 .. MaxUser
Events == 1 .. MaxEvent
Most   == Cardinality(Workers)

Nobody == 0 \* the administrator's alert address, or an applicant's

\* What each handler calls after its commit, in this order.
Notices ==
    [register |-> <<"admin_pending_account">>, request |-> <<"realm_pending">>,
     approve |-> <<"account_approved">>,       reject |-> <<"account_rejected">>,
     approveRealm |-> <<"realm_approved">>,    rejectRealm |-> <<"realm_rejected">>,
     login |-> <<"failed_login">>,             lock |-> <<"2fa_lockout">>,
     password |-> <<"password_changed">>,      revoke |-> <<"token_revoked">>,
     rotate |-> <<"credential_rotation">>,
     address |-> <<"email_changed">>, \* an entry of the log, see ChangeAddress
     change |-> <<"email_changed_old", "email_changed_new">>,
     verify |-> <<"verification">>, code |-> <<"2fa">>, reset |-> <<"password_reset">>]

Kinds == DOMAIN Notices
Updates == {"approve", "rotate", "password", "change", "reset"}
OfRealm == {"approveRealm", "rejectRealm", "revoke"}
Inserts == {"request", "login", "lock", "code", "verify"}
Parts == {"email_changed_old", "email_changed_new"}
Part(notice) == IF notice \in Parts THEN notice ELSE "other"

Idle == [k |-> "idle"]
Job == {Idle} \cup [k : Kinds, id : 0 .. MaxAccount, user : 0 .. MaxUser,
                    n : 0 .. MaxEvent,
                    todo : {Notices[k] : k \in Kinds} \cup {Tail(Notices["change"])}]

MailType == [n : Events, part : Parts \cup {"other"}, about : 0 .. MaxUser,
             to : 0 .. MaxUser, at : Processes]

\* Start-up seeds an account, so somebody is there to be told things.
Init == /\ account = Put(<< >>, 1, [user |-> 1, alerts |-> FALSE])
        /\ job = [w \in Workers |-> Idle]
        /\ mails = {}
        /\ queue = [p \in Processes |-> << >>]
        /\ draining = {}
        /\ users = 1
        /\ n = 0
        /\ changes = {}
        /\ settled = {}
        /\ over = {}
        /\ strays = [u \in Users |-> 0]

-----------------------------------------------------------------------------
(***************************************************************************)
(* Handlers                                                                *)
(***************************************************************************)
Loaded(w) == job[w] # Idle /\ job[w].n = 0
Committed(w) == job[w] # Idle /\ job[w].n # 0

Begin(w, k, id, user) ==
    /\ job[w] = Idle
    /\ Process[w] \notin draining
    /\ n + Cardinality({v \in Workers : Loaded(v)}) < MaxEvent
    /\ job' = [job EXCEPT ![w] = [k |-> k, id |-> id, user |-> user, n |-> 0,
                                  todo |-> Notices[k]]]
    /\ UNCHANGED <<account, mails, queue, draining, users, n>>
    /\ UNCHANGED ghosts

LoadAccount(w, k, id) ==
    k \notin {"register", "verify", "change"} /\ Begin(w, k, id, account[id].user)
LoadApplicant(w, k)   == k \in {"register", "verify"} /\ Begin(w, k, 0, Nobody)

Found(w) == job[w] # Idle /\ job[w].id \in Ids(account)
Now(w)   == account[job[w].id].user
Same(w)  == Found(w) /\ Now(w) = job[w].user

\* The transaction commits: the event happened.
Event(w) ==
    /\ Loaded(w)
    /\ n' = n + 1
    /\ UNCHANGED <<mails, queue, draining, settled, over, strays>>

Happened(w) == job' = [job EXCEPT ![w].n = n + 1]

\* account_change_email commits the new address, and goes on to log the change
\* in a transaction of its own before it tells anybody.
ChangeAddress(w) ==
    /\ Loaded(w)
    /\ job[w].k = "address"
    /\ Found(w)
    /\ job' = [job EXCEPT ![w].k = "change", ![w].todo = Notices["change"]]
    /\ UNCHANGED <<account, mails, queue, draining, users, n>>
    /\ UNCHANGED ghosts

\* An UPDATE finds whichever account has the id.  The log of a changed address
\* reads the account again first, by its id.
CommitUpdate(w) ==
    /\ job[w].k \in Updates
    /\ Found(w)
    /\ Event(w)
    /\ Happened(w)
    /\ changes' = IF job[w].k = "change" THEN changes \cup {n + 1} ELSE changes
    /\ UNCHANGED <<account, users>>

\* Realms and tokens go with their account.
CommitOfRealm(w) ==
    /\ job[w].k \in OfRealm
    /\ Same(w)
    /\ Event(w)
    /\ Happened(w)
    /\ UNCHANGED <<account, users, changes>>

\* A row of its own, or a setting; foreign keys are not enforced.
CommitInsert(w) ==
    /\ job[w].k \in Inserts
    /\ Event(w)
    /\ Happened(w)
    /\ UNCHANGED <<account, users, changes>>

\* finalize_registration_with_realms
CommitRegister(w, i) ==
    /\ job[w].k = "register"
    /\ users < MaxUser
    /\ NextRowId(account, i)
    /\ Event(w)
    /\ users' = users + 1
    /\ account' = Put(account, i, [user |-> users', alerts |-> FALSE])
    /\ job' = [job EXCEPT ![w].n = n', ![w].id = i, ![w].user = users']
    /\ UNCHANGED changes

\* reject_account; a row that is gone already makes no difference.
CommitReject(w) ==
    /\ job[w].k = "reject"
    /\ Event(w)
    /\ Happened(w)
    /\ account' = Drop(account, {job[w].id})
    /\ UNCHANGED <<users, changes>>

\* The commit fails, or there is no row to update: the handler rolls back and
\* tells nobody.  When that is the log of a changed address, the new address
\* stays, and the outer except skips both notices.
Abort(w) ==
    /\ Loaded(w)
    /\ job' = [job EXCEPT ![w] = Idle]
    /\ UNCHANGED <<account, mails, queue, draining, users, n>>
    /\ UNCHANGED ghosts

\* account_delete, in a worker of its own; nobody is told.
DeleteAccount(w, i) ==
    /\ job[w] = Idle
    /\ Process[w] \notin draining
    /\ account' = Drop(account, {i})
    /\ UNCHANGED <<job, mails, queue, draining, users, n>>
    /\ UNCHANGED ghosts

\* The settings page of the account; binding and unlinking a chat.
SetAlerts(i) ==
    /\ account' = [account EXCEPT ![i].alerts = ~@]
    /\ UNCHANGED <<job, mails, queue, draining, users, n>>
    /\ UNCHANGED ghosts

-----------------------------------------------------------------------------
(***************************************************************************)
(* The notify functions                                                    *)
(***************************************************************************)
Doing(w, notice) == Committed(w) /\ Head(job[w].todo) = notice

Return(w) ==
    /\ job' = [job EXCEPT ![w] = IF Len(job[w].todo) = 1 THEN Idle
                                 ELSE [job[w] EXCEPT !.todo = Tail(@)]]
    /\ UNCHANGED <<account, draining, users, n, changes, over>>

\* send_email_async: a daemon thread of this process has the message.
Post(w, notice, whom) ==
    mails' = mails \cup {[n |-> job[w].n, part |-> Part(notice), about |-> job[w].user,
                          to |-> u, at |-> Process[w]] : u \in whom}

Mail(w, notice, u) ==
    /\ Doing(w, notice)
    /\ Post(w, notice, {u})
    /\ Return(w)
    /\ UNCHANGED <<queue, settled, strays>>

\* Telegram first, to the chat the row has now; then e-mail, if that works.
Alert(w, notice, chat, whom) ==
    /\ Doing(w, notice)
    /\ Found(w)
    /\ queue' = IF chat /\ account[job[w].id].alerts
                THEN [queue EXCEPT ![Process[w]] = Append(@, job[w].n)] ELSE queue
    /\ \E mailed \in BOOLEAN : IF mailed THEN Post(w, notice, whom)
                                     ELSE UNCHANGED mails
    /\ Return(w)
    /\ UNCHANGED <<settled, strays>>

\* An e-mail about a user reaches someone.
Arrive(about, to) ==
    strays' = IF to \in {about, Nobody} \/ about = Nobody THEN strays
              ELSE [strays EXCEPT ![about] = @ + 1]

\* A code is mailed at once: it is sent, or the function says it is not.
SendNow(w, notice, u) ==
    /\ Doing(w, notice)
    /\ Arrive(job[w].user, u)
    /\ Return(w)
    /\ UNCHANGED <<mails, queue, settled>>

notify_admin_pending_account(w) == Found(w) /\ Mail(w, "admin_pending_account", Nobody)
notify_realm_pending(w)       == Found(w) /\ Mail(w, "realm_pending", Nobody)
notify_account_approved(w)    == Found(w) /\ Mail(w, "account_approved", Now(w))
\* the address was read before the row was deleted
notify_account_rejected(w)    == Mail(w, "account_rejected", job[w].user)
notify_realm_approved(w)      == Same(w) /\ Mail(w, "realm_approved", Now(w))
notify_realm_rejected(w)      == Same(w) /\ Mail(w, "realm_rejected", Now(w))
notify_token_revoked(w)       == Same(w) /\ Mail(w, "token_revoked", Now(w))
notify_credential_rotation(w) == Found(w) /\ Mail(w, "credential_rotation", Now(w))
\* both addresses are the handler's, the account is read for its name only
notify_email_changed_old(w)   == Found(w) /\ Mail(w, "email_changed_old", job[w].user)
notify_email_changed_new(w)   == Found(w) /\ Mail(w, "email_changed_new", job[w].user)
notify_failed_login(w)        == Alert(w, "failed_login", TRUE, {Now(w)})
notify_password_changed(w)    == Alert(w, "password_changed", TRUE, {Now(w)})
send_verification_email(w)    == SendNow(w, "verification", Nobody)
send_2fa_email(w)             == Found(w) /\ SendNow(w, "2fa", Now(w))
send_password_reset_email(w)  == Found(w) /\ SendNow(w, "password_reset", Now(w))

\* The account holder, the administrator, or both, as the deployment says.
notify_2fa_lockout(w) ==
    /\ NotifyUser \/ NotifyAdmin
    /\ Alert(w, "2fa_lockout", NotifyUser,
             {u \in {Now(w), Nobody} : IF u = Nobody THEN NotifyAdmin ELSE NotifyUser})

\* Mutant: one try block for both notices of a changed address.
Fail_OneTry(w) ==
    /\ Committed(w)
    /\ settled' = IF job[w].k = "change" THEN settled \cup {<<job[w].n, Head(job[w].todo)>>}
                  ELSE settled
    /\ job' = [job EXCEPT ![w] = Idle]
    /\ UNCHANGED <<account, draining, users, n, changes, over>>
    /\ UNCHANGED <<mails, queue, strays>>

\* No mail server is configured, the settings or the account cannot be read, no
\* thread can be started: the function returns or raises, and nothing is sent.
\* Each notice of a changed address has a try block of its own.
Fail(w) ==
    /\ Committed(w)
    /\ settled' = IF job[w].k = "change" THEN settled \cup {<<job[w].n, Head(job[w].todo)>>}
                  ELSE settled
    /\ Return(w)
    /\ UNCHANGED <<mails, queue, strays>>

-----------------------------------------------------------------------------
(***************************************************************************)
(* The threads and the process                                             *)
(***************************************************************************)
\* Mutant: the thread is given the account and reads its address when it sends.
Deliver_Row(m) ==
    /\ mails' = mails \ {m}
    /\ settled' = IF m.n \in changes THEN settled \cup {<<m.n, m.part>>} ELSE settled
    /\ \/ m.to = Nobody /\ UNCHANGED strays
       \/ \E i \in Ids(account) : Arrive(m.about, account[i].user)
    /\ UNCHANGED <<account, job, queue, draining, users, n, changes, over>>

\* delayed_send: the mail is sent, or an error is logged.
Deliver(m) ==
    /\ mails' = mails \ {m}
    /\ settled' = IF m.n \in changes THEN settled \cup {<<m.n, m.part>>} ELSE settled
    /\ Arrive(m.about, m.to)
    /\ UNCHANGED <<account, job, queue, draining, users, n, changes, over>>

\* The executor takes the next message and tries to send it.
SendAlert(p) ==
    /\ queue[p] # << >>
    /\ queue' = [queue EXCEPT ![p] = Tail(@)]
    /\ over' = over \cup {Head(queue[p])}
    /\ UNCHANGED <<account, job, mails, draining, users, n, changes, settled, strays>>

MailsAt(p) == {m \in mails : m.at = p}
Settle(p) == settled' = settled \cup {<<m.n, m.part>> : m \in {x \in MailsAt(p) : x.n \in changes}}

\* max_requests reached, or gunicorn told to stop: no more requests.
Drain(p) ==
    /\ p \notin draining
    /\ draining' = draining \cup {p}
    /\ UNCHANGED <<account, job, mails, queue, users, n>>
    /\ UNCHANGED ghosts

\* Mutant: the executor's threads are daemons as well.
Exit_Daemons(p) ==
    /\ p \in draining
    /\ \A w \in Workers : Process[w] = p => job[w] = Idle
    /\ draining' = draining \ {p}
    /\ mails' = mails \ MailsAt(p)
    /\ Settle(p)
    /\ queue' = [queue EXCEPT ![p] = << >>]
    /\ UNCHANGED <<account, job, users, n, changes, over, strays>>

\* The interpreter ends when the executor's queue is empty; it waits for no
\* daemon thread.  gunicorn starts another process.
Exit(p) ==
    /\ p \in draining
    /\ \A w \in Workers : Process[w] = p => job[w] = Idle
    /\ queue[p] = << >>
    /\ draining' = draining \ {p}
    /\ mails' = mails \ MailsAt(p)
    /\ Settle(p)
    /\ UNCHANGED <<account, job, queue, users, n, changes, over, strays>>

\* The notices a worker has still to send.
Left(w) == IF job[w] = Idle \/ job[w].n \notin changes THEN {}
           ELSE {<<job[w].n, job[w].todo[i]>> : i \in DOMAIN job[w].todo}

\* Out of memory, a timeout, a reboot.
Kill(p) ==
    LET gone == {w \in Workers : Process[w] = p}
    IN /\ job' = [w \in Workers |-> IF w \in gone THEN Idle ELSE job[w]]
       /\ mails' = mails \ MailsAt(p)
       /\ settled' = settled \cup {<<m.n, m.part>> : m \in {x \in MailsAt(p) : x.n \in changes}}
                              \cup UNION {Left(w) : w \in gone}
       /\ over' = over \cup {queue[p][i] : i \in DOMAIN queue[p]}
       /\ queue' = [queue EXCEPT ![p] = << >>]
       /\ draining' = draining \ {p}
       /\ UNCHANGED <<account, users, n, changes, strays>>

Handler(w) == \/ \E k \in Kinds, i \in Ids(account) : LoadAccount(w, k, i)
              \/ \E k \in Kinds : LoadApplicant(w, k)
              \/ ChangeAddress(w)
              \/ CommitUpdate(w) \/ CommitOfRealm(w) \/ CommitInsert(w)
              \/ \E i \in 1 .. MaxAccount : CommitRegister(w, i)
              \/ CommitReject(w) \/ Abort(w)
              \/ \E i \in Ids(account) : DeleteAccount(w, i)

Notify(w) == \/ notify_admin_pending_account(w) \/ notify_realm_pending(w)
             \/ notify_account_approved(w) \/ notify_account_rejected(w)
             \/ notify_realm_approved(w) \/ notify_realm_rejected(w)
             \/ notify_token_revoked(w) \/ notify_credential_rotation(w)
             \/ notify_email_changed_old(w) \/ notify_email_changed_new(w)
             \/ notify_failed_login(w) \/ notify_2fa_lockout(w)
             \/ notify_password_changed(w) \/ send_verification_email(w)
             \/ send_2fa_email(w) \/ send_password_reset_email(w)
             \/ Fail(w)

Next == \/ \E w \in Workers : Handler(w) \/ Notify(w)
        \/ \E i \in Ids(account) : SetAlerts(i)
        \/ \E m \in mails : Deliver(m)
        \/ \E p \in Processes : SendAlert(p) \/ Drain(p) \/ Exit(p) \/ Kill(p)

\* A thread of the executor is always running and gives up on Telegram's API
\* after a timeout.
Fairness == \A p \in Processes : WF_vars(SendAlert(p))
Spec == Init /\ [][Next]_vars /\ Fairness

-----------------------------------------------------------------------------
\* Every variable has its type; an alert waits for an event that was committed.
TypeOK ==
    /\ IsTable(account, 1 .. MaxAccount, [user : Users, alerts : BOOLEAN])
    /\ job \in [Workers -> Job]
    /\ mails \subseteq MailType
    /\ \A p \in Processes : \A i \in DOMAIN queue[p] : queue[p][i] \in 1 .. n
    /\ draining \subseteq Processes
    /\ users \in 0 .. MaxUser
    /\ n \in 0 .. MaxEvent
    /\ changes \cup over \subseteq 1 .. n
    /\ settled \subseteq changes \X Parts
    /\ strays \in [Users -> Nat]

Pending == {<<m.n, m.part>> : m \in mails} \cup UNION {Left(w) : w \in Workers}

\* The notices of an event to the old and to the new address that are about to
\* be sent, wait in a thread, or were sent, failed or lost on their own.
Heard(e) == {part \in Parts : <<e, part>> \in settled \cup Pending}

\* When an administrator changes an address, both addresses are told of it or
\* neither.  Once the change is logged, the old and the new one are told, each
\* whatever became of the other notice; of a change that could not be logged
\* nobody hears (account_change_email).
BothAddressesHear == \A e \in Events : Heard(e) = IF e \in changes THEN Parts ELSE {}

\* An address is read in the request.  E-mails about a deleted account reach
\* whoever has its row id now only from the handlers that were under way when it
\* was deleted, not from the threads the mails wait in (send_email_async).
StraysFew == \A u \in Users : strays[u] < Most

\* A queued Telegram alert is tried, also by a process that is being recycled,
\* unless the process is killed (dispatch_in_background).
AlertsTried == \A e \in Events, p \in Processes :
                   (\E i \in DOMAIN queue[p] : queue[p][i] = e) ~> (e \in over)
=============================================================================

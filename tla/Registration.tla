---------------------------- MODULE Registration ----------------------------
(***************************************************************************)
(* Registering an account: a row of registration_requests with a code that *)
(* is mailed to the applicant, a verification step, and the submission     *)
(* that turns the row into an account.                                     *)
(*                                                                         *)
(* What a browser may do next is decided by two values of its signed       *)
(* cookie, registration_id and email_verified.  A handler works on the     *)
(* cookie it was sent and answers with a whole new one, so two requests of *)
(* one browser overwrite each other's cookie.  A handler reads the row in  *)
(* one step and commits in another; an UPDATE of a row that is gone fails  *)
(* (StaleDataError), and a row id that is gone may belong to the next      *)
(* applicant's row.                                                        *)
(*                                                                         *)
(* A user name goes with its e-mail address: both are UNIQUE in both       *)
(* tables and are checked in the same way.  The list of realm requests     *)
(* that the row carries is left out; RealmTokens creates an account with   *)
(* its realms.  Requests that change nothing (a refused form, a locked     *)
(* row) are left out.                                                      *)
(***************************************************************************)
EXTENDS Tables, LostUpdates

CONSTANTS Workers,     \* worker threads of all gunicorn processes
          Browsers,    \* cookie jars
          Emails,      \* addresses that applicants give
          MaxAttempts, \* verification attempts before the row is locked
          MaxRequest   \* bound: registration_requests rows at one time

ASSUME RegistrationAssumption == /\ {MaxAttempts, MaxRequest} \subseteq Nat \ {0}
                                 /\ IsFiniteSet(Workers)

VARIABLES request,  \* the registration_requests table
          account,  \* addresses that have an account
          cookie,   \* registration_id and email_verified of each browser
          job,      \* what each worker is about to commit
          guesses,  \* ghost: wrong codes compared with the row's present code
          proved    \* ghost: browsers that have entered some right code

vars == <<request, account, cookie, job, guesses, proved>>

RequestIds == 1 .. MaxRequest
Fresh == [id |-> 0, verified |-> FALSE]
Cookies == [id : RequestIds \cup {0}, verified : BOOLEAN]

Rows == [email : Emails, attempts : 0 .. MaxAttempts, expired : BOOLEAN]

\* Bound: wrong codes that the workers can get compared (GuessesBounded), which
\* are MaxAttempts * (MaxAttempts + 3) / 2 for two.
MaxGuesses == Cardinality(Ladders(MaxAttempts, Cardinality(Workers))) - 1

Idle == [k |-> "idle"]
Job == {Idle}
    \cup [k : {"insert"}, b : Browsers, verified : BOOLEAN, email : Emails]
    \cup [k : {"purge"}, id : RequestIds]
    \cup [k : {"miss"}, id : RequestIds, seen : 0 .. MaxAttempts]
    \cup [k : {"resend"}, id : RequestIds, reset : BOOLEAN]
    \cup [k : {"pass"}, b : Browsers, id : RequestIds]
    \cup [k : {"submit"}, b : Browsers, id : RequestIds, email : Emails]

Begin(w, j) == job[w] = Idle /\ job' = [job EXCEPT ![w] = j]
Commit(w, k) == job[w].k = k /\ job' = [job EXCEPT ![w] = Idle]
Answer(b, jar) == cookie' = [cookie EXCEPT ![b] = jar]

Init == /\ request = << >>
        /\ account = {}
        /\ cookie = [b \in Browsers |-> Fresh]
        /\ job = [w \in Workers |-> Idle]
        /\ guesses = [i \in RequestIds |-> 0]
        /\ proved = {}

-----------------------------------------------------------------------------
\* register_account: neither an account nor a request has the address ...
LoadRegister(w, b, e) ==
    /\ e \notin account
    /\ \A i \in Ids(request) : request[i].email # e
    /\ Begin(w, [k |-> "insert", b |-> b, verified |-> cookie[b].verified,
                 email |-> e])
    /\ UNCHANGED <<request, account, cookie, guesses, proved>>

NewRow(e) == [email |-> e, attempts |-> 0, expired |-> FALSE]

\* Mutant: the table has no UNIQUE constraint on the address.
CommitRegister_NotUnique(w) ==
    /\ Commit(w, "insert")
    /\ \E i \in RequestIds :
         /\ NextRowId(request, i)
         /\ request' = Put(request, i, NewRow(job[w].email))
         /\ guesses' = [guesses EXCEPT ![i] = 0]
         /\ Answer(job[w].b, [id |-> i, verified |-> job[w].verified])
    /\ UNCHANGED <<account, proved>>

\* ... and the insertion, which the UNIQUE constraint refuses if another
\* request came first.  The cookie gets the new id and keeps email_verified.
CommitRegister(w) ==
    /\ Commit(w, "insert")
    /\ LET e == job[w].email
       IN IF \E i \in Ids(request) : request[i].email = e
            THEN UNCHANGED <<request, cookie, guesses>>
            ELSE \E i \in RequestIds :
                   /\ NextRowId(request, i)
                   /\ request' = Put(request, i, NewRow(e))
                   /\ guesses' = [guesses EXCEPT ![i] = 0]
                   /\ Answer(job[w].b, [id |-> i, verified |-> job[w].verified])
    /\ UNCHANGED <<account, proved>>

\* A page whose row is gone: verify_email forgets the id, register_realms
\* forgets both values.
Forget(b) ==
    /\ cookie[b].id # 0
    /\ cookie[b].id \notin Ids(request)
    /\ \/ Answer(b, [cookie[b] EXCEPT !.id = 0])
       \/ cookie[b].verified /\ Answer(b, Fresh)
    /\ UNCHANGED <<request, account, job, guesses, proved>>

Holds(b) == cookie[b].id \in Ids(request)
Row(b) == request[cookie[b].id]
Locked(i) == request[i].attempts >= MaxAttempts

\* verify_registration: an expired row will be deleted, a locked one is left
\* alone, a code is compared with the row's.
Verify(w, b, right) ==
    /\ Holds(b)
    /\ LET i == cookie[b].id
       IN \/ /\ Row(b).expired
             /\ Begin(w, [k |-> "purge", id |-> i])
             /\ UNCHANGED <<request, guesses, proved>>
          \/ /\ ~Row(b).expired
             /\ ~Locked(i)
             /\ right
             /\ Begin(w, [k |-> "pass", b |-> b, id |-> i])
             /\ proved' = proved \cup {b}
             /\ UNCHANGED <<request, guesses>>
          \/ /\ ~Row(b).expired
             /\ ~Locked(i)
             /\ ~right
             /\ Begin(w, [k |-> "miss", id |-> i, seen |-> Row(b).attempts])
             /\ guesses' = [guesses EXCEPT ![i] =
                               IF @ <= MaxGuesses THEN @ + 1 ELSE @]
             /\ UNCHANGED <<request, proved>>
    /\ UNCHANGED <<account, cookie>>

\* The row, if its id is still in use, with other values.
Update(i, row) == IF i \in Ids(request)
                    THEN request' = Put(request, i, row)
                    ELSE UNCHANGED request

Delete(i) == /\ request' = Drop(request, {i})
             /\ guesses' = [guesses EXCEPT ![i] = 0]

CommitPurge(w) ==
    /\ Commit(w, "purge")
    /\ Delete(job[w].id)
    /\ UNCHANGED <<account, cookie, proved>>

\* Mutant: the attempt is not counted.
CommitMiss_Uncounted(w) ==
    /\ Commit(w, "miss")
    /\ LET i == job[w].id
       IN Update(i, [request[i] EXCEPT !.attempts = job[w].seen])
    /\ UNCHANGED <<account, cookie, guesses, proved>>

\* A wrong code writes the count that was read, plus one.
CommitMiss(w) ==
    /\ Commit(w, "miss")
    /\ LET i == job[w].id
       IN Update(i, [request[i] EXCEPT !.attempts = job[w].seen + 1])
    /\ UNCHANGED <<account, cookie, guesses, proved>>

\* The right code gives the row another 24 hours and marks the cookie.
CommitPass(w) ==
    /\ Commit(w, "pass")
    /\ LET i == job[w].id
       IN /\ Update(i, [request[i] EXCEPT !.expired = FALSE])
          /\ IF i \in Ids(request)
               THEN Answer(job[w].b, [id |-> i, verified |-> TRUE])
               ELSE UNCHANGED cookie
    /\ UNCHANGED <<account, guesses, proved>>

\* resend_verification: a new code, 30 more minutes and no attempts.  The ORM
\* writes the count only if the one it read was not 0.
LoadResend(w, b) ==
    /\ Holds(b)
    /\ Begin(w, [k |-> "resend", id |-> cookie[b].id, reset |-> Row(b).attempts # 0])
    /\ UNCHANGED <<request, account, cookie, guesses, proved>>

CommitResend(w) ==
    /\ Commit(w, "resend")
    /\ LET i == job[w].id
           r == request[i]
       IN /\ Update(i, [r EXCEPT !.expired = FALSE,
                                 !.attempts = IF job[w].reset THEN 0 ELSE @])
          /\ guesses' = [guesses EXCEPT ![i] = IF i \in Ids(request) THEN 0
                                                                     ELSE @]
    /\ UNCHANGED <<account, cookie, proved>>

-----------------------------------------------------------------------------
\* Mutant: the page is open to every browser that has a registration.
MayRequest_Anyone(b) == Holds(b)

\* register_realms looks at the two cookie values and for the row.
MayRequest(b) == Holds(b) /\ cookie[b].verified

\* finalize_registration_with_realms looks neither at the expiry nor at what
\* was verified: it copies the row ...
LoadSubmit(w, b) ==
    /\ MayRequest(b)
    /\ Begin(w, [k |-> "submit", b |-> b, id |-> cookie[b].id,
                 email |-> Row(b).email])
    /\ UNCHANGED <<request, account, cookie, guesses, proved>>

\* ... into an account, unless the address has one by now, and deletes the
\* row in the same transaction.
CommitSubmit(w) ==
    /\ Commit(w, "submit")
    /\ LET j == job[w]
       IN IF j.email \in account
            THEN UNCHANGED <<request, account, cookie, guesses>>
            ELSE /\ account' = account \cup {j.email}
                 /\ Delete(j.id)
                 /\ Answer(j.b, Fresh)
    /\ UNCHANGED proved

-----------------------------------------------------------------------------
\* The row's verification_expires_at passes.
Expire(i) ==
    /\ i \in Ids(request)
    /\ ~request[i].expired
    /\ request' = [request EXCEPT ![i].expired = TRUE]
    /\ UNCHANGED <<account, cookie, job, guesses, proved>>

Handle(w) == \/ CommitRegister(w) \/ CommitPurge(w) \/ CommitMiss(w)
             \/ CommitPass(w) \/ CommitResend(w) \/ CommitSubmit(w)

Next == \/ \E w \in Workers, b \in Browsers :
             \/ \E e \in Emails : LoadRegister(w, b, e)
             \/ \E right \in BOOLEAN : Verify(w, b, right)
             \/ LoadResend(w, b)
             \/ LoadSubmit(w, b)
        \/ \E w \in Workers : Handle(w)
        \/ \E b \in Browsers : Forget(b)
        \/ \E i \in RequestIds : Expire(i)

Spec == Init /\ [][Next]_vars

-----------------------------------------------------------------------------
\* Every variable has its type; the attempts never pass the limit that the
\* CHECK constraint of the table sets.
TypeOK ==
    /\ IsTable(request, RequestIds, Rows)
    /\ account \in SUBSET Emails
    /\ cookie \in [Browsers -> Cookies]
    /\ job \in [Workers -> Job]
    /\ guesses \in [RequestIds -> 0 .. MaxGuesses + 1]
    /\ proved \in SUBSET Browsers

\* Two forms with the same address may pass the checks together, but only
\* one of them becomes a request (register_account, UNIQUE email).
OneRequestPerEmail ==
    \A i, j \in Ids(request) : request[i].email = request[j].email => i = j

\* Concurrent wrong codes lose increments, and a write that was held up may
\* even unlock a row, but the wrong guesses at one code are fewer than the
\* ladders on which the workers can stand: every write is above the value it
\* read (verify_registration).
GuessesBounded == \A i \in RequestIds : guesses[i] <= MaxGuesses

\* Whoever submits an account has entered some right code, whichever requests
\* and cookies of the browser overtook each other (register_realms).
SubmitterProved ==
    [][\A w \in Workers :
          CommitSubmit(w) /\ account' # account => job[w].b \in proved]_vars

=============================================================================

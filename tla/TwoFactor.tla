----------------------------- MODULE TwoFactor -----------------------------
(***************************************************************************)
(* The second login step of one account: codes sent by mail, codes of an   *)
(* authenticator (TOTP) and one-time recovery codes, on the account portal *)
(* (verify_2fa) and, for an administrator, on the admin portal             *)
(* (admin.login_2fa).                                                      *)
(*                                                                         *)
(* Each of the two failure counters is one row of the settings table, a    *)
(* JSON value that is read, incremented in Python and written back.  The   *)
(* recovery codes are one JSON column of the account row, read with the    *)
(* account and written back without the spent code.  The handler has the   *)
(* account before it looks at the two locks; here the list is read in the  *)
(* step that looks at the second one, and what CodeAcceptedFew says of     *)
(* lists that are out of date depends on neither lock.                     *)
(*                                                                         *)
(* The mailed code lives in the signed cookie of the browser that asked    *)
(* for it, so a request is reduced to its method and whether its code is   *)
(* right.  A request without a pending code, or with an expired one, and   *)
(* the page of the admin portal before a code is sent, do to the state     *)
(* below what a wrong TOTP code on the account portal does.                *)
(***************************************************************************)
EXTENDS LostUpdates

CONSTANTS Workers,      \* worker threads of all gunicorn processes
          Codes,        \* recovery codes ever generated
          TfaMax,       \* TFA_MAX_ATTEMPTS
          RecoveryMax   \* RECOVERY_CODE_MAX_ATTEMPTS

ASSUME LimitsAssumption == /\ {TfaMax, RecoveryMax} \subseteq Nat \ {0}
                           /\ IsFiniteSet(Codes) /\ IsFiniteSet(Workers)

VARIABLES count,    \* the counters' settings rows, 0 for no row
          old,      \* the row's last_failure is 30 minutes ago
          stored,   \* recovery codes on the account row
          issued,   \* ghost: recovery codes generated so far
          job,      \* what each worker is about to do
          tries,    \* ghost: wrong codes since the last login or lapse
          accepted  \* ghost: how often each recovery code was accepted

vars == <<count, old, stored, issued, job, tries, accepted>>

Counters == {"tfa", "recovery"}
Limit(c) == IF c = "tfa" THEN TfaMax ELSE RecoveryMax

\* Bounds: how many wrong codes the workers let pass (WrongCodesBounded), and
\* one more, where the counters of the model stop counting.
MaxWrong == [c \in Counters |-> Changes(Limit(c), Cardinality(Workers))]
Cap(c) == MaxWrong[c] + 1
UpTo(n, c) == IF n < Cap(c) THEN n ELSE Cap(c)

\* is_2fa_locked and is_recovery_code_locked.
Locked(c) == count[c] >= Limit(c) /\ ~old[c]

\* purge: has read a last failure of 30 minutes ago and is about to delete the
\* row; recover: is about to look at the lock of the recovery codes.
Idle == [k |-> "idle"]
Job == {Idle, [k |-> "login"], [k |-> "recover"]}
         \cup [k : {"refused"}, c : Counters, recovery : BOOLEAN]
         \cup [k : {"purge"}, c : {"tfa"}, m : {"code", "totp", "recovery"}]
         \cup [k : {"purge"}, c : {"recovery"}, m : {"recovery"}]
         \cup [k : {"fail"}, c : Counters]
         \cup (UNION {[k : {"write"}, c : {c}, seen : 0 .. Cap(c)] : c \in Counters})
         \cup [k : {"spend"}, code : Codes, rest : SUBSET Codes]

Do(w, j) == job' = [job EXCEPT ![w] = j]

\* One more wrong code.
Tried(c) == tries' = [tries EXCEPT ![c] = UpTo(@ + 1, c)]

Init == /\ count = [c \in Counters |-> 0]
        /\ old = [c \in Counters |-> FALSE]
        /\ stored = {}
        /\ issued = {}
        /\ job = [w \in Workers |-> Idle]
        /\ tries = [c \in Counters |-> 0]
        /\ accepted = [c \in Codes |-> 0]

-----------------------------------------------------------------------------
\* A mailed code, or a TOTP code on the admin portal, where a wrong one
\* counts as well.
CompareCode(w, right) ==
    IF right THEN Do(w, [k |-> "login"]) /\ UNCHANGED tries
             ELSE Do(w, [k |-> "fail", c |-> "tfa"]) /\ Tried("tfa")

\* A TOTP code on the account portal: a wrong one is logged, not counted.
CompareTotp(w, right) ==
    /\ Do(w, IF right THEN [k |-> "login"] ELSE Idle)
    /\ UNCHANGED tries

\* A recovery code, on either portal.
CompareRecovery(w, code) ==
    IF code \in stored
      THEN /\ Do(w, [k |-> "spend", code |-> code, rest |-> stored \ {code}])
           /\ UNCHANGED tries
      ELSE Do(w, [k |-> "fail", c |-> "recovery"]) /\ Tried("recovery")

\* is_2fa_locked and is_recovery_code_locked, where they end the request or
\* find a lockout that is over.
Refuse(w, c, recovery) ==
    /\ Locked(c)
    /\ Do(w, [k |-> "refused", c |-> c, recovery |-> recovery])
    /\ UNCHANGED tries
FindLapsed(w, c, m) ==
    /\ old[c]
    /\ Do(w, [k |-> "purge", c |-> c, m |-> m])
    /\ UNCHANGED tries
Open(c) == ~Locked(c) /\ ~old[c]

\* Mutant: the lock is not looked at before a mailed code is compared.
EnterCode_IgnoresLock(w, right) ==
    /\ job[w] = Idle
    /\ \/ FindLapsed(w, "tfa", "code")
       \/ ~old["tfa"] /\ CompareCode(w, right)
    /\ UNCHANGED <<count, old, stored, issued, accepted>>

\* Mutant: a refused request counts as a failure.
EnterCode_CountsRefused(w, right) ==
    /\ job[w] = Idle
    /\ \/ /\ Locked("tfa")
          /\ Do(w, [k |-> "fail", c |-> "tfa"])
          /\ UNCHANGED tries
       \/ FindLapsed(w, "tfa", "code")
       \/ Open("tfa") /\ CompareCode(w, right)
    /\ UNCHANGED <<count, old, stored, issued, accepted>>

EnterCode(w, right) ==
    /\ job[w] = Idle
    /\ \/ Refuse(w, "tfa", FALSE)
       \/ FindLapsed(w, "tfa", "code")
       \/ Open("tfa") /\ CompareCode(w, right)
    /\ UNCHANGED <<count, old, stored, issued, accepted>>

EnterTotp(w, right) ==
    /\ job[w] = Idle
    /\ \/ Refuse(w, "tfa", FALSE)
       \/ FindLapsed(w, "tfa", "totp")
       \/ Open("tfa") /\ CompareTotp(w, right)
    /\ UNCHANGED <<count, old, stored, issued, accepted>>

\* The lock of the other codes is looked at first.
EnterRecovery(w) ==
    /\ job[w] = Idle
    /\ \/ Refuse(w, "tfa", TRUE)
       \/ FindLapsed(w, "tfa", "recovery")
       \/ Open("tfa") /\ Do(w, [k |-> "recover"]) /\ UNCHANGED tries
    /\ UNCHANGED <<count, old, stored, issued, accepted>>

Recover(w, code) ==
    /\ job[w].k = "recover"
    /\ \/ Refuse(w, "recovery", TRUE)
       \/ FindLapsed(w, "recovery", "recovery")
       \/ Open("recovery") /\ CompareRecovery(w, code)
    /\ UNCHANGED <<count, old, stored, issued, accepted>>

\* Settings.delete looks the row up again and deletes it, whoever has written
\* it meanwhile, and the request goes on as if there had been no failures.
Purge(w, right, code) ==
    /\ job[w].k = "purge"
    /\ LET c == job[w].c
           m == job[w].m
       IN /\ count' = [count EXCEPT ![c] = 0]
          /\ old' = [old EXCEPT ![c] = FALSE]
          /\ \/ m = "code" /\ CompareCode(w, right)
             \/ m = "totp" /\ CompareTotp(w, right)
             \/ /\ m = "recovery" /\ c = "tfa"
                /\ Do(w, [k |-> "recover"])
                /\ UNCHANGED tries
             \/ c = "recovery" /\ CompareRecovery(w, code)
    /\ UNCHANGED <<stored, issued, accepted>>

Refused(w) ==
    /\ job[w].k = "refused"
    /\ Do(w, Idle)
    /\ UNCHANGED <<count, old, stored, issued, tries, accepted>>

\* increment_2fa_failures and increment_recovery_code_failures: Settings.get ...
ReadCount(w) ==
    /\ job[w].k = "fail"
    /\ Do(w, [k |-> "write", c |-> job[w].c, seen |-> count[job[w].c]])
    /\ UNCHANGED <<count, old, stored, issued, tries, accepted>>

\* Mutant: the counter goes down, as if it held the attempts that are left.
WriteCount_CountsDown(w) ==
    /\ job[w].k = "write"
    /\ count' = [count EXCEPT ![job[w].c] = job[w].seen - 1]
    /\ old' = [old EXCEPT ![job[w].c] = FALSE]
    /\ Do(w, Idle)
    /\ UNCHANGED <<stored, issued, tries, accepted>>

\* ... and Settings.set, which updates the row or inserts one.  When another
\* request inserted or deleted the row meanwhile, the flush may also fail
\* (UNIQUE constraint, StaleDataError) and the request ends in an error.
WriteCount(w) ==
    /\ job[w].k = "write"
    /\ LET c == job[w].c
           n == job[w].seen + 1
       IN \/ /\ count' = [count EXCEPT ![c] = UpTo(n, c)]
             /\ old' = [old EXCEPT ![c] = FALSE]
          \/ /\ (job[w].seen = 0) # (count[c] = 0)
             /\ UNCHANGED <<count, old>>
    /\ Do(w, Idle)
    /\ UNCHANGED <<stored, issued, tries, accepted>>

\* One more login with the code, up to more than there can be, which are one
\* more than there are codes for two workers.
Most == Cardinality(Ladders(Cardinality(Codes), Cardinality(Workers) - 1))
Accept(code) ==
    accepted' = [accepted EXCEPT ![code] = IF @ <= Most THEN @ + 1 ELSE @]

\* Mutant: the code is accepted and stays on the account row.
SpendCode_Keeps(w) ==
    /\ job[w].k = "spend"
    /\ Accept(job[w].code)
    /\ Do(w, [k |-> "login"])
    /\ UNCHANGED <<count, old, stored, issued, tries>>

\* verify_recovery_code commits the list it loaded, without the code.
SpendCode(w) ==
    /\ job[w].k = "spend"
    /\ stored' = job[w].rest
    /\ Accept(job[w].code)
    /\ Do(w, [k |-> "login"])
    /\ UNCHANGED <<count, old, issued, tries>>

\* Both counters are deleted before the session is created.
Login(w) ==
    /\ job[w].k = "login"
    /\ count' = [c \in Counters |-> 0]
    /\ old' = [c \in Counters |-> FALSE]
    /\ tries' = [c \in DOMAIN tries |-> 0]
    /\ Do(w, Idle)
    /\ UNCHANGED <<stored, issued, accepted>>

\* The user, logged in elsewhere, asks for a fresh set.
RegenerateCodes(w, S) ==
    /\ job[w] = Idle
    /\ S # {}
    /\ S \cap issued = {}
    /\ stored' = S
    /\ issued' = issued \cup S
    /\ UNCHANGED <<count, old, job, tries, accepted>>

\* 30 minutes pass since the last failure was written.  No request is served
\* that long (gunicorn kills it after 120 seconds), so none that is about to
\* count a failure, or to delete the row, spans the lapse.
Lapse(c) ==
    /\ count[c] > 0
    /\ ~old[c]
    /\ \A w \in Workers : job[w].k \in {"fail", "write", "purge"} => job[w].c # c
    /\ old' = [old EXCEPT ![c] = TRUE]
    /\ tries' = [tries EXCEPT ![c] = 0]
    /\ UNCHANGED <<count, stored, issued, job, accepted>>

Handle(w) == \/ \E code \in Codes : Recover(w, code)
             \/ \E right \in BOOLEAN, code \in Codes : Purge(w, right, code)
             \/ Refused(w) \/ ReadCount(w) \/ WriteCount(w) \/ SpendCode(w)
             \/ Login(w)

Next == \/ \E w \in Workers : \/ \E right \in BOOLEAN : EnterCode(w, right)
                              \/ \E right \in BOOLEAN : EnterTotp(w, right)
                              \/ EnterRecovery(w)
                              \/ \E S \in SUBSET Codes : RegenerateCodes(w, S)
                              \/ Handle(w)
        \/ \E c \in Counters : Lapse(c)

Spec == Init /\ [][Next]_vars

\* A worker finishes a request it has begun, and time passes.
FairSpec == /\ Spec
            /\ \A w \in Workers : WF_vars(Handle(w))
            /\ \A c \in Counters : WF_vars(Lapse(c))

-----------------------------------------------------------------------------
\* Every variable has its type: the counters stay in their bound, and a
\* recovery code on the row was generated before.
TypeOK ==
    /\ count \in [Counters -> Nat]
    /\ \A c \in Counters : count[c] <= Cap(c)
    /\ old \in [Counters -> BOOLEAN]
    /\ stored \in SUBSET issued
    /\ issued \in SUBSET Codes
    /\ job \in [Workers -> Job]
    /\ tries \in [Counters -> Nat]
    /\ \A c \in DOMAIN tries : tries[c] <= Cap(c)
    /\ accepted \in [Codes -> 0 .. Most + 1]

\* Workers may accept a code more than once, because one of them writes back a
\* list in which it is still there, but each time at the price of another
\* code: it logs in at most once for each of the ladders on which all workers
\* but one can stand, with a level for each code (verify_recovery_code).
CodeAcceptedFew == \A code \in Codes : accepted[code] <= Most

\* Concurrent requests cost the counter some failures, but not all of them: of
\* the codes that count, no more wrong ones are let pass between two logins or
\* lapses than there are steps from ladder to ladder.  Every write is above the
\* value it read; and the row may be deleted once more by every worker that has
\* found the lapse, but each can do so once and adds no failures before
\* (increment_2fa_failures, get_2fa_failure_count).  Nothing bounds wrong TOTP
\* codes on the account portal, which do not count.
WrongCodesBounded ==
    \A c \in Counters : tries[c] <= MaxWrong[c]

\* A lock ends: its 30 minutes pass, because requests that meet it write no
\* new failure time (get_2fa_failure_count).
LockEnds == \A c \in Counters : Locked(c) ~> ~Locked(c)

=============================================================================

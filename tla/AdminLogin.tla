----------------------------- MODULE AdminLogin -----------------------------
(***************************************************************************)
(* The login of one administrator and what it depends on: user name and    *)
(* password, a record of failed attempts that locks the name for 15        *)
(* minutes, the mailed code, of which one is sent per interval and         *)
(* address, and the pages with which the administrator sets up a second    *)
(* factor or takes it back, in either portal.                              *)
(*                                                                         *)
(* The record is one JSON value of the settings table: a failed attempt    *)
(* reads it, changes it in Python and writes it back, a success overwrites *)
(* it with null.  The time of the last mail is another value, looked at    *)
(* before the code is sent and written after it was sent.  A page that     *)
(* changes the account reads the row first; its commit writes the columns  *)
(* that differ from what was read.                                         *)
(*                                                                         *)
(* Cookies hold the login's progress and are never taken back: whoever has *)
(* one may use it again.  Left out: the count of wrong codes and recovery  *)
(* codes (TwoFactor), Telegram as a second factor, a disabled account, and *)
(* reset links, which need an address that works and end a forced change.  *)
(*                                                                         *)
(* Bound: a behaviour has wrong passwords, for an account with mailed      *)
(* codes, or changes of the account.  No step reads the record and the     *)
(* account.                                                                *)
(***************************************************************************)
EXTENDS LostUpdates

CONSTANTS Workers,    \* worker threads of all gunicorn processes
          Threshold   \* FAILED_LOGIN_LOCKOUT_THRESHOLD

ASSUME ThresholdAssumption == Threshold \in Nat \ {0}
ASSUME WorkersAssumption == IsFiniteSet(Workers)

VARIABLES count,   \* the record's count, 0 for no record
          lock,    \* its lockout_until: "none", still "on", or "over"
          recent,  \* last_sent_at is less than the interval ago
          account, \* the administrator's row: an address that works (not the
                   \* placeholder admin@localhost), email_2fa_enabled,
                   \* must_change_password, totp_enabled, totp_secret
          out,     \* kinds of cookies browsers hold: password accepted, code
                   \* mailed, administrator, unsaved authenticator secret, and
                   \* the account portal's session
          job,     \* what each worker does next
          tries,   \* ghost: wrong passwords since the last success or lapse
          mails,   \* ghost: codes mailed in this interval
          guessing,\* bound: wrong passwords are entered, or the account changed
          bare     \* ghost: sessions opened with the password alone since a
                   \* second factor is usable

lockVars == <<count, lock, tries>>
mailVars == <<recent, mails>>
userVars == <<account, out, guessing, bare>>
vars == <<count, lock, recent, account, out, guessing, job, tries, mails, bare>>

\* Bounds: how many wrong passwords the workers let pass (GuessesBounded), which
\* are Threshold * (Threshold + 3) / 2 for two, and where the model stops
\* counting.
MaxWrong == Cardinality(Ladders(Threshold, Cardinality(Workers))) - 1
UpTo(n) == IF n <= MaxWrong THEN n ELSE MaxWrong + 1

AccountRow == [mail : BOOLEAN, mail2fa : BOOLEAN, must : BOOLEAN, totp : BOOLEAN, secret : BOOLEAN]
Cookies == {"pending", "code", "admin", "secret", "portal"}
Locks == {"none", "on", "over"}
Idle == [k |-> "idle"]
Job == {Idle}
    \cup [k : {"fail", "clear", "check", "send", "mark"}]
    \cup [k : {"write"}, seen : 0 .. MaxWrong + 1]
    \cup [k : {"grant"}]
    \cup [k : {"force"}, must : BOOLEAN]
    \cup [k : {"change"}, mail : BOOLEAN, mail2fa : BOOLEAN, must : BOOLEAN]
    \cup [k : {"enable"}, totp : BOOLEAN]
    \cup [k : {"disable"}, totp : BOOLEAN, secret : BOOLEAN]

Do(w, j) == job' = [job EXCEPT ![w] = j]

Init == /\ count = 0
        /\ lock = "none"
        /\ recent = FALSE
        /\ account \in {r \in AccountRow : ~r.totp /\ ~r.secret}
        /\ out = {}
        /\ guessing \in IF account.mail /\ account.mail2fa /\ ~account.must THEN BOOLEAN ELSE {FALSE}
        /\ job = [w \in Workers |-> Idle]
        /\ tries = 0
        /\ mails = 0
        /\ bare = 0

-----------------------------------------------------------------------------
\* Mutant: the lock is not looked at.
EnterPassword_IgnoresLock(w, right) ==
    /\ job[w] = Idle
    /\ right \/ guessing
    /\ IF right
         THEN Do(w, [k |-> "clear"]) /\ UNCHANGED tries
         ELSE Do(w, [k |-> "fail"]) /\ tries' = UpTo(tries + 1)
    /\ UNCHANGED <<count, lock, mailVars, userVars>>

\* Mutant: an attempt that meets the lock is one more failure.
EnterPassword_CountsRefused(w, right) ==
    /\ job[w] = Idle
    /\ right \/ guessing
    /\ IF right /\ lock # "on"
         THEN Do(w, [k |-> "clear"]) /\ UNCHANGED tries
         ELSE /\ Do(w, [k |-> "fail"])
              /\ tries' = IF lock = "on" THEN tries ELSE UpTo(tries + 1)
    /\ UNCHANGED <<count, lock, mailVars, userVars>>

\* A password for a name that _check_account_lockout does not find locked.
EnterPassword(w, right) ==
    /\ job[w] = Idle
    /\ lock # "on"
    /\ right \/ guessing
    /\ IF right
         THEN Do(w, [k |-> "clear"]) /\ UNCHANGED tries
         ELSE Do(w, [k |-> "fail"]) /\ tries' = UpTo(tries + 1)
    /\ UNCHANGED <<count, lock, mailVars, userVars>>

\* _track_failed_login reads the record, and starts anew after a lockout ...
ReadRecord(w) ==
    /\ job[w].k = "fail"
    /\ Do(w, [k |-> "write", seen |-> IF lock = "over" THEN 0 ELSE count])
    /\ UNCHANGED <<lockVars, mailVars, userVars>>

\* ... and writes it with one more failure, locked from the threshold on.  A
\* second insertion of the row fails (UNIQUE key), and set_setting then writes
\* the row that is there.
WriteRecord(w) ==
    /\ job[w].k = "write"
    /\ count' = UpTo(job[w].seen + 1)
    /\ lock' = IF count' >= Threshold THEN "on" ELSE "none"
    /\ Do(w, Idle)
    /\ UNCHANGED <<tries, mailVars, userVars>>

Holds(c) == out' = out \cup {c}

\* What login does with the row after the right password: a session at once if
\* there is no second factor (has_2fa_enabled) or none that can be used yet, the
\* choice of a method if there is an authenticator, else the mailed code.
AfterPassword ==
    CASE ~account.mail2fa /\ ~account.totp  -> [k |-> "grant"]
      [] account.mail2fa /\ ~account.mail   -> [k |-> "force", must |-> account.must]
      [] account.totp /\ account.secret     -> Idle
      [] OTHER                              -> [k |-> "check"]

\* _clear_failed_logins commits, and the row is read again.
ClearRecord(w) ==
    /\ job[w].k = "clear"
    /\ count' = 0
    /\ lock' = "none"
    /\ tries' = 0
    /\ Do(w, AfterPassword)
    /\ IF AfterPassword.k \in {"idle", "check"} THEN Holds("pending") ELSE UNCHANGED out
    /\ UNCHANGED <<mailVars, account, guessing, bare>>

\* Mutant: the interval between two mails is not looked at.
CheckInterval_Never(w) ==
    /\ job[w].k = "check"
    /\ Do(w, [k |-> "send"])
    /\ UNCHANGED <<lockVars, mailVars, userVars>>

\* _admin_2fa_email_is_rate_limited.
CheckInterval(w) ==
    /\ job[w].k = "check"
    /\ Do(w, IF recent THEN Idle ELSE [k |-> "send"])
    /\ UNCHANGED <<lockVars, mailVars, userVars>>

\* login_2fa sends a code to whoever chooses that method ...
ChooseMail(w) ==
    /\ job[w] = Idle
    /\ "pending" \in out
    /\ Do(w, [k |-> "check"])
    /\ UNCHANGED <<lockVars, mailVars, userVars>>

\* ... and resend_2fa to whoever asks for another.
AskAgain(w) == ChooseMail(w)

\* The mail server takes the mail, or does not.
SendCode(w) ==
    /\ job[w].k = "send"
    /\ \/ /\ mails' = IF mails <= Cardinality(Workers) THEN mails + 1 ELSE mails
          /\ IF account.mail THEN Holds("code") ELSE UNCHANGED out
          /\ Do(w, [k |-> "mark"])
       \/ Do(w, Idle) /\ UNCHANGED <<mails, out>>
    /\ UNCHANGED <<lockVars, recent, account, guessing, bare>>

\* _admin_2fa_email_mark_sent.
MarkSent(w) ==
    /\ job[w].k = "mark"
    /\ recent' = TRUE
    /\ Do(w, Idle)
    /\ UNCHANGED <<lockVars, mails, userVars>>

-----------------------------------------------------------------------------
\* An authenticator that is set up, or codes to an address that works.
Usable == (account.totp /\ account.secret) \/ (account.mail2fa /\ account.mail)

CountBare == bare' = IF Usable /\ bare <= Cardinality(Workers) THEN bare + 1 ELSE bare

\* _complete_admin_login, after the password alone.
CompleteLogin(w) ==
    /\ job[w].k = "grant"
    /\ Holds("admin")
    /\ CountBare
    /\ Do(w, Idle)
    /\ UNCHANGED <<lockVars, mailVars, account, guessing>>

\* A method of login_2fa with the right code: the mailed one, the
\* authenticator's, or (TwoFactor) a recovery code.
EnterCode ==
    /\ "pending" \in out
    /\ "code" \in out \/ (account.totp /\ account.secret)
    /\ Holds("admin")
    /\ UNCHANGED <<lockVars, mailVars, account, guessing, job, bare>>

\* The session of an administrator whose mail has nowhere to go: the password,
\* and with it the address, has to be changed first.
ForceSetup(w) ==
    /\ job[w].k = "force"
    /\ account' = [account EXCEPT !.must = @ \/ ~job[w].must]
    /\ Holds("admin")
    /\ CountBare
    /\ Do(w, Idle)
    /\ UNCHANGED <<lockVars, mailVars, guessing>>

\* logout leaves the secret of a set-up that was begun.
Logout ==
    /\ "admin" \in out
    /\ out' = out \ {"admin", "pending", "code"}
    /\ UNCHANGED <<lockVars, mailVars, account, guessing, job, bare>>

\* Mutant: require_admin lets whoever must change the password go anywhere.
MayUsePages_Forced == "admin" \in out

\* require_admin, for every page but change_password.
MayUsePages == "admin" \in out /\ ~account.must

-----------------------------------------------------------------------------
(***************************************************************************)
(* The pages that change the second factors                                *)
(***************************************************************************)
Becomes(row) ==
    /\ account' = row
    /\ bare' = IF Usable' THEN bare ELSE 0

Load(w, row) ==
    /\ job[w] = Idle
    /\ Do(w, row)
    /\ UNCHANGED <<lockVars, mailVars, userVars>>

\* change_password asks for an address as long as there is only the placeholder.
LoadChangePassword(w) ==
    /\ ~guessing
    /\ "admin" \in out
    /\ Load(w, [k |-> "change", mail |-> account.mail, mail2fa |-> account.mail2fa, must |-> account.must])

\* An address that is given turns mailed codes on, none turns them off.
CommitChangePassword(w) ==
    /\ job[w].k = "change"
    /\ LET seen == job[w]
       IN \E given \in IF seen.mail THEN {FALSE} ELSE BOOLEAN :
            LET mail2fa == IF seen.mail THEN seen.mail2fa ELSE given
            IN Becomes([account EXCEPT !.must    = @ /\ ~seen.must,
                                       !.mail    = @ \/ given,
                                       !.mail2fa = IF mail2fa = seen.mail2fa THEN @ ELSE mail2fa])
    /\ Do(w, Idle)
    /\ UNCHANGED <<lockVars, mailVars, out, guessing>>

\* Another administrator enters an address (account_change_email).
SetMail ==
    /\ ~guessing
    /\ ~account.mail
    /\ Becomes([account EXCEPT !.mail = TRUE])
    /\ UNCHANGED <<lockVars, mailVars, out, guessing, job>>

\* setup_totp shows a new secret, which the cookie keeps ...
ShowSecret ==
    /\ ~guessing
    /\ MayUsePages
    /\ ~account.totp
    /\ Holds("secret")
    /\ UNCHANGED <<lockVars, mailVars, account, guessing, job, bare>>

EnableTotp(w) == "secret" \in out /\ Load(w, [k |-> "enable", totp |-> account.totp])
DisableTotp(w) == Load(w, [k |-> "disable", totp |-> account.totp, secret |-> account.secret])

\* ... until a code of it is entered.
LoadEnable(w) == MayUsePages /\ EnableTotp(w)

\* The secret is always another one than before.
CommitEnable(w) ==
    /\ job[w].k = "enable"
    /\ Becomes([account EXCEPT !.secret = TRUE, !.totp = @ \/ ~job[w].totp])
    /\ Do(w, Idle)
    /\ UNCHANGED <<lockVars, mailVars, out, guessing>>

\* A code of the authenticator turns it off.
LoadDisable(w) == ~guessing /\ MayUsePages /\ account.secret /\ DisableTotp(w)

\* Columns that were NULL or 0 when the row was read are not written.
CommitDisable(w) ==
    /\ job[w].k = "disable"
    /\ Becomes([account EXCEPT !.secret = @ /\ ~job[w].secret, !.totp = @ /\ ~job[w].totp])
    /\ Do(w, Idle)
    /\ UNCHANGED <<lockVars, mailVars, out, guessing>>

\* The account portal takes the same person's password and code (TwoFactor) ...
EnterPortal ==
    /\ ~guessing
    /\ Usable
    /\ Holds("portal")
    /\ UNCHANGED <<lockVars, mailVars, account, guessing, job, bare>>

\* ... and its setup_totp and disable_2fa know no forced change of the password.
ShowPortalSecret ==
    /\ "portal" \in out
    /\ Holds("secret")
    /\ UNCHANGED <<lockVars, mailVars, account, guessing, job, bare>>

LoadPortalEnable(w) == "portal" \in out /\ EnableTotp(w)

LoadPortalDisable(w) == "portal" \in out /\ DisableTotp(w)

-----------------------------------------------------------------------------
\* 15 minutes pass since the lockout; no request is served that long
\* (gunicorn kills it after 120 seconds).
Lapse ==
    /\ lock = "on"
    /\ \A w \in Workers : job[w].k \notin {"fail", "write"}
    /\ lock' = "over"
    /\ tries' = 0
    /\ UNCHANGED <<count, job, mailVars, userVars>>

\* The interval passes since the last mark.
NextInterval ==
    /\ recent
    /\ recent' = FALSE
    /\ mails' = Cardinality({w \in Workers : job[w].k = "mark"})
    /\ UNCHANGED <<lockVars, job, userVars>>

Handle(w) == \/ ReadRecord(w) \/ WriteRecord(w) \/ ClearRecord(w)
             \/ CheckInterval(w) \/ SendCode(w) \/ MarkSent(w)
             \/ CompleteLogin(w) \/ ForceSetup(w)
             \/ CommitChangePassword(w) \/ CommitEnable(w) \/ CommitDisable(w)

Next == \/ \E w \in Workers : \/ \E right \in BOOLEAN : EnterPassword(w, right)
                              \/ ChooseMail(w) \/ AskAgain(w)
                              \/ LoadChangePassword(w)
                              \/ LoadEnable(w) \/ LoadDisable(w)
                              \/ LoadPortalEnable(w) \/ LoadPortalDisable(w)
                              \/ Handle(w)
        \/ EnterCode \/ Logout \/ EnterPortal \/ ShowSecret \/ ShowPortalSecret \/ SetMail
        \/ Lapse
        \/ NextInterval

Spec == Init /\ [][Next]_vars

\* A worker finishes a request it has begun, and time passes.
FairSpec == Spec /\ (\A w \in Workers : WF_vars(Handle(w))) /\ WF_vars(Lapse)

-----------------------------------------------------------------------------
\* Every variable has its type; a lock has reached the threshold.
TypeOK ==
    /\ count \in 0 .. MaxWrong + 1
    /\ lock \in Locks
    /\ lock # "none" => count >= Threshold
    /\ recent \in BOOLEAN
    /\ job \in [Workers -> Job]
    /\ tries \in 0 .. MaxWrong + 1
    /\ mails \in 0 .. Cardinality(Workers) + 1
    /\ account \in AccountRow
    /\ out \subseteq Cookies
    /\ guessing \in BOOLEAN
    /\ bare \in 0 .. Cardinality(Workers) + 1

\* Failures counted at the same time are lost, and a lock may be written over,
\* but the wrong passwords between two resets of the record are fewer than the
\* ladders on which the workers can stand (_track_failed_login).
GuessesBounded == tries <= MaxWrong

\* However many logins ask for a code at once, an interval sees at most one
\* mail of every worker (_admin_2fa_email_is_rate_limited is checked before
\* the mail, the mark is written after it).
MailsBounded == mails <= Cardinality(Workers)

\* Once a second factor is usable, only the logins that were under way open a
\* session with the password alone, one per worker at most.  The placeholder
\* address, for which login skips even an authenticator that is set up, is no
\* way around it: the forced change of the password closes it before anything
\* can be set up (login, require_admin, change_password).
BareFew == bare <= Cardinality(Workers)

\* A lock ends: attempts that meet it do not prolong it
\* (_check_account_lockout).
LockEnds == lock = "on" ~> lock # "on"
=============================================================================

------------------------------ MODULE Sessions ------------------------------
(***************************************************************************)
(* Sessions of the account portal.  A login creates a row of               *)
(* account_sessions and puts the row's token into the signed cookie; every *)
(* page checks the account, the row and the account's status, and sends    *)
(* the browser back to the login page when one of them fails.              *)
(*                                                                         *)
(* A browser has one tab that navigates and pages that poll in the         *)
(* background with the same cookie.  The session is permanent, so every    *)
(* answer sets the cookie again as its request brought it: an answer that  *)
(* is overtaken by a logout or a login brings the old cookie back.         *)
(*                                                                         *)
(* A worker may be killed, or its commit may fail, while it creates a      *)
(* session.  The commit of a revocation may fail too; a logout goes on as  *)
(* if it had not.  Rows of account_sessions are never deleted; rows of     *)
(* accounts are, and their ids are given out again.                        *)
(***************************************************************************)
EXTENDS Tables, FiniteSets

CONSTANTS Workers,    \* worker threads of all gunicorn processes
          Browsers,   \* browsers, each with one cookie
          MaxAccount, \* bound: accounts rows at one time
          MaxSession  \* bound: account_sessions rows ever

ASSUME SessionsAssumption == {MaxAccount, MaxSession} \subseteq Nat \ {0}

VARIABLES account,  \* the accounts table: whether each row is active
          session,  \* the account_sessions table
          cookie,   \* the signed cookie of each browser, 0 for no value
          at,       \* what the browser's tab shows or fetches
          job,      \* the request each worker handles
          ended     \* ghost: sessions over: revoked, or logged out of with
                    \* no answer under way that could bring the cookie back

vars == <<account, session, cookie, at, job, ended>>

AccountIds == 1 .. MaxAccount
SessionIds == 1 .. MaxSession

\* SESSION_KEY_USER_ID, SESSION_KEY_SESSION_TOKEN (a row stands for its token)
\* and SESSION_KEY_2FA_PENDING.
Cookies == [user : {0} \cup AccountIds, token : {0} \cup SessionIds,
            pending : {0} \cup AccountIds]
Empty == [user |-> 0, token |-> 0, pending |-> 0]

\* "login" and "dashboard" are being redirected to; "form", "code" and
\* "inside" are shown.
Pages == {"login", "form", "code", "dashboard", "inside"}

Idle == [k |-> "idle"]
Job == {Idle}
    \cup [k : {"login", "page", "poll", "enter", "logout"},
          b : Browsers, jar : Cookies]
    \cup [k : {"revoke"}, b : Browsers, jar : Cookies, ids : SUBSET SessionIds]

Begin(w, j) == job[w] = Idle /\ job' = [job EXCEPT ![w] = j]
Ask(w, k, b) == Begin(w, [k |-> k, b |-> b, jar |-> cookie[b]])
Show(b, p) == at' = [at EXCEPT ![b] = p]
Answer(b, jar) == cookie' = [cookie EXCEPT ![b] = jar]

\* A permanent session's cookie is set again by every answer.
Refresh(b, jar) == IF jar.token # 0 THEN Answer(b, jar) ELSE UNCHANGED cookie

Revoke(S) == session' = [s \in Ids(session) |->
                           [session[s] EXCEPT !.live = @ /\ s \notin S]]

\* logout(): when the commit fails, the row stays and the cookie is cleared all
\* the same.
LogOut(b, token) == /\ Revoke({token}) \/ UNCHANGED session
                    /\ Answer(b, Empty)

Init == /\ account = << >>
        /\ session = << >>
        /\ cookie = [b \in Browsers |-> Empty]
        /\ at = [b \in Browsers |-> "login"]
        /\ job = [w \in Workers |-> Idle]
        /\ ended = {}

-----------------------------------------------------------------------------
\* The tab follows a redirect: one request of the tab at a time.
Busy(b) == \E w \in Workers : job[w].k \notin {"idle", "poll"} /\ job[w].b = b

Fetch(w, b) ==
    /\ ~Busy(b)
    /\ \/ at[b] = "login" /\ Ask(w, "login", b)
       \/ at[b] = "dashboard" /\ Ask(w, "page", b)
    /\ UNCHANGED <<account, session, cookie, at, ended>>

\* A page in the background asks for the status of something.
Poll(w, b) ==
    /\ at[b] = "inside"
    /\ ~Busy(b)
    /\ Ask(w, "poll", b)
    /\ UNCHANGED <<account, session, cookie, at, ended>>

\* The login page: a browser whose cookie names a user is taken to be
\* logged in (is_authenticated).
ServeLogin(w) ==
    /\ job[w].k = "login"
    /\ LET b == job[w].b  jar == job[w].jar
       IN /\ Show(b, IF jar.user # 0 THEN "dashboard" ELSE "form")
          /\ Refresh(b, jar)
    /\ job' = [job EXCEPT ![w] = Idle]
    /\ UNCHANGED <<account, session, ended>>

\* Mutant: revoked rows are accepted.
Valid_EvenRevoked(jar) ==
    /\ jar.user \in Ids(account)
    /\ jar.token \in Ids(session)
    /\ session[jar.token].account = jar.user
    /\ account[jar.user]

\* What require_account_auth asks of a cookie.
Valid(jar) ==
    /\ jar.user \in Ids(account)
    /\ jar.token \in Ids(session)
    /\ session[jar.token].account = jar.user
    /\ session[jar.token].live
    /\ account[jar.user]

\* The answer to the tab or to a page in the background.
Answered(w, p) == /\ job[w].k \in {"page", "poll"}
                  /\ IF job[w].k = "page" THEN Show(job[w].b, p)
                                          ELSE UNCHANGED at
                  /\ job' = [job EXCEPT ![w] = Idle]

\* A page behind require_account_auth is shown,
Admit(w) ==
    /\ Answered(w, "inside")
    /\ Valid(job[w].jar)
    /\ Refresh(job[w].b, job[w].jar)
    /\ UNCHANGED <<account, session, ended>>

\* Mutant: a browser with an invalid session is sent there as it is.
Bounce_KeepsCookie(w) ==
    /\ Answered(w, "login")
    /\ job[w].jar.user \in Ids(account)
    /\ ~Valid(job[w].jar)
    /\ Refresh(job[w].b, job[w].jar)
    /\ UNCHANGED <<account, session, ended>>

\* or the browser is logged out and sent to the login page,
Bounce(w) ==
    /\ Answered(w, "login")
    /\ job[w].jar.user \in Ids(account)
    /\ ~Valid(job[w].jar)
    /\ LogOut(job[w].b, job[w].jar.token)
    /\ UNCHANGED <<account, ended>>

\* or, when the account of its cookie is gone, sent there as it is.
BounceAsIs(w) ==
    /\ Answered(w, "login")
    /\ job[w].jar.user \notin Ids(account)
    /\ Refresh(job[w].b, job[w].jar)
    /\ UNCHANGED <<account, session, ended>>

-----------------------------------------------------------------------------
\* login_step1: the right password of an active account; a browser that a
\* background page has made a user again is redirected.
EnterPassword(b, a) ==
    /\ at[b] = "form"
    /\ ~Busy(b)
    /\ \/ /\ cookie[b].user # 0
          /\ Show(b, "dashboard")
          /\ UNCHANGED cookie
       \/ /\ cookie[b].user = 0
          /\ a \in Ids(account)
          /\ account[a]
          /\ Answer(b, [cookie[b] EXCEPT !.pending = a])
          /\ Show(b, "code")
    /\ UNCHANGED <<account, session, job, ended>>

\* The second factor is right (TwoFactor models when it is).
EnterCode(w, b) ==
    /\ at[b] = "code"
    /\ ~Busy(b)
    /\ Ask(w, "enter", b)
    /\ UNCHANGED <<account, session, cookie, at, ended>>

\* No pending login, or none of an existing account: back to the start.
RejectEnter(w) ==
    /\ job[w].k = "enter"
    /\ job[w].jar.pending \notin Ids(account)
    /\ Answer(job[w].b, IF job[w].jar.pending = 0 THEN job[w].jar ELSE Empty)
    /\ Show(job[w].b, "login")
    /\ job' = [job EXCEPT ![w] = Idle]
    /\ UNCHANGED <<account, session, ended>>

\* The row of the new session, with the row of the cookie's old one revoked.
NewSession(jar, s) ==
    session' = [i \in Ids(session) \cup {s} |->
                  IF i = s THEN [account |-> jar.pending, live |-> TRUE]
                  ELSE [session[i] EXCEPT !.live = @ /\ i # jar.token]]

\* Mutant: the token goes into the cookie before the row is committed.
CommitEnter_CookieFirst(w) ==
    /\ job[w].k = "enter"
    /\ job[w].jar.pending \in Ids(account)
    /\ LET b == job[w].b  jar == job[w].jar
       IN \E s \in SessionIds :
            /\ NextRowId(session, s)
            /\ \/ NewSession(jar, s)
               \/ UNCHANGED session
            /\ Answer(b, [user |-> jar.pending, token |-> s, pending |-> 0])
            /\ Show(b, "dashboard")
    /\ job' = [job EXCEPT ![w] = Idle]
    /\ UNCHANGED <<account, ended>>

\* create_session.  When the commit fails, the exception leaves a cookie with
\* the user and whatever token it had; the browser sees an error and goes on
\* to the dashboard.  When the worker is killed after the commit, the row is
\* there and the browser has nothing of it.
CommitEnter(w) ==
    /\ job[w].k = "enter"
    /\ job[w].jar.pending \in Ids(account)
    /\ LET b == job[w].b
           jar == job[w].jar
           logIn(token) == /\ Answer(b, [user |-> jar.pending, token |-> token,
                                         pending |-> 0])
                           /\ Show(b, "dashboard")
       IN \/ \E s \in SessionIds :
               /\ NextRowId(session, s)
               /\ NewSession(jar, s)
               /\ \/ logIn(s)
                  \/ Show(b, "login") /\ UNCHANGED cookie
          \/ logIn(jar.token) /\ UNCHANGED session
    /\ job' = [job EXCEPT ![w] = Idle]
    /\ UNCHANGED <<account, ended>>

-----------------------------------------------------------------------------
\* The tab asks to log out, wherever it is.
AskLogout(w, b) ==
    /\ at[b] \in {"inside", "dashboard", "login"}
    /\ ~Busy(b)
    /\ Ask(w, "logout", b)
    /\ UNCHANGED <<account, session, cookie, at, ended>>

\* Another request of the browser is under way with the same cookie.
Returning(w, s) == \E v \in Workers \ {w} : job[v] # Idle /\ job[v].jar.token = s

\* account_logout: the user is told so, whatever became of the row.
Logout(w) ==
    /\ job[w].k = "logout"
    /\ LET b == job[w].b  token == job[w].jar.token
       IN /\ LogOut(b, token)
          /\ Show(b, "login")
          /\ ended' = ended \cup {s \in {token} \ {0} : ~session'[s].live \/ ~Returning(w, s)}
    /\ job' = [job EXCEPT ![w] = Idle]
    /\ UNCHANGED account

\* revoke_session and revoke_all_sessions read the rows they will revoke ...
LoadRevoke(w, b) ==
    /\ at[b] = "inside"
    /\ ~Busy(b)
    /\ LET jar == cookie[b]
           mine == {s \in Ids(session) : /\ session[s].account = jar.user
                                         /\ session[s].live}
       IN /\ Valid(jar)
          /\ \E S \in {{s} : s \in mine} \cup {mine \ {jar.token}} :
               /\ S # {}
               /\ Begin(w, [k |-> "revoke", b |-> b, jar |-> jar, ids |-> S])
    /\ UNCHANGED <<account, session, cookie, at, ended>>

\* ... and revoke them; revoking the own session logs out.  When the commit
\* fails, the user sees an error.
CommitRevoke(w) ==
    /\ job[w].k = "revoke"
    /\ LET b == job[w].b  jar == job[w].jar
       IN \/ /\ Revoke(job[w].ids)
             /\ ended' = ended \cup job[w].ids
             /\ IF jar.token \in job[w].ids
                  THEN Answer(b, Empty) /\ Show(b, "login")
                  ELSE Refresh(b, jar) /\ UNCHANGED at
          \/ /\ Refresh(b, jar)
             /\ UNCHANGED <<session, ended, at>>
    /\ job' = [job EXCEPT ![w] = Idle]
    /\ UNCHANGED account

-----------------------------------------------------------------------------
\* An administrator creates, enables, disables or deletes an account.
CreateAccount(a) ==
    /\ a \in AccountIds
    /\ NextRowId(account, a)
    /\ account' = Put(account, a, TRUE)
    /\ UNCHANGED <<session, cookie, at, job, ended>>

SetActive(a) ==
    /\ a \in Ids(account)
    /\ account' = [account EXCEPT ![a] = ~@]
    /\ UNCHANGED <<session, cookie, at, job, ended>>

DeleteAccount(a) ==
    /\ a \in Ids(account)
    /\ account' = Drop(account, {a})
    /\ UNCHANGED <<session, cookie, at, job, ended>>

Handle(w) == \/ ServeLogin(w) \/ Admit(w) \/ Bounce(w) \/ BounceAsIs(w)
             \/ RejectEnter(w) \/ CommitEnter(w) \/ Logout(w) \/ CommitRevoke(w)

Next == \/ \E w \in Workers, b \in Browsers :
             \/ Fetch(w, b) \/ Poll(w, b) \/ EnterCode(w, b)
             \/ AskLogout(w, b) \/ LoadRevoke(w, b)
        \/ \E b \in Browsers, a \in AccountIds : EnterPassword(b, a)
        \/ \E w \in Workers : Handle(w)
        \/ \E a \in AccountIds : \/ CreateAccount(a) \/ SetActive(a)
                                 \/ DeleteAccount(a)

Spec == Init /\ [][Next]_vars

\* A worker answers what it has begun.  A browser follows its redirects at
\* once, and the listen queue gives each waiting request a worker in turn.
FairSpec == /\ Spec
            /\ \A w \in Workers : WF_vars(Handle(w))
            /\ \A b \in Browsers : SF_vars(\E w \in Workers : Fetch(w, b))

-----------------------------------------------------------------------------
\* Every variable has its type.
TypeOK ==
    /\ IsTable(account, AccountIds, BOOLEAN)
    /\ IsTable(session, SessionIds, [account : AccountIds, live : BOOLEAN])
    /\ cookie \in [Browsers -> Cookies]
    /\ at \in [Browsers -> Pages]
    /\ job \in [Workers -> Job]
    /\ ended \in SUBSET SessionIds

\* A token in a cookie, or on its way into one, has its row, whatever fails
\* or is killed while a session is created (create_session).
CookieHasRow ==
    /\ \A b \in Browsers : cookie[b].token \in {0} \cup Ids(session)
    /\ \A w \in Workers :
          job[w] # Idle => job[w].jar.token \in {0} \cup Ids(session)

\* A session that its user has logged out of, or has signed out from another
\* browser, shows no page again, though an answer that was under way brings
\* its cookie back.  Where the commit of a logout failed it may do so, but
\* only if such an answer was under way at the logout (logout,
\* revoke_all_sessions, require_account_auth).
EndedStaysOut ==
    [][\A w \in Workers : Admit(w) => job[w].jar.token \notin ended]_vars

\* The redirects between the login page and the pages behind it come to an
\* end, unless the cookie names an account that is gone
\* (require_account_auth, login).
Gone(b) == cookie[b].user # 0 /\ cookie[b].user \notin Ids(account)
RedirectsEnd ==
    \A b \in Browsers : at[b] \in {"login", "dashboard"} ~>
                          at[b] \in {"form", "inside"} \/ Gone(b)

=============================================================================

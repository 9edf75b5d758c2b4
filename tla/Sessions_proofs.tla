-------------------------- MODULE Sessions_proofs --------------------------
(***************************************************************************)
(* Theorems about Sessions, for any workers, browsers, accounts and        *)
(* sessions: types; a token that a browser holds has its row; and a        *)
(* session that is over lets nobody in.                                    *)
(*                                                                         *)
(* And theorems about Startup, the start of the same workers, for any      *)
(* number of them and of sections: types, one importer at a time, and no   *)
(* configuration lost.                                                     *)
(***************************************************************************)
EXTENDS Sessions, Sequences, FiniteSetTheorems, TLAPS

CONSTANTS Sections, SeedDemo, NoKey, MaxKill
VARIABLES start, seeded, admins, file, bad, settings, platform, persisted, key, kills

\* Sessions has an "at" of its own: the step of a starting worker is start[w].
Up == INSTANCE Startup WITH at <- start

USE DEF Ask, Begin, Show, Answer

LEMMA Bounds == MaxAccount \in Nat /\ MaxSession \in Nat
  BY SessionsAssumption

-----------------------------------------------------------------------------
(***************************************************************************)
(* Cookies, jobs and rows                                                  *)
(***************************************************************************)
\* What a cookie carries.
LEMMA CookieKind ==
    ASSUME NEW jar \in Cookies
    PROVE  /\ jar.user \in {0} \cup AccountIds
           /\ jar.token \in {0} \cup SessionIds
           /\ jar.pending \in {0} \cup AccountIds
           /\ \A a \in AccountIds : [jar EXCEPT !.pending = a] \in Cookies
           /\ \A a \in AccountIds : [jar EXCEPT !.pending = a].token = jar.token
  BY DEF Cookies

LEMMA EmptyIsCookie == Empty \in Cookies /\ Empty.token = 0
  BY DEF Empty, Cookies

\* What a job carries.
LEMMA JobKind ==
    ASSUME NEW j \in Job, j # Idle
    PROVE  /\ j.b \in Browsers
           /\ j.jar \in Cookies
           /\ j.k = "revoke" => j.ids \in SUBSET SessionIds
  BY DEF Job

\* The jobs there are.
LEMMA AskIn ==
    \A k \in {"login", "page", "poll", "enter", "logout"}, b \in Browsers, jar \in Cookies :
       LET j == [k |-> k, b |-> b, jar |-> jar]
       IN j \in Job /\ j.k = k /\ j.b = b /\ j.jar = jar
  BY DEF Job

LEMMA RevokeIn ==
    \A b \in Browsers, jar \in Cookies, S \in SUBSET SessionIds :
       LET j == [k |-> "revoke", b |-> b, jar |-> jar, ids |-> S]
       IN j \in Job /\ j.k = "revoke" /\ j.b = b /\ j.jar = jar /\ j.ids = S
  BY DEF Job

LEMMA IdleIn == Idle \in Job /\ Idle.k = "idle"
  BY DEF Job, Idle

SessionRows == [account : AccountIds, live : BOOLEAN]

LEMMA RowType ==
    ASSUME TypeOK, NEW s \in Ids(session)
    PROVE  /\ s \in SessionIds
           /\ session[s] \in SessionRows
           /\ session[s].live \in BOOLEAN
           /\ \A x \in BOOLEAN : /\ [session[s] EXCEPT !.live = x] \in SessionRows
                                 /\ [session[s] EXCEPT !.live = x].live = x
  BY DEF TypeOK, IsTable, Ids, SessionRows

\* Revoking keeps the rows, and what was revoked before.
LEMMA RevokeType ==
    ASSUME TypeOK, NEW S, Revoke(S)
    PROVE  /\ IsTable(session', SessionIds, SessionRows)
           /\ Ids(session)' = Ids(session)
           /\ \A s \in Ids(session) : session[s].live' = (session[s].live /\ s \notin S)
  <1> DEFINE f == [s \in Ids(session) |-> [session[s] EXCEPT !.live = @ /\ s \notin S]]
  <1>1. session' = f
    BY DEF Revoke
  <1>2. \A s \in Ids(session) : /\ f[s] \in SessionRows
                                /\ f[s].live = (session[s].live /\ s \notin S)
    BY RowType
  <1>3. DOMAIN f = Ids(session)
    OBVIOUS
  <1>4. Ids(session) \subseteq SessionIds
    BY DEF TypeOK, IsTable
  <1>5. f \in [Ids(session) -> SessionRows]
    BY <1>2
  <1> HIDE DEF f
  <1> QED
    BY <1>1, <1>2, <1>3, <1>4, <1>5 DEF IsTable, Ids

\* A new session adds a row, and revives none.
LEMMA NewType ==
    ASSUME TypeOK, NEW jar \in Cookies, jar.pending \in Ids(account), NEW s \in SessionIds,
           NextRowId(session, s), NewSession(jar, s)
    PROVE  /\ IsTable(session', SessionIds, SessionRows)
           /\ Ids(session)' = Ids(session) \cup {s}
           /\ s \notin Ids(session)
           /\ \A i \in Ids(session) : session[i].live' => session[i].live
  <1> DEFINE r == [account |-> jar.pending, live |-> TRUE]
             f == [i \in Ids(session) \cup {s} |->
                     IF i = s THEN r ELSE [session[i] EXCEPT !.live = @ /\ i # jar.token]]
  <1>1. session' = f
    BY DEF NewSession
  <1>2. s \notin Ids(session)
    <2>1. Ids(session) \subseteq Int /\ s \in Int
      BY Bounds DEF TypeOK, IsTable, SessionIds
    <2> QED
      BY <2>1 DEF NextRowId
  <1>3. r \in SessionRows
    BY DEF TypeOK, IsTable, SessionRows
  <1>4. \A i \in Ids(session) :
           LET q == [session[i] EXCEPT !.live = @ /\ i # jar.token]
           IN q \in SessionRows /\ (q.live => session[i].live)
    BY RowType
  <1> HIDE DEF r
  <1>5. \A i \in Ids(session) \cup {s} : f[i] \in SessionRows
    BY <1>3, <1>4
  <1>6. \A i \in Ids(session) : f[i].live => session[i].live
    BY <1>2, <1>4
  <1>7. DOMAIN f = Ids(session) \cup {s} /\ DOMAIN f \subseteq SessionIds
    BY DEF TypeOK, IsTable
  <1>8. f \in [DOMAIN f -> SessionRows]
    BY <1>5
  <1> HIDE DEF f
  <1> QED
    BY <1>1, <1>2, <1>6, <1>7, <1>8 DEF IsTable, Ids

-----------------------------------------------------------------------------
(***************************************************************************)
(* Types                                                                   *)
(***************************************************************************)
LEMMA TypeInit == Init => TypeOK
  <1> SUFFICES ASSUME Init PROVE TypeOK
    OBVIOUS
  <1>1. IsTable(account, AccountIds, BOOLEAN) /\ IsTable(session, SessionIds, SessionRows)
    BY DEF Init, IsTable, Ids
  <1>2. cookie \in [Browsers -> Cookies]
    BY EmptyIsCookie DEF Init
  <1>3. at \in [Browsers -> Pages] /\ job \in [Workers -> Job]
    BY IdleIn DEF Init, Pages
  <1> QED
    BY <1>1, <1>2, <1>3 DEF Init, TypeOK, SessionRows

\* Some changes that keep the types.
LEMMA JobType ==
    ASSUME TypeOK, NEW w \in Workers, NEW j \in Job, job' = [job EXCEPT ![w] = j]
    PROVE  /\ job' \in [Workers -> Job]
           /\ \A v \in Workers : job'[v] = IF v = w THEN j ELSE job[v]
  BY DEF TypeOK

LEMMA CookieType ==
    ASSUME TypeOK, NEW b \in Browsers, NEW jar \in Cookies,
           Answer(b, jar) \/ Refresh(b, jar) \/ UNCHANGED cookie
    PROVE  cookie' \in [Browsers -> Cookies]
  BY DEF TypeOK, Refresh

LEMMA PageType ==
    ASSUME TypeOK, NEW b \in Browsers, NEW p \in Pages, Show(b, p) \/ UNCHANGED at
    PROVE  at' \in [Browsers -> Pages]
  BY DEF TypeOK

\* What the request of a worker that is not idle carries.
LEMMA Handling ==
    ASSUME TypeOK, NEW w \in Workers, job[w].k # "idle"
    PROVE  /\ job[w] \in Job
           /\ job[w] # Idle
           /\ job[w].b \in Browsers
           /\ job[w].jar \in Cookies
           /\ job[w].jar.user \in {0} \cup AccountIds
           /\ job[w].jar.token \in {0} \cup SessionIds
           /\ job[w].jar.pending \in {0} \cup AccountIds
           /\ job[w].k = "revoke" => job[w].ids \in SUBSET SessionIds
  <1>1. job[w] \in Job /\ job[w] # Idle
    BY IdleIn DEF TypeOK
  <1> QED
    BY <1>1, JobKind, CookieKind

\* The pages of answers.
LEMMA PageIn == {"login", "form", "code", "dashboard", "inside"} = Pages
  BY DEF Pages

LEMMA TypeAsk ==
    ASSUME TypeOK, NEW w \in Workers, NEW b \in Browsers,
           Fetch(w, b) \/ Poll(w, b) \/ EnterCode(w, b) \/ AskLogout(w, b) \/ LoadRevoke(w, b)
    PROVE  TypeOK'
  <1>1. cookie[b] \in Cookies
    BY DEF TypeOK
  <1>2. \E j \in Job : job' = [job EXCEPT ![w] = j]
    <2>1. CASE LoadRevoke(w, b)
      <3>1. PICK S \in SUBSET SessionIds :
               job' = [job EXCEPT ![w] = [k |-> "revoke", b |-> b, jar |-> cookie[b], ids |-> S]]
        BY <2>1 DEF LoadRevoke, TypeOK, IsTable
      <3> QED
        BY <1>1, <3>1, RevokeIn
    <2>2. CASE ~LoadRevoke(w, b)
      <3>1. PICK k \in {"login", "page", "poll", "enter", "logout"} :
               job' = [job EXCEPT ![w] = [k |-> k, b |-> b, jar |-> cookie[b]]]
        BY <2>2 DEF Fetch, Poll, EnterCode, AskLogout
      <3> QED
        BY <1>1, <3>1, AskIn
    <2> QED
      BY <2>1, <2>2
  <1>3. job' \in [Workers -> Job]
    BY <1>2, JobType
  <1>4. UNCHANGED <<account, session, cookie, at, ended>>
    BY DEF Fetch, Poll, EnterCode, AskLogout, LoadRevoke
  <1> QED
    BY <1>3, <1>4 DEF TypeOK

LEMMA TypePassword ==
    ASSUME TypeOK, NEW b \in Browsers, NEW a \in AccountIds, EnterPassword(b, a)
    PROVE  TypeOK'
  <1>1. cookie[b] \in Cookies
    BY DEF TypeOK
  <1> DEFINE jar == [cookie[b] EXCEPT !.pending = a]
  <1>2. jar \in Cookies
    BY <1>1, CookieKind
  <1>3. Answer(b, jar) \/ UNCHANGED cookie
    BY DEF EnterPassword
  <1> HIDE DEF jar
  <1>4. cookie' \in [Browsers -> Cookies]
    BY <1>2, <1>3, CookieType
  <1>5. at' \in [Browsers -> Pages]
    BY PageIn, PageType DEF EnterPassword
  <1> QED
    BY <1>4, <1>5 DEF EnterPassword, TypeOK

LEMMA TypeHandle ==
    ASSUME TypeOK, NEW w \in Workers, Handle(w)
    PROVE  TypeOK'
  <1> DEFINE b == job[w].b
             jar == job[w].jar
  <1>1. job[w].k # "idle"
    BY DEF Handle, ServeLogin, Admit, Bounce, BounceAsIs, RejectEnter, CommitEnter, Logout,
           CommitRevoke, Answered
  <1>2. /\ b \in Browsers
        /\ jar \in Cookies
        /\ jar.token \in {0} \cup SessionIds
        /\ jar.pending \in {0} \cup AccountIds
        /\ job[w].k = "revoke" => job[w].ids \in SUBSET SessionIds
    BY <1>1, Handling
  <1>3. job' \in [Workers -> Job]
    BY IdleIn, JobType DEF Handle, ServeLogin, Admit, Bounce, BounceAsIs, RejectEnter,
           CommitEnter, Logout, CommitRevoke, Answered
  <1>4. at' \in [Browsers -> Pages]
    <2>1. \E p \in Pages : Show(b, p) \/ UNCHANGED at
      BY PageIn DEF Handle, ServeLogin, Admit, Bounce, BounceAsIs, RejectEnter, CommitEnter,
             Logout, CommitRevoke, Answered
    <2> QED
      BY <1>2, <2>1, PageType
  <1>5. account' = account
    BY DEF Handle, ServeLogin, Admit, Bounce, BounceAsIs, RejectEnter, CommitEnter, Logout,
           CommitRevoke
  <1>6. ended' \in SUBSET SessionIds
    BY <1>2 DEF Handle, ServeLogin, Admit, Bounce, BounceAsIs, RejectEnter, CommitEnter,
           Logout, CommitRevoke, TypeOK
  <1>7. IsTable(session', SessionIds, SessionRows) /\ cookie' \in [Browsers -> Cookies]
    <2>1. CASE CommitEnter(w)
      <3>1. jar.pending \in AccountIds /\ jar.pending \in Ids(account)
        BY <2>1 DEF CommitEnter, TypeOK, IsTable
      <3>2. \A t \in {0} \cup SessionIds :
               [user |-> jar.pending, token |-> t, pending |-> 0] \in Cookies
        BY <3>1 DEF Cookies
      <3>3. \E t \in {0} \cup SessionIds :
               \/ Answer(b, [user |-> jar.pending, token |-> t, pending |-> 0])
               \/ UNCHANGED cookie
        BY <1>2, <2>1 DEF CommitEnter
      <3>4. cookie' \in [Browsers -> Cookies]
        BY <1>2, <3>2, <3>3, CookieType
      <3>5. \/ \E s \in SessionIds : NextRowId(session, s) /\ NewSession(jar, s)
            \/ UNCHANGED session
        BY <2>1 DEF CommitEnter
      <3>6. CASE UNCHANGED session
        BY <3>4, <3>6 DEF TypeOK, SessionRows
      <3>7. CASE \E s \in SessionIds : NextRowId(session, s) /\ NewSession(jar, s)
        BY <1>2, <3>1, <3>4, <3>7, NewType
      <3> QED
        BY <3>5, <3>6, <3>7
    <2>2. CASE ~CommitEnter(w)
      <3>1. Answer(b, Empty) \/ Answer(b, jar) \/ Refresh(b, jar)
        BY <2>2 DEF Handle, ServeLogin, Admit, Bounce, BounceAsIs, RejectEnter, Logout,
               CommitRevoke, LogOut
      <3>2. cookie' \in [Browsers -> Cookies]
        BY <1>2, <3>1, EmptyIsCookie, CookieType
      <3>3. (\E S : Revoke(S)) \/ UNCHANGED session
        BY <2>2 DEF Handle, ServeLogin, Admit, Bounce, BounceAsIs, RejectEnter, Logout,
               CommitRevoke, LogOut
      <3>4. IsTable(session', SessionIds, SessionRows)
        BY <3>3, RevokeType DEF TypeOK, SessionRows
      <3> QED
        BY <3>2, <3>4
    <2> QED
      BY <2>1, <2>2
  <1> QED
    BY <1>3, <1>4, <1>5, <1>6, <1>7 DEF TypeOK, SessionRows

LEMMA TypeAccount ==
    ASSUME TypeOK, NEW a \in AccountIds, CreateAccount(a) \/ SetActive(a) \/ DeleteAccount(a)
    PROVE  TypeOK'
  <1>1. IsTable(account', AccountIds, BOOLEAN)
    <2>1. CASE CreateAccount(a)
      BY <2>1 DEF CreateAccount, TypeOK, IsTable, Ids, Put
    <2>2. CASE SetActive(a)
      <3>1. account' \in [Ids(account) -> BOOLEAN]
        BY <2>2 DEF SetActive, TypeOK, IsTable, Ids
      <3> QED
        BY <3>1 DEF TypeOK, IsTable, Ids
    <2>3. CASE DeleteAccount(a)
      BY <2>3 DEF DeleteAccount, TypeOK, IsTable, Ids, Drop
    <2> QED
      BY <2>1, <2>2, <2>3
  <1> QED
    BY <1>1 DEF CreateAccount, SetActive, DeleteAccount, TypeOK

LEMMA TypeStep == TypeOK /\ [Next]_vars => TypeOK'
  <1> SUFFICES ASSUME TypeOK, Next PROVE TypeOK'
    BY DEF vars, TypeOK
  <1> QED
    BY TypeAsk, TypePassword, TypeHandle, TypeAccount DEF Next

\* Every variable has its type.
THEOREM TypeCorrect == Spec => []TypeOK
  BY TypeInit, TypeStep, PTL DEF Spec

-----------------------------------------------------------------------------
(***************************************************************************)
(* Tokens and rows                                                         *)
(***************************************************************************)
\* The browser b has the token s, or a request of it has.
Holds(b, s) == \/ cookie[b].token = s
               \/ \E w \in Workers : job[w] # Idle /\ job[w].b = b /\ job[w].jar.token = s

\* A request to revoke names rows that exist.  No two browsers have the same
\* token, and of what is over the row is dead or nobody has the token.
Over(s) == /\ s \in Ids(session)
           /\ session[s].live => \A b \in Browsers : ~Holds(b, s)
RowInv == /\ TypeOK
          /\ CookieHasRow
          /\ \A w \in Workers : job[w].k = "revoke" => job[w].ids \subseteq Ids(session)
          /\ \A s \in SessionIds, b, c \in Browsers : Holds(b, s) /\ Holds(c, s) => b = c
          /\ \A s \in ended : Over(s)

LEMMA RowInit == Init => RowInv
  <1> SUFFICES ASSUME Init PROVE RowInv
    OBVIOUS
  <1>1. \A b \in Browsers, s \in SessionIds : ~Holds(b, s)
    BY EmptyIsCookie DEF Init, Holds, SessionIds
  <1> QED
    BY <1>1, TypeInit, IdleIn, EmptyIsCookie DEF Init, RowInv, CookieHasRow

\* Whoever has a token has its row.
LEMMA HoldsRow ==
    ASSUME CookieHasRow, NEW b \in Browsers, NEW s \in SessionIds, Holds(b, s)
    PROVE  s \in Ids(session)
  BY DEF CookieHasRow, Holds, SessionIds

\* What every step does to the rows, the cookies and the jobs: at most the
\* browser d gets a token that it does not have, and that is the one of a new
\* row.
New == Ids(session)' \ Ids(session)
RowEffect ==
    /\ Ids(session) \subseteq Ids(session)'
    /\ \A s \in Ids(session) : session[s].live' => session[s].live
CookieEffect(d) ==
    \A b \in Browsers : \/ cookie'[b].token = cookie[b].token
                        \/ b = d /\ \/ cookie'[b].token \in {0} \cup New
                                    \/ Holds(b, cookie'[b].token)
JobEffect ==
    \A w \in Workers :
       \/ job'[w] = job[w]
       \/ job'[w] = Idle
       \/ /\ job'[w].b \in Browsers /\ job'[w].jar = cookie[job'[w].b]
          /\ job'[w].k = "revoke" => job'[w].ids \subseteq Ids(session)
EndEffect ==
    \A s \in ended' \ ended :
       /\ s \in Ids(session)'
       /\ session[s].live' => \A b \in Browsers : ~Holds(b, s)'

LEMMA HoldsNext ==
    ASSUME NEW d \in Browsers, CookieEffect(d), JobEffect,
           NEW b \in Browsers, NEW s \in SessionIds, Holds(b, s)'
    PROVE  Holds(b, s) \/ (b = d /\ s \in New)
  <1>1. CASE cookie'[b].token = s
    BY <1>1 DEF CookieEffect, Holds, SessionIds
  <1>2. CASE \E w \in Workers : job'[w] # Idle /\ job'[w].b = b /\ job'[w].jar.token = s
    BY <1>2 DEF JobEffect, Holds
  <1> QED
    BY <1>1, <1>2 DEF Holds

LEMMA EffectsKeep ==
    ASSUME RowInv, TypeOK', RowEffect, NEW d \in Browsers, CookieEffect(d), JobEffect, EndEffect
    PROVE  RowInv'
  <1>1. ASSUME NEW b \in Browsers, NEW s \in SessionIds, Holds(b, s)'
        PROVE  s \in Ids(session)'
    BY <1>1, HoldsNext, HoldsRow DEF RowInv, RowEffect, New
  <1>2. CookieHasRow'
    <2>1. ASSUME NEW b \in Browsers PROVE cookie'[b].token \in {0} \cup Ids(session)'
      <3>1. cookie'[b] \in Cookies
        BY DEF TypeOK
      <3>2. cookie'[b].token \in {0} \cup SessionIds
        BY <3>1, CookieKind
      <3> QED
        BY <1>1, <3>2 DEF Holds
    <2>2. ASSUME NEW w \in Workers, job'[w] # Idle
          PROVE  job'[w].jar.token \in {0} \cup Ids(session)'
      <3>1. job'[w] \in Job
        BY DEF TypeOK
      <3>2. job'[w].b \in Browsers /\ job'[w].jar \in Cookies
        BY <2>2, <3>1, JobKind
      <3>3. job'[w].jar.token \in {0} \cup SessionIds
        BY <3>2, CookieKind
      <3> QED
        BY <1>1, <2>2, <3>2, <3>3 DEF Holds
    <2> QED
      BY <2>1, <2>2 DEF CookieHasRow
  <1>3. \A w \in Workers : job'[w].k = "revoke" => job'[w].ids \subseteq Ids(session)'
    BY IdleIn DEF RowInv, RowEffect, JobEffect
  <1>4. ASSUME NEW s \in SessionIds, NEW b \in Browsers, NEW c \in Browsers,
               Holds(b, s)', Holds(c, s)'
        PROVE  b = c
    <2>1. (Holds(b, s) \/ (b = d /\ s \in New)) /\ (Holds(c, s) \/ (c = d /\ s \in New))
      BY <1>4, HoldsNext
    <2>2. Holds(b, s) \/ Holds(c, s) => s \notin New
      BY HoldsRow DEF RowInv, New
    <2> QED
      BY <2>1, <2>2 DEF RowInv
  <1>5. ASSUME NEW s \in ended' PROVE Over(s)'
    <2>1. CASE s \in ended
      <3>1. s \in SessionIds /\ Over(s)
        BY <2>1 DEF RowInv, TypeOK
      <3>2. \A b \in Browsers : Holds(b, s)' => Holds(b, s)
        BY <3>1, HoldsNext DEF Over, New
      <3> QED
        BY <3>1, <3>2 DEF Over, RowEffect
    <2>2. CASE s \notin ended
      BY <2>2 DEF EndEffect, Over
    <2> QED
      BY <2>1, <2>2
  <1> QED
    BY <1>2, <1>3, <1>4, <1>5 DEF RowInv

\* A token of a cookie that a request brought is one that has its row.
LEMMA HandlingRow ==
    ASSUME RowInv, NEW w \in Workers, job[w].k # "idle"
    PROVE  job[w].jar.token \in {0} \cup Ids(session)
  BY IdleIn DEF RowInv, CookieHasRow

LEMMA EffectsOfAsk ==
    ASSUME RowInv, NEW w \in Workers, NEW b \in Browsers,
           Fetch(w, b) \/ Poll(w, b) \/ EnterCode(w, b) \/ AskLogout(w, b) \/ LoadRevoke(w, b)
    PROVE  RowEffect /\ CookieEffect(b) /\ JobEffect /\ EndEffect
  <1>1. UNCHANGED <<session, cookie, ended>>
    BY DEF Fetch, Poll, EnterCode, AskLogout, LoadRevoke
  <1>2. cookie[b] \in Cookies /\ TypeOK
    BY DEF RowInv, TypeOK
  <1>3. PICK j \in Job : /\ job' = [job EXCEPT ![w] = j]
                         /\ j.jar = cookie[b] /\ j.b = b
                         /\ j.k = "revoke" => j.ids \subseteq Ids(session)
    <2>1. CASE LoadRevoke(w, b)
      <3>1. PICK S \in SUBSET Ids(session) :
               job' = [job EXCEPT ![w] = [k |-> "revoke", b |-> b, jar |-> cookie[b], ids |-> S]]
        BY <2>1 DEF LoadRevoke
      <3> DEFINE j == [k |-> "revoke", b |-> b, jar |-> cookie[b], ids |-> S]
      <3>2. S \in SUBSET SessionIds
        BY <1>2 DEF TypeOK, IsTable
      <3>3. j \in Job /\ j.jar = cookie[b] /\ j.b = b /\ j.ids = S
        BY <1>2, <3>2, RevokeIn
      <3>4. job' = [job EXCEPT ![w] = j]
        BY <3>1
      <3> HIDE DEF j
      <3> QED
        BY <3>3, <3>4
    <2>2. CASE ~LoadRevoke(w, b)
      <3>1. PICK k \in {"login", "page", "poll", "enter", "logout"} :
               job' = [job EXCEPT ![w] = [k |-> k, b |-> b, jar |-> cookie[b]]]
        BY <2>2 DEF Fetch, Poll, EnterCode, AskLogout
      <3> DEFINE j == [k |-> k, b |-> b, jar |-> cookie[b]]
      <3>2. j \in Job /\ j.jar = cookie[b] /\ j.b = b /\ j.k # "revoke"
        BY <1>2, AskIn
      <3>3. job' = [job EXCEPT ![w] = j]
        BY <3>1
      <3> HIDE DEF j
      <3> QED
        BY <3>2, <3>3
    <2> QED
      BY <2>1, <2>2
  <1>4. \A v \in Workers : job'[v] = IF v = w THEN j ELSE job[v]
    BY <1>2, <1>3, JobType
  <1>5. JobEffect
    BY <1>3, <1>4 DEF JobEffect
  <1> QED
    BY <1>1, <1>5 DEF RowEffect, CookieEffect, EndEffect

LEMMA EffectsOfPassword ==
    ASSUME RowInv, NEW b \in Browsers, NEW a \in AccountIds, EnterPassword(b, a)
    PROVE  RowEffect /\ CookieEffect(b) /\ JobEffect /\ EndEffect
  <1>1. cookie[b] \in Cookies /\ cookie \in [Browsers -> Cookies]
    BY DEF RowInv, TypeOK
  <1>2. \A c \in Browsers : cookie'[c].token = cookie[c].token
    <2> DEFINE jar == [cookie[b] EXCEPT !.pending = a]
    <2>1. jar.token = cookie[b].token
      BY <1>1, CookieKind
    <2>2. Answer(b, jar) \/ UNCHANGED cookie
      BY DEF EnterPassword
    <2> HIDE DEF jar
    <2> QED
      BY <1>1, <2>1, <2>2
  <1>3. UNCHANGED <<session, job, ended>>
    BY DEF EnterPassword
  <1> QED
    BY <1>2, <1>3 DEF RowEffect, CookieEffect, JobEffect, EndEffect

\* A step that answers with a cookie whose token is none, that of a new row, or
\* the one that the request brought.
LEMMA EffectOfAnswer ==
    ASSUME TypeOK, NEW b \in Browsers, NEW jar \in Cookies,
           jar.token \in {0} \cup New \/ Holds(b, jar.token),
           Answer(b, jar) \/ Refresh(b, jar) \/ UNCHANGED cookie
    PROVE  CookieEffect(b)
  BY DEF TypeOK, Refresh, CookieEffect

LEMMA EffectsOfHandle ==
    ASSUME RowInv, NEW w \in Workers, Handle(w)
    PROVE  RowEffect /\ (\E d \in Browsers : CookieEffect(d)) /\ JobEffect /\ EndEffect
  <1> DEFINE b == job[w].b
             jar == job[w].jar
  <1>1. job[w].k # "idle" /\ TypeOK
    BY DEF Handle, ServeLogin, Admit, Bounce, BounceAsIs, RejectEnter, CommitEnter, Logout,
           CommitRevoke, Answered, RowInv
  <1>2. /\ b \in Browsers
        /\ jar \in Cookies
        /\ jar.token \in {0} \cup Ids(session)
        /\ jar.pending \in {0} \cup AccountIds
        /\ Holds(b, jar.token)
    BY <1>1, IdleIn, Handling, HandlingRow DEF Holds
  <1>3. JobEffect
    <2>1. job' = [job EXCEPT ![w] = Idle]
      BY DEF Handle, ServeLogin, Admit, Bounce, BounceAsIs, RejectEnter, CommitEnter,
             Logout, CommitRevoke, Answered
    <2> QED
      BY <1>1, <2>1, IdleIn, JobType DEF JobEffect
  <1>4. CASE CommitEnter(w)
    <2>1. UNCHANGED ended
      BY <1>4 DEF CommitEnter
    <2>2. jar.pending \in AccountIds /\ jar.pending \in Ids(account)
      BY <1>1, <1>4 DEF CommitEnter, TypeOK, IsTable
    <2>3. \A t \in {0} \cup SessionIds :
             LET c == [user |-> jar.pending, token |-> t, pending |-> 0]
             IN c \in Cookies /\ c.token = t
      BY <2>2 DEF Cookies
    <2>4. CASE \E s \in SessionIds : /\ NextRowId(session, s)
                                     /\ NewSession(jar, s)
                                     /\ \/ Answer(b, [user |-> jar.pending, token |-> s,
                                                      pending |-> 0])
                                        \/ UNCHANGED cookie
      <3>1. PICK s \in SessionIds : /\ NextRowId(session, s)
                                    /\ NewSession(jar, s)
                                    /\ \/ Answer(b, [user |-> jar.pending, token |-> s,
                                                     pending |-> 0])
                                       \/ UNCHANGED cookie
        BY <2>4
      <3>2. /\ Ids(session)' = Ids(session) \cup {s}
            /\ s \notin Ids(session)
            /\ \A i \in Ids(session) : session[i].live' => session[i].live
        BY <1>1, <1>2, <2>2, <3>1, NewType
      <3>3. CookieEffect(b)
        <4> DEFINE c == [user |-> jar.pending, token |-> s, pending |-> 0]
        <4>1. c \in Cookies /\ c.token \in New
          BY <2>3, <3>2 DEF New
        <4>2. Answer(b, c) \/ UNCHANGED cookie
          BY <3>1
        <4> HIDE DEF c
        <4> QED
          BY <1>1, <1>2, <4>1, <4>2, EffectOfAnswer
      <3> QED
        BY <1>2, <1>3, <2>1, <3>2, <3>3 DEF RowEffect, EndEffect
    <2>5. CASE UNCHANGED session
               /\ Answer(b, [user |-> jar.pending, token |-> jar.token, pending |-> 0])
      <3> DEFINE c == [user |-> jar.pending, token |-> jar.token, pending |-> 0]
      <3>1. c \in Cookies /\ Holds(b, c.token)
        BY <1>1, <1>2, <2>3, <2>5 DEF TypeOK, IsTable
      <3>2. Answer(b, c)
        BY <2>5
      <3> HIDE DEF c
      <3>3. CookieEffect(b)
        BY <1>1, <1>2, <3>1, <3>2, EffectOfAnswer
      <3> QED
        BY <1>2, <1>3, <2>1, <2>5, <3>3 DEF RowEffect, EndEffect
    <2> QED
      BY <1>4, <2>4, <2>5 DEF CommitEnter
  <1>5. CASE ~CommitEnter(w)
    <2>1. Answer(b, Empty) \/ Answer(b, jar) \/ Refresh(b, jar)
      BY <1>5 DEF Handle, ServeLogin, Admit, Bounce, BounceAsIs, RejectEnter, Logout,
             CommitRevoke, LogOut
    <2>2. (\E S : Revoke(S)) \/ UNCHANGED session
      BY <1>5 DEF Handle, ServeLogin, Admit, Bounce, BounceAsIs, RejectEnter, Logout,
             CommitRevoke, LogOut
    <2>3. RowEffect /\ Ids(session)' = Ids(session)
      BY <1>1, <2>2, RevokeType DEF RowEffect
    <2>4. CookieEffect(b)
      BY <1>1, <1>2, <2>1, <2>3, EmptyIsCookie, EffectOfAnswer
    <2>5. EndEffect
      <3>1. CASE Logout(w)
        <4>1. /\ Revoke({jar.token}) \/ UNCHANGED session
              /\ Answer(b, Empty) /\ job' = [job EXCEPT ![w] = Idle]
              /\ \A s \in ended' \ ended : /\ s = jar.token /\ s # 0
                                           /\ ~session'[s].live \/ ~Returning(w, s)
          BY <3>1 DEF Logout, LogOut
        <4> SUFFICES ASSUME NEW s \in ended' \ ended, session'[s].live, NEW c \in Browsers
                     PROVE  s \in Ids(session)' /\ ~Holds(c, s)'
          BY <1>2, <2>3, <4>1 DEF EndEffect
        <4>2. s = jar.token /\ s # 0 /\ s \in Ids(session) /\ ~Returning(w, s)
          BY <1>2, <4>1
        <4>3. s \in SessionIds /\ Holds(b, s)
          BY <1>1, <1>2, <4>2 DEF TypeOK, IsTable
        <4>4. cookie'[c].token # s
          <5>1. cookie'[c] = IF c = b THEN Empty ELSE cookie[c]
            BY <1>1, <1>2, <4>1 DEF TypeOK
          <5>2. c # b => ~Holds(c, s)
            BY <1>2, <4>3 DEF RowInv
          <5> QED
            BY <4>2, <5>1, <5>2, EmptyIsCookie DEF Holds
        <4>5. \A v \in Workers : job'[v] # Idle => job'[v].jar.token # s
          BY <1>1, <4>1, <4>2 DEF Returning, TypeOK
        <4> QED
          BY <2>3, <4>2, <4>4, <4>5 DEF Holds
      <3>2. CASE CommitRevoke(w)
        <4>1. CASE Revoke(job[w].ids) /\ ended' \ ended \subseteq job[w].ids
          <5>1. job[w].ids \subseteq Ids(session)
            BY <3>2 DEF CommitRevoke, RowInv
          <5> QED
            BY <1>1, <2>3, <4>1, <5>1, RevokeType DEF EndEffect
        <4>2. CASE UNCHANGED ended
          BY <4>2 DEF EndEffect
        <4> QED
          BY <3>2, <4>1, <4>2 DEF CommitRevoke
      <3>3. CASE UNCHANGED ended
        BY <3>3 DEF EndEffect
      <3> QED
        BY <1>5, <3>1, <3>2, <3>3 DEF Handle, ServeLogin, Admit, Bounce, BounceAsIs,
               RejectEnter
    <2> QED
      BY <1>2, <1>3, <2>3, <2>4, <2>5
  <1> QED
    BY <1>4, <1>5

LEMMA EffectsOfAccount ==
    ASSUME NEW a \in AccountIds, CreateAccount(a) \/ SetActive(a) \/ DeleteAccount(a)
    PROVE  UNCHANGED <<session, cookie, job, ended>>
  BY DEF CreateAccount, SetActive, DeleteAccount

LEMMA RowStep == RowInv /\ [Next]_vars => RowInv'
  <1> SUFFICES ASSUME RowInv, [Next]_vars PROVE RowInv'
    OBVIOUS
  <1>1. TypeOK'
    BY TypeStep DEF RowInv
  <1>2. CASE \E d \in Browsers : RowEffect /\ CookieEffect(d) /\ JobEffect /\ EndEffect
    BY <1>1, <1>2, EffectsKeep
  <1>3. CASE UNCHANGED <<session, cookie, job, ended>>
    BY <1>1, <1>3 DEF RowInv, CookieHasRow, Over, Holds
  <1>4. CASE UNCHANGED vars
    BY <1>3, <1>4 DEF vars
  <1>5. CASE Next
    BY <1>2, <1>3, <1>5, EffectsOfAsk, EffectsOfPassword, EffectsOfHandle, EffectsOfAccount DEF Next
  <1> QED
    BY <1>4, <1>5

LEMMA RowsAlways == Spec => []RowInv
  BY RowInit, RowStep, PTL DEF Spec

\* A token in a cookie, or on its way into one, has its row, whatever fails
\* while a session is created (create_session).
THEOREM TokensHaveRows == Spec => []CookieHasRow
  <1>1. RowInv => CookieHasRow
    BY DEF RowInv
  <1> QED
    BY <1>1, RowsAlways, PTL

\* A session that is over shows no page again, whichever answers bring its
\* cookie back: it was revoked, or its cookie is held by nobody (logout,
\* revoke_all_sessions, require_account_auth).
THEOREM EndedStayOut == Spec => EndedStaysOut
  <1>1. RowInv => \A w \in Workers : Admit(w) => job[w].jar.token \notin ended
    <2> SUFFICES ASSUME RowInv, NEW w \in Workers, Admit(w) PROVE job[w].jar.token \notin ended
      OBVIOUS
    <2>1. session[job[w].jar.token].live /\ job[w].k # "idle"
      BY DEF Admit, Valid, Answered
    <2>2. job[w].b \in Browsers /\ Holds(job[w].b, job[w].jar.token)
      BY <2>1, IdleIn, Handling DEF Holds, RowInv
    <2> QED
      BY <2>1, <2>2 DEF RowInv, Over
  <1>2. RowInv /\ [Next]_vars
          => [\A w \in Workers : Admit(w) => job[w].jar.token \notin ended]_vars
    BY <1>1
  <1> QED
    BY <1>2, RowsAlways, PTL DEF Spec, EndedStaysOut

-----------------------------------------------------------------------------
(***************************************************************************)
(* The start of the workers                                                *)
(***************************************************************************)
LEMMA StartupFacts ==
    ASSUME Up!StartupAssumption
    PROVE  /\ NoKey \notin Workers
           /\ SeedDemo \in BOOLEAN
           /\ MaxKill \in Nat
           /\ IsFiniteSet(Workers)
           /\ IsFiniteSet(Sections)
           /\ Sections # {}
           /\ Sections = 1 .. Cardinality(Sections)
  BY DEF Up!StartupAssumption, Up!IsFiniteSet, IsFiniteSet, Up!Cardinality, Cardinality

\* The instance counts its sets as this module does.
LEMMA Same == \A T : Up!Cardinality(T) = Cardinality(T) /\ Up!IsFiniteSet(T) = IsFiniteSet(T)
  BY DEF Up!IsFiniteSet, IsFiniteSet, Up!Cardinality, Cardinality

USE DEF Up!Is, Up!Go, Up!GoTo

Importing(w) == start[w].k \in {"section", "platform", "remove"}

LEMMA FirstSection ==
    ASSUME Up!StartupAssumption
    PROVE  Up!First = [k |-> "section", n |-> 1] /\ 1 \in Sections
  <1>1. 1 \in Sections /\ \A m \in Sections : 1 <= m
    BY StartupFacts, FS_CardinalityType
  <1>2. \A n \in Sections : (\A m \in Sections : n <= m) => n = 1
    BY <1>1, StartupFacts, FS_CardinalityType
  <1>3. (CHOOSE n \in Sections : \A m \in Sections : n <= m) = 1
    BY <1>1, <1>2
  <1> QED
    BY <1>1, <1>3 DEF Up!First

-----------------------------------------------------------------------------
(***************************************************************************)
(* Types                                                                   *)
(***************************************************************************)
\* What a step of each kind carries.
LEMMA StepKind ==
    ASSUME Up!StartupAssumption, NEW s \in Up!Step
    PROVE  /\ s.k \in {"look", "seed"} => s.n \in {1, 2, 3, 4}
           /\ s.k = "addAdmin" => s.who \in {"default", "configured"}
           /\ s.k = "section" => s.n \in Sections
           /\ s.k = "platform" => s.n \in {1, 2}
  BY DEF Up!Step, Up!Seeds, Up!Platform

\* The steps there are.
LEMMA StepIn ==
    ASSUME Up!StartupAssumption
    PROVE  /\ \A k \in {"down", "claim", "replace", "key", "persist", "serving", "broken",
                        "lookAdmin", "lookDemo", "addDemo"} : [k |-> k] \in Up!Step
           /\ \A sick \in BOOLEAN : [k |-> "remove", rollback |-> sick] \in Up!Step
           /\ \A n \in {1, 2, 3, 4} : /\ [k |-> "look", n |-> n] \in Up!Step
                                      /\ [k |-> "seed", n |-> n] \in Up!Step
           /\ \A who \in {"default", "configured"} : [k |-> "addAdmin", who |-> who] \in Up!Step
           /\ \A n \in Sections : [k |-> "section", n |-> n] \in Up!Step
           /\ \A n \in {1, 2} : [k |-> "platform", n |-> n] \in Up!Step
  BY DEF Up!Step, Up!Seeds, Up!Platform

\* The names of the steps that are counted.
LEMMA SeedLists ==
    ASSUME Up!StartupAssumption
    PROVE  /\ Up!Platform[1] = "users" /\ Up!Platform[2] = "services" /\ Len(Up!Platform) = 2
           /\ \A n \in {1, 2, 3, 4} : Up!Added(n) \subseteq {"tables", "columns", "enums", "providers"}
  <1>1. Up!Platform[1] = "users" /\ Up!Platform[2] = "services" /\ Len(Up!Platform) = 2
    BY DEF Up!Platform
  <1>2. /\ Up!Seeds[1] = "tables" /\ Up!Seeds[2] = "columns"
        /\ Up!Seeds[3] = "enums" /\ Up!Seeds[4] = "providers"
    BY DEF Up!Seeds
  <1>3. \A n \in {1, 2, 3, 4} : Up!Added(n) \subseteq {"tables", "columns", "enums", "providers"}
    BY <1>2 DEF Up!Added
  <1> QED
    BY <1>1, <1>3

\* A worker goes on to one of them.
LEMMA Goes ==
    ASSUME Up!StartupAssumption, Up!TypeOK, NEW w \in Workers, NEW s \in Up!Step, start' = [start EXCEPT ![w] = s]
    PROVE  start' \in [Workers -> Up!Step]
  BY DEF Up!TypeOK

LEMMA StartAt ==
    ASSUME Up!StartupAssumption, Up!TypeOK, NEW w \in Workers
    PROVE  start[w] \in Up!Step
  BY DEF Up!TypeOK

\* The steps after those that count.
LEMMA NextStep ==
    ASSUME Up!StartupAssumption
    PROVE  /\ Up!AfterAdmin \in Up!Step
           /\ \A n \in {1, 2, 3, 4} : Up!NextSeed(n) \in Up!Step
           /\ \A n \in Sections : Up!NextSection(n) \in Up!Step
           /\ Up!First \in Up!Step
  BY StepIn, FirstSection DEF Up!AfterAdmin, Up!NextSeed, Up!NextSection, Up!Seeds

LEMMA StartupTypeInit ==
    ASSUME Up!StartupAssumption
    PROVE  Up!Init => Up!TypeOK
  <1> SUFFICES ASSUME Up!Init PROVE Up!TypeOK
    OBVIOUS
  <1>1. start \in [Workers -> Up!Step]
    BY StepIn DEF Up!Init
  <1> QED
    BY <1>1, StartupFacts DEF Up!Init, Up!TypeOK

LEMMA TypeSeed ==
    ASSUME Up!StartupAssumption, Up!TypeOK, NEW w \in Workers,
           Up!Start(w) \/ Up!LookSeed(w) \/ Up!CommitSeed(w)
    PROVE  Up!TypeOK'
  <1> USE StartAt, StepKind, StepIn, NextStep, Goes
  <1>1. CASE Up!Start(w)
    BY <1>1 DEF Up!Start, Up!TypeOK
  <1>2. CASE Up!LookSeed(w)
    BY <1>2 DEF Up!LookSeed, Up!TypeOK
  <1>3. CASE Up!CommitSeed(w)
    <2>1. start' \in [Workers -> Up!Step]
      BY <1>3 DEF Up!CommitSeed
    <2>2. start[w].n \in {1, 2, 3, 4}
      BY <1>3 DEF Up!CommitSeed
    <2>3. \/ seeded' = seeded
          \/ seeded' = seeded \cup Up!Added(start[w].n)
      BY <1>3 DEF Up!CommitSeed
    <2>4. seeded' \subseteq {"tables", "columns", "enums", "providers", "demo"}
      BY <2>2, <2>3, SeedLists DEF Up!TypeOK
    <2> QED
      BY <1>3, <2>1, <2>4 DEF Up!CommitSeed, Up!TypeOK
  <1> QED
    BY <1>1, <1>2, <1>3

LEMMA TypeAccounts ==
    ASSUME Up!StartupAssumption, Up!TypeOK, NEW w \in Workers,
           \/ Up!LookAdmin(w) \/ Up!CommitAdmin(w)
           \/ Up!LookDemo(w) \/ Up!CommitDemo(w)
    PROVE  Up!TypeOK'
  <1> USE StartAt, StepKind, StepIn, NextStep, Goes
  <1>1. CASE Up!LookAdmin(w)
    BY <1>1 DEF Up!LookAdmin, Up!LoadAdminFromAppConfig, Up!TypeOK
  <1>2. CASE Up!CommitAdmin(w)
    BY <1>2 DEF Up!CommitAdmin, Up!TypeOK
  <1>3. CASE Up!LookDemo(w)
    BY <1>3 DEF Up!LookDemo, Up!TypeOK
  <1>4. CASE Up!CommitDemo(w)
    BY <1>4 DEF Up!CommitDemo, Up!TypeOK
  <1> QED
    BY <1>1, <1>2, <1>3, <1>4

\* What follows a step of initialize_platform_backends.
LEMMA PlatformStep ==
    ASSUME NEW w \in Workers, Up!InitPlatform(w), start[w].n \in {1, 2}
    PROVE  \/ \E sick \in BOOLEAN : start' = [start EXCEPT ![w] = [k |-> "remove", rollback |-> sick]]
           \/ start[w].n = 2 /\ start' = [start EXCEPT ![w] = [k |-> "remove", rollback |-> FALSE]]
           \/ start[w].n = 1 /\ start' = [start EXCEPT ![w] = [k |-> "platform", n |-> 2]]
  <1>1. PICK n \in {1, 2} : n = start[w].n
    OBVIOUS
  <1>2. PICK p : p = Len(Up!Platform)
    OBVIOUS
  <1>3. p = 2
    BY <1>2 DEF Up!Platform
  <1>4. \/ \E sick \in BOOLEAN : start' = [start EXCEPT ![w] = [k |-> "remove", rollback |-> sick]]
        \/ start' = [start EXCEPT ![w] = IF n = p THEN [k |-> "remove", rollback |-> FALSE]
                                                  ELSE [k |-> "platform", n |-> n + 1]]
    BY <1>1, <1>2 DEF Up!InitPlatform
  <1> QED
    BY <1>1, <1>3, <1>4

LEMMA TypeImport ==
    ASSUME Up!StartupAssumption, Up!TypeOK, NEW w \in Workers,
           \/ Up!LookFile(w) \/ Up!Claim(w)
           \/ Up!ImportSection(w) \/ Up!RefuseSection(w)
           \/ Up!InitPlatform(w) \/ Up!RemoveFile(w)
    PROVE  Up!TypeOK'
  <1> USE StartAt, StepKind, StepIn, NextStep, Goes
  <1>1. CASE Up!LookFile(w)
    BY <1>1 DEF Up!LookFile, Up!TypeOK
  <1>2. CASE Up!Claim(w)
    BY <1>2 DEF Up!Claim, Up!TypeOK
  <1>3. CASE Up!ImportSection(w)
    BY <1>3 DEF Up!ImportSection, Up!TypeOK
  <1>4. CASE Up!RefuseSection(w)
    BY <1>4 DEF Up!RefuseSection, Up!TypeOK
  <1>5. CASE Up!InitPlatform(w)
    <2>1. start[w].n \in {1, 2}
      BY <1>5 DEF Up!InitPlatform
    <2>2. start' \in [Workers -> Up!Step]
      <3>1. PICK s \in Up!Step : start' = [start EXCEPT ![w] = s]
        <4>1. \/ \E sick \in BOOLEAN : start' = [start EXCEPT ![w] = [k |-> "remove", rollback |-> sick]]
              \/ start[w].n = 2 /\ start' = [start EXCEPT ![w] = [k |-> "remove", rollback |-> FALSE]]
              \/ start[w].n = 1 /\ start' = [start EXCEPT ![w] = [k |-> "platform", n |-> 2]]
          BY <1>5, <2>1, PlatformStep
        <4> QED
          BY <4>1
      <3> QED
        BY <3>1
    <2>3. platform' \subseteq {"users", "services"} /\ admins' \subseteq {"default", "configured"}
      BY <1>5, <2>1, SeedLists DEF Up!InitPlatform, Up!TypeOK
    <2> QED
      BY <1>5, <2>2, <2>3 DEF Up!InitPlatform, Up!TypeOK
  <1>6. CASE Up!RemoveFile(w)
    BY <1>6, SMTT(60) DEF Up!RemoveFile, Up!TypeOK
  <1> QED
    BY <1>1, <1>2, <1>3, <1>4, <1>5, <1>6

LEMMA TypeKey ==
    ASSUME Up!StartupAssumption, Up!TypeOK, NEW w \in Workers,
           \/ Up!LookKey(w) \/ Up!PersistKey(w) \/ Up!KeyFails(w) \/ Up!Recycle(w) \/ Up!Kill(w)
    PROVE  Up!TypeOK'
  <1> USE StartAt, StepIn, Goes
  <1>1. CASE Up!LookKey(w)
    BY <1>1, SMTT(60) DEF Up!LookKey, Up!TypeOK
  <1>2. CASE Up!PersistKey(w)
    BY <1>2 DEF Up!PersistKey, Up!TypeOK
  <1>3. CASE Up!Recycle(w)
    BY <1>3 DEF Up!Recycle, Up!TypeOK
  <1>4. CASE Up!Kill(w)
    BY <1>4, StartupFacts DEF Up!Kill, Up!TypeOK
  <1>5. CASE Up!KeyFails(w)
    BY <1>5, StartupFacts, SMTT(60) DEF Up!KeyFails, Up!TypeOK
  <1> QED
    BY <1>1, <1>2, <1>3, <1>4, <1>5

LEMMA StartupTypeStep ==
    ASSUME Up!StartupAssumption
    PROVE  Up!TypeOK /\ [Up!Next]_Up!vars => Up!TypeOK'
  <1> SUFFICES ASSUME Up!TypeOK, [Up!Next]_Up!vars PROVE Up!TypeOK'
    OBVIOUS
  <1>1. CASE \E w \in Workers : Up!Boot(w) \/ Up!KeyFails(w) \/ Up!Recycle(w) \/ Up!Kill(w)
    BY <1>1, TypeSeed, TypeAccounts, TypeImport, TypeKey DEF Up!Boot
  <1>2. CASE Up!MendFile
    BY <1>2 DEF Up!MendFile, Up!TypeOK
  <1>3. CASE UNCHANGED Up!vars
    BY <1>3 DEF Up!vars, Up!TypeOK
  <1> QED
    BY <1>1, <1>2, <1>3 DEF Up!Next

\* Every variable keeps its type, through every start, import, kill and race.
THEOREM StartupTypeCorrect ==
    ASSUME Up!StartupAssumption
    PROVE  Up!Spec => []Up!TypeOK
  <1>1. Up!Init => Up!TypeOK
    BY StartupTypeInit
  <1>2. Up!TypeOK /\ [Up!Next]_Up!vars => Up!TypeOK'
    BY StartupTypeStep
  <1> QED
    BY <1>1, <1>2, PTL DEF Up!Spec

-----------------------------------------------------------------------------
(***************************************************************************)
(* One importer                                                            *)
(***************************************************************************)
\* The worker that imports is the one that renamed the file; the sections it
\* has passed are committed.
Imported(w) == /\ start[w].k = "section" => 1 .. start[w].n - 1 \subseteq settings
               /\ start[w].k \in {"platform", "remove"} => settings = Sections

ImportInv == /\ Up!TypeOK
             /\ \A w \in Workers : Importing(w) => file = "claimed" /\ Imported(w)
             /\ \A v, w \in Workers : Importing(v) /\ Importing(w) => v = w

LEMMA ImportInit ==
    ASSUME Up!StartupAssumption
    PROVE  Up!Init => ImportInv
  BY StartupTypeInit DEF Up!Init, ImportInv, Importing

\* A step that starts no import, and leaves the file to a worker that has it.
LEMMA ImportKept ==
    ASSUME Up!StartupAssumption, ImportInv, Up!TypeOK', NEW w \in Workers, NEW s, start' = [start EXCEPT ![w] = s],
           s.k \notin {"section", "platform", "remove"},
           settings' = settings,
           file' = file \/ Importing(w)
    PROVE  ImportInv'
  <1>1. \A v \in Workers : Importing(v)' => v # w /\ Importing(v) /\ start'[v] = start[v]
    BY DEF Importing, ImportInv, Up!TypeOK
  <1>2. \A v \in Workers : Importing(v)' => file' = file
    BY <1>1 DEF ImportInv
  <1> QED
    BY <1>1, <1>2 DEF ImportInv, Imported

\* A step of the worker that imports.
LEMMA ImportGoesOn ==
    ASSUME Up!StartupAssumption, ImportInv, Up!TypeOK', NEW w \in Workers, NEW s, start' = [start EXCEPT ![w] = s],
           Importing(w), Imported(w)', settings \subseteq settings', file' = file
    PROVE  ImportInv'
  <1>1. \A v \in Workers : v # w => ~ Importing(v)'
    BY DEF Importing, ImportInv, Up!TypeOK
  <1> QED
    BY <1>1 DEF ImportInv

LEMMA ImportStep ==
    ASSUME Up!StartupAssumption
    PROVE  ImportInv /\ [Up!Next]_Up!vars => ImportInv'
  <1> SUFFICES ASSUME ImportInv, [Up!Next]_Up!vars PROVE ImportInv'
    OBVIOUS
  <1> Up!TypeOK /\ Up!TypeOK'
    BY StartupTypeStep DEF ImportInv
  <1>1. ASSUME NEW w \in Workers, Up!Boot(w) PROVE ImportInv'
    <2>1. CASE Up!Start(w) \/ Up!LookSeed(w)
      <3>1. PICK s : /\ start' = [start EXCEPT ![w] = s]
                     /\ s.k \notin {"section", "platform", "remove"}
        BY <2>1 DEF Up!Start, Up!LookSeed, Up!NextSeed
      <3> QED
        BY <2>1, <3>1, ImportKept DEF Up!Start, Up!LookSeed
    <2>2. CASE Up!CommitSeed(w)
      <3>1. PICK s : /\ start' = [start EXCEPT ![w] = s]
                     /\ s.k \notin {"section", "platform", "remove"}
        BY <2>2 DEF Up!CommitSeed, Up!NextSeed
      <3> QED
        BY <2>2, <3>1, ImportKept DEF Up!CommitSeed
    <2>3. CASE Up!LookAdmin(w) \/ Up!CommitAdmin(w) \/ Up!LookDemo(w) \/ Up!CommitDemo(w)
      <3>1. PICK s : /\ start' = [start EXCEPT ![w] = s]
                     /\ s.k \notin {"section", "platform", "remove"}
        BY <2>3 DEF Up!LookAdmin, Up!CommitAdmin, Up!LookDemo, Up!CommitDemo, Up!AfterAdmin
      <3> QED
        BY <2>3, <3>1, ImportKept DEF Up!LookAdmin, Up!CommitAdmin, Up!LookDemo, Up!CommitDemo
    <2>4. CASE Up!LookFile(w)
      BY <2>4, ImportKept DEF Up!LookFile
    <2>5. CASE Up!Claim(w)
      <3>1. CASE file = "there"
        <4>1. \A v \in Workers : ~ Importing(v)
          BY <3>1 DEF ImportInv
        <4>2. start' = [start EXCEPT ![w] = [k |-> "section", n |-> 1]] /\ file' = "claimed"
          BY <2>5, <3>1, FirstSection DEF Up!Claim
        <4>3. \A v \in Workers : Importing(v)' => v = w
          BY <4>1, <4>2 DEF Importing, Up!TypeOK
        <4>4. Imported(w)'
          BY <4>2 DEF Imported, Up!TypeOK
        <4> QED
          BY <4>2, <4>3, <4>4 DEF ImportInv
      <3>2. CASE file # "there"
        BY <2>5, <3>2, ImportKept DEF Up!Claim
      <3> QED
        BY <3>1, <3>2
    <2>6. CASE Up!ImportSection(w)
      <3>1. start[w].n \in Sections /\ start[w].k = "section"
        BY <2>6, StartAt, StepKind DEF Up!ImportSection
      <3>2. Importing(w) /\ 1 .. start[w].n - 1 \subseteq settings
        BY <3>1 DEF Importing, ImportInv, Imported
      <3>3. settings' = settings \cup {start[w].n} /\ settings' \subseteq Sections
        BY <2>6 DEF Up!ImportSection, Up!TypeOK
      <3>4. Imported(w)'
        <4>1. 1 .. start[w].n \subseteq settings'
          BY <3>1, <3>2, <3>3, StartupFacts, FS_CardinalityType
        <4>2. CASE start[w].n + 1 \in Sections
          <5>1. start'[w] = [k |-> "section", n |-> start[w].n + 1]
            BY <2>6, <4>2 DEF Up!ImportSection, Up!NextSection, Up!TypeOK
          <5> QED
            BY <3>1, <4>1, <5>1, StartupFacts, FS_CardinalityType DEF Imported
        <4>3. CASE start[w].n + 1 \notin Sections
          <5>1. start'[w] = [k |-> "platform", n |-> 1]
            BY <2>6, <4>3 DEF Up!ImportSection, Up!NextSection, Up!TypeOK
          <5>2. Sections = 1 .. start[w].n
            BY <3>1, <4>3, StartupFacts, FS_CardinalityType
          <5> QED
            BY <3>3, <4>1, <5>1, <5>2 DEF Imported
        <4> QED
          BY <4>2, <4>3
      <3> QED
        BY <2>6, <3>2, <3>3, <3>4, ImportGoesOn DEF Up!ImportSection
    <2>7. CASE Up!RefuseSection(w)
      BY <2>7, ImportKept DEF Up!RefuseSection, Importing
    <2>8. CASE Up!InitPlatform(w)
      <3>1. Importing(w) /\ settings = Sections
        BY <2>8 DEF Up!InitPlatform, Importing, ImportInv, Imported
      <3>2. PICK s : start' = [start EXCEPT ![w] = s] /\ s.k \in {"platform", "remove"}
        BY <2>8, SeedLists DEF Up!InitPlatform
      <3>3. Imported(w)'
        BY <2>8, <3>1, <3>2 DEF Up!InitPlatform, Imported, Up!TypeOK
      <3> QED
        BY <2>8, <3>1, <3>2, <3>3, ImportGoesOn DEF Up!InitPlatform
    <2>9. CASE Up!RemoveFile(w)
      BY <2>9, ImportKept DEF Up!RemoveFile, Importing
    <2>10. CASE Up!LookKey(w) \/ Up!PersistKey(w)
      BY <2>10, ImportKept DEF Up!LookKey, Up!PersistKey
    <2> QED
      BY <1>1, <2>1, <2>2, <2>3, <2>4, <2>5, <2>6, <2>7, <2>8, <2>9, <2>10 DEF Up!Boot
  <1>2. ASSUME NEW w \in Workers, Up!KeyFails(w) \/ Up!Recycle(w) \/ Up!Kill(w) PROVE ImportInv'
    BY <1>2, ImportKept DEF Up!KeyFails, Up!Recycle, Up!Kill
  <1>3. CASE Up!MendFile \/ UNCHANGED Up!vars
    BY <1>3 DEF Up!MendFile, Up!vars, ImportInv, Importing, Imported
  <1> QED
    BY <1>1, <1>2, <1>3 DEF Up!Next

LEMMA ImportInvariant ==
    ASSUME Up!StartupAssumption
    PROVE  Up!Spec => []ImportInv
  <1>1. Up!Init => ImportInv
    BY ImportInit
  <1>2. ImportInv /\ [Up!Next]_Up!vars => ImportInv'
    BY ImportStep
  <1> QED
    BY <1>1, <1>2, PTL DEF Up!Spec

LEMMA ImportOne ==
    ASSUME Up!StartupAssumption
    PROVE  ImportInv => Up!OneImporter
  <1> SUFFICES ASSUME ImportInv PROVE Up!OneImporter
    OBVIOUS
  <1> DEFINE S == {w \in Workers : start[w].k \in {"section", "platform", "remove"}}
  <1>1. CASE S = {}
    <2>1. Up!Cardinality(S) = 0
      BY <1>1, FS_EmptySet, Same
    <2> QED
      BY <2>1 DEF Up!OneImporter
  <1>2. CASE S # {}
    <2>1. PICK w : S = {w}
      BY <1>2 DEF ImportInv, Importing
    <2> QED
      <3>1. Up!Cardinality(S) = 1
        BY <2>1, FS_Singleton, Same
      <3> QED
        BY <3>1 DEF Up!OneImporter
  <1> QED
    BY <1>1, <1>2

\* However many workers start, find the file, refuse it, put it back or are
\* killed with it, one of them at most imports it at a time (passenger_wsgi's
\* os.replace).
THEOREM ImportersAreOne ==
    ASSUME Up!StartupAssumption
    PROVE  Up!Spec => []Up!OneImporter
  <1>1. ImportInv => Up!OneImporter
    BY ImportOne
  <1>2. Up!Spec => []ImportInv
    BY ImportInvariant
  <1> QED
    BY <1>1, <1>2, PTL

\* The file disappears only when all its settings are committed
\* (passenger_wsgi's import block).
THEOREM ConfigIsKept ==
    ASSUME Up!StartupAssumption
    PROVE  Up!Spec => Up!ConfigKept
  <1>1. ImportInv /\ [Up!Next]_Up!vars => [file # "gone" /\ file' = "gone" => settings = Sections]_Up!vars
    <2> SUFFICES ASSUME ImportInv, Up!Next, file # "gone", file' = "gone" PROVE settings = Sections
      OBVIOUS
    <2>1. PICK w \in Workers : Up!RemoveFile(w)
      <3>1. ~ Up!MendFile
        BY DEF Up!MendFile
      <3>2. PICK w \in Workers : Up!Boot(w) \/ Up!KeyFails(w) \/ Up!Recycle(w) \/ Up!Kill(w)
        BY <3>1 DEF Up!Next
      <3>3. ~ (Up!KeyFails(w) \/ Up!Recycle(w) \/ Up!Kill(w) \/ Up!Start(w) \/ Up!LookSeed(w) \/ Up!CommitSeed(w))
        BY DEF Up!KeyFails, Up!Recycle, Up!Kill, Up!Start, Up!LookSeed, Up!CommitSeed
      <3>4. ~ (Up!LookAdmin(w) \/ Up!CommitAdmin(w) \/ Up!LookDemo(w) \/ Up!CommitDemo(w))
        BY DEF Up!LookAdmin, Up!CommitAdmin, Up!LookDemo, Up!CommitDemo
      <3>5. ~ (Up!LookFile(w) \/ Up!Claim(w) \/ Up!ImportSection(w) \/ Up!RefuseSection(w))
        BY DEF Up!LookFile, Up!Claim, Up!ImportSection, Up!RefuseSection
      <3>6. ~ (Up!InitPlatform(w) \/ Up!LookKey(w) \/ Up!PersistKey(w))
        BY DEF Up!InitPlatform, Up!LookKey, Up!PersistKey
      <3> QED
        BY <3>2, <3>3, <3>4, <3>5, <3>6 DEF Up!Boot
    <2> QED
      BY <2>1 DEF Up!RemoveFile, ImportInv, Importing, Imported
  <1>2. Up!Spec => []ImportInv
    BY ImportInvariant
  <1> QED
    BY <1>1, <1>2, PTL DEF Up!Spec, Up!ConfigKept

=============================================================================

# Verification of netcup-api-filter

TLA+ models of netcup-api-filter, a Flask application that puts accounts,
realms and restricted API tokens in front of a DNS provider.  The models are
checked with TLC on small instances; the safety properties of all of them are
also proved with TLAPS, for every size.

Paths below are relative to `src/src/netcup_api_filter/` unless they begin
with `docs/`.

## 1. The system

gunicorn (`gunicorn.conf.py`) runs two to eight processes of four threads
each.  They share one SQLite database through Flask-SQLAlchemy and nothing
else that matters here: there is no lock and no queue in the program, and no
`SELECT ... FOR UPDATE` (SQLite has none).  Three facts about the database
shape every model:

* **Reads are outside transactions.**  pysqlite opens a transaction at the
  first INSERT, UPDATE or DELETE.  What a handler has read may be stale when it
  writes.
* **Row ids come back.**  No table has AUTOINCREMENT, so a new row gets the
  largest id in use plus one: the id of a deleted last row is used again.
* **Foreign keys are not enforced.**  They are declared, with
  `ondelete='CASCADE'`, but no connection turns them on.  Unique and CHECK
  constraints are enforced.

The ORM writes the columns that changed and finds out at the flush if the row
has gone (`StaleDataError`, the transaction is rolled back).

### Components

| Component | State | Operations | Talks to | What must hold | Module |
|---|---|---|---|---|---|
| Accounts (`account_auth.py`, `api/admin.py`) | `accounts` rows: active, alias, hashes | finalize a registration, create, approve, reject, enable, disable, delete, bulk delete, rotate the alias | realms, tokens, reset links | an account that goes takes its tokens' power with it | `RealmTokens` |
| Realms and tokens (`realm_token_service.py`, `api/admin.py`, `models.py`) | `account_realms`: owner, scope, status, permissions; `api_tokens`: realm, hash, restriction, active, expiry | request, approve, reject, revoke realms; create, revoke, expire tokens | accounts, requests | permissions act only after an approval; a dead secret stays dead | `RealmTokens`, partly |
| API requests (`token_auth.py`, `api/dns_api.py`, `api/ddns_protocols.py`) | what a worker thread has read | find account, find token, check realm, call the backend | all tables, provider | served only with a live secret, in its account's realm | `RealmTokens` |
| Realm matching (`models.py`, `token_auth.py`, `api/ddns_protocols.py`) | none | match a name with a realm, take a name apart | requests | the check grants what will be written | `RealmScope` |
| Registration (`account_auth.py`, `api/account.py`) | `registration_requests`, two cookie values | register, verify, resend, submit, forget | accounts, mail | an account is submitted by who proved an address | `Registration` |
| Sessions (`account_auth.py`, `api/account.py`) | cookie, `account_sessions` | log in, answer a page, log out, revoke | accounts | a session that was ended is dead, redirects end | `Sessions` |
| Two-factor login (`account_auth.py`, `recovery_codes.py`, `api/admin.py`) | two JSON counters in `settings`, the recovery codes in the account row | try a code, count a failure, spend a code, log in, regenerate codes | accounts | wrong codes are limited, locks end, recovery codes are spent | `TwoFactor`, partly |
| Administrator login (`api/admin.py`) | JSON records in `settings`, the administrator's row | log in, lock, clear, mail a code, set up and remove a second factor | two-factor login | failures are limited, a lock ends, no way around the second factor | `AdminLogin` |
| Reset and invitation links (`password_reset.py`) | `reset_tokens` | issue, sweep, verify, redeem | accounts, mail | a link is spent once, and what is dead stays dead | `ResetLinks` |
| Telegram linking (`api/telegram.py`, `api/account.py`) | link token and chat in the account row | page, callback, unlink | accounts, bot | a chat has one account, a link token is used once | `TelegramLink` |
| Zone writers (`api/dns_api.py`, `api/ddns_protocols.py`, `api/account.py`, `netcup_client.py`) | the provider's zone | create, update, delete a record; DDNS update; four web pages | provider | what is in the zone was asked for, and a device gets its address in | `ZoneUpdate` |
| Backends and grants (`api/admin.py`, `api/account.py`, `backends/`) | services, roots, grants, realms | add, edit, test, delete; grant, revoke, reinstate; request a realm under a root | accounts, realms | who lost a root gets no realm there | `Backends` |
| Start-up (`passenger_wsgi.py`, `database.py`, `bootstrap/`, `platform_backends.py`) | the database, `app-config.toml`, each worker's key | create, migrate, seed, import, take the key | everything | the configuration is imported by one worker and never lost, workers agree | `Startup` |
| Notifications (`notification_service.py` and its callers) | daemon threads, one executor queue per process | notify after a commit, send, drain | mail, Telegram | the right people hear, once a message is queued it is tried | `Notifications`, partly |
| Legacy proxy, GeoIP, templates, diagnostics, tooling | | | | | none, see section 7 |

### What is hard here

* A request makes three queries before it calls the backend, and any handler of
  another worker may commit between them.
* Web handlers act on rows they read before another handler deleted, approved
  or re-created them, by row ids that may have been given out again.
* Counters and lists kept as JSON are read, changed in Python and written back
  as a whole: updates get lost.
* A handler answers with a whole new cookie made from the one it was sent, so
  that the answers of one browser's requests overwrite each other.
* All checks of "is there another one?" are made before the transaction that
  inserts; only a UNIQUE constraint makes up for it, where there is one.
* The provider's zone is read in one call and written in another, in part as a
  whole; either call may fail before or after it took effect.
* The bot and the browsers repeat their calls, and the calls overtake each
  other.
* Worker processes start together on one database and one configuration file,
  are recycled after a number of requests, and may be killed between two
  transactions of one request (gunicorn's timeout of 120 seconds, a restart).

`PROJECT.json` lists these hazards line by line with the properties that cover
them.

## 2. Modules

| Module | Models | Uses |
|---|---|---|
| `Tables` | a SQLite table as a function from row ids; ids of new rows; dropping rows | |
| `Credentials` | what the API promises about token secrets, abstractly | |
| `LostUpdates` | how far a value can get that several workers read, change and write back; no state | |
| `RealmTokens` | accounts, realms, tokens, API requests | `Tables`; implements `Credentials` |
| `RealmScope` | which names a realm covers | |
| `Registration` | registration requests and the cookie that carries them | `Tables`, `LostUpdates` |
| `Sessions` | the account portal's sessions | `Tables` |
| `TwoFactor` | the second login step on both portals | `LostUpdates` |
| `AdminLogin` | the administrator's login, its lock and second factor | `LostUpdates` |
| `ResetLinks` | password reset and invitation links | `Tables` |
| `TelegramLink` | linking a chat to an account | |
| `ZoneUpdate` | the writers of a zone, the provider and a DDNS device | `Tables` |
| `Backends` | services, domain roots, grants, requests for realms | `Tables` |
| `Startup` | the start of the worker processes | |
| `Notifications` | e-mails and Telegram messages about what was committed | `Tables` |
| `RealmTokens_proofs` | theorems about `RealmTokens`, its refinement of `Credentials`, and `RealmScope` | these |
| `Sessions_proofs` | theorems about `Sessions` and, as the instance `Up`, `Startup` | these |
| `TwoFactor_proofs` | theorems about `TwoFactor` and, as the instance `TL`, `TelegramLink` | these |
| `Backends_proofs` | theorems about `Backends` and, as the instance `NT`, `Notifications` | these |
| `Registration_proofs`, `AdminLogin_proofs`, `ResetLinks_proofs`, `ZoneUpdate_proofs` | theorems about one module | that module |
| `MC...` | model values and symmetry for TLC | that module |

Three conventions hold in all of them.

* `job[w]` (`task[w]` in `RealmTokens`) is what worker thread `w` has read and
  is about to do.  A handler is a **Load** step, which makes its reads and its
  decisions, and a **Commit** step, which is its transaction; a handler that
  commits twice has more steps.  A handler is one step only where its reads
  decide nothing, or decide what a constraint decides again.
* A commit whose row has gone changes nothing, as the flush fails; an insert
  that lost a race against a UNIQUE constraint fails; a commit writes the
  columns that differ from what was read, and no others.
* An operator named `..._Something` below a comment "Mutant:" is a broken
  variant of the operator after it.  No specification uses it; a property of
  the run is violated when the variant replaces the original, which shows that
  the property depends on that piece of code.

### RealmTokens

`account`, `realm` and `token` are the tables, `task[w]` is what worker `w` has
read and is about to do.

* `LoadAccount` serves all handlers of an account, since they differ in what they
  check (`MayBegin`) and in what they commit.  Inserting an account is one step:
  nothing read before it is used but the alias.
* `create_realm_by_admin` commits twice, so it is three steps (`ThenApprove`).
* An API request is four: `FindAccount`, `FindToken`, `CheckRealm`, `Serve`.
* Record types and operations are one set of permissions: they are stored,
  restricted and compared alike.  A token with an empty set is one with NULL in
  the column and inherits (`Effective`).
* A secret is the pair of an alias and a serial number.  The string is
  `naf_<alias>_<random>`, the hash accepts exactly the string that was minted,
  and neither an alias nor a random part is generated twice.
* `is_active = 0` means "waiting for approval" and "disabled" alike, as in the
  code, so a disabled account may be approved or rejected.
* The bulk endpoints are taken one id at a time.
* Use counters and the activity log are left out, since no decision reads them.
  So is what has no effect: service functions that no route calls
  (`update_realm_permissions`, `delete_realm`, `update_token`, the service's
  `regenerate_token`), the account portal's regenerate route, which fails
  before it writes, and `realm_revoke`, whose status the CHECK constraint
  refuses.
* Every reuse of ids is allowed.  One of them does harm: a bulk deletion has read
  the realm ids of an account, another handler deletes the last of these
  realms, a third inserts a realm that gets the same id, and then the bulk
  deletion commits and takes the new realm along (`api/admin.py:2695`).  The
  new realm's tokens are orphaned, and when a third realm gets the id, a
  request that has found such a token before goes on in a stranger's realm.
  `StaysAtHome` names this step (`Strays`) and says that no other takes a
  request out of its own account's realm.

### Credentials

Three variables: how many secrets were issued, which authenticate, and one call
per worker.  A secret is issued once, issuing touches no other secret, the dead
stay dead, and a call is granted only if its secret was live when it arrived.
The mapping is at the end of `RealmTokens` (`Promise`): `minted` is `serial`,
`live` the secrets with an active, unexpired row and an alias somebody holds,
`calls` the tasks of API requests (`CallOf`), where `serve` is "granted".

### RealmScope

No state: `get_fqdn`, `matches_hostname`, `matches_domain`,
`check_permission` with `_resolve_fqdn`, and `parse_hostname` over names as
sequences of labels, beside `Covers`, which says directly what a realm is for.
`RealmTokens` has abstract scopes and names instead; `MCRealmTokens` carries the
bounded check of this module as assumptions, and `RealmTokens_proofs` the
general one.  A record name that repeats its zone is checked as a complete name
but sent to the provider as it is (`token_auth.py:341`), so the exactness of
the check is stated for names that do not.

### Registration

`request` is the table, `cookie[b]` the values `registration_id` and
`email_verified` of browser `b`.  Verification compares the code in the Load
step and counts a wrong one in the Commit step (`CommitMiss`), with the number
it read; a right code commits with `CommitPass` and sets the cookie with the
answer.  A user name goes with its address, as both are checked and constrained
alike.  Requests expire, are deleted by a later verification, and their ids come
back.  The ghosts are the wrong codes compared since the code was mailed
(`guesses`) and the browsers that ever entered a right one (`proved`).

### Sessions

A browser has one tab that navigates, and pages that poll in the background with
the same cookie.  The session is permanent, so every answer sets the cookie
again as its request brought it (`Refresh`): one that is overtaken by a logout
or a login brings the old cookie back.  `LogOut` is `logout()`: it clears the
cookie also when the row could not be revoked.  `Admit`, `Bounce` and `BounceAsIs` are
the three outcomes of `require_account_auth`.  Creating a session may fail at
its commit or with its worker.  Rows of `account_sessions` are never deleted;
account rows are, and their ids are given out again.  `ended` is the set of
sessions a user was told are over, but for one kind: the commit of a logout
failed while another request with the same cookie was under way
(`Returning`).  Its answer brings back a cookie whose session still lives, and
the code has nothing to stop it.

### TwoFactor

One account, any method on any portal.  `count` and `old` are the settings rows
of the two counters and whether the last failure is thirty minutes ago;
`stored` is the list of recovery codes.  A request is split where the code
reads and writes: checking the lock and the code, reading the counter
(`ReadCount`), writing it (`WriteCount`), spending a code (`SpendCode`),
resetting the counters (`Login`).  A worker that reads a lapsed counter
(`FindLapsed`) deletes the row in a later step (`Purge`), by its key, with what
others have written there meanwhile, and goes on as if there had been no
failures; so each lock of a recovery request is looked at in a step of its own
(`EnterRecovery`, `Recover`).  The handler has loaded the account, with its list
of recovery codes, before the first of them; the model reads the list with the
second.  `CodeAcceptedFew` counts lists that are out of date and takes no
account of the locks, so nothing it says depends on which of the two it is.
The mailed code is in the browser's cookie
(`send_2fa_code` and its expiry are not modelled), so a request is its method
and whether the code is right.  The ghosts `tries` and `accepted` count up to
one more than the properties allow and stay there.

### AdminLogin

One administrator.  The failure record is `count` and `lock`: a failure reads it
(`ReadRecord`) and writes it (`WriteRecord`), a success overwrites it
(`ClearRecord`), fifteen minutes are `Lapse`.  The mark of the last mail is read
(`CheckInterval`), the mail sent (`SendCode`) and the mark written
(`MarkSent`).  `account` is what the login looks at: an address that works,
mailed codes, a forced change of the password, the authenticator and its secret.
The pages that change these in either portal are Load and Commit.  `out` is the
set of kinds of cookies that browsers hold; they are never taken back, as
whoever has one may send it again.  `guessing` is a bound: a behaviour has wrong
passwords, for an account with mailed codes, or changes of the account; no step
reads the failure record and the account together.

### ResetLinks

`link` is `reset_tokens`; `target` is a plain number, as in the table.
Issuing is `FindUnused`, `DropUnused`, `InsertLink`, for the two transactions
and the read before them; redeeming is `VerifyLink`, `CheckLink`,
`CommitReset`, then `FindUnused` and `DropUnused` for the sweep.  `Abort` ends
any request between two steps.  Requests refused for their address, route or
password change nothing and are left out.  Deleting an account is one step
here; its interleavings are the subject of `RealmTokens`.

### TelegramLink

Each account's row has a chat, a switch, the hash of a link token and its expiry;
`cached` is the token in its browser's cookie.  The page issues a token in its
commit, unless the browser's is still good.  `calls` are the bot's calls: one for
each time a user opens a link, each of them repeated and overtaken at will.  The
callback looks for the token's account and for another account with the chat
(`LoadCallback`), and links later (`CommitBind`).  `uses` counts how often a
token was accepted.

### ZoneUpdate

`zone` is the provider's.  The token API's three record routes are one call each;
a DDNS request and the web pages read (`DdnsRead`, `WebCreate`, `WebEdit`,
`WebDelete`, `WebDdns`) and send (`Update`) in two calls.  `UpdateFails` is a
call the provider did not apply; an answer that was lost is `Update`, since
nothing in the code acts on the answer but the message to the user.  The
provider lists records by id, and takes an id it does not know but has given
out as a record to create, or refuses it: both are allowed.

### Backends

Five tables.  A backend's form amounts to credentials that are right or wrong;
a test reads the row, asks the provider, and writes the verdict it got for what
it read.  `Opens` is the check that the request page makes
(`get_available_domain_roots_for_account`), `Access` what the tables say.
Deleting a root or a backend looks for realms or roots first and deletes later.
The ghosts count what slips through: `late` the realms an account got under a
root since it lost the access, `misjudged` the times a wrong configuration was
called working since its row was written.

### Startup

`at[w]` is the step worker `w` is about to take: the four parts of `init_db`,
each looked at and then committed; the administrator; the demo account; the claim
of `app-config.toml` by renaming it, its sections, the platform's backends, the
removal or the restoration of the file; the key.  The database is empty, of an
earlier release, or current at first, and one section of the file may be
refused until the operator mends it.  An exception leaves the worker serving an
error page (`broken`) until `Recycle`; `Kill` may take it at any step.
`KeyFails` is the one exception that is caught: the settings table cannot be
read or written where the key is looked up, and the worker serves with a key of
its own until it is recycled.

### Notifications

A handler commits and then calls its notify functions one after another
(`Notices`); each reads the account's row again, by its id, and starts a daemon
thread or puts a message into the process's queue, or raises (`Fail`), which
ends the request.  An administrator's change of an address is two
transactions: the address (`ChangeAddress`), then the activity log
(`CommitUpdate`), after which the two notices are sent.  When the log fails
(`Abort`) the address is changed and neither notice is sent.  An address stands
for the account holder it belongs to.
`Deliver` is a daemon thread, `SendAlert` the executor's.  A process that is
recycled drains (`Drain`), runs its queue down and exits with its daemon threads
(`Exit`), or is killed with all of it.

## 3. Runs

Every property fails under at least one mutant.

| Run | Workers and bounds | Shows |
|---|---|---|
| `two` | 2 workers; 2 account rows, 1 realm, 1 token row; 3 aliases, 1 serial number; 1 scope, name, permission | `TypeOK`; a served request's secret was live on arrival (`ServedWasLive`); only a stray bulk deletion takes a request out of a realm of the account with the secret's alias (`StaysAtHome`); `DeadSecretsStayDead` |
| `perms` | 2 workers; 1 row per table; 2 aliases, 2 secrets; 2 permissions | `PromiseKept`: the refinement of `Credentials`; `ApprovedPermsStable` |
| `tfa_race` | 2 workers, 2 recovery codes, limits 2 and 1 | `TypeOK`; wrong codes and uses of recovery codes are few (`WrongCodesBounded`, `CodeAcceptedFew`); under fairness `LockEnds` |
| `links_race` | 2 workers; 1 account row held by 2 people in turn, 3 link rows, 3 links; workers killed anywhere | `TypeOK`, `SpentLinkIsDead`, `LinksBounded`, `DeadLinkStaysDead`, `ResetEndsOlderLinks` |
| `zone_settles` | 2 workers, 2 names, 2 addresses, 6 records, 2 other requests, 2 moves | `TypeOK`, `NothingInvented`, `DuplicatesBounded`; under fairness `Settles` |
| `registration` | 2 workers, 2 browsers, 2 addresses, 2 attempts, 2 request rows | `OneRequestPerEmail`, `GuessesBounded`, `SubmitterProved` |
| `portal` | 2 workers, 2 browsers, 1 account row, 2 sessions | `CookieHasRow`, `EndedStaysOut`; under fairness `RedirectsEnd` |
| `telegram` | 2 workers, 3 accounts, 1 chat, 4 link tokens | `SharedByFew`, `UsedByFew` |
| `admin_login` | 2 workers, threshold 4 | `GuessesBounded`, `MailsBounded`, `BareFew`; under fairness `LockEnds` |
| `startup` | 2 workers, 2 sections, demo accounts, 1 kill or failure of the settings table | `OneImporter`, `ConfigKept`; under fairness `KeysAgree`, `AllServe` |
| `backends` | 2 workers; 1 domain, account, backend, root and grant row, 3 realms | `LateFew`, `FalseSuccessFew` |
| `notifications` | 2 workers of 1 process, 1 account row, 2 people, 3 events, both lockout notices switched on | `BothAddressesHear`, `StraysFew`; under fairness `AlertsTried` |

`two` and `perms` also evaluate the three assumptions of `MCRealmTokens` about
`RealmScope`: all realms with values of up to two labels and domains of up to
three, with names of up to four (five for DDNS) labels of two kinds.

Deadlock is checked where the system runs for ever (`tfa_race`, `admin_login`,
`startup`, `backends`, `notifications`).  In the others bounded counters and
row ids let the model stop.

### What the bounds mean

Several properties say "few" where a reader would expect "one" or "none".  This
is what the code guarantees: its checks come before its transactions, so each
request under way may still get through, and no others.  The properties say
that the damage does not add up: it is bounded by the number of worker threads,
not by time, repetition or the reuse of ids.  TLC finds the bounds of
`WrongCodesBounded`, `CodeAcceptedFew` and the two `GuessesBounded` reached.

The four of them are about a value that is read, changed and written back as a
whole.  Every write of a counter is above the value it read, but a write that
was held up sets the counter back, so `n` workers can try more often than the
limit `Max` says.  They try at most as often as there are ladders
(`LostUpdates`), less one: `C(Max + n, n) - 1` times, which is `Max(Max + 3)/2`
for two workers and grows with a power of the limit for each worker more.

The counters of `TwoFactor` are set back by something else as well.  A worker
that has read a lapsed row deletes the row later, and by then others may have
counted failures there.  It deletes once and has no failure of its own to write
before that, so the ladders of one worker, of two, and so on up to `n` may be
gone through one after the other: `Changes` is the sum of `C(Max + j, j) - 1`
for `j` from 1 to `n`.  That is 7 wrong codes for a limit of 2 and two workers,
3 for a limit of 1, and 25 for the default limit of 5.  Wrong TOTP codes on the
account portal count nowhere (`account_auth.py:593`): neither the code nor the
property limits them, though `docs/SECURITY_IMPROVEMENTS_2FA.md:47` says of the
lockout that it "Applies to both email and TOTP 2FA methods".

One recovery code of `m` logs in at most `C(m + n - 1, n - 1)` times: once with one
worker, `m + 1` times with two.  The bounds are not only safe: with three
workers TLC finds 19 tries for a threshold of 3 (`AdminLogin`) and 6 logins with
one of two codes (`TwoFactor`), as the formulas say.

### Why the bounds are enough

* **Workers.**  Every property relates one request to what others commit in the
  meantime; the other commits are made one after another by the second worker,
  between any two steps of the first.  The theorems of section 5 hold for any
  number of workers.
* **Rows.**  A single row of a table is enough for its id to be given out again
  while a request holds it.  `two` has two account rows and three aliases, so
  that a realm's id comes back under another account while a request of the
  first, or a bulk deletion, is under way.
* **Secrets, links, tokens, sessions.**  Links and link tokens: one per worker
  and one to replace them; sessions: one per browser.  `two` follows one secret
  through everything that can happen to its account, realm and alias; that a
  second one does not bring it back is part of the refinement, which `perms`
  checks with two.
* **People.**  Two holders of one account row in turn: the one meant and the one
  hit.  Two browsers: one that proves something and one that does not.
  Three accounts for one chat: one more than `SharedByFew` allows.
* **Threshold.**  Four, not two: with a low threshold a lock hides the lost
  updates.
* **Records.**  Two names are the device's and any other; two moves bring the
  device back to an address it had before.
* **Kills.**  One kill, or one failure of the settings table, puts a worker's restart behind any step of the others.
  The theorems hold for any number.
* **Processes.**  Notifications of two processes share nothing but the account
  table, which the model lets change at every step.

### Also seen

Behaviours of the code that a reader may not expect.  They are part of the
models, or met while writing them, and no run states their contrary.

Realms and tokens
* A request approved by one administrator and rejected by another may be asked for
  again with other permissions before the first one's commit, which then
  approves these (`realm_token_service.py:205`, `:282`): nobody has looked at
  them.  `ApprovedPermsStable` says only that permissions do not change while
  the realm stays approved.
* A token keeps its own permissions when its realm is rejected, requested again
  with fewer and approved: `get_effective_operations` returns the token's list,
  never the intersection (`models.py:656`; `:580` calls it a subset).
* An approval and a rejection of one request both succeed
  (`realm_token_service.py:282`); a bulk revocation leaves tokens active
  (`api/admin.py:2782`); rejecting an account leaves its tokens without a realm
  (`account_auth.py:1078`).
* `account_create` inserts the realm without looking for a duplicate, in a second
  transaction.  `realm_revoke` writes a status the CHECK constraint refuses.  The
  portal's "regenerate token" is always refused, as the name exists
  (`api/account.py:1724`).
* Realms whose zone has not two labels are never granted a DDNS update
  (`api/ddns_protocols.py:118`).

Registration, login, sessions
* The cookie of an earlier request's verification also submits a later one
  (`account_auth.py:269`).  Expired requests go only when the browser that holds
  the id verifies again.
* A recovery code is accepted by two requests at once (`recovery_codes.py:137`),
  comes back with an older list (`:138`), and is refused while mailed codes are
  locked (`account_auth.py:511`).  A wrong TOTP code is not counted in the
  account portal (`account_auth.py:593`;
  `docs/SECURITY_IMPROVEMENTS_2FA.md:47` says it is).  `GET ?method=totp` does
  not switch the method there.
* The rate-limited branch of `login_2fa` (`api/admin.py`) uses `mask_email`
  before its local import, which raises.
* Overlapping requests to enable and disable the authenticator leave it enabled
  without a secret, or a secret without it; two changes of the administrator's
  password, one with and one without an address, leave an address without mailed
  codes.  "At least one 2FA method" (`account_auth.py:419`) is no constraint of
  the database.  Logging out leaves `pending_totp_secret` in the cookie.
* `logout()` swallows a revocation that could not be committed
  (`account_auth.py:728`) and tells the user that they are logged out; an
  answer that was under way then brings back a session that still lives.
* The cookie of a deleted account is sent back and forth between login page and
  dashboard (`account_auth.py:760`, `api/account.py:84`): `RedirectsEnd`
  excludes it.

Links and zones
* A worker killed between a redemption and its sweep leaves the account's older
  links usable until they expire: `ResetEndsOlderLinks` is about redemptions
  that finish (`password_reset.py:253`).
* One link sets two passwords if both requests verify it first
  (`password_reset.py:250`); it works for the next holder of the account's id
  (`:219`); two live links of one kind can exist (`:109`).
* The web pages send back all records they read and undo other names' updates
  (`api/account.py:1621`); duplicates of a device's name stay stale, as only the
  first is updated (`api/ddns_protocols.py:247`).

Telegram, backends, notifications
* Callbacks that overtake each other share a chat between accounts.  With two
  chats, the column-wise commits of linking and unlinking leave
  `telegram_enabled` without a chat.
* Editing a backend keeps its test status.  `max_realms`, `max_hosts_per_user`,
  the subdomain depth and `require_email_verification` are stored and never
  read.  A re-request of a rejected realm keeps its old root.  An expired grant
  is "already active" until it is revoked.  Grants and backends of a deleted
  account pass to the next holder of its id (`models.py:1258`).
* When the log of a changed address cannot be committed, the address is changed
  and neither the old nor the new one is told (`api/admin.py:1296`, `:1333`),
  though the docstring says both are (`:1252`).
* E-mails in daemon threads are lost when a worker is recycled.  Two changes of an
  address tell the same old one twice and the middle one never.  A notify
  function that raises answers 500 for what was committed.
  `notification_email`, `notify_new_ip`, `notify_failed_auth` and
  `notify_token_expiring` are stored and never read.

Start-up
* Workers race for the key (`passenger_wsgi.py:648`): one may serve with its own
  for a while.  A worker that loses a seeding race serves the error page until it
  is recycled.  One that starts while another holds `app-config.toml` seeds the
  default administrator beside the configured one (`database.py:269`).
* `[[domain_roots]]` of the file never creates a root: `create_domain_root`
  (`bootstrap/seeding.py:1230`) lacks parameters it is called with, and the
  `TypeError` is reported as a parse failure.  An exception of
  `initialize_platform_backends` is swallowed and the file deleted all the same
  (`passenger_wsgi.py:626`).  A killed importer leaves `.processing.<pid>`.

## 4. Fairness

Safety runs use none.

* `TwoFactor`, `AdminLogin`: weak fairness of `Handle(w)`: a request that was
  begun ends, since its steps only wait for the database and gunicorn kills what
  takes too long; weak fairness of `Lapse`: time passes.  No fairness is assumed
  of users: `LockEnds` says that a lock ends although they keep trying.  `Lapse`
  waits until no worker is about to count a failure or to delete a row it found
  lapsed: no request lives for as long as a lock.  Without this, a request could
  carry a count across the lapse.
* `Sessions`: weak fairness of `Handle(w)`, and strong fairness of a browser's
  `Fetch`: it follows its redirects at once, and the listen queue gives each
  waiting request a worker in turn, though others keep the workers busy.
* `Startup`: weak fairness of `Boot(w)` and `Recycle(w)`: a worker that was
  started gets on, and requests keep arriving, so that `max_requests` replaces
  each worker in the end.  `KeysAgree` and `AllServe` rest on the latter.
* `Notifications`: weak fairness of `SendAlert(p)`: the executor's thread runs
  and gives up on the API after a timeout.  It is part of `Spec` and affects no
  safety property.
* `ZoneUpdate`: weak fairness of `UpdateFails(w) \/ Update(w, "web")`: a call
  ends, with or without success.  Weak fairness of a device's request while its
  address is not in the zone: DDNS clients repeat until they read "good" or
  "nochg".  Strong fairness of `Update(w, "ddns")` over all workers: a provider
  that is asked again and again does not refuse forever.  The last two are
  assumptions about the outside, and `Settles` is void without them.

## 5. Proofs

Each `..._proofs` module proves its theorems for every set of workers and of
the other constants and for all bounds.  The proofs follow one pattern: type
correctness action by action; then the inductive invariant, as the property
alone says nothing about what workers have already read; then the property.

The named assumptions of the modules are the only ones:

* bounds are natural numbers, row-id bounds and limits positive where the code
  has a first row or a first try, switches Booleans;
* workers are finite where they are counted, and there is one at least in
  `ZoneUpdate` and `Notifications` (`StraysFew` says "fewer than the workers");
* the device's name is one of the names, recovery codes are finite, a
  placeholder (`NoChat`, `NoKey`) is none of the things it stands in for.

Three components share a proof module with another and are proved about as an
instance: `Startup` (`Up`), `TelegramLink` (`TL`) and `Notifications` (`NT`).
Their theorems read `ASSUME Up!StartupAssumption PROVE Up!Spec => ...`: the
hypothesis is the component's own assumption on its constants, which TLC
evaluates in its run.  The proof module
declares the instance's variables and constants; a variable that both components
have is declared under another name and substituted
(`TL == INSTANCE TelegramLink WITH issued <- links, job <- task`).

### RealmTokens

| Theorem | Statement | Needs |
|---|---|---|
| `TypeCorrect` | `Spec => []TypeOK` | `BoundsAssumption` |
| `ServedLive` | `Spec => []ServedWasLive` | `LiveInv` |
| `DeadForever` | `Spec => DeadSecretsStayDead` | `LiveInv` |
| `KeepsPromise` | `Spec => PromiseKept`, the refinement of `Credentials` | `LiveInv` |
| `StayHome` | `Spec => StaysAtHome` | `HomeInv` |
| `ApprovalBinds` | `Spec => ApprovedPermsStable` | `TypeOK` |

**The argument.**  The first part proves type correctness action by action.
The second says once what a step may do to each table and to a task
(`AccountEffect`, `RealmEffect`, `TokenEffect`, `TaskEffect`): an account row
keeps its alias or one row gets a fresh one; a token row keeps its secret and is
never reactivated; a new token row is what a pending `create_token` prepared.
`StepEffect` shows that every step has these effects.  Everything after it
argues from the effects, not from the actions.

`ServedWasLive` is not inductive: that a served request's secret was live says
nothing about a request which has only found its account.  `LiveInv` adds

* `Fresh`: aliases and serials in tables and tasks were generated before, and
  an alias has one holder, so that nothing new can look like something old;
* `CallsLive`: a request that arrived with a dead secret finds no usable row,
  and one that found a row arrived with a live secret.

`DeadSecretsStayDead` then follows in one step: a row that authenticates
afterwards did before, or has a new serial.

`StaysAtHome` has two halves.  That a request which finds its token is at home
rests on `FindToken`, which looks among the tokens of the account it has found,
and on `CallsHome`, which `HomeInv` adds: if anybody holds the alias of a
request's secret, it is that account.  Aliases do not come back as ids do, so
nobody holds that of a deleted account, and a token orphaned by `reject_account`
serves no stranger.  That the request stays at home is a look at every step that
drops a realm or replaces it (`RealmEffect`): the deletion of the realm's own
account leaves nobody who holds the alias, and all that is left is a bulk
deletion that holds the realm's id from another account (`Strays`).

**The refinement** maps each step of a handler to issuing one secret (`Mint`),
to letting some die (`Die`), to a step of a request (`Arrive`, `Grant`,
`Answer`), or to nothing (`FindToken` with a usable row).  That an approved
`CheckRealm` is a `Grant`, which demands a live secret on arrival, is
`CallsLive` again.

### The other modules

| Module | Theorem | Property | Inductive invariant |
|---|---|---|---|
| `Registration` | `RequestsAreOne` | `OneRequestPerEmail` | itself, with types: the commit asks the constraint again |
| | `SubmittersProved` | `SubmitterProved` | `ProofInv`: a cookie that says "verified", and every pending insertion, pass or submission that relies on one, belongs to a browser that entered a right code |
| | `GuessesAreBounded` | `GuessesBounded` | `GuessInv`: the ladder described below, one per row id, with `MissInv` |
| `Sessions` | `TokensHaveRows`, `EndedStayOut` | `CookieHasRow`, `EndedStaysOut` | `RowInv`: tokens in cookies and requests have rows, and no two browsers have the same; a revocation names rows that exist; what was ended is not live, or no cookie and no request has its token |
| `Startup` | `ImportersAreOne`, `ConfigIsKept` | `OneImporter`, `ConfigKept` | `ImportInv`: a worker that imports has the file claimed and the sections before its own are committed, and there is one at most |
| `TwoFactor` | `CodesAreAcceptedByFew` | `CodeAcceptedFew` | `FewInv`: the ladder described below, of all workers but one, for each recovery code |
| | `WrongCodesAreBounded` | `WrongCodesBounded` | `WrongInv`: the ladder described below, one per counter, of the workers that are not about to delete its row; each deletion adds a worker and starts the next stage |
| `TelegramLink` | `TokensAreUsedByFew` | `UsedByFew` | `UseInv`: tokens of two accounts differ; a token that still waits was not used; its uses and the callbacks about to use it are at most the workers |
| | `ChatsAreSharedByFew` | `SharedByFew` | `ShareInv`: accounts with a chat and accounts about to get it are at most the workers |
| `AdminLogin` | `MailsAreBounded` | `MailsBounded` | `MailInv`: mails of the interval and workers about to send one are at most the workers, and without the mark only those about to set it have sent |
| | `BareAreFew` | `BareFew` | `PlaceholderInv`: while there is only the placeholder address, the administrator's session is good for nothing but the forced change of the password, so nothing else is set up; `BareInv`: sessions opened without a second factor and those about to be are at most the workers, and none while no factor is usable |
| | `GuessesAreBounded` | `GuessesBounded` | `GuessInv`: a record without a lock is below the threshold; the ladder described below |
| `ResetLinks` | `DeadLinksStayDead` | `DeadLinkStaysDead` | `SecretsInv`: every secret in the table was minted, and no two rows share one |
| | `SpentLinksAreDead` | `SpentLinkIsDead` | `SpentInv`: a used secret opens no link, and whoever is about to redeem one holds the only row with its secret |
| | `ResetsEndOlderLinks` | `ResetEndsOlderLinks` | `SweepInv`: a worker that sweeps after a redemption looks for every kind and, once it has looked, has every older unused link of the account on its list |
| | `LinksAreBounded` | `LinksBounded` | `RoomInv`: for every set of workers that sweep, the unused links they will not drop, themselves, and the workers about to insert one are together at most the workers |
| `ZoneUpdate` | `NothingIsInvented` | `NothingInvented` | `AskedInv`: so was every record that a request under way is about to write |
| | `DuplicatesAreBounded` | `DuplicatesBounded` | `FreshInv`: ids in the zone and in requests were given out; `TallyInv`: ids of the device's records and workers about to add one are at most the workers and the other calls, and at most as many of them were disturbed as there were other calls |
| `Backends` | `LateRealmsAreFew` | `LateFew` | `LateInv`: late realms and workers asking for one are at most the workers; none is late while there is access |
| | `FalseVerdictsAreFew` | `FalseSuccessFew` | `JudgedInv`: the same of false verdicts and of tests that read right credentials |
| `Notifications` | `BothHear` | `BothAddressesHear` | `HearInv`: a notice that a logged change of address owes is settled, in a mail under way, or still on the list of the handler that owes it; `MailsInv`: no other event has such a notice |
| | `StraysAreFew` | `StraysFew` | `StrayInv`: nobody has two rows and a handler has the id of the row it read (`HomeInv`); while somebody has a row, or none yet, no mail about them strays; afterwards the strays, the mails about to stray and the handlers that may still send one are fewer than the workers, as one worker was needed to delete the row |
| `RealmScope` | `MatchIsCover`, `CheckExact`, `DdnsExact` | | none: facts about sequences of any length |

Every component with a state has its theorem of type correctness: `TypeCorrect`,
or `StartupTypeCorrect`, `TelegramTypeCorrect`, `NoticesTypeCorrect` for the
instances.  Where a run leaves `TypeOK` out, the theorem stands in for it.  Three
of them are no matter of types alone:

* `Registration` needs `MissInv`, that a wrong code about to be counted saw
  attempts left: without it, `verification_attempts` would pass the limit of its
  CHECK constraint;
* `TwoFactor` needs `Loaded`: a list about to be written back holds codes that
  were issued, without the one that is spent;
* `Notifications` needs that a handler's notices are those of its kind, that its
  event is noted as a change exactly when it changes an address, and that the
  events of the handlers under way fit under `MaxEvent` (`NoticeTypes`).

**Counting.**  "Few" is always proved the same way: what has happened, together
with the workers that may make it happen once more, is bounded by the workers.
A worker that ends its request leaves the second set just as the ghost counts
it, and a worker that begins finds the bound kept by what it has read.
`FiniteSetTheorems` supplies the cardinalities.  `LinksBounded` needs more: two
sweeps that overlap may each drop what the other relies on, so the bound is
stated for every subset of the sweeping workers at once.

**Ladders.**  Four properties bound what lost updates let pass:
`WrongCodesBounded`, the two `GuessesBounded` and `CodeAcceptedFew`.  They hold
for any number of workers, and the argument is one:

* A worker that is about to write stands on the level it has read, every other
  one on the level the counter has.  The ladder of a state says for each level
  below the limit how many stand there or lower.
* A write takes its worker, and whoever is not about to write, to the level
  above the one its worker stood on.  The counter may fall, but on the lowest
  level where the two ladders differ the new one is lower: it is `Further`.
  `Further` is a strict order (`FurtherOrder`), so no ladder comes back and
  fewer are left (`Fewer`, `Climb`, `Rise`).
* `Kept`: every try so far is a ladder gone or a worker that is still due to
  write.  A try makes its worker due (`KeptTry`), a write uses up a ladder
  (`KeptWrite`).  So does a write that fails because another worker inserted the
  row; if it fails because the row was deleted, its worker falls to zero, and
  `Kept` says what has been tried by then (`KeptFailed`).  A reset starts again
  (`KeptReset`).
* In `TwoFactor` a worker that is about to delete a lapsed row takes no part in
  the ladder.  When it has deleted the row it joins the others, and what they
  have tried so far goes to the account of the stage that is over (`Budget`,
  `StagesNext`).
* Those who are due could each climb to the top, so they are at most as many as
  the ladders left (`Leap`, `DueSize`); what remains of `Kept` is the bound
  (`KeptBound`).

A recovery code's level is how many codes the list has lost, with the top for a
list without the code, and a login with the code is a step to the top.  This
ladder counts up to all workers but one: while all of them stand below the top
there is one login to spare (`Spare`), and afterwards each takes a ladder
(`SpendClimbs`).

The definitions are in `LostUpdates`.  The lemmas need finitely many workers and
nothing else of a component; they stand at the head of `TwoFactor_proofs`,
`Registration_proofs` and `AdminLogin_proofs`, each about its own `Workers`.
Arguments by the least counterexample (`LeastOf`) take the place of induction, whose
theorems the provers cannot instantiate.

### Only model-checked

* Liveness: `LockEnds` of `TwoFactor` and of `AdminLogin`, `Settles`,
  `RedirectsEnd`, `KeysAgree`, `AllServe`, `AlertsTried`.  `ENABLED` and fairness
  are beyond the prover.

## 6. Plan

The modules came in this order, the most important behaviour first:
`RealmTokens` with `Credentials`, `TwoFactor`, `ResetLinks`, `ZoneUpdate`,
`Registration`, `Sessions`, `TelegramLink`, `AdminLogin`, `Startup`,
`Backends`, `Notifications`, `RealmScope`.  What is left:

* The bulk endpoints of `RealmTokens` as one transaction over a set of ids, which
  a row deleted meanwhile rolls back as a whole (`api/admin.py:2713`).
* `Sessions` composed with `ResetLinks`: a redeemed link is meant to end the
  account's sessions.

## 7. Not modelled

* **The legacy proxy** (`filter_proxy`): its handlers read `g.token`, which
  nothing sets, so each fails on its first line, and the routes of
  `api/dns_api.py` come first where paths overlap.
* **Functions without a caller**: `update_realm_permissions`, `delete_realm`,
  `update_token`, the service's `regenerate_token`, `verify_email_link`,
  `send_registration_verification_email`, `notify_new_ip_login`,
  `notify_token_expiring`, `send_security_alert_email`.
* **Text**: templates, the wording of mails, formatting, logging, GeoIP look-ups,
  diagnostics, the syntax checks of names.
* **Cryptography**: hashes accept what they were made from, signed cookies are
  not altered, random strings do not repeat.
* **The backends' DNS calls** through the registry: no DNS request route uses it.
* **Tests, tooling and deployment**: outside the program; `gunicorn.conf.py` is
  the source of the process model.

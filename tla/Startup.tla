------------------------------ MODULE Startup ------------------------------
(***************************************************************************)
(* The start of the worker processes.  Each of them, whenever it is        *)
(* started, creates and seeds the database as far as it is not, imports    *)
(* app-config.toml if it gets hold of the file, and takes the key that     *)
(* signs the session cookies from the settings table, or puts its own      *)
(* there.  Every step looks first and writes in a later transaction, and   *)
(* several workers start at once on one database.                          *)
(*                                                                         *)
(* An exception of the first part leaves the worker serving an error page  *)
(* until gunicorn replaces it (max_requests).  Workers are killed too, and  *)
(* the database fails where the key is looked up, MaxKill times in all.    *)
(* The key a worker generates is named after the worker: a key of an       *)
(* earlier start is in use only where the settings table has it.           *)
(***************************************************************************)
EXTENDS Integers, FiniteSets, Sequences

CONSTANTS Workers,   \* gunicorn's worker processes
          Sections,  \* settings the configuration file sets, as 1 .. n
          SeedDemo,  \* SEED_DEMO_ACCOUNTS of the environment
          NoKey,     \* no key in the settings table; a key that was never in it
          MaxKill    \* bound: workers killed, and settings tables that fail

ASSUME StartupAssumption == /\ NoKey \notin Workers
                            /\ SeedDemo \in BOOLEAN
                            /\ MaxKill \in Nat
                            /\ IsFiniteSet(Workers)
                            /\ IsFiniteSet(Sections)
                            /\ Sections # {}
                            /\ Sections = 1 .. Cardinality(Sections)

VARIABLES at,        \* the step each worker is about to take
          seeded,    \* what create_all, migrations and seeding have committed,
                     \* "demo": the demo account with its realm and token
          admins,    \* administrators: "default" of the environment, "configured"
          file,      \* app-config.toml: "there", "claimed" by a worker, "gone"
          bad,       \* the section of the file that is refused, 0 for none
          settings,  \* sections of the file in the settings table
          platform,  \* steps of initialize_platform_backends that are committed
          persisted, \* the secret_key of the settings table
          key,       \* the key each worker signs with
          kills      \* workers killed, and settings that failed, so far

vars == <<at, seeded, admins, file, bad, settings, platform, persisted, key, kills>>

\* The steps of init_db in their order, and of the import after the settings
\* (its third, the domain roots, always ends in a TypeError that is caught:
\* create_domain_root does not take the arguments it is given).
Seeds == <<"tables", "columns", "enums", "providers">>
Platform == <<"users", "services">>

Step == [k : {"down", "claim", "replace", "key", "persist", "serving", "broken"}]
   \cup [k : {"remove"}, rollback : BOOLEAN]
   \cup [k : {"look", "seed"}, n : 1 .. Len(Seeds)]
   \cup [k : {"lookAdmin", "lookDemo", "addDemo"}]
   \cup [k : {"addAdmin"}, who : {"default", "configured"}]
   \cup [k : {"section"}, n : Sections]
   \cup [k : {"platform"}, n : 1 .. Len(Platform)]

Is(w, k) == at[w].k = k
Go(w, s) == at' = [at EXCEPT ![w] = s]
GoTo(w, k) == Go(w, [k |-> k])

\* A database that is empty, of an earlier release, or built for this one.
Init == /\ at = [w \in Workers |-> [k |-> "down"]]
        /\ seeded \in {{}, {"tables", "enums", "providers"},
                       {"tables", "columns", "enums", "providers"}}
        /\ admins \in IF seeded = {} THEN {{}} ELSE {{}, {"default"}}
        /\ file \in {"there", "gone"}
        /\ bad \in Sections \cup {0}
        /\ settings = {}
        /\ platform = {}
        /\ persisted = NoKey
        /\ key = [w \in Workers |-> NoKey]
        /\ kills = 0

-----------------------------------------------------------------------------
\* gunicorn starts a worker, and the worker its application (create_app).
Start(w) ==
    /\ Is(w, "down")
    /\ Go(w, [k |-> "look", n |-> 1])
    /\ UNCHANGED <<seeded, admins, file, bad, settings, platform, persisted, key, kills>>

\* The step after the n-th of init_db.
NextSeed(n) == IF n = Len(Seeds) THEN [k |-> "lookAdmin"] ELSE [k |-> "look", n |-> n + 1]

\* Mutant: nobody looks what is there.
LookSeed_Never(w) ==
    /\ Is(w, "look")
    /\ Go(w, [k |-> "seed", n |-> at[w].n])
    /\ UNCHANGED <<seeded, admins, file, bad, settings, platform, persisted, key, kills>>

\* create_all, run_lightweight_migrations, seed_enum_tables and
\* seed_backend_providers look for what is missing ...
LookSeed(w) ==
    /\ Is(w, "look")
    /\ LET n == at[w].n
       IN Go(w, IF Seeds[n] \in seeded THEN NextSeed(n) ELSE [k |-> "seed", n |-> n])
    /\ UNCHANGED <<seeded, admins, file, bad, settings, platform, persisted, key, kills>>

\* Tables are created with all their columns.
Added(n) == IF Seeds[n] = "tables" THEN {"tables", "columns"} ELSE {Seeds[n]}

\* ... and add it, which fails if another worker has (the table or the column
\* exists, the code is UNIQUE).
CommitSeed(w) ==
    /\ Is(w, "seed")
    /\ LET n == at[w].n
       IN IF Seeds[n] \in seeded
            THEN GoTo(w, "broken") /\ UNCHANGED seeded
            ELSE Go(w, NextSeed(n)) /\ seeded' = seeded \cup Added(n)
    /\ UNCHANGED <<admins, file, bad, settings, platform, persisted, key, kills>>

\* The administrator of app-config.toml if the file is there at this moment,
\* else the default one of the environment.
LoadAdminFromAppConfig == IF file = "there" THEN "configured" ELSE "default"

\* The step after seed_admin_account.
AfterAdmin == [k |-> IF SeedDemo THEN "lookDemo" ELSE "claim"]

\* seed_admin_account looks for the name ...
LookAdmin(w) ==
    /\ Is(w, "lookAdmin")
    /\ LET who == LoadAdminFromAppConfig
       IN Go(w, IF who \in admins THEN AfterAdmin ELSE [k |-> "addAdmin", who |-> who])
    /\ UNCHANGED <<seeded, admins, file, bad, settings, platform, persisted, key, kills>>

\* ... and adds it (it is UNIQUE).
CommitAdmin(w) ==
    /\ Is(w, "addAdmin")
    /\ Go(w, IF at[w].who \in admins THEN [k |-> "broken"] ELSE AfterAdmin)
    /\ admins' = admins \cup {at[w].who}
    /\ UNCHANGED <<seeded, file, bad, settings, platform, persisted, key, kills>>

\* seed_demo_accounts looks for the demo account, and for an administrator who
\* has approved it ...
LookDemo(w) ==
    /\ Is(w, "lookDemo")
    /\ GoTo(w, IF "demo" \in seeded \/ admins = {} THEN "claim" ELSE "addDemo")
    /\ UNCHANGED <<seeded, admins, file, bad, settings, platform, persisted, key, kills>>

\* ... and adds account, realm and token in one transaction.
CommitDemo(w) ==
    /\ Is(w, "addDemo")
    /\ GoTo(w, IF "demo" \in seeded THEN "broken" ELSE "claim")
    /\ seeded' = seeded \cup {"demo"}
    /\ UNCHANGED <<admins, file, bad, settings, platform, persisted, key, kills>>

-----------------------------------------------------------------------------
\* The import of app-config.toml: the worker that renames the file has it.
LookFile(w) ==
    /\ Is(w, "claim")
    /\ GoTo(w, IF file = "there" THEN "replace" ELSE "key")
    /\ UNCHANGED <<seeded, admins, file, bad, settings, platform, persisted, key, kills>>

First == [k |-> "section", n |-> CHOOSE n \in Sections : \A m \in Sections : n <= m]

\* Mutant: a worker that finds the file renamed imports it all the same.
Claim_Anyway(w) ==
    /\ Is(w, "replace")
    /\ Go(w, First)
    /\ file' = "claimed"
    /\ UNCHANGED <<seeded, admins, bad, settings, platform, persisted, key, kills>>

Claim(w) ==
    /\ Is(w, "replace")
    /\ IF file = "there"
         THEN Go(w, First) /\ file' = "claimed"
         ELSE GoTo(w, "key") /\ UNCHANGED file
    /\ UNCHANGED <<seeded, admins, bad, settings, platform, persisted, key, kills>>

\* One block of the import per section the file may have, in a fixed order; the
\* last is followed by initialize_platform_backends.
NextSection(n) == IF n + 1 \in Sections THEN [k |-> "section", n |-> n + 1]
                                        ELSE [k |-> "platform", n |-> 1]

\* set_setting commits each section by itself.
ImportSection(w) ==
    /\ Is(w, "section")
    /\ at[w].n # bad
    /\ settings' = settings \cup {at[w].n}
    /\ Go(w, NextSection(at[w].n))
    /\ UNCHANGED <<seeded, admins, file, bad, platform, persisted, key, kills>>

\* Mutant: the refused file is deleted.
RefuseSection_Deletes(w) ==
    /\ Is(w, "section")
    /\ at[w].n = bad
    /\ file' = "gone"
    /\ GoTo(w, "key")
    /\ UNCHANGED <<seeded, admins, bad, settings, platform, persisted, key, kills>>

\* Unknown sections or keys: the file is put back for another attempt, and the
\* worker goes on without it.
RefuseSection(w) ==
    /\ Is(w, "section")
    /\ at[w].n = bad
    /\ file' = "there"
    /\ GoTo(w, "key")
    /\ UNCHANGED <<seeded, admins, bad, settings, platform, persisted, key, kills>>

\* initialize_platform_backends commits users and backends one after the other,
\* each unless it is there.  An exception (a name or address that is taken, an
\* unknown provider) ends it unnoticed; one of the database leaves the session
\* in need of a rollback.
InitPlatform(w) ==
    /\ Is(w, "platform")
    /\ LET n == at[w].n
       IN \/ /\ platform' = platform \cup {Platform[n]}
             /\ admins' = IF Platform[n] = "users" THEN admins \cup {"configured"} ELSE admins
             /\ Go(w, IF n = Len(Platform) THEN [k |-> "remove", rollback |-> FALSE]
                                           ELSE [k |-> "platform", n |-> n + 1])
          \/ /\ \E sick \in BOOLEAN : Go(w, [k |-> "remove", rollback |-> sick])
             /\ UNCHANGED <<platform, admins>>
    /\ UNCHANGED <<seeded, file, bad, settings, persisted, key, kills>>

\* Without the rollback the settings table cannot be read any more: the worker
\* signs with a key of its own if the environment has the Netcup credentials,
\* and ends up with the error page if they would have to be looked up.
RemoveFile(w) ==
    /\ Is(w, "remove")
    /\ file' = "gone"
    /\ IF at[w].rollback
         THEN \/ GoTo(w, "serving") /\ key' = [key EXCEPT ![w] = NoKey]
              \/ GoTo(w, "broken") /\ UNCHANGED key
         ELSE GoTo(w, "key") /\ UNCHANGED key
    /\ UNCHANGED <<seeded, admins, bad, settings, platform, persisted, kills>>

-----------------------------------------------------------------------------
\* Mutant: the key of the settings table is not looked at.
LookKey_Never(w) ==
    /\ Is(w, "key")
    /\ GoTo(w, "persist")
    /\ UNCHANGED <<seeded, admins, file, bad, settings, platform, persisted, key, kills>>

\* The key of the settings table ...
LookKey(w) ==
    /\ Is(w, "key")
    /\ IF persisted # NoKey
         THEN key' = [key EXCEPT ![w] = persisted] /\ GoTo(w, "serving")
         ELSE GoTo(w, "persist") /\ UNCHANGED key
    /\ UNCHANGED <<seeded, admins, file, bad, settings, platform, persisted, kills>>

\* ... or, if there was none, the worker's own, written over whatever is there
\* by now (set_setting).
PersistKey(w) ==
    /\ Is(w, "persist")
    /\ persisted' = w
    /\ key' = [key EXCEPT ![w] = w]
    /\ GoTo(w, "serving")
    /\ UNCHANGED <<seeded, admins, file, bad, settings, platform, kills>>

\* The settings table cannot be read or written (the database is locked for
\* too long): the exception is caught, and the worker goes on with a key of its
\* own, if it needs nothing else of a session that was not rolled back.
KeyFails(w) ==
    /\ kills < MaxKill
    /\ Is(w, "key") \/ Is(w, "persist")
    /\ kills' = kills + 1
    /\ \/ GoTo(w, "serving") /\ key' = [key EXCEPT ![w] = NoKey]
       \/ GoTo(w, "broken") /\ UNCHANGED key
    /\ UNCHANGED <<seeded, admins, file, bad, settings, platform, persisted>>

\* gunicorn replaces a worker that has answered max_requests requests, with
\* the application or with the error page.
Recycle(w) ==
    /\ Is(w, "serving") \/ Is(w, "broken")
    /\ GoTo(w, "down")
    /\ UNCHANGED <<seeded, admins, file, bad, settings, platform, persisted, key, kills>>

\* A worker is killed (the deployment script, the machine).
Kill(w) ==
    /\ kills < MaxKill
    /\ ~Is(w, "down")
    /\ kills' = kills + 1
    /\ GoTo(w, "down")
    /\ UNCHANGED <<seeded, admins, file, bad, settings, platform, persisted, key>>

\* The operator mends the file that was put back.
MendFile ==
    /\ file = "there"
    /\ bad # 0
    /\ bad' = 0
    /\ UNCHANGED <<at, seeded, admins, file, settings, platform, persisted, key, kills>>

Boot(w) == \/ Start(w) \/ LookSeed(w) \/ CommitSeed(w) \/ LookAdmin(w) \/ CommitAdmin(w)
           \/ LookDemo(w) \/ CommitDemo(w) \/ LookFile(w) \/ Claim(w) \/ ImportSection(w) \/ RefuseSection(w)
           \/ InitPlatform(w) \/ RemoveFile(w) \/ LookKey(w) \/ PersistKey(w)

Next == \/ \E w \in Workers : Boot(w) \/ KeyFails(w) \/ Recycle(w) \/ Kill(w)
        \/ MendFile

Spec == Init /\ [][Next]_vars

\* A worker that is started gets on, and requests keep arriving, so that every
\* worker is replaced in the end.
FairSpec == Spec /\ \A w \in Workers : WF_vars(Boot(w)) /\ WF_vars(Recycle(w))

-----------------------------------------------------------------------------
\* Every variable has its type.
TypeOK ==
    /\ at \in [Workers -> Step]
    /\ seeded \subseteq {"tables", "columns", "enums", "providers", "demo"}
    /\ admins \subseteq {"default", "configured"}
    /\ file \in {"there", "claimed", "gone"}
    /\ bad \in Sections \cup {0}
    /\ settings \subseteq Sections
    /\ platform \subseteq {"users", "services"}
    /\ persisted \in Workers \cup {NoKey}
    /\ key \in [Workers -> Workers \cup {NoKey}]
    /\ kills \in 0 .. MaxKill

\* One worker at most imports app-config.toml at a time, whoever else saw the
\* file, put it back or was killed with it (passenger_wsgi's os.replace).
OneImporter ==
    Cardinality({w \in Workers : at[w].k \in {"section", "platform", "remove"}}) <= 1

\* A configuration that is gone was imported: no crash, no refused section and
\* no second importer deletes the file before all its settings are committed.
ConfigKept == [][file # "gone" /\ file' = "gone" => settings = Sections]_vars

\* In the end all workers sign with the key of the settings table, though the
\* first of them may have overwritten each other's and some may have served with
\* a key nobody else has (the SECRET_KEY block, and what its except leaves).
KeysAgree ==
    <>[](\A w \in Workers : Is(w, "serving") => key[w] = persisted /\ persisted # NoKey)

\* In the end no worker is left with the error page: each loses a race for a
\* seed at most as often as another worker wins one (init_db).
AllServe == <>[](\A w \in Workers : ~Is(w, "broken"))
=============================================================================

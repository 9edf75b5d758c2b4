---------------------------- MODULE Credentials ----------------------------
(***************************************************************************)
(* What the API promises about token secrets, without the tables, queries  *)
(* and handlers that keep the promise (RealmTokens implements it):         *)
(*                                                                         *)
(*  - a secret is issued once, and issuing it changes no other secret;     *)
(*  - once it is dead, by revocation, expiry, deletion or a new alias, it  *)
(*    stays dead;                                                          *)
(*  - a request is granted only if its secret was live when it arrived.    *)
(*                                                                         *)
(* A secret that dies while its request is under way may still be served.  *)
(***************************************************************************)
EXTENDS Integers

CONSTANTS Workers,  \* whoever handles requests
          Secrets   \* records with the serial under which they are issued

VARIABLES minted,   \* how many secrets were issued so far
          live,     \* the secrets that authenticate
          calls     \* the request of each worker

vars == <<minted, live, calls>>

None == [st |-> "none"]

Init == /\ minted = 0
        /\ live = {}
        /\ calls = [w \in Workers |-> None]

\* The account may have another alias by then, and the secret be dead at once.
Mint(s) == /\ s.serial = minted + 1
           /\ minted' = minted + 1
           /\ live' \in {live, live \cup {s}}
           /\ UNCHANGED calls

Die == /\ live' \subseteq live
       /\ UNCHANGED <<minted, calls>>

Arrive(w, s) == /\ s.serial <= minted
                /\ calls[w] = None
                /\ calls' = [calls EXCEPT ![w] =
                      [st |-> "asked", secret |-> s, live |-> s \in live]]
                /\ UNCHANGED <<minted, live>>

Grant(w) == /\ calls[w].st = "asked"
            /\ calls[w].live
            /\ calls' = [calls EXCEPT ![w].st = "granted"]
            /\ UNCHANGED <<minted, live>>

Answer(w) == /\ calls[w] # None
             /\ calls' = [calls EXCEPT ![w] = None]
             /\ UNCHANGED <<minted, live>>

Next == \/ \E s \in Secrets : Mint(s)
        \/ Die
        \/ \E w \in Workers : \/ \E s \in Secrets : Arrive(w, s)
                              \/ Grant(w)
                              \/ Answer(w)

Spec == Init /\ [][Next]_vars
=============================================================================

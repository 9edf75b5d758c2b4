---------------------------- MODULE TelegramLink ----------------------------
(***************************************************************************)
(* Linking a Telegram chat to an account: the account's page issues a link *)
(* token, the user opens it in a chat, and the bot calls back with token   *)
(* and chat.  Codes for the second login step are sent to the linked chat. *)
(*                                                                         *)
(* The callback looks the token up and looks for another account with the  *)
(* chat, and writes the account's row in a later transaction; so do the    *)
(* page that issues a token and the one that unlinks.  The bot is          *)
(* external: it calls once for every time a user opens a link, calls again *)
(* when it has no answer, and its calls overtake each other.               *)
(***************************************************************************)
EXTENDS Integers, FiniteSets

CONSTANTS Workers,  \* worker threads of all gunicorn processes
          Accounts, \* accounts that link a chat
          Chats,    \* Telegram chats
          NoChat,   \* no chat is linked
          MaxToken  \* bound: link tokens ever issued

ASSUME TelegramAssumption == /\ NoChat \notin Chats
                             /\ MaxToken \in Nat \ {0}
                             /\ IsFiniteSet(Workers)

VARIABLES chat,    \* telegram_chat_id of each account
          enabled, \* its telegram_enabled
          token,   \* the token of telegram_link_token_hash, 0 for none
          fresh,   \* telegram_link_token_expires_at is in the future
          cached,  \* the token in the cookie of the account's browser
          issued,  \* the number of tokens issued
          calls,   \* callbacks the bot has made or may make again
          job,     \* what each worker is about to commit
          uses     \* ghost: how often each token was accepted

vars == <<chat, enabled, token, fresh, cached, issued, calls, job, uses>>

Tokens == 1 .. MaxToken
Most == Cardinality(Workers)

Idle == [k |-> "idle"]
Job == {Idle}
    \cup [k : {"issue"}, a : Accounts]
    \cup [k : {"bind"}, a : Accounts, t : Tokens, c : Chats,
          chat : Chats \cup {NoChat}, enabled : BOOLEAN]
    \cup [k : {"unlink"}, a : Accounts, enabled : BOOLEAN, pending : BOOLEAN]

Begin(w, j) == job[w] = Idle /\ job' = [job EXCEPT ![w] = j]
Commit(w, k) == job[w].k = k /\ job' = [job EXCEPT ![w] = Idle]

Init == /\ chat = [a \in Accounts |-> NoChat]
        /\ enabled = [a \in Accounts |-> FALSE]
        /\ token = [a \in Accounts |-> 0]
        /\ fresh = [a \in Accounts |-> FALSE]
        /\ cached = [a \in Accounts |-> 0]
        /\ issued = 0
        /\ calls = {}
        /\ job = [w \in Workers |-> Idle]
        /\ uses = [t \in Tokens |-> 0]

-----------------------------------------------------------------------------
\* link_telegram of an account that is not linked issues a token, unless the
\* browser has one that is still good ...
LoadPage(w, a) ==
    /\ ~(enabled[a] /\ chat[a] # NoChat)
    /\ ~(cached[a] # 0 /\ cached[a] = token[a] /\ fresh[a])
    /\ Begin(w, [k |-> "issue", a |-> a])
    /\ UNCHANGED <<chat, enabled, token, fresh, cached, issued, calls, uses>>

\* ... and keeps its hash on the account and the token in the cookie.
CommitPage(w) ==
    /\ Commit(w, "issue")
    /\ issued < MaxToken
    /\ LET a == job[w].a
       IN /\ issued' = issued + 1
          /\ token' = [token EXCEPT ![a] = issued']
          /\ fresh' = [fresh EXCEPT ![a] = TRUE]
          /\ cached' = [cached EXCEPT ![a] = issued']
    /\ UNCHANGED <<chat, enabled, calls, uses>>

\* The user opens the link of the page in a chat.
OpenLink(a, c) ==
    /\ cached[a] # 0
    /\ calls' = calls \cup {[t |-> cached[a], c |-> c]}
    /\ UNCHANGED <<chat, enabled, token, fresh, cached, issued, job, uses>>

\* Mutant: another account with the chat is not looked for.
Free_Always(a, c) == TRUE

\* No other account has the chat.
Free(a, c) == \A b \in Accounts \ {a} : chat[b] # c

\* telegram_link_callback: the account that waits for this token, in time, and
\* a chat that no other account has ...
LoadCallback(w, call) ==
    /\ \E a \in Accounts :
         /\ token[a] = call.t
         /\ fresh[a]
         /\ Free(a, call.c)
         /\ Begin(w, [k |-> "bind", a |-> a, t |-> call.t, c |-> call.c,
                      chat |-> chat[a], enabled |-> enabled[a]])
    /\ UNCHANGED <<chat, enabled, token, fresh, cached, issued, calls, uses>>

\* The columns whose values differ from those that were read, as the ORM
\* writes them.
Bind(j) ==
    /\ chat' = [chat EXCEPT ![j.a] = IF j.chat # j.c THEN j.c ELSE @]
    /\ enabled' = [enabled EXCEPT ![j.a] = @ \/ ~j.enabled]
    /\ uses' = [uses EXCEPT ![j.t] = IF @ <= Most THEN @ + 1 ELSE @]

\* Mutant: the token is not consumed.
CommitBind_KeepsToken(w) ==
    /\ Commit(w, "bind")
    /\ Bind(job[w])
    /\ UNCHANGED <<token, fresh, cached, issued, calls>>

\* ... the chat is linked and whatever token the account has by now is gone.
CommitBind(w) ==
    /\ Commit(w, "bind")
    /\ Bind(job[w])
    /\ token' = [token EXCEPT ![job[w].a] = 0]
    /\ fresh' = [fresh EXCEPT ![job[w].a] = FALSE]
    /\ UNCHANGED <<cached, issued, calls>>

\* unlink_telegram; enabled and token are cleared only if they were set.
LoadUnlink(w, a) ==
    /\ chat[a] # NoChat
    /\ Begin(w, [k |-> "unlink", a |-> a, enabled |-> enabled[a],
                 pending |-> token[a] # 0])
    /\ UNCHANGED <<chat, enabled, token, fresh, cached, issued, calls, uses>>

CommitUnlink(w) ==
    /\ Commit(w, "unlink")
    /\ LET a == job[w].a
       IN /\ chat' = [chat EXCEPT ![a] = NoChat]
          /\ enabled' = [enabled EXCEPT ![a] = @ /\ ~job[w].enabled]
          /\ cached' = [cached EXCEPT ![a] = 0]
          /\ token' = [token EXCEPT ![a] = IF job[w].pending THEN 0 ELSE @]
          /\ fresh' = [fresh EXCEPT ![a] = @ /\ ~job[w].pending]
    /\ UNCHANGED <<issued, calls, uses>>

\* TELEGRAM_LINK_TOKEN_TTL_SECONDS pass.
Expire(a) ==
    /\ fresh[a]
    /\ fresh' = [fresh EXCEPT ![a] = FALSE]
    /\ UNCHANGED <<chat, enabled, token, cached, issued, calls, job, uses>>

Next == \/ \E w \in Workers, a \in Accounts : LoadPage(w, a) \/ LoadUnlink(w, a)
        \/ \E w \in Workers : \/ CommitPage(w) \/ CommitBind(w) \/ CommitUnlink(w)
                              \/ \E call \in calls : LoadCallback(w, call)
        \/ \E a \in Accounts : Expire(a) \/ \E c \in Chats : OpenLink(a, c)

Spec == Init /\ [][Next]_vars

-----------------------------------------------------------------------------
\* Every variable has its type; a token that can still be used was issued.
TypeOK ==
    /\ chat \in [Accounts -> Chats \cup {NoChat}]
    /\ enabled \in [Accounts -> BOOLEAN]
    /\ token \in [Accounts -> 0 .. issued]
    /\ fresh \in [Accounts -> BOOLEAN]
    /\ \A a \in Accounts : fresh[a] => token[a] # 0
    /\ cached \in [Accounts -> 0 .. issued]
    /\ issued \in 0 .. MaxToken
    /\ calls \in SUBSET [t : Tokens, c : Chats]
    /\ job \in [Workers -> Job]
    /\ uses \in [Tokens -> 0 .. Most + 1]

\* Callbacks that overtake each other may link one chat to several accounts,
\* but to no more than there are workers, however long this goes on
\* (telegram_link_callback looks for a conflict before it links).
SharedByFew ==
    \A c \in Chats : Cardinality({a \in Accounts : chat[a] = c}) <= Most

\* A repeated callback finds its token consumed, unless it was looked up before
\* the first one committed (telegram_link_callback).
UsedByFew == \A t \in Tokens : uses[t] <= Most
=============================================================================

-------------------------- MODULE SettingsContract --------------------------
(***************************************************************************)
(* What settings control promises to the clients of its API: one numbered  *)
(* configuration, changed by one accepted request at a time, on the        *)
(* condition that its author has named the configuration it is applied to, *)
(* once for each identity, and answered alike to whoever repeats it.  It   *)
(* knows no chain of generations, secret versions, keys, transactions or   *)
(* startups.                                                               *)
(***************************************************************************)
EXTENDS Naturals

CONSTANTS Clients, Domains, IdemKeys, Bodies, None

VARIABLES
    config,   \* domain |-> what is configured
    number,   \* how often the configuration has changed
    record,   \* accepted identity |-> what was asked, and the answer
    request,  \* client |-> its latest request
    waiting,  \* clients whose request is on its way
    answer    \* client |-> the latest answer to its latest request

vars == <<config, number, record, request, waiting, answer>>

Init ==
    /\ config = [d \in Domains |-> None]
    /\ number = 0
    /\ record = [i \in {} |-> None]
    /\ request = [c \in Clients |-> [body |-> None, key |-> None, expected |-> None]]
    /\ waiting = {}
    /\ answer = [c \in Clients |-> None]

Body(c) == request[c].body
By(c)   == <<Body(c).domain, request[c].key>>

Ask(c) ==
    /\ c \notin waiting
    /\ waiting' = waiting \cup {c}
    /\ answer' = [answer EXCEPT ![c] = None]
    /\ \E body \in Bodies, k \in IdemKeys, g \in 0..number :
          request' = [request EXCEPT ![c] = [body |-> body, key |-> k, expected |-> g]]
    /\ UNCHANGED <<config, number, record>>

AskAgain(c) ==
    /\ c \notin waiting
    /\ Body(c) \in Bodies
    /\ waiting' = waiting \cup {c}
    /\ UNCHANGED <<config, number, record, request, answer>>

Gets(c, a) ==
    /\ waiting' = waiting \ {c}
    /\ answer' = [answer EXCEPT ![c] = a]
    /\ UNCHANGED request

Ok(g, changed) == [status |-> "ok", gen |-> g, changed |-> changed]

\* The request is applied to the very configuration that its client had seen.
Accept(c) ==
    /\ By(c) \notin DOMAIN record
    /\ request[c].expected = number
    /\ config' = [config EXCEPT ![Body(c).domain] = Body(c).value]
    /\ number' = IF config' = config THEN number ELSE number + 1
    /\ LET a == Ok(number', number' # number)
       IN  /\ record' = [i \in DOMAIN record \cup {By(c)} |->
                           IF i = By(c) THEN [value |-> Body(c).value, answer |-> a] ELSE record[i]]
           /\ Gets(c, a)

\* A request that was accepted before is not applied again.
Repeat(c) ==
    /\ By(c) \in DOMAIN record
    /\ record[By(c)].value = Body(c).value
    /\ Gets(c, record[By(c)].answer)
    /\ UNCHANGED <<config, number, record>>

\* A refusal tells the truth about the request.
Reasons(c) ==
    {"store_unavailable"}
      \cup (IF By(c) \in DOMAIN record THEN {"conflict"}
            ELSE IF request[c].expected # number THEN {"stale"}
            ELSE {"invalid", "secret_unresolved", "decrypt_failed"})

Refuse(c) ==
    /\ \E code \in Reasons(c) : Gets(c, [status |-> code, gen |-> None, changed |-> FALSE])
    /\ UNCHANGED <<config, number, record>>

\* The service stops: no request on its way gets an answer, none was applied in part.
Lose ==
    /\ waiting' = {}
    /\ UNCHANGED <<config, number, record, request, answer>>

\* The operator clears the secret.
Clear ==
    /\ config["secret"] # None
    /\ config' = [config EXCEPT !["secret"] = None]
    /\ number' = number + 1
    /\ UNCHANGED <<record, request, waiting, answer>>

Next ==
    \/ \E c \in Clients : Ask(c) \/ AskAgain(c)
    \/ \E c \in waiting : Accept(c) \/ Repeat(c) \/ Refuse(c)
    \/ Lose \/ Clear

Spec == Init /\ [][Next]_vars
=============================================================================

----------------------------- MODULE CmdService -----------------------------
(***************************************************************************)
(* What the command channel promises its callers, with no node, list or    *)
(* work item: commands are served one at a time in the order they were     *)
(* queued, the one being served is answered at most once, a caller that is *)
(* told of an answer is told of the answer to its own command, and a       *)
(* caller that gives up takes its command, and nobody else's, out of       *)
(* service.                                                                *)
(***************************************************************************)
EXTENDS Naturals

CONSTANTS Callers, NoCaller

VARIABLES
    waiting,   \* callers whose command has not been sent
    serving,   \* the caller whose command was sent, or NoCaller
    ticket,    \* the order in which commands were queued
    answer,    \* the ticket the command in flight was answered for, or 0
    got        \* the ticket each caller was told the answer of, or 0

svars == <<waiting, serving, ticket, answer, got>>

Engaged == waiting \cup ({serving} \ {NoCaller})

SInit ==
    /\ waiting = {}
    /\ serving = NoCaller
    /\ ticket = [c \in Callers |-> 0]
    /\ answer = 0
    /\ got = [c \in Callers |-> 0]

\* A caller queues a command behind everything queued before it.
Submit(c) ==
    /\ c \notin Engaged
    /\ waiting' = waiting \cup {c}
    /\ ticket' = [ticket EXCEPT ![c] = ticket'[c]]
    /\ ticket'[c] \in Nat
    /\ \A d \in Callers : ticket[d] < ticket'[c]
    /\ got' = [got EXCEPT ![c] = 0]
    /\ UNCHANGED <<serving, answer>>

\* The oldest command is sent, if none is in flight.
Serve(c) ==
    /\ serving = NoCaller
    /\ c \in waiting
    /\ \A d \in waiting : ticket[c] <= ticket[d]
    /\ waiting' = waiting \ {c}
    /\ serving' = c
    /\ UNCHANGED <<ticket, answer, got>>

\* The command in flight is answered, once.
Answer ==
    /\ serving # NoCaller
    /\ answer = 0
    /\ answer' = ticket[serving]
    /\ UNCHANGED <<waiting, serving, ticket, got>>

\* A caller returns: with the answer if it decodes one, without otherwise.
Finish(c) ==
    /\ c \in Engaged
    /\ waiting' = waiting \ {c}
    /\ serving' = IF serving = c THEN NoCaller ELSE serving
    /\ answer'  = IF serving = c THEN 0 ELSE answer
    /\ \/ UNCHANGED got
       \/ serving = c /\ got' = [got EXCEPT ![c] = answer]
    /\ UNCHANGED ticket

SNext == Answer \/ \E c \in Callers : Submit(c) \/ Serve(c) \/ Finish(c)

ServiceSpec == SInit /\ [][SNext]_svars

\* What the promise amounts to: nobody is ever told of another's answer.
OwnAnswer == \A c \in Callers : got[c] \in {0, ticket[c]}
=============================================================================

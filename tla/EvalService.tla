---------------------------- MODULE EvalService ----------------------------
(* What Session promises its host: a service that takes one source at a      *)
(* time, runs the sources in the order they were sent, each at most once,    *)
(* and says Ok only for a source it has run to its end.                      *)
(*                                                                           *)
(* The promise has an end.  A source that timed out may still be running     *)
(* when its Session is dropped; from then on (`stray`) nothing is promised.  *)
EXTENDS Naturals

CONSTANT MaxEvals        \* bound: sources sent

VARIABLES sent,      \* how many sources have been sent
          waiting,   \* the one the host waits for, or 0
          ran,       \* the sources that have run to their end
          answered,  \* the sources whose answer is on its way
          result,    \* what the host's last call returned
          stray      \* a source runs on behind the service's back

vars == <<sent, waiting, ran, answered, result, stray>>

Sent == 1..sent

Init ==
    /\ sent = 0 /\ waiting = 0
    /\ ran = {} /\ answered = {}
    /\ result = "none"
    /\ stray = FALSE

\* eval: the source is handed over, and the host waits.
Send ==
    /\ waiting = 0 /\ sent < MaxEvals
    /\ sent' = sent + 1 /\ waiting' = sent + 1
    /\ UNCHANGED <<ran, answered, result, stray>>

\* A source runs to its end; none overtakes another.
Run(e) ==
    /\ e \in Sent /\ \A d \in ran : d < e
    /\ ran' = ran \cup {e}
    /\ UNCHANGED <<sent, waiting, answered, result, stray>>

Answer(e) ==
    /\ e \in ran \ answered
    /\ answered' = answered \cup {e}
    /\ UNCHANGED <<sent, waiting, ran, result, stray>>

\* eval returns: Ok exactly when the answer is there.
Return ==
    /\ waiting # 0 /\ waiting' = 0
    /\ result' = IF waiting \in answered THEN "ok" ELSE "died"
    /\ UNCHANGED <<sent, ran, answered, stray>>

\* The host's other calls, and an eval refused before it is sent.
OtherCall ==
    /\ waiting = 0
    /\ result' \in {"ok", "died", "AlreadyRunning", "WorkerSpawn"}
    /\ UNCHANGED <<sent, waiting, ran, answered, stray>>

\* A Session with a source still running is dropped.
Abandon ==
    /\ waiting = 0 /\ stray' = TRUE
    /\ UNCHANGED <<sent, waiting, ran, answered, result>>

Next == \/ Send \/ Return \/ OtherCall \/ Abandon
        \/ \E e \in Sent : Run(e) \/ Answer(e)
        \/ stray /\ stray'

Spec == Init /\ [][Next]_vars
=============================================================================

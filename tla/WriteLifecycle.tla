---------------------------- MODULE WriteLifecycle ----------------------------
(***************************************************************************)
(* What the mutation path of jev_frame promises about one guarded write,   *)
(* whatever its gates, awaits and failures are: the durable record of the  *)
(* write (policy.py: WriteRecord, state.py: ExecutionState) against what   *)
(* happened at the service that performs it.                               *)
(*                                                                         *)
(* A process crash loses everything but these two: the promise is about    *)
(* what the durable record alone says at any instant.                      *)
(***************************************************************************)
CONSTANT Writes          \* attempts to perform a guarded write

VARIABLES
  intent,   \* the last record the intent store took for the write
  effect    \* the request at the service

vars == <<intent, effect>>

Intents == {"none", "proposed", "authorized", "in_flight",
            "succeeded", "failed", "unknown"}

Effects == {"idle", "sent", "applied", "dropped"}

TypeOK == intent \in [Writes -> Intents] /\ effect \in [Writes -> Effects]

-----------------------------------------------------------------------------
Init ==
  /\ intent = [w \in Writes |-> "none"]
  /\ effect = [w \in Writes |-> "idle"]

Record(w, from, to) ==
  /\ intent[w] \in from
  /\ intent' = [intent EXCEPT ![w] = to]
  /\ UNCHANGED effect

Propose(w) == Record(w, {"none"}, "proposed")
Authorize(w) == Record(w, {"proposed"}, "authorized")
Start(w) == Record(w, {"authorized"}, "in_flight")

\* The outcome is not established; nothing is sent again after this.
Lose(w) == Record(w, {"in_flight"}, "unknown")

\* Settled only by what the service really did.
Succeed(w) == effect[w] = "applied" /\ Record(w, {"in_flight", "unknown"}, "succeeded")
Fail(w) == effect[w] \in {"idle", "dropped"} /\ Record(w, {"in_flight", "unknown"}, "failed")

\* The request leaves once, after the intent to send it is on record.
Send(w) ==
  /\ intent[w] = "in_flight"
  /\ effect[w] = "idle"
  /\ effect' = [effect EXCEPT ![w] = "sent"]
  /\ UNCHANGED intent

\* The service performs or refuses it at any later time.
Serve(w) ==
  /\ effect[w] = "sent"
  /\ \E result \in {"applied", "dropped"} : effect' = [effect EXCEPT ![w] = result]
  /\ UNCHANGED intent

Next ==
  \E w \in Writes :
    \/ Propose(w) \/ Authorize(w) \/ Start(w) \/ Lose(w)
    \/ Succeed(w) \/ Fail(w) \/ Send(w) \/ Serve(w)

Spec == Init /\ [][Next]_vars

-----------------------------------------------------------------------------
\* Write-ahead intent: whenever an effect may exist, the durable record says so.
WriteAhead ==
  \A w \in Writes : effect[w] \in {"sent", "applied"} =>
                       intent[w] \in {"in_flight", "succeeded", "unknown"}

\* A settled record is true.
Truthful ==
  \A w \in Writes :
    /\ intent[w] = "succeeded" => effect[w] = "applied"
    /\ intent[w] = "failed" => effect[w] \in {"idle", "dropped"}
=============================================================================

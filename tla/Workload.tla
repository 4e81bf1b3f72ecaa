------------------------------- MODULE Workload -------------------------------
(***************************************************************************)
(* What spawn() promises the rest of the program about one workload, with  *)
(* the supervisor's machinery left out: it is launched, ends, is launched  *)
(* again, and in the end its promise settles. The harness only relies on   *)
(* this.                                                                   *)
(***************************************************************************)

VARIABLES
    life,      \* "idle", "launching", "running" or "settled"
    stopping,  \* the workload's context is done
    verdict    \* how the promise settled

vars == <<life, stopping, verdict>>

Verdicts == {"stopped", "exited", "failed"}

Init == life = "idle" /\ stopping = FALSE /\ verdict = "none"

Stop == ~stopping /\ stopping' = TRUE /\ UNCHANGED <<life, verdict>>

\* No new attempt is prepared once a stop has been requested ...
Prepare == life = "idle" /\ ~stopping /\ life' = "launching" /\ UNCHANGED <<stopping, verdict>>

\* ... but the one being prepared may still be launched, and is then torn down.
Launch == life = "launching" /\ life' = "running" /\ UNCHANGED <<stopping, verdict>>

GiveUp == life = "launching" /\ life' = "idle" /\ UNCHANGED <<stopping, verdict>>

End == life = "running" /\ life' = "idle" /\ UNCHANGED <<stopping, verdict>>

\* The promise never settles over a running process, and settles as stopped
\* only if a stop was requested.
Settle(v) ==
    /\ life \in {"idle", "launching"}
    /\ v = "stopped" => stopping
    /\ life' = "settled" /\ verdict' = v
    /\ UNCHANGED stopping

Next == Stop \/ Prepare \/ Launch \/ GiveUp \/ End \/ \E v \in Verdicts : Settle(v)

Safety == Init /\ [][Next]_vars

\* A stop is always followed by the promise settling.
Progress == stopping ~> (life = "settled")

Spec == Safety /\ Progress
=============================================================================

---------------------------- MODULE JobDelivery ----------------------------
(***************************************************************************)
(* What the AI job pipeline promises to the rest of the backend, without   *)
(* streams, workers or retries: a job is settled (its outcome broadcast, a *)
(* plan without tasks logged, or the job shelved in a dead letter stream)  *)
(* only after it was accepted, a settled job stays settled, and every      *)
(* accepted job is settled.                                                *)
(***************************************************************************)
CONSTANT Jobs

VARIABLES
  accepted,  \* jobs written to the jobs stream
  settled    \* jobs with an outcome

vars == <<accepted, settled>>

Init == accepted = {} /\ settled = {}

Accept(j) ==
  /\ j \notin accepted
  /\ accepted' = accepted \cup {j}
  /\ UNCHANGED settled

Settle(j) ==
  /\ j \in accepted \ settled
  /\ settled' = settled \cup {j}
  /\ UNCHANGED accepted

Next == \E j \in Jobs : Accept(j) \/ Settle(j)

Safety == Init /\ [][Next]_vars

Spec == Safety /\ \A j \in Jobs : WF_vars(Settle(j))
=============================================================================

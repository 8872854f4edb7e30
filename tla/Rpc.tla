-------------------------------- MODULE Rpc --------------------------------
(***************************************************************************)
(* What telethon/network/mtprotosender.py promises to whoever calls send():*)
(* a future that is settled at most once, with an answer only if the       *)
(* server executed the request.  The request may be executed more than     *)
(* once (it is sent again after a reconnection), and it may be executed    *)
(* although its future was cancelled or failed.                            *)
(***************************************************************************)
CONSTANT Requests

VARIABLES
  fut,    \* the future of every request
  ran     \* the requests the server executed at least once

Init ==
  /\ fut = [r \in Requests |-> "new"]
  /\ ran = {}

Submit(r) ==
  /\ fut[r] = "new"
  /\ fut' = [fut EXCEPT ![r] = "waiting"]
  /\ UNCHANGED ran

Execute(R) ==
  /\ \A r \in R : fut[r] # "new"
  /\ ran' = ran \cup R
  /\ UNCHANGED fut

(* An answer needs an execution; an error and a cancellation need nothing, *)
(* and reach several requests at once.                                     *)
Settle(R) ==
  /\ \A r \in R : fut[r] = "waiting"
  /\ fut' \in [Requests -> {"new", "waiting", "answered", "error", "cancelled"}]
  /\ \A r \in Requests \ R : fut'[r] = fut[r]
  /\ \A r \in R : fut'[r] \in {"answered", "error", "cancelled"}
  /\ \A r \in R : fut'[r] = "answered" => r \in ran
  /\ UNCHANGED ran

Next ==
  \/ \E r \in Requests : Submit(r)
  \/ \E R \in SUBSET Requests : Execute(R) \/ Settle(R)

Spec == Init /\ [][Next]_<<fut, ran>>
=============================================================================

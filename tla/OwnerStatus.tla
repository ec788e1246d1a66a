---------------------------- MODULE OwnerStatus -----------------------------
(***************************************************************************)
(* What the accounts of apps/api promise to every other part that reads a  *)
(* user's status (the publication gate, the profile editor, the API-key    *)
(* guard): an account starts unverified and never returns there, only a    *)
(* confirmed one is frozen, and it does not disappear. The diagram of      *)
(* user-status.ts promises more (WITHDRAWN has no way out); UserSystem     *)
(* shows what of it the code keeps.                                        *)
(***************************************************************************)
CONSTANT Users

VARIABLE status   \* status[u]: the status column of u, "NONE" without a row

ownerVars == <<status>>

OwnerInit == status = [u \in Users |-> "NONE"]

Registers(u) ==
  /\ status[u] = "NONE"
  /\ status' = [status EXCEPT ![u] = "UNVERIFIED"]

Becomes(u, s) ==
  /\ status[u] # "NONE"
  /\ s = "FROZEN" => status[u] # "UNVERIFIED"
  /\ status' = [status EXCEPT ![u] = s]

LaterStatus == {"ACTIVE", "FROZEN", "WITHDRAWN"}

OwnerNext == \E u \in Users : Registers(u) \/ \E s \in LaterStatus : Becomes(u, s)

OwnerSpec == OwnerInit /\ [][OwnerNext]_ownerVars
=============================================================================

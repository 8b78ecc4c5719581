--------------------------- MODULE ServiceWindow ---------------------------
(***************************************************************************)
(* What the lock of a service promises to the backups of its volumes, and  *)
(* to whoever deploys the service, without saying how: at most one backup  *)
(* at a time is between looking at the scale of the service and giving it  *)
(* back; only that one and a deployment change the scale; and that one     *)
(* sets it to nothing or to what it has found, and knows of no other.      *)
(*                                                                         *)
(* A backup may break off anywhere, which ends its window.  JobRuns        *)
(* implements this specification.                                          *)
(***************************************************************************)
EXTENDS Naturals

CONSTANTS Runs, Scale

VARIABLES
  inside,    \* the backups in their window
  found,     \* the scale the one inside has found, 0 before it has looked
  replicas   \* what the service runs

vars == <<inside, found, replicas>>

Init == inside = {} /\ found = 0 /\ replicas \in Scale

Enter(r) ==
  /\ inside = {} /\ inside' = {r}
  /\ UNCHANGED <<found, replicas>>

Look ==
  /\ inside # {} /\ found' = replicas
  /\ UNCHANGED <<inside, replicas>>

stay  == UNCHANGED <<inside, found>>
leave == inside' = {} /\ found' = 0

\* Stopping may fail when the service is stopped already.
Stop ==
  /\ inside # {} /\ replicas' = 0
  /\ stay \/ leave

GiveBack ==
  /\ inside # {} /\ replicas' = found /\ found' = 0
  /\ inside' \in {inside, {}}

Leave == inside # {} /\ leave /\ UNCHANGED replicas

Deploy(n) == replicas' = n /\ UNCHANGED <<inside, found>>

Next ==
  \/ \E r \in Runs : Enter(r)
  \/ Look \/ Stop \/ GiveBack \/ Leave
  \/ \E n \in Scale : Deploy(n)

Spec == Init /\ [][Next]_vars
=============================================================================

--------------------------- MODULE DomainRouters ---------------------------
(***************************************************************************)
(* What the files of Traefik promise to the domains, without saying how    *)
(* they are read and written: each domain has its own routers, and they    *)
(* change only to what its row asks for at that moment.  A request that    *)
(* saves, deletes or disables one domain, or adds redirects and users, is  *)
(* not seen by the others.  The promise ends with the first write over     *)
(* something its handler had not read.                                     *)
(*                                                                         *)
(* TraefikConfig implements this specification, failures included.         *)
(***************************************************************************)
CONSTANTS
  Domains,
  Kinds        \* the kinds of router a domain may have

VARIABLES
  asked,       \* asked[d]: the routers the row of d asks for
  shown,       \* shown[d]: the routers Traefik is shown
  astray       \* whether something was written over that had not been read

vars == <<asked, shown, astray>>

Init ==
  /\ asked \in [Domains -> SUBSET Kinds]
  /\ shown = asked /\ astray = FALSE

\* The row changes; the file has to wait.
Save(d, kinds) ==
  /\ asked' = [asked EXCEPT ![d] = kinds]
  /\ UNCHANGED <<shown, astray>>

Publish(d) ==
  /\ shown' = [shown EXCEPT ![d] = asked[d]]
  /\ UNCHANGED <<asked, astray>>

\* The row of a new domain appears with its routers.
Create(d, kinds) ==
  /\ asked[d] = {}
  /\ asked' = [asked EXCEPT ![d] = kinds]
  /\ shown' = [shown EXCEPT ![d] = kinds]
  /\ UNCHANGED astray

\* The rows of an application go all at once, and later its file.
Forget(D) ==
  /\ asked' = [d \in Domains |-> IF d \in D THEN {} ELSE asked[d]]
  /\ UNCHANGED <<shown, astray>>

Withdraw(D) ==
  /\ \A d \in D : asked[d] = {}
  /\ shown' = [d \in Domains |-> IF d \in D THEN {} ELSE shown[d]]
  /\ UNCHANGED <<asked, astray>>

\* Rows still change one at a time when the files no longer follow.
Stray ==
  /\ astray' = TRUE
  /\ shown' \in [Domains -> SUBSET Kinds]
  /\ \/ UNCHANGED asked
     \/ \E d \in Domains, kinds \in SUBSET Kinds : asked' = [asked EXCEPT ![d] = kinds]

Next ==
  \/ \E d \in Domains : Publish(d)
  \/ \E d \in Domains, kinds \in SUBSET Kinds : Save(d, kinds) \/ Create(d, kinds)
  \/ \E D \in SUBSET Domains : Forget(D) \/ Withdraw(D)
  \/ Stray

Spec == Init /\ [][Next]_vars
=============================================================================

-------------------------- MODULE MCTraefikConfig --------------------------
(***************************************************************************)
(* Instances of TraefikConfig for TLC: one application with two domains, a *)
(* redirect and two users, two requests at a time.                         *)
(***************************************************************************)
EXTENDS TraefikConfig, TLC

MCApps      == {"a"}
MCDomains   == {"d1", "d2"}
MCRedirects == {"r"}
MCUsers     == {"u", "v"}
MCAppOf     == [x \in MCDomains \cup MCRedirects \cup MCUsers |-> "a"]

settings(enabled, https, path, sso) ==
  [enabled |-> enabled, https |-> https, strip |-> path, gate |-> sso]

Plain  == settings(TRUE, FALSE, FALSE, FALSE)
Secure == settings(TRUE, TRUE, TRUE, FALSE)
Gated  == settings(TRUE, FALSE, FALSE, TRUE)
Off    == settings(FALSE, TRUE, FALSE, FALSE)

MCShapes == {Plain, Secure}

\* Nothing yet; and a domain with sign-on beside one that is disabled, in an
\* application with a redirect and two users.
MCSeeds ==
  {[domains   |-> [d \in MCDomains |-> NoDomain],
    redirects |-> [r \in MCRedirects |-> "none"],
    users     |-> {}, authDomain |-> FALSE],
   [domains   |-> [d \in MCDomains |-> IF d = "d1" THEN Gated ELSE Off],
    redirects |-> [r \in MCRedirects |-> "saved"],
    users     |-> MCUsers, authDomain |-> TRUE]}

AnyHandler == Permutations(Handlers)
=============================================================================

--------------------------- MODULE DomainRegistry ---------------------------
(***************************************************************************)
(* What the domain_validation table of the CDN instance node promises,     *)
(* without its runs, commits and crashes: a registry in which an instance  *)
(* owns at most one domain, a domain has at most one owner, and a domain   *)
(* changes hands only by being released first.                             *)
(***************************************************************************)
CONSTANTS Instance, Host

VARIABLE owns       \* pairs <<instance, domain>>

Init == owns = {}

Claim(i, d) ==
    /\ \A j \in Instance : <<j, d>> \notin owns
    /\ \A e \in Host : <<i, e>> \notin owns
    /\ owns' = owns \cup {<<i, d>>}

Release(i, d) ==
    /\ <<i, d>> \in owns
    /\ owns' = owns \ {<<i, d>>}

Next == \E i \in Instance, d \in Host : Claim(i, d) \/ Release(i, d)

Spec == Init /\ [][Next]_owns

\* No domain has two owners.
NoTwoOwners ==
    \A i, j \in Instance, d \in Host : <<i, d>> \in owns /\ <<j, d>> \in owns => i = j
=============================================================================

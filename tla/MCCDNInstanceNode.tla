------------------------- MODULE MCCDNInstanceNode -------------------------
(* CDNInstanceNode for TLC: two instances that contend for two host names. *)
EXTENDS CDNInstanceNode, TLC

CONSTANTS i1, i2, d1, d2

P(domain, alias, ok) ==
    [custom_domain |-> domain, server_alias |-> alias, wellformed |-> ok]

Row(p, ok) == [parameters |-> p, valid |-> ok]

\* A domain with the other name as alias, the same without the alias, the other
\* domain with its own name as a wildcard alias, no domain, and a parameter set
\* that fails a check of the node.
Aliased   == P(d1, {d2}, TRUE)
Plain     == P(d1, {}, TRUE)
Wildcard  == P(d2, {d2}, TRUE)
NoDomain  == P(NoHost, {}, TRUE)
Malformed == P(d1, {}, FALSE)

\* The schema accepts these, but an earlier version of it rejected Plain.
RivalRequests   == {Row(p, TRUE) : p \in {Aliased, Wildcard}}
ContestRequests == {Row(p, TRUE) : p \in {Aliased, Plain, Wildcard}}
AllRequests ==
    ContestRequests \cup {Row(NoDomain, TRUE), Row(Malformed, TRUE), Row(Plain, FALSE)}

MCParameters == {row.parameters : row \in AllRequests}

\* A run reads instance_db in its first step only, so a change of that table made
\* later in the run can be put off to the end of the run: the other tables take the
\* same values.  Runs whose properties do not mention instance_db use this.
RequestsBetweenRuns == instance_db' # instance_db => pc = "idle"

\* The two instances play the same part.
Symmetric == Permutations(Instance)
=============================================================================

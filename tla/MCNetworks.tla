----------------------------- MODULE MCNetworks -----------------------------
(* Model-checking instances of Networks: one predefined network ("bridge") *)
(* and one user network name, one or two containers, and two spellings of  *)
(* one alias, or two different aliases.                                    *)
EXTENDS Networks, TLC

CONSTANTS k1, k2

MCContainers1 == {k1}
MCContainers2 == {k1, k2}
MCAliasInputs == {"Web", "web"}
MCToLower == [a \in MCAliasInputs |-> "web"]

\* Two different aliases, already in lower case.
MCRaceAliasInputs == {"web", "db"}
MCRaceToLower == [a \in MCRaceAliasInputs |-> a]

MCClientSymmetry == Permutations(Clients)
=============================================================================

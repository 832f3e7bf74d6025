--------------------------- MODULE NetworkService ---------------------------
(***************************************************************************)
(* What the libpod network endpoints promise (spec 3 and 4.5), with every  *)
(* request one atomic step: a name is created once and gets a fresh id; a  *)
(* network is deleted only when it is user-defined and has no members; a   *)
(* prune removes exactly the user-defined networks without members;        *)
(* connect adds the membership and merges the aliases, lower-cased and     *)
(* without duplicates, after the ones the container had; disconnect        *)
(* removes a membership of a user-defined network the container has.       *)
(***************************************************************************)
EXTENDS Naturals, Sequences, FiniteSets, SequencesExt

CONSTANTS
    Containers,            \* the containers
    NetNames,              \* the network names clients send
    PredefinedNames,       \* names of the built-in networks
    AliasInputs,           \* alias strings a connect may carry
    ToLower,               \* case folding of aliases
    MaxAliasesPerConnect,  \* bound on a connect's alias list
    MaxNetworkIDs          \* bound on the ids handed out

VARIABLES
    networks,    \* the networks: a set of [id, name]
    nextNetID,   \* the id of the next network
    containers   \* containers[k]: [networks : set of ids, aliases : sequence]

avars == <<networks, nextNetID, containers>>

Names == {n.name : n \in networks}
Predefined(n) == n.name \in PredefinedNames
Members(n) == {k \in Containers : n.id \in containers[k].networks}

(* One network per built-in name, numbered from 1; containers may start   *)
(* on them, with no aliases.                                               *)
Init ==
    /\ Names = PredefinedNames
    /\ {n.id : n \in networks} = 1 .. Cardinality(PredefinedNames)
    /\ Cardinality(networks) = Cardinality(PredefinedNames)
    /\ nextNetID = Cardinality(PredefinedNames) + 1
    /\ \A k \in Containers :
          /\ containers[k].networks \subseteq {n.id : n \in networks}
          /\ containers[k].aliases = <<>>

Create(nm) ==
    /\ nm \notin Names
    /\ nextNetID <= MaxNetworkIDs
    /\ networks' = networks \cup {[id |-> nextNetID, name |-> nm]}
    /\ nextNetID' = nextNetID + 1
    /\ UNCHANGED containers

Delete(n) ==
    /\ ~Predefined(n)
    /\ Members(n) = {}
    /\ networks' = networks \ {n}
    /\ UNCHANGED <<nextNetID, containers>>

Prune ==
    /\ networks' = {n \in networks : Predefined(n) \/ Members(n) # {}}
    /\ UNCHANGED <<nextNetID, containers>>

(* new extends old by the request's aliases, case-folded, each once.      *)
AliasesMerged(old, new, as) ==
    /\ IsPrefix(old, new)
    /\ IsInjective(new)
    /\ ToSet(new) = ToSet(old) \cup {ToLower[as[i]] : i \in 1 .. Len(as)}

Connect(n, k, as) ==
    /\ containers'[k].networks = containers[k].networks \cup {n.id}
    /\ AliasesMerged(containers[k].aliases, containers'[k].aliases, as)
    /\ \A j \in Containers \ {k} : containers'[j] = containers[j]
    /\ UNCHANGED <<networks, nextNetID>>

Disconnect(n, k) ==
    /\ ~Predefined(n)
    /\ n.id \in containers[k].networks
    /\ containers' = [containers EXCEPT ![k].networks = @ \ {n.id}]
    /\ UNCHANGED <<networks, nextNetID>>

Next ==
    \/ \E nm \in NetNames : Create(nm)
    \/ Prune
    \/ \E n \in networks :
          \/ Delete(n)
          \/ \E k \in Containers :
                \/ Disconnect(n, k)
                \/ \E as \in BoundedSeq(AliasInputs, MaxAliasesPerConnect) :
                      Connect(n, k, as)

Spec == Init /\ [][Next]_avars
=============================================================================

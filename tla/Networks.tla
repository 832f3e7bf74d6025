------------------------------ MODULE Networks ------------------------------
(***************************************************************************)
(* The libpod network endpoints of kubedock: NetworkCreate, NetworkDelete, *)
(* NetworkConnect, NetworkDisconnect and NetworkPrune.  Networks exist     *)
(* only in the entity store; a container's membership is the set of        *)
(* network ids in its Networks map, and its aliases are NetworkAliases.    *)
(* Requests run concurrently; each store call is one atomic step, and the *)
(* handlers change the container the store lends them with no lock held   *)
(* (see NetworkConnect).                                                   *)
(* A history variable records what the responses report as removed.       *)
(***************************************************************************)
EXTENDS Naturals, Sequences, FiniteSets, SequencesExt, Bags, BagsExt

CONSTANTS
    Clients,          \* the request goroutines that may run at the same time
    Containers,       \* the containers in the store
    NetNames,         \* the network names clients send
    PredefinedNames,  \* names of the networks kubedock defines itself
    AliasInputs,      \* the alias strings a connect request may carry
    ToLower,          \* strings.ToLower on AliasInputs
    MaxAliasesPerConnect, \* bound: length of a connect request's alias list
    MaxNetworkIDs     \* bound: ids the store may hand out

ASSUME /\ PredefinedNames \subseteq NetNames
       /\ ToLower \in [AliasInputs -> STRING]
       /\ MaxNetworkIDs >= Cardinality(PredefinedNames)

VARIABLES
    networks,    \* the store's networks: a set of [id, name]
    nextNetID,   \* the id the store assigns to the next saved network
    containers,  \* containers[c]: [networks : set of ids, aliases : sequence]
    req,         \* req[c]: the request client c is executing
    reported     \* history: the bag of networks that responses reported removed

vars == <<networks, nextNetID, containers, req, reported>>

-----------------------------------------------------------------------------
NoID == 0
NetIDs == 1 .. (MaxNetworkIDs + Cardinality(Clients))
Network == [id : NetIDs, name : NetNames]
NoNetwork == [id |-> NoID, name |-> "none"]
Aliases == {ToLower[a] : a \in AliasInputs}

(* Network.IsPredefined: the built-in networks, known by name.             *)
IsPredefined(n) == n.name \in PredefinedNames

NetworkIDs == {n.id : n \in networks}

(* Store lookups; a target is tagged with whether the client sent an id   *)
(* or a name.                                                              *)
GetNetworkByName(nm) == {n \in networks : n.name = nm}

Target == [kind : {"name"}, name : NetNames] \cup [kind : {"id"}, id : NetIDs]

GetNetworkByNameOrID(t) ==
    IF t.kind = "id" THEN {n \in networks : n.id = t.id}
                     ELSE GetNetworkByName(t.name)

(* getContainersInNetwork: the containers whose Networks map has the id.  *)
ContainersInNetwork(n) == {c \in Containers : n.id \in containers[c].networks}

(* NetworkConnect's alias merge: each requested alias, lower-cased, is    *)
(* appended unless done already holds it; done starts as the container's  *)
(* aliases and grows with every alias appended.                            *)
(* Mutant: done not updated with the aliases appended.                  *)
MergeAliasesKeepingDone(existing, in) ==
    LET add(acc, a) == IF ToLower[a] \in ToSet(existing) THEN acc
                                                        ELSE Append(acc, ToLower[a])
    IN  FoldLeft(add, existing, in)

(* Mutant: the aliases stored as sent, without strings.ToLower.          *)
MergeAliasesUnfolded(existing, in) ==
    LET add(acc, a) == IF a \in ToSet(acc) THEN acc ELSE Append(acc, a)
    IN  FoldLeft(add, existing, in)

MergeAliases(existing, in) ==
    LET add(acc, a) == IF ToLower[a] \in ToSet(acc) THEN acc
                                                   ELSE Append(acc, ToLower[a])
    IN  FoldLeft(add, existing, in)

-----------------------------------------------------------------------------
Ops   == {"idle", "create", "delete", "connect", "disconnect", "prune"}
Steps == {"idle", "create_save", "delete_scan", "delete_db", "connect_get",
          "connect_save", "disconnect_get", "disconnect_save", "prune_scan",
          "prune_db"}
Resps == {"none", "ok", "existing", "notfound", "forbidden", "conflict",
          "error", "pruned", "found", "listed"}

Request == [op : Ops, step : Steps, name : NetNames \cup {"none"},
            net : Network \cup {NoNetwork}, ctr : Containers \cup {"none"},
            aliases : BoundedSeq(AliasInputs, MaxAliasesPerConnect),
            snap : Seq(Aliases), todo : SUBSET Network,
            pruned : SUBSET Network, resp : Resps]

Idle(r) == [op |-> "idle", step |-> "idle", name |-> "none", net |-> NoNetwork,
            ctr |-> "none", aliases |-> <<>>, snap |-> <<>>, todo |-> {},
            pruned |-> {}, resp |-> r]

Start(c, fields) == req' = [req EXCEPT ![c] = fields]
Finish(c, r) == req' = [req EXCEPT ![c] = Idle(r)]
GoTo(c, s)   == req' = [req EXCEPT ![c].step = s]

(* kubedock creates the predefined networks at start-up; a container may   *)
(* already be on them.                                                      *)
PredefinedNetworks ==
    LET ord == SetToSeq(PredefinedNames)
    IN  {[id |-> i, name |-> ord[i]] : i \in 1 .. Len(ord)}

Init ==
    /\ networks = PredefinedNetworks
    /\ nextNetID = Cardinality(PredefinedNames) + 1
    /\ containers \in [Containers -> [networks : SUBSET {n.id : n \in PredefinedNetworks},
                                      aliases : {<<>>}]]
    /\ req = [c \in Clients |-> Idle("none")]
    /\ reported = EmptyBag

-----------------------------------------------------------------------------
(* NetworkCreate: an existing network of that name is answered as it is; *)
(* otherwise SaveNetwork records a new one.                               *)
NetworkCreateLookup(c, nm) ==
    /\ req[c].op = "idle"
    /\ nextNetID <= MaxNetworkIDs
    /\ IF GetNetworkByName(nm) # {}
         THEN Finish(c, "existing")
         ELSE Start(c, [Idle("none") EXCEPT !.op = "create",
                          !.step = "create_save", !.name = nm])
    /\ UNCHANGED <<networks, nextNetID, containers, reported>>

NetworkCreateSave(c) ==
    /\ req[c].step = "create_save"
    /\ networks' = networks \cup {[id |-> nextNetID, name |-> req[c].name]}
    /\ nextNetID' = nextNetID + 1
    /\ Finish(c, "ok")
    /\ UNCHANGED <<containers, reported>>

-----------------------------------------------------------------------------
(* NetworkDelete: resolve (404), refuse a predefined network (403), refuse *)
(* a network with containers (409), then DeleteNetwork (404 if gone).      *)
NetworkDeleteLookup(c, t) ==
    /\ req[c].op = "idle"
    /\ IF GetNetworkByNameOrID(t) = {}
         THEN Finish(c, "notfound")
         ELSE \E n \in GetNetworkByNameOrID(t) :
                IF IsPredefined(n)
                  THEN Finish(c, "forbidden")
                  ELSE Start(c, [Idle("none") EXCEPT !.op = "delete",
                                   !.step = "delete_scan", !.net = n])
    /\ UNCHANGED <<networks, nextNetID, containers, reported>>

(* Mutant: the attached-containers check dropped.                       *)
NetworkDeleteScanUnchecked(c) ==
    /\ req[c].step = "delete_scan"
    /\ GoTo(c, "delete_db")
    /\ UNCHANGED <<networks, nextNetID, containers, reported>>

NetworkDeleteScan(c) ==
    /\ req[c].step = "delete_scan"
    /\ IF ContainersInNetwork(req[c].net) # {}
         THEN Finish(c, "conflict")
         ELSE GoTo(c, "delete_db")
    /\ UNCHANGED <<networks, nextNetID, containers, reported>>

(* Mutant: DeleteNetwork's error ignored, so the request answers 200 even *)
(* when the network is already gone.                                      *)
NetworkDeleteStoreIgnoringError(c) ==
    /\ req[c].step = "delete_db"
    /\ networks' = networks \ {req[c].net}
    /\ reported' = BagAdd(reported, req[c].net)
    /\ Finish(c, "ok")
    /\ UNCHANGED <<nextNetID, containers>>

NetworkDeleteStore(c) ==
    /\ req[c].step = "delete_db"
    /\ IF req[c].net \in networks
         THEN /\ networks' = networks \ {req[c].net}
              /\ reported' = BagAdd(reported, req[c].net)
              /\ Finish(c, "ok")
         ELSE UNCHANGED <<networks, reported>> /\ Finish(c, "notfound")
    /\ UNCHANGED <<nextNetID, containers>>

-----------------------------------------------------------------------------
(* NetworkConnect: resolve the network (404), then the container.  The   *)
(* store lends the entity itself (spec 3), so ConnectNetwork and the      *)
(* alias loop change the live container and SaveContainer stores the same *)
(* entity again.  No lock is held: the loop reads tainr.NetworkAliases,   *)
(* and line 169 stores the appended slice later, so the append of another *)
(* request on that container in between is overwritten (a data race; a   *)
(* lost append is an outcome the build produces).  The read is taken      *)
(* with ConnectNetwork, the store with the save; a request that appends   *)
(* nothing stores nothing.                                                 *)
NetworkConnectLookup(c, t, ctr, as) ==
    /\ req[c].op = "idle"
    /\ IF GetNetworkByNameOrID(t) = {}
         THEN Finish(c, "notfound")
         ELSE \E n \in GetNetworkByNameOrID(t) :
                Start(c, [Idle("none") EXCEPT !.op = "connect",
                            !.step = "connect_get", !.net = n, !.ctr = ctr,
                            !.aliases = as])
    /\ UNCHANGED <<networks, nextNetID, containers, reported>>

(* GetContainerByNameOrID, ConnectNetwork(netw.ID) on the live map, and   *)
(* the read of the alias slice that done and the appends start from.      *)
NetworkConnectGetContainer(c) ==
    LET k == req[c].ctr IN
    /\ req[c].step = "connect_get"
    /\ containers' = [containers EXCEPT ![k].networks = @ \cup {req[c].net.id}]
    /\ req' = [req EXCEPT ![c].snap = containers[k].aliases, ![c].step = "connect_save"]
    /\ UNCHANGED <<networks, nextNetID, reported>>

(* The appends stored over the slice read, then SaveContainer.           *)
NetworkConnectSave(c) ==
    LET r == req[c]
        merged == MergeAliases(r.snap, r.aliases)
    IN  /\ r.step = "connect_save"
        /\ IF merged = r.snap THEN UNCHANGED containers
           ELSE containers' = [containers EXCEPT ![r.ctr].aliases = merged]
        /\ Finish(c, "ok")
        /\ UNCHANGED <<networks, nextNetID, reported>>

-----------------------------------------------------------------------------
(* NetworkDisconnect: resolve the network (404), then the container; refuse *)
(* a predefined network (500), DisconnectNetwork on the live map (404 if  *)
(* not a member) and SaveContainer.                                        *)
NetworkDisconnectLookup(c, t, ctr) ==
    /\ req[c].op = "idle"
    /\ IF GetNetworkByNameOrID(t) = {}
         THEN Finish(c, "notfound")
         ELSE \E n \in GetNetworkByNameOrID(t) :
                Start(c, [Idle("none") EXCEPT !.op = "disconnect",
                            !.step = "disconnect_get", !.net = n, !.ctr = ctr])
    /\ UNCHANGED <<networks, nextNetID, containers, reported>>

NetworkDisconnectGetContainer(c) ==
    /\ req[c].step = "disconnect_get"
    /\ GoTo(c, "disconnect_save")
    /\ UNCHANGED <<networks, nextNetID, containers, reported>>

NetworkDisconnectContainer(c) ==
    LET r == req[c] IN
    /\ r.step = "disconnect_save"
    /\ CASE IsPredefined(r.net) ->
              Finish(c, "error") /\ UNCHANGED containers
         [] r.net.id \notin containers[r.ctr].networks ->
              Finish(c, "notfound") /\ UNCHANGED containers
         [] OTHER ->
              /\ containers' = [containers EXCEPT ![r.ctr].networks = @ \ {r.net.id}]
              /\ Finish(c, "ok")
    /\ UNCHANGED <<networks, nextNetID, reported>>

-----------------------------------------------------------------------------
(* NetworkPrune: list the networks; for each, skip it if predefined or if *)
(* getContainersInNetwork finds members, else DeleteNetwork.  A failed    *)
(* DeleteNetwork ends the whole request with 404.                          *)
NetworkPruneList(c) ==
    /\ req[c].op = "idle"
    /\ Start(c, [Idle("none") EXCEPT !.op = "prune", !.step = "prune_scan",
                   !.todo = networks])
    /\ UNCHANGED <<networks, nextNetID, containers, reported>>

(* Mutant: the IsPredefined check dropped from the prune loop.          *)
NetworkPruneScanAnyNetwork(c) ==
    LET r == req[c] IN
    /\ r.step = "prune_scan"
    /\ IF r.todo = {}
         THEN Finish(c, "pruned") /\ reported' = reported (+) SetToBag(r.pruned)
         ELSE /\ UNCHANGED reported
              /\ \E n \in r.todo :
                   IF ContainersInNetwork(n) # {}
                     THEN req' = [req EXCEPT ![c].todo = @ \ {n}]
                     ELSE req' = [req EXCEPT ![c].step = "prune_db", ![c].net = n,
                                             ![c].todo = @ \ {n}]
    /\ UNCHANGED <<networks, nextNetID, containers>>

NetworkPruneScan(c) ==
    LET r == req[c] IN
    /\ r.step = "prune_scan"
    /\ IF r.todo = {}
         THEN Finish(c, "pruned") /\ reported' = reported (+) SetToBag(r.pruned)
         ELSE /\ UNCHANGED reported
              /\ \E n \in r.todo :
                   IF IsPredefined(n) \/ ContainersInNetwork(n) # {}
                     THEN req' = [req EXCEPT ![c].todo = @ \ {n}]
                     ELSE req' = [req EXCEPT ![c].step = "prune_db", ![c].net = n,
                                             ![c].todo = @ \ {n}]
    /\ UNCHANGED <<networks, nextNetID, containers>>

NetworkPruneStore(c) ==
    LET r == req[c] IN
    /\ r.step = "prune_db"
    /\ IF r.net \in networks
         THEN /\ networks' = networks \ {r.net}
              /\ req' = [req EXCEPT ![c].step = "prune_scan", ![c].net = NoNetwork,
                                    ![c].pruned = @ \cup {r.net}]
         ELSE UNCHANGED networks /\ Finish(c, "notfound")
    /\ UNCHANGED <<nextNetID, containers, reported>>

-----------------------------------------------------------------------------
(* The read handlers: one store call each.  NetworkList lists the table;  *)
(* NetworkInfo and NetworkExists answer 200 or 204 if the target resolves *)
(* and 404 otherwise.                                                      *)
NetworkList(c) ==
    /\ req[c].op = "idle"
    /\ Finish(c, "listed")
    /\ UNCHANGED <<networks, nextNetID, containers, reported>>

NetworkLookup(c, t) ==
    /\ req[c].op = "idle"
    /\ Finish(c, IF GetNetworkByNameOrID(t) = {} THEN "notfound" ELSE "found")
    /\ UNCHANGED <<networks, nextNetID, containers, reported>>

-----------------------------------------------------------------------------
Next ==
    \E c \in Clients :
        \/ NetworkList(c)
        \/ \E t \in Target : NetworkLookup(c, t)
        \/ \E nm \in NetNames : NetworkCreateLookup(c, nm)
        \/ NetworkCreateSave(c)
        \/ \E t \in Target : NetworkDeleteLookup(c, t)
        \/ NetworkDeleteScan(c)
        \/ NetworkDeleteStore(c)
        \/ \E t \in Target, ctr \in Containers,
              as \in BoundedSeq(AliasInputs, MaxAliasesPerConnect) :
              NetworkConnectLookup(c, t, ctr, as)
        \/ NetworkConnectGetContainer(c)
        \/ NetworkConnectSave(c)
        \/ \E t \in Target, ctr \in Containers : NetworkDisconnectLookup(c, t, ctr)
        \/ NetworkDisconnectGetContainer(c)
        \/ NetworkDisconnectContainer(c)
        \/ NetworkPruneList(c)
        \/ NetworkPruneScan(c)
        \/ NetworkPruneStore(c)

Spec == Init /\ [][Next]_vars

-----------------------------------------------------------------------------
TypeOK ==
    /\ networks \subseteq Network
    /\ nextNetID \in 1 .. (MaxNetworkIDs + Cardinality(Clients) + 1)
    /\ containers \in [Containers -> [networks : SUBSET NetIDs,
                                      aliases : Seq(Aliases)]]
    /\ req \in [Clients -> Request]
    /\ IsABag(reported) /\ BagToSet(reported) \subseteq Network

(* Every network a container is a member of exists in the store:          *)
(* NetworkDelete and NetworkPrune remove only networks without members,   *)
(* and NetworkConnect only joins a network it has just resolved.          *)
NoDanglingMembership ==
    \A c \in Containers : containers[c].networks \subseteq NetworkIDs

(* A predefined network is never removed from the store: NetworkDelete    *)
(* refuses it and NetworkPrune skips it, whatever the requests in flight. *)
PredefinedNetworksKept ==
    [][\A n \in networks : IsPredefined(n) => n \in networks']_vars

(* Every network that a response reports as removed (NetworkDelete's 200, *)
(* an item of NetworkPrune's list) is gone from the store, and no network *)
(* is reported removed twice: of two deletes or prunes that resolved the  *)
(* same network, only the one whose DeleteNetwork succeeded says so.      *)
RemovalReportedOnce ==
    \A n \in BagToSet(reported) : CopiesIn(n, reported) = 1 /\ n \notin networks

(* A container never loses an alias: no handler removes one, so an alias *)
(* a NetworkConnect appended stays in NetworkAliases whatever other       *)
(* connects on the same container do at the same time (spec 5: concurrent *)
(* mutation of one entity is serialized).                                  *)
AliasesNeverLost ==
    [][\A k \in Containers :
          ToSet(containers[k].aliases) \subseteq ToSet(containers'[k].aliases)
      ]_vars

(* NetworkPrune skips what it cannot remove and answers with what it did   *)
(* remove: a prune never ends in an error.                                  *)
NetworkPruneNeverFails ==
    [][\A c \in Clients :
          (req[c].op = "prune" /\ req'[c].op = "idle") => req'[c].resp = "pruned"
      ]_vars
-----------------------------------------------------------------------------
(* Refinement.  A prune takes effect when it lists the networks: the      *)
(* user-defined networks of its list without members count as removed     *)
(* from then on; every other request takes effect at its last store call. *)
PruneRemoving ==
    UNION {{n \in req[c].todo \cup {req[c].net} :
               ~IsPredefined(n) /\ ContainersInNetwork(n) = {}} :
           c \in {d \in Clients : req[d].op = "prune"}}

AbsNetworks == networks \ PruneRemoving

NS == INSTANCE NetworkService WITH networks <- AbsNetworks

(* The handlers, run one request at a time, implement NetworkService:     *)
(* each request behaves as one atomic step, NetworkConnect's merge keeps   *)
(* the aliases the container had and adds the request's, case-folded and  *)
(* each once, and a prune removes exactly the networks it may.            *)
NetworkServiceRefinement == NS!Spec
=============================================================================

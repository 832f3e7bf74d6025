------------------------------- MODULE Volumes -------------------------------
(***************************************************************************)
(* The volume lifecycle of kubedock.  Concurrent HTTP requests (gin runs   *)
(* every request on its own goroutine) execute the VolumeCreate,           *)
(* VolumeDelete and VolumePrune handlers.  Each handler is a sequence of   *)
(* calls on two shared stores:                                             *)
(*   - the entity store's volume table (cr.DB), whose single calls are     *)
(*     atomic, and                                                         *)
(*   - the Kubernetes namespace, in which the backend creates and deletes  *)
(*     one PersistentVolumeClaim per volume (CreateVolume, DeleteVolume).  *)
(* Every store call is one atomic step; the handler's own code between two *)
(* calls touches nothing shared, so a request is modelled as a small state *)
(* machine whose steps are exactly its store calls.  The docker and libpod *)
(* dialects run the same calls in the same order and differ only in the    *)
(* JSON they write, so one set of actions stands for both.                 *)
(***************************************************************************)
EXTENDS Naturals, Sequences, FiniteSets, PVCNaming

CONSTANTS
    Clients,        \* the request goroutines that may run at the same time
    VolNames,       \* the volume names clients send, as character sequences
    MaxVolumeIDs,   \* bound: ids the store may hand out on SaveVolume
    PlatformFaults  \* TRUE if Kubernetes calls may fail (other than
                    \* AlreadyExists on create and NotFound on delete)

ASSUME /\ Clients # {}
       /\ <<>> \notin VolNames
       /\ MaxVolumeIDs \in Nat \ {0}
       /\ PlatformFaults \in BOOLEAN

VARIABLES
    volumes,   \* the store's volume table: a set of [id, name]
    nextID,    \* the id the store assigns to the next saved volume
    pvcs,      \* the PVCs in the namespace: a set of [name, volumeid, volumename]
    req        \* req[c]: the request client c is executing

vars == <<volumes, nextID, pvcs, req>>

-----------------------------------------------------------------------------
(* Identities.  Ids are 1, 2, ...; NoID (0) is the empty ShortID of a       *)
(* volume that the store has not saved yet.                                 *)

NoID == 0
IDs == 1 .. (MaxVolumeIDs + Cardinality(Clients))
Volume == [id : IDs, name : VolNames]
NoVolume == [id |-> NoID, name |-> <<>>]

PVCNames == {PVCName(n) : n \in VolNames}
PVC == [name : PVCNames, volumeid : IDs \cup {NoID}, volumename : VolNames]

ClaimExists(pn) == \E p \in pvcs : p.name = pn

(* The entity store's lookups.  GetVolumeByNameOrID tries the id first and *)
(* then the name; a target is tagged with which of the two a client sent.  *)
GetVolumeByName(n) == {v \in volumes : v.name = n}

Target == [kind : {"name"}, name : VolNames] \cup [kind : {"id"}, id : IDs]

GetVolumeByNameOrID(t) ==
    IF t.kind = "id" THEN {v \in volumes : v.id = t.id}
                     ELSE GetVolumeByName(t.name)

-----------------------------------------------------------------------------
(* Requests.  op and step say where the handler is; name, vol and todo are *)
(* its local variables; resp is the status of the last answer written.    *)

Ops   == {"idle", "create", "delete", "prune"}
Steps == {"idle", "create_pvc", "create_save", "delete_pvc", "delete_db",
          "prune_pvc", "prune_db"}
Resps == {"none", "created", "existing", "deleted", "notfound", "error",
          "pruned", "found", "listed"}

Request == [op : Ops, step : Steps, name : VolNames \cup {<<>>},
            vol : [id : IDs \cup {NoID}, name : VolNames] \cup {NoVolume},
            todo : SUBSET Volume, resp : Resps]

Idle(r) == [op |-> "idle", step |-> "idle", name |-> <<>>, vol |-> NoVolume,
            todo |-> {}, resp |-> r]

Finish(c, r) == req' = [req EXCEPT ![c] = Idle(r)]
GoTo(c, s)   == req' = [req EXCEPT ![c].step = s]

Init ==
    /\ volumes = {}
    /\ nextID = 1
    /\ pvcs = {}
    /\ req = [c \in Clients |-> Idle("none")]

-----------------------------------------------------------------------------
(* VolumeCreate, up to GetVolumeByName: an existing volume of that name is *)
(* answered as it is (201); otherwise a new, unsaved volume goes on to the *)
(* backend.                                                                 *)
(* Mutant: the existence check dropped, every create goes to the backend. *)
VolumeCreateLookupUnchecked(c, n) ==
    /\ req[c].op = "idle"
    /\ nextID <= MaxVolumeIDs
    /\ req' = [req EXCEPT ![c] = [Idle("none") EXCEPT
                 !.op = "create", !.step = "create_pvc", !.name = n,
                 !.vol = [id |-> NoID, name |-> n]]]
    /\ UNCHANGED <<volumes, nextID, pvcs>>

VolumeCreateLookup(c, n) ==
    /\ req[c].op = "idle"
    /\ nextID <= MaxVolumeIDs
    /\ IF GetVolumeByName(n) # {}
         THEN Finish(c, "existing")
         ELSE req' = [req EXCEPT ![c] = [Idle("none") EXCEPT
                        !.op = "create", !.step = "create_pvc", !.name = n,
                        !.vol = [id |-> NoID, name |-> n]]]
    /\ UNCHANGED <<volumes, nextID, pvcs>>

(* Backend CreateVolume: create the PVC, labelled with vol.ShortID and    *)
(* annotated with the name.  AlreadyExists counts as success.  Any other  *)
(* error ends the request with 500; such an error (a timeout, say) may    *)
(* come after the API server applied the create.                           *)
NewClaim(vol) == [name |-> PVCName(vol.name), volumeid |-> vol.id,
                  volumename |-> vol.name]

CreateClaim(vol) ==
    pvcs' = IF ClaimExists(PVCName(vol.name)) THEN pvcs
                                             ELSE pvcs \cup {NewClaim(vol)}

(* Mutant: any Kubernetes error treated like AlreadyExists.              *)
VolumeCreateBackendIgnoringErrors(c) ==
    /\ req[c].step = "create_pvc"
    /\ \/ CreateClaim(req[c].vol)
       \/ PlatformFaults /\ UNCHANGED pvcs
    /\ GoTo(c, "create_save")
    /\ UNCHANGED <<volumes, nextID>>

VolumeCreateBackend(c) ==
    /\ req[c].step = "create_pvc"
    /\ \/ /\ CreateClaim(req[c].vol)
          /\ GoTo(c, "create_save")
       \/ /\ PlatformFaults
          /\ CreateClaim(req[c].vol) \/ UNCHANGED pvcs
          /\ Finish(c, "error")
    /\ UNCHANGED <<volumes, nextID>>

(* SaveVolume: the store assigns the id and records the volume.            *)
(* Mutant: the volume saved as passed, without an id assigned.           *)
VolumeCreateSaveWithoutID(c) ==
    /\ req[c].step = "create_save"
    /\ volumes' = volumes \cup {req[c].vol}
    /\ nextID' = nextID + 1
    /\ Finish(c, "created")
    /\ UNCHANGED pvcs

VolumeCreateSave(c) ==
    /\ req[c].step = "create_save"
    /\ volumes' = volumes \cup {[id |-> nextID, name |-> req[c].name]}
    /\ nextID' = nextID + 1
    /\ Finish(c, "created")
    /\ UNCHANGED pvcs

-----------------------------------------------------------------------------
(* VolumeDelete: resolve the target (404 if absent), delete its PVC, then  *)
(* delete it from the store.                                                *)
VolumeDeleteLookup(c, t) ==
    /\ req[c].op = "idle"
    /\ IF GetVolumeByNameOrID(t) = {}
         THEN Finish(c, "notfound")
         ELSE \E v \in GetVolumeByNameOrID(t) :
                req' = [req EXCEPT ![c] = [Idle("none") EXCEPT
                          !.op = "delete", !.step = "delete_pvc", !.vol = v]]
    /\ UNCHANGED <<volumes, nextID, pvcs>>

(* Backend DeleteVolume: delete the PVC of that name; NotFound counts as   *)
(* success.  The handlers only log any other error and carry on.           *)
DeleteClaim(vol) ==
    pvcs' = {p \in pvcs : p.name # PVCName(vol.name)}

BackendDeleteVolume(vol) ==
    \/ DeleteClaim(vol)
    \/ PlatformFaults /\ UNCHANGED pvcs

VolumeDeleteBackend(c) ==
    /\ req[c].step = "delete_pvc"
    /\ BackendDeleteVolume(req[c].vol)
    /\ GoTo(c, "delete_db")
    /\ UNCHANGED <<volumes, nextID>>

(* DB DeleteVolume fails (404) if the volume is no longer in the store.    *)
VolumeDeleteStore(c) ==
    /\ req[c].step = "delete_db"
    /\ IF req[c].vol \in volumes
         THEN /\ volumes' = volumes \ {req[c].vol}
              /\ Finish(c, "deleted")
         ELSE /\ UNCHANGED volumes
              /\ Finish(c, "notfound")
    /\ UNCHANGED <<nextID, pvcs>>

-----------------------------------------------------------------------------
(* VolumePrune: list the store, then for every listed volume delete its   *)
(* PVC and then delete it from the store; a store error is logged and the *)
(* loop continues.  Go ranges over the list in the store's order, which    *)
(* follows the random ids, so any order is possible.                      *)
VolumePruneList(c) ==
    /\ req[c].op = "idle"
    /\ IF volumes = {}
         THEN Finish(c, "pruned")
         ELSE req' = [req EXCEPT ![c] = [Idle("none") EXCEPT
                        !.op = "prune", !.step = "prune_pvc", !.todo = volumes]]
    /\ UNCHANGED <<volumes, nextID, pvcs>>

VolumePruneBackend(c) ==
    /\ req[c].step = "prune_pvc"
    /\ \E v \in req[c].todo :
         /\ BackendDeleteVolume(v)
         /\ req' = [req EXCEPT ![c].step = "prune_db", ![c].vol = v,
                               ![c].todo = @ \ {v}]
    /\ UNCHANGED <<volumes, nextID>>

VolumePruneStore(c) ==
    /\ req[c].step = "prune_db"
    /\ volumes' = volumes \ {req[c].vol}
    /\ IF req[c].todo = {}
         THEN Finish(c, "pruned")
         ELSE req' = [req EXCEPT ![c].step = "prune_pvc", ![c].vol = NoVolume]
    /\ UNCHANGED <<nextID, pvcs>>

-----------------------------------------------------------------------------
(* The read handlers: one store call each, answered from its result.      *)
(* VolumeList lists the table; the filter only selects what is written.   *)
VolumeList(c) ==
    /\ req[c].op = "idle"
    /\ Finish(c, "listed")
    /\ UNCHANGED <<volumes, nextID, pvcs>>

(* VolumeInfo and VolumeExists: 200 or 204 if the target resolves, 404    *)
(* otherwise.                                                              *)
VolumeLookup(c, t) ==
    /\ req[c].op = "idle"
    /\ Finish(c, IF GetVolumeByNameOrID(t) = {} THEN "notfound" ELSE "found")
    /\ UNCHANGED <<volumes, nextID, pvcs>>

-----------------------------------------------------------------------------
Next ==
    \E c \in Clients :
        \/ VolumeList(c)
        \/ \E t \in Target : VolumeLookup(c, t)
        \/ \E n \in VolNames : VolumeCreateLookup(c, n)
        \/ VolumeCreateBackend(c)
        \/ VolumeCreateSave(c)
        \/ \E t \in Target : VolumeDeleteLookup(c, t)
        \/ VolumeDeleteBackend(c)
        \/ VolumeDeleteStore(c)
        \/ VolumePruneList(c)
        \/ VolumePruneBackend(c)
        \/ VolumePruneStore(c)

Spec == Init /\ [][Next]_vars

-----------------------------------------------------------------------------
(* Properties.                                                             *)

TypeOK ==
    /\ volumes \subseteq Volume
    /\ nextID \in 1 .. (MaxVolumeIDs + Cardinality(Clients) + 1)
    /\ pvcs \subseteq PVC
    /\ req \in [Clients -> Request]

Quiescent == \A c \in Clients : req[c].op = "idle"

(* When no request is in flight, every volume the store lists is backed by *)
(* its PVC, so a container started with it can mount it (addNamedVolumes   *)
(* refers to the claim by getVolumePVCName).  This is what VolumeCreate's  *)
(* AlreadyExists absorption and VolumeDelete's PVC-then-store order are    *)
(* for.                                                                     *)
QuiescentVolumesBacked ==
    Quiescent => \A v \in volumes : ClaimExists(PVCName(v.name))

(* A volume's name is unique in the store: VolumeCreate answers a second  *)
(* create of a name with the existing volume (spec: idempotent create by  *)
(* name).                                                                  *)
VolumeNameUnique ==
    \A v, w \in volumes : v.name = w.name => v = w

-----------------------------------------------------------------------------
(* Refinement.  A create takes effect when its PVC call returns, a delete  *)
(* or a prune item when its PVC call returns; the store call that follows  *)
(* only catches the table up.                                               *)
Creating == {c \in Clients : req[c].step = "create_save"}
Deleting == {c \in Clients : req[c].step \in {"delete_db", "prune_db"}}

AbsVolumes ==
    (volumes \ {req[c].vol : c \in Deleting})
        \cup {[id |-> nextID, name |-> req[c].name] : c \in Creating}
AbsClaims == {p.name : p \in pvcs}
AbsNextID == nextID + Cardinality(Creating)

VS == INSTANCE VolumeService
        WITH vols <- AbsVolumes, claims <- AbsClaims, nextID <- AbsNextID,
             ClaimName <- PVCName

(* The handlers, run one request at a time, implement VolumeService: each *)
(* request behaves as one atomic step, no name is created twice, and a    *)
(* delete never removes a claim another volume still uses.                *)
VolumeServiceRefinement == VS!Spec
=============================================================================

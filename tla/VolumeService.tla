---------------------------- MODULE VolumeService ----------------------------
(***************************************************************************)
(* What the volume endpoints promise, with every request one atomic step:  *)
(* a volume name is created at most once and gets its claim; deleting a    *)
(* volume removes it and, best effort, its claim, and never the claim of   *)
(* another volume; a failed create may leave a claim behind (an orphan,    *)
(* which a later create of that name adopts).                              *)
(***************************************************************************)
EXTENDS Naturals

CONSTANTS
    VolNames,       \* the names clients may create
    MaxVolumeIDs,   \* bound on the ids handed out
    ClaimName(_)    \* the deterministic claim name of a volume name

VARIABLES
    vols,     \* the volumes: a set of [id, name]
    claims,   \* the claim names present in the namespace
    nextID    \* the id of the next volume

avars == <<vols, claims, nextID>>

Names == {v.name : v \in vols}

\* The claims still needed by the volumes other than v.
ClaimsOfOthers(v) == {ClaimName(w.name) : w \in vols \ {v}}

Init ==
    /\ vols = {}
    /\ claims = {}
    /\ nextID = 1

Create(n) ==
    /\ n \notin Names
    /\ nextID <= MaxVolumeIDs
    /\ vols' = vols \cup {[id |-> nextID, name |-> n]}
    /\ claims' = claims \cup {ClaimName(n)}
    /\ nextID' = nextID + 1

FailedCreate(n) ==
    /\ claims' = claims \cup {ClaimName(n)}
    /\ UNCHANGED <<vols, nextID>>

Delete(v) ==
    /\ v \in vols
    /\ vols' = vols \ {v}
    /\ \/ claims' = claims \ ({ClaimName(v.name)} \ ClaimsOfOthers(v))
       \/ UNCHANGED claims
    /\ UNCHANGED nextID

Next ==
    \/ \E n \in VolNames : Create(n) \/ FailedCreate(n)
    \/ \E v \in vols : Delete(v)

Spec == Init /\ [][Next]_avars

\* The promise the steps keep: every volume has its claim.
VolumesBacked == \A v \in vols : ClaimName(v.name) \in claims
=============================================================================

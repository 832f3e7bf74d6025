------------------------------ MODULE PodVolumes ------------------------------
(***************************************************************************)
(* addNamedVolumes (backend volume.go): while startContainer builds a pod, *)
(* every mount path -> named volume pair of the container adds a pod       *)
(* volume "nv-" + toKubernetesName(name) backed by the volume's PVC, and a *)
(* mount of it on the primary container.  The loop ranges over a Go map,   *)
(* whose iteration order is unspecified, so each iteration picks any path  *)
(* not yet done.                                                           *)
(***************************************************************************)
EXTENDS Naturals, Sequences, FiniteSets, SequencesExt, PVCNaming

CONSTANTS
    MountPaths,       \* the mount paths a container may declare
    VolNames,         \* volume names, as character sequences
    PodVolumePrefix   \* the prefix "nv-" of a named pod volume

VARIABLES
    namedVolumes,  \* the container's named volumes: mount path -> volume name
    todo,          \* mount paths the loop has not reached yet
    podVolumes,    \* pod.Spec.Volumes: a sequence of [name, claim]
    mounts         \* pod.Spec.Containers[0].VolumeMounts: a sequence of [name, path]

vars == <<namedVolumes, todo, podVolumes, mounts>>

NamedVolumeMaps == UNION {[D -> VolNames] : D \in SUBSET MountPaths}

Init ==
    /\ namedVolumes \in NamedVolumeMaps
    /\ todo = DOMAIN namedVolumes
    /\ podVolumes = <<>>
    /\ mounts = <<>>

(* Mutant: the mount's Name and MountPath fields swapped.                 *)
AddNamedVolumeSwappedMount(mp) ==
    /\ mp \in todo
    /\ LET volName == PodVolumePrefix \o namedVolumes[mp]
       IN  /\ podVolumes' = Append(podVolumes, [name |-> volName,
                                                claim |-> PVCName(namedVolumes[mp])])
           /\ mounts' = Append(mounts, [name |-> mp, path |-> volName])
    /\ todo' = todo \ {mp}
    /\ UNCHANGED namedVolumes

(* One iteration: append the PVC-backed pod volume and its mount.         *)
AddNamedVolume(mp) ==
    /\ mp \in todo
    /\ LET volName == PodVolumePrefix \o namedVolumes[mp]
       IN  /\ podVolumes' = Append(podVolumes, [name |-> volName,
                                                claim |-> PVCName(namedVolumes[mp])])
           /\ mounts' = Append(mounts, [name |-> volName, path |-> mp])
    /\ todo' = todo \ {mp}
    /\ UNCHANGED namedVolumes

(* The function returns once every pair is done; the pod is then created. *)
Next == \E mp \in MountPaths : AddNamedVolume(mp)

Spec == Init /\ [][Next]_vars

-----------------------------------------------------------------------------
TypeOK ==
    /\ namedVolumes \in NamedVolumeMaps
    /\ todo \subseteq DOMAIN namedVolumes
    /\ podVolumes \in Seq([name : Seq(STRING), claim : Seq(STRING)])
    /\ mounts \in Seq([name : Seq(STRING), path : MountPaths])
=============================================================================

------------------------------ MODULE PVCNaming ------------------------------
(***************************************************************************)
(* getVolumePVCName, shared by the PVC the backend creates for a volume    *)
(* (CreateVolume, DeleteVolume) and the claim a pod mounts for it          *)
(* (addNamedVolumes).  Names are character sequences drawn from lowercase  *)
(* DNS characters, which toKubernetesName leaves as they are.              *)
(***************************************************************************)
EXTENDS Naturals, Sequences

CONSTANTS
    PVCPrefix,      \* the prefix "kubedock-vol-" of every PVC name
    PVCNameLimit    \* 63: the length getVolumePVCName truncates a name to

ASSUME PVCNameLimit \in Nat \ {0}

(* "kubedock-vol-" + toKubernetesName(name), cut to 63 characters.        *)
PVCName(n) ==
    LET full == PVCPrefix \o n
    IN  IF Len(full) > PVCNameLimit THEN SubSeq(full, 1, PVCNameLimit) ELSE full
=============================================================================

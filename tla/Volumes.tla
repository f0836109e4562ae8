------------------------------ MODULE Volumes ------------------------------
(***************************************************************************)
(* Volume builders.  A volume has a kind, a name, and the object it stands *)
(* for: the ConfigMap, Secret or claim that the program names, or "" (the  *)
(* other fields are copied).  What a builder answers is a pointer to a     *)
(* model, or nil for an error.                                             *)
(***************************************************************************)
EXTENDS Affinity, Naturals

VolumeKind == {"emptyDir", "hostPath", "configMap", "secret", "existing",
               "pvc", "nfs", "projected"}

(* A source of a projected volume: which of the four fields are set, and   *)
(* whether a service account token has a path.                             *)
ProjectionField == {"serviceAccountToken", "configMap", "secret", "downwardAPI"}

ReadWriteOnce == "ReadWriteOnce"

(* Deviation for ServerAgrees: a source needs at least one field.          *)
SourceNotEmpty(s) ==
  /\ s.set # {}
  /\ "serviceAccountToken" \in s.set => s.path

SourceAccepted(s) ==
  /\ \E f \in ProjectionField : s.set = {f}
  /\ "serviceAccountToken" \in s.set => s.path

(* Deviation for MountsFindTheirVolumes: a volume stands for the object    *)
(* that has its name.                                                      *)
ReferentByName(v) ==
  IF v.kind \in {"configMap", "secret", "pvc"} THEN v.name ELSE v.of

(* The object a volume of the model stands for: a ConfigMap and a Secret   *)
(* without a name of their own have the volume's, a claim to be made       *)
(* always has.                                                             *)
Referent(v) ==
  IF v.kind = "pvc" \/ (v.kind \in {"configMap", "secret"} /\ v.of = "")
  THEN v.name ELSE v.of

BuildVolume(v) ==
  IF v.name = "" \/ (v.kind = "projected" /\ \E s \in v.sources : ~SourceAccepted(s))
  THEN Nil
  ELSE Ptr([name |-> v.name, kind |-> v.kind, of |-> Referent(v),
            sources |-> v.sources])

BuildVolumeMount(v) == v.name

(* A claim to be made for the workflow; without access modes it can be     *)
(* attached to one node only.                                              *)
BuildPVC(v) ==
  IF v.name = "" THEN Nil
  ELSE Ptr([name |-> v.name,
            modes |-> IF v.modes = {} THEN {ReadWriteOnce} ELSE v.modes])

(* The first error is the answer for the whole list.                       *)
BuildAll(Build(_), vs) ==
  IF \E i \in DOMAIN vs : Build(vs[i]) = Nil THEN Nil
  ELSE Ptr([i \in DOMAIN vs |-> Build(vs[i])[1]])

buildVolumes(w) == BuildAll(BuildVolume, w.volumes)
buildVolumeClaimTemplates(w) == BuildAll(BuildPVC, w.claims)
============================================================================

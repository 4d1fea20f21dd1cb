--------------------------- MODULE UploadContract ---------------------------
(***************************************************************************)
(* What a folder upload promises about the server and the tracker file,     *)
(* whatever the order in which blobs, commits and tracker saves happen and  *)
(* wherever a run stops: contents are stored, a set of files is published   *)
(* only when the contents its LFS pointers name are stored, only published  *)
(* files are recorded as committed, and orphans are removed only when every *)
(* file is published.                                                       *)
(***************************************************************************)
CONSTANTS Files, Lfs, Oids, Oid, Orphans

VARIABLES stored, remote, orphans, recorded

vars == <<stored, remote, orphans, recorded>>

Init ==
  /\ stored \subseteq Oids
  /\ remote = {} /\ orphans = Orphans /\ recorded = {}

Store(o) ==
  /\ stored' = stored \cup {o}
  /\ UNCHANGED <<remote, orphans, recorded>>

Publish(S) ==
  /\ \A f \in S \cap Lfs : Oid[f] \in stored
  /\ remote' = remote \cup S
  /\ UNCHANGED <<stored, orphans, recorded>>

Record ==
  /\ recorded' \subseteq remote
  /\ UNCHANGED <<stored, remote, orphans>>

RemoveOrphans ==
  /\ Files \subseteq remote
  /\ orphans' = {}
  /\ UNCHANGED <<stored, remote, recorded>>

Next ==
  \/ \E o \in Oids : Store(o)
  \/ \E S \in SUBSET Files : Publish(S)
  \/ Record
  \/ RemoveOrphans

Spec == Init /\ [][Next]_vars
=============================================================================

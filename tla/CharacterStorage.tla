-------------------------- MODULE CharacterStorage --------------------------
(***************************************************************************)
(* The models of a character's storage under one configuration: the lease  *)
(* protocol, the journaled operations and the scene rows of the store.     *)
(*                                                                         *)
(* They see the same directory at three grains: the lease in lock files    *)
(* and inodes, the operations in what is remembered, the scene in the rows *)
(* of one transaction after the other.  The operations and the store take  *)
(* for granted what the lease shows, that maintenance is alone, so a       *)
(* behaviour explores one of the three and leaves the others at rest.      *)
(***************************************************************************)
EXTENDS CharacterLease, MCCharacterOperations, SceneState

VARIABLE grain   \* the model this behaviour is about

storageVars == <<vars, operationVars, settingVars, grain>>

StorageInit ==
    /\ grain \in {"lease", "operations", "scene"}
    /\ Init /\ OperationsInit /\ SettingInit
    /\ grain # "operations" => origin = "new"

Leases(A)   == grain = "lease" /\ A /\ UNCHANGED <<operationVars, settingVars, grain>>
Operates(A) == grain = "operations" /\ A /\ UNCHANGED <<vars, settingVars, grain>>
Describes(A) == grain = "scene" /\ A /\ UNCHANGED <<vars, operationVars, grain>>

StorageNext == Leases(Next) \/ Operates(OperationsNext) \/ Describes(SettingNext)

StorageFairness ==
    \A r \in Runtimes, t \in Threads : WF_vars(grain = "lease" /\ EndWrite(r, t))

StorageSpec == StorageInit /\ [][StorageNext]_storageVars /\ StorageFairness
\* Every variable of the operations and of the scene keeps its type.
StoredTypeOK == OperationsTypeOK /\ SettingTypeOK
=============================================================================

-------------------------- MODULE BestBlockListeners --------------------------
(***************************************************************************)
(* Two listeners of the best blocks of one client: a storage subscription  *)
(* and the runtime upgrade.  An event reaches both in one step, as emit()  *)
(* calls the listeners one after the other; what they await is theirs.     *)
(***************************************************************************)
EXTENDS StorageSubscription, RuntimeUpgrade

CONSTANT MaxBlocks \* bound: the best blocks

vars == <<storageVars, upgradeVars>>

Init == StorageInit /\ UpgradeInit

\* ChainHead emits 'bestBlock'.
BestBlock(value, version) ==
    /\ best.place < MaxBlocks
    /\ version = bestRuntime \/ client.upgrades < MaxUpgrades
    /\ StorageHears(value)
    /\ UpgradeHears(version)

Next ==
    \/ \E value \in Values, version \in Versions : BestBlock(value, version)
    \/ StorageNext /\ UNCHANGED upgradeVars
    \/ UpgradeNext /\ UNCHANGED storageVars

Spec == Init /\ [][Next]_vars
=============================================================================

---------------------------- MODULE GalleryHistory ----------------------------
(***************************************************************************)
(* What the photo gallery promises about its ownership history: an image   *)
(* that a tile got stays with that tile, and only an explicit              *)
(* redistribution takes it back.  That replaces configuration and          *)
(* ownership together, and only once no tile shows a photo any more.       *)
(***************************************************************************)
EXTENDS Naturals

CONSTANTS Images, Tiles, Configs, None

VARIABLES config, ledger, shown

vars == <<config, ledger, shown>>

Unused(epoch) == [epoch |-> epoch, owner |-> [i \in Images |-> None]]

Init ==
    /\ config \in Configs
    /\ ledger = Unused(0)
    /\ shown = [t \in Tiles |-> {}]

Edit == config' \in Configs /\ UNCHANGED <<ledger, shown>>

\* Reservations are only added.
Reserve ==
    /\ ledger'.epoch = ledger.epoch
    /\ \A i \in Images : ledger.owner[i] # None => ledger'.owner[i] = ledger.owner[i]
    /\ UNCHANGED <<config, shown>>

Show(t, i) ==
    /\ ledger.owner[i] = t
    /\ shown' = [shown EXCEPT ![t] = @ \cup {i}]
    /\ UNCHANGED <<config, ledger>>

Clear(t) ==
    /\ shown' = [shown EXCEPT ![t] = {}]
    /\ UNCHANGED <<config, ledger>>

\* Every epoch is a new one.
Redistribute ==
    /\ \A t \in Tiles : shown[t] = {}
    /\ config' \in Configs
    /\ ledger'.epoch > ledger.epoch
    /\ ledger' = Unused(ledger'.epoch)
    /\ UNCHANGED shown

Next ==
    \/ Edit \/ Reserve \/ Redistribute
    \/ \E t \in Tiles : Clear(t) \/ \E i \in Images : Show(t, i)

Spec == Init /\ [][Next]_vars
==============================================================================

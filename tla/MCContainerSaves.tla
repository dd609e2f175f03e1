-------------------------- MODULE MCContainerSaves --------------------------
(* Values for checking ContainerSaves: one extension from the start, one    *)
(* that is added later and a chest with one of its own; each has an         *)
(* identifier of its own.                                                   *)
EXTENDS ContainerSaves

CONSTANTS meta, late, locked, root, chest

Identifiers == [ x \in {Metadata, ChestData, Later} |-> x ]
Sizes == [ c \in {Root, Chest} |-> IF c = Root THEN 2 ELSE 1 ]
DeniedReasons == [ t \in Tags |-> IF t = locked THEN {"Moving"} ELSE {} ]
=============================================================================

------------------------- MODULE MCDiscoveryUpdate --------------------------
(***************************************************************************)
(* Two builds of the same device: the new one has dropped an entity.       *)
(***************************************************************************)
EXTENDS DiscoveryUpdate

CONSTANTS t1, t2, old, new

EntitiesOf == [c \in Config |-> IF c = old THEN {t1, t2} ELSE {t2}]
PayloadsOf == [c \in Config |-> c]
=============================================================================

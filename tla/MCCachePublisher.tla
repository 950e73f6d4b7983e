-------------------------- MODULE MCCachePublisher --------------------------
(***************************************************************************)
(* ERDs of one byte, in a cache with room for all of them, and what the    *)
(* environment may do in a run: the connection fails, or discovery comes   *)
(* and goes, while one ERD is reported, or two ERDs are reported, one of   *)
(* which keeps changing and may be lost after it was accepted.             *)
(***************************************************************************)
EXTENDS CachePublisher

VARIABLE world
worldVars == <<vars, world>>

Changing == CHOOSE k \in Key : TRUE
OneChanging == [k \in Key |-> IF k = Changing THEN {<<0>>, <<1>>} ELSE {<<0>>}]

OnlyOneReported == {entries'[i].key : i \in Slots} \subseteq {Changing, NoKey}
NothingLost == lost' = lost
NoOutage == link' = "up"
NoDiscovery == ~ha_discovery_active'

WorldInit == /\ Init
             /\ world \in {"outages", "discovery", "busy"}
             /\ world # "outages" => link = "up"

WorldNext ==
    /\ Next /\ UNCHANGED world
    /\ world = "outages" => OnlyOneReported /\ NothingLost /\ NoDiscovery
    /\ world = "discovery" => OnlyOneReported /\ NothingLost /\ NoOutage
    /\ world = "busy" => NoOutage /\ NoDiscovery /\ lost' \subseteq {Changing}

WorldSpec == WorldInit /\ [][WorldNext]_worldVars /\ Fairness
=============================================================================

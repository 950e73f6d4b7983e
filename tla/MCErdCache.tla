----------------------------- MODULE MCErdCache -----------------------------
(***************************************************************************)
(* Three ERDs compete for two slots and three arena bytes, payloads of up  *)
(* to two bytes are accepted and three-byte ones refused: both the slot    *)
(* limit and the arena limit are met.                                      *)
(***************************************************************************)
EXTENDS ErdCache

=============================================================================

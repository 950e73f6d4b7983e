-------------------------- MODULE MCSubscribeBridge --------------------------
(***************************************************************************)
(* Two ERDs the registry lets through and one it does not.                 *)
(***************************************************************************)
EXTENDS SubscribeBridge
=============================================================================

--------------------------- MODULE MCStartupBridge ---------------------------
(***************************************************************************)
(* A standard ERD that is published and that the feature bits can name, a  *)
(* mandatory one, and two custom ERDs, the first of which is published.    *)
(* Three fit a poll list: the second is dropped from a full one.           *)
(***************************************************************************)
EXTENDS StartupBridge

CONSTANTS e, m, c1, c2
FeatureErds == {e}
MandatoryErds == {m}
StandardErds == {e, m}
CustomErds == {c1, c2}
PublishedErds == {e, c1}
CustomPosition == [x \in CustomErds |-> IF x = c1 THEN 1 ELSE 2]
=============================================================================

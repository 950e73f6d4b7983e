------------------------- MODULE MCPublisherHistory -------------------------
(***************************************************************************)
(* ERDs of one byte, one of which takes two values.                        *)
(***************************************************************************)
EXTENDS PublisherHistory

OneChanging == [k \in Key |-> IF k = CHOOSE c \in Key : TRUE
                              THEN {<<0>>, <<1>>} ELSE {<<0>>}]
=============================================================================

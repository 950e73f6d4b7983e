---------------------------- MODULE MCPollBridge ----------------------------
(***************************************************************************)
(* Three ERDs to probe, and failure counts that wrap soon after 3.         *)
(***************************************************************************)
EXTENDS PollBridge

CONSTANTS e1, e2, e3
Erds == {e1, e2, e3}
ThreeErds == <<e1, e2, e3>>

FastBus == [coalesces |-> FALSE, slow_polling |-> FALSE, long_list |-> FALSE,
            shared |-> FALSE]
SlowLong == [coalesces |-> TRUE, slow_polling |-> TRUE, long_list |-> TRUE,
             shared |-> FALSE]
ThreeBuses == {[FastBus EXCEPT !.shared = TRUE], SlowLong,
               [FastBus EXCEPT !.slow_polling = TRUE]}
=============================================================================

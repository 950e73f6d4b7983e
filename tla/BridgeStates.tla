----------------------------- MODULE BridgeStates -----------------------------
(***************************************************************************)
(* What the rest of the program sees of the two bridges: current_state of  *)
(* erd_bridge_subscribe_t and of erd_bridge_poll_t.  PollBridge and        *)
(* SubscribeBridge implement these state machines (PollSteps and           *)
(* SubscribeSteps), StartupBridge is built on them.                        *)
(***************************************************************************)

\* enum polling_state_t
PollNext == [none    |-> {},
             probing |-> {"polling"},
             polling |-> {"probing", "failed"},
             failed  |-> {"probing"}]

\* enum subscription_state_t
SubscribeNext == [none        |-> {},
                  subscribing |-> {"subscribed", "failed"},
                  subscribed  |-> {"subscribing", "steady", "failed"},
                  steady      |-> {"subscribing", "subscribed"},
                  failed      |-> {"subscribed"}]
=============================================================================

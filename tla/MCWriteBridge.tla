--------------------------- MODULE MCWriteBridge ----------------------------
(***************************************************************************)
(* Boards at two addresses and on two buses, the common feature ERD and    *)
(* two more, and one ERD to write on the appliance or on a second board.   *)
(***************************************************************************)
EXTENDS WriteBridge

On(bus, address) == [bus |-> bus, address |-> address]
FeatureList == <<"0x0092", "0x0093", "0x0094">>
Appliances ==
    { \* both UARTs: the appliance is on GEA2, or one board on each bus
      [uarts |-> Bus, target |-> Broadcast, boards |-> {On("gea2", "0xB8")}],
      [uarts |-> Bus, target |-> Broadcast,
       boards |-> {On("gea3", "0xC0"), On("gea2", "0xB8")}],
      \* one UART and two boards, of which one is configured
      [uarts |-> {"gea3"}, target |-> "0xC0",
       boards |-> {On("gea3", "0xB8"), On("gea3", "0xC0")}] }
Writes == {[erd |-> "0x1001", board |-> b] : b \in {Primary, "0xC0"}}
=============================================================================

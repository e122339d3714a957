------------------------- MODULE MCLiveOrderManager -------------------------
(***************************************************************************)
(* Instances of LiveOrderManager for TLC.                                  *)
(***************************************************************************)
EXTENDS LiveOrderManager

CONSTANTS s1, t1, t2

OneSymbol == [t \in Trades |-> s1]
OpenOf(t) == [trade |-> t, action |-> "open"]
CloseOf(t) == [trade |-> t, action |-> "close"]

OneOpening == <<OpenOf(t1)>>
OneTrade == <<OpenOf(t1), CloseOf(t1)>>
TradeAndOpening == <<OpenOf(t1), CloseOf(t1), OpenOf(t2)>>
=============================================================================

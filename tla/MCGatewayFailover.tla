------------------------- MODULE MCGatewayFailover -------------------------
(* Two providers and the policies that order them in every way, one of them *)
(* naming the same provider twice.                                          *)
EXTENDS GatewayFailover

CONSTANTS a, b

MCUrls == {a, b}
MCOrders == {<<a, b>>, <<b, a>>, <<a, a>>}
=============================================================================

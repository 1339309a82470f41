-------------------------- MODULE MCGatewayServer --------------------------
(* Two calls: both may want the write lock, or one works outside of it.    *)
EXTENDS GatewayServer

CONSTANTS c1, c2

TwoCalls == {c1, c2}
=============================================================================

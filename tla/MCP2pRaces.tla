----------------------------- MODULE MCP2pRaces -----------------------------
(***************************************************************************)
(* Instances of P2pRaces for TLC: the parameters of MCP2pMarket and the    *)
(* handlers that may be interrupted.                                       *)
(***************************************************************************)
EXTENDS P2pRaces, MCP2pMarket
=============================================================================

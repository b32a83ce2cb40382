--------------------------- MODULE MCUnusualFeed ----------------------------
(* The instance in which the hub is checked against the stream it promises. *)
EXTENDS MCUnusualHub, UnusualHubFeed
=============================================================================

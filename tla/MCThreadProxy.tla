---------------------------- MODULE MCThreadProxy ----------------------------
(* A small instance of ThreadProxy for TLC: two connections, two ids, one    *)
(* text that parses, three responses of which one is empty. *)
EXTENDS ThreadProxy

CONSTANTS c1, c2, get, full, cut
=============================================================================

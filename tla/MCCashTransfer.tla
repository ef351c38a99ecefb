--------------------------- MODULE MCCashTransfer ---------------------------
(* One writer, two readers, a response of one byte of body. *)
EXTENDS CashTransfer
=============================================================================

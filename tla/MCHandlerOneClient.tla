------------------------- MODULE MCHandlerOneClient -------------------------
(* Small instances of HandlerOneClient for TLC: requests and responses with  *)
(* bodies of at most two units. *)
EXTENDS HandlerOneClient

Get == [kind |-> "get", body |-> 0]
Post == [kind |-> "post", body |-> 1]
Bad == [kind |-> "bad", body |-> 0]

SomeRequests == {Get, Post, Bad}

Sized(n) == [ok |-> TRUE, known |-> TRUE, body |-> n, marker |-> FALSE]
Chunked == [ok |-> TRUE, known |-> FALSE, body |-> 2, marker |-> TRUE]
UntilClose == [ok |-> TRUE, known |-> FALSE, body |-> 1, marker |-> FALSE]
Refusal == [ok |-> FALSE, known |-> TRUE, body |-> 1, marker |-> FALSE]

SomeResponses == {Sized(0), Sized(2), Chunked, UntilClose, Refusal}
=============================================================================

--------------------------- MODULE MCSelectProxy ---------------------------
(* Two slots and descriptors for more; a user that exits, one that does so in *)
(* one write with its address, and addresses that cannot be used.             *)
EXTENDS SelectProxy

MCPages == {"host/a"}
MCChunks == {<<"host/a">>, <<ExitWord>>, <<"host/a", NewLine, ExitWord>>,
             <<NoSlash, NewLine, TwoColons>>}
=============================================================================

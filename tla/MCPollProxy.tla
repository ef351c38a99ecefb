---------------------------- MODULE MCPollProxy ----------------------------
EXTENDS PollProxy

Get(key, extra) == [key |-> key, kind |-> "get", body |-> 0, extra |-> extra]
Post == [key |-> "k3", kind |-> "post", body |-> 1, extra |-> 0]
Malformed == [key |-> "k4", kind |-> "bad", body |-> 0, extra |-> 0]

\* Two units of body are announced and sent; none is announced and one sent; the
\* body ends by a marker; the answer is not 200.
Full2 == [ok |-> TRUE, known |-> TRUE, length |-> 2, body |-> 2, marker |-> FALSE]
Over == [ok |-> TRUE, known |-> TRUE, length |-> 0, body |-> 1, marker |-> FALSE]
Chunked == [ok |-> TRUE, known |-> FALSE, length |-> 0, body |-> 1, marker |-> TRUE]
Failed == [ok |-> FALSE, known |-> TRUE, length |-> 0, body |-> 0, marker |-> FALSE]

SomeScripts ==
    { <<Get("k1", 0), Over>>, <<Get("k2", 0), Full2>>, <<Get("k1", 1), Failed>>,
      <<Post, Chunked>>, <<Malformed, Failed>> }
=============================================================================

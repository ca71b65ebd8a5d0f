--------------------------- MODULE MCClientHandler ---------------------------
(* Instances of ClientHandler for TLC.                                      *)
EXTENDS ClientHandler

Request(cmd, db) == [json |-> TRUE, auth |-> "none", cmd |-> cmd, db |-> db]
Auth(auth, cmd) == [json |-> TRUE, auth |-> auth, cmd |-> cmd, db |-> TRUE]
Malformed == [json |-> FALSE, auth |-> "none", cmd |-> "none", db |-> FALSE]

MixedRequests == {Malformed, Auth("right", "none"), Auth("wrong", "QUERY"), Request("unknown", TRUE),
                  Request("LIST", FALSE), Request("QUERY", TRUE), Request("DELETE_DB", TRUE),
                  Request("DELETE_DB", FALSE)}
OneQuery == {Request("QUERY", TRUE)}

=============================================================================

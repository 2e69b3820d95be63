----------------------------- MODULE MCMcpCalls -----------------------------
(* Three calls with ids of their own, and the ids XML calls have. *)
EXTENDS McpCalls
NativeIds == <<"c1", "c2", "c3">>
XmlIds == <<"xml_1", "xml_1">>
Asked == {1, 2}
=============================================================================

--------------------------- MODULE MCSingleAgent ---------------------------
(* One agent, three rounds, two model calls in each act(). *)
EXTENDS SingleAgent

MCAgents == {Me}
=============================================================================

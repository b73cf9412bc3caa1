--------------------------- MODULE MCAgentBridge ----------------------------
(* Two clients that send two requests each, on connections that hold one   *)
(* unread response.                                                        *)
EXTENDS AgentBridge
=============================================================================

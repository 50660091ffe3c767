------------------------- MODULE MCPresentAssistant -------------------------
(* The presentation of a response with few blocks and few tool calls.      *)
EXTENDS PresentAssistant

\* Two calls: one to interrupt the other.
TwoCalls == {"t1", "t2"}
OneCall  == {"t1"}
=============================================================================

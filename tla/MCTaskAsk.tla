----------------------------- MODULE MCTaskAsk -----------------------------
(* Instances of TaskAsk for TLC: the kinds of question the agent asks.     *)
EXTENDS TaskAsk

\* A question whose answer runs a command, one an automatic answer may race.
MixedAsks   == {"command", "followup"}
CommandAsks == {"command"}
=============================================================================

-------------------------- MODULE MCContextHistory --------------------------
(***************************************************************************)
(* Small instances of ContextHistory.                                      *)
(***************************************************************************)
EXTENDS ContextHistory

StartTurnsMC == {3}
=============================================================================

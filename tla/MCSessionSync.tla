--------------------------- MODULE MCSessionSync ---------------------------
(* The model-checking instances of SessionSync: every constant is given its  *)
(* value in the .cfg files.                                                   *)
EXTENDS SessionSync
=============================================================================

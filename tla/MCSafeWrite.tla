---------------------------- MODULE MCSafeWrite ----------------------------
(* The model-checking instance of SafeWrite: the calls are model values,      *)
(* named in the .cfg file.                                                     *)
EXTENDS SafeWrite
=============================================================================

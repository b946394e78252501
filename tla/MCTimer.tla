------------------------------ MODULE MCTimer ------------------------------
(* Timer on small sets; every value is set in the cfg files.               *)
EXTENDS Timer
=============================================================================

---------------------------- MODULE MCMediaPath ----------------------------
(* MediaPath on small constants; every value is set in the cfg files.      *)
EXTENDS MediaPath
=============================================================================

-------------------------- MODULE MCReliableInput --------------------------
(* ReliableInput on small constants; every value is set in the cfg files.  *)
EXTENDS ReliableInput
=============================================================================

-------------------------- MODULE MCBlockingQueue --------------------------
(* BlockingQueue on small constants; every value is set in the cfg file.   *)
EXTENDS BlockingQueue
=============================================================================

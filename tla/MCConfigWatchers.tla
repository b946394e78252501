-------------------------- MODULE MCConfigWatchers --------------------------
(* ConfigWatchers on small constants; every value is set in the cfg file.  *)
EXTENDS ConfigWatchers
=============================================================================

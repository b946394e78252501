-------------------------- MODULE MCConfigManager --------------------------
(* ConfigManager on small constants; the cfg file gives the values.        *)
EXTENDS ConfigManager
=============================================================================

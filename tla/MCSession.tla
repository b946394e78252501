----------------------------- MODULE MCSession -----------------------------
(* Session on small constants; the cfg files give the values.              *)
EXTENDS Session
=============================================================================

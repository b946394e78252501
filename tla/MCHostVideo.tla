---- MODULE MCHostVideo ----
EXTENDS HostVideo
====

---- MODULE MCViewerVideo ----
EXTENDS ViewerVideo, TLC
Symmetry == Permutations(D3D11Devices)
====

------------------------------ MODULE MCMeshSync ------------------------------
EXTENDS MeshSync, TLC
CONSTANTS c, l, p, r, b

OnTheCar == l :> c
=============================================================================

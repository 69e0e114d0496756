----------------------------- MODULE MCControl -----------------------------
(* Control with two or three clients.  Clients and vbds are                *)
(* interchangeable; connections are not, the array orders them.            *)
EXTENDS Control

Symmetry == Permutations(Clients) \cup Permutations(Vbds)
=============================================================================

------------------------ MODULE MCNamespacedRegister ------------------------
(* One goroutine loads plugins while two others look them up.              *)
EXTENDS NamespacedRegister
CONSTANTS w, r1, r2, u1, u2, v1, v2
MCClients == {w, r1, r2}
MCWriters == {w}
MCUntyped == {u1, u2}
MCValues == {v1, v2}
=============================================================================

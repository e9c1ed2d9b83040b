----------------------------- MODULE MCAppToken -----------------------------
(* AppToken for TLC: listeners and access tokens are interchangeable. *)
EXTENDS AppToken, TLC

Symmetry == Permutations(Listener) \cup Permutations(AccessToken)
=============================================================================

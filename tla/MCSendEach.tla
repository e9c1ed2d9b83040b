----------------------------- MODULE MCSendEach -----------------------------
(* SendEach for TLC: messages, statuses and error codes as model values. *)
EXTENDS SendEach
=============================================================================

----------------------------- MODULE MCHttpSend -----------------------------
(* HttpSend for TLC: status and error codes as model values and small sets. *)
EXTENDS HttpSend

\* parseRetryAfterIntoMillis: malformed, absent or zero, short, longer than MaxDelay.
MCRetryAfter == {-1, 0, 3, 9}
=============================================================================

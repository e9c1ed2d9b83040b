-------------------------- MODULE MCTokenVerifier --------------------------
(* TokenVerifier for TLC.  Key k2 comes and goes.  The tokens: of k2; of k1  *)
(* but without a key id; with k1's id but signed by k2; without a user and   *)
(* of no tenant, asked of one; of the tenant it is asked of; unsigned.       *)
EXTENDS TokenVerifier, TLC

CONSTANTS k1, k2, v1, v2, t1

Symmetry == Permutations({v1, v2})

MCCall == {v1, v2} \X {"kid", "all"}

MCKeySet == {{k1}, {k1, k2}}

Good == [kid |-> k1, signer |-> k1, claims |-> "good", exp |-> 3, auth_time |-> 1, tenant |-> NoTenant]

Ask(t) == [token |-> t, check |-> FALSE, tenantId |-> NoTenant]

MCAsked ==
  {Ask([Good EXCEPT !.kid = k2, !.signer = k2]),
   Ask([Good EXCEPT !.kid = NoKid, !.exp = 2]),
   Ask([Good EXCEPT !.signer = k2]),
   [Ask([Good EXCEPT !.claims = "subOfEvent"]) EXCEPT !.tenantId = t1],
   [Ask([Good EXCEPT !.tenant = t1]) EXCEPT !.check = TRUE, !.tenantId = t1],
   Ask([Good EXCEPT !.kid = NoKid, !.signer = Unsigned])}
=============================================================================

----------------------------- MODULE MCGateway -----------------------------
(* Three requests with two ids against a limit of two. *)
EXTENDS GatewayClaims, TLC

CONSTANTS r1, r2, r3, i1, i2

MCRequests == {r1, r2, r3}
MCIds == {i1, i2}
MCAsks == (r1 :> {"stream", "speech"}) @@ (r2 :> {"job"}) @@ (r3 :> {"json", "binary"})
MCNames == (r1 :> {i1}) @@ (r2 :> {i1, i2}) @@ (r3 :> {i1, i2})
============================================================================

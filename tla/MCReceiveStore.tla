--------------------------- MODULE MCReceiveStore ---------------------------
(* ReceiveStore with two identities, two contexts and two bodies: enough   *)
(* for an exact retry, a reused identity and a reused context.             *)
EXTENDS ReceiveStore

CONSTANTS i1, i2, c1, c2, b1, b2

MCIds == {i1, i2}
MCContexts == {c1, c2}
MCBodies == {b1, b2}
=============================================================================

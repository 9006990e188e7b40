------------------------ MODULE MCRuntimeMembership ------------------------
(* The pairs of the fair runs of RuntimeMembership.                         *)
EXTENDS RuntimeMembership

CONSTANTS eth, btc

Both == {eth, btc}
=============================================================================

----------------------------- MODULE MCGateway -----------------------------
(* Gateway for TLC; the .cfg files give the bounds their values.           *)
EXTENDS Gateway

MCRetryLimit == -1
=============================================================================

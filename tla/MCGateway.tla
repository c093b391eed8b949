----------------------------- MODULE MCGateway -----------------------------
(* Gateway for TLC: octets of two bits. *)
EXTENDS Gateway

MCAddresses == {<<3, 2, 1, 1>>, <<1, 2, 2, 1>>}
=============================================================================

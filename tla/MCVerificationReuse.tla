------------------------- MODULE MCVerificationReuse -------------------------
(* VerificationReuse with two clients, one of which writes a request       *)
(* without the right token.                                                *)
EXTENDS VerificationReuse, TLC

CONSTANTS c1, c2, own
=============================================================================

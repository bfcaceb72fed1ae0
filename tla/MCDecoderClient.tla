--------------------------- MODULE MCDecoderClient ---------------------------
(* DecoderClient on small instances, with the encoding of its credentials. *)
EXTENDS DecoderClient, Base64

CONSTANT MaxCredentials     \* bound: characters of user:pass

\* The lowest and the highest character, and some between.
Credentials == UNION {[1..n -> {0, 58, 129, 255}] : n \in 0..MaxCredentials}

\* The caster decodes the Authorization header of the request to the characters
\* of user:pass, however long they are: what the int of base64_encode() loses
\* when it overflows was emitted before.
CredentialsEncoded == s.attempts = 0 /\ ~s.late => \A in \in Credentials : EncodedRight(in)
=============================================================================

------------------------------- MODULE KeyMat -------------------------------
(***************************************************************************)
(* pkg/keymat: key material.  A plaintext is the API's prefix followed by   *)
(* the base32 form of 32 random bytes, so a secret and a prefix determine   *)
(* it and (the payload having a fixed length) are determined by it.  The    *)
(* store only ever sees the SHA-256 of the whole plaintext, prefix          *)
(* included; the digest is modelled as a free constructor, i.e. without     *)
(* collisions between different plaintexts.                                 *)
(***************************************************************************)

CONSTANTS Prefixes,     \* values of Api.key_prefix
          Secrets       \* outcomes of reading RandomBytes of entropy

Plaintexts == Prefixes \X Secrets

EmptyPlaintext == <<>>

Hash(plaintext) == <<"sha256", plaintext>>

Hashes == {Hash(pt) : pt \in Plaintexts}

\* New(prefix): what the caller is shown and what the store keeps, for the
\* entropy that was read.
NewPlaintext(prefix, secret) == <<prefix, secret>>

\* Validate(plaintext, ""): the verify handler passes no prefix, so only the
\* empty plaintext is rejected.
Validate(plaintext) == plaintext # EmptyPlaintext

=============================================================================

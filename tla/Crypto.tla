------------------------------- MODULE Crypto -------------------------------
(***************************************************************************)
(* The end-to-end encryption of src/internal/crypto/crypto.go, symbolically.*)
(* A key pair is named by its public key; the key two parties derive is    *)
(* the unordered pair of their public keys with the password that went     *)
(* into the salt; a ciphertext opens under the key that sealed it and no   *)
(* other.  Encrypt draws a fresh random nonce and changes no state.        *)
(***************************************************************************)
CONSTANT NoPassword  \* the empty password

Derive(own, peer, password) == [pair |-> {own, peer}, password |-> password]

Seal(key, plain) == [key |-> key, plain |-> plain]

(* Decrypt succeeds.                                                       *)
Opens(key, cipher) == cipher.key = key

(* A Session: no AEAD until Complete has run.                              *)
NotReady == [pair |-> {}, password |-> {}]
IsReady(key) == key # NotReady

(* VerifyToken and CheckVerify: the challenge is a plaintext of its own.   *)
Challenge == [challenge |-> TRUE]
VerifyToken(key) == Seal(key, Challenge)
CheckVerify(key, token) ==
    IsReady(key) /\ Opens(key, token) /\ token.plain = Challenge

=============================================================================

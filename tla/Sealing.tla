------------------------------ MODULE Sealing ------------------------------
(***************************************************************************)
(* Encryption between CPS keypairs (libcps/src/crypto).  A keypair is a    *)
(* scheme and a secret; cryptography is symbolic: the secret two keypairs  *)
(* agree on is the set of their public keys, and what is sealed opens      *)
(* under the key it was sealed with and under no other.                    *)
(***************************************************************************)
EXTENDS Naturals, Sequences

CONSTANTS Secret,   \* secret keys, as a SURI names them
          NotAPoint \* 32 bytes that are no curve point of any scheme

Scheme == {"sr25519", "ed25519"}

\* EncryptionAlgorithm and the names it is parsed from.
NonceSize == [xchacha20 |-> 24, aesgcm256 |-> 12, chacha20 |-> 12]

Alias ==
    [xchacha20 |-> {"xchacha20", "xchacha20poly1305", "xchacha20-poly1305"},
     aesgcm256 |-> {"aesgcm256", "aes-256-gcm", "aes256gcm", "aesgcm"},
     chacha20  |-> {"chacha20", "chacha20poly1305", "chacha20-poly1305"}]

\* The algorithms of this name: none or one.
AlgorithmOf(name) == {a \in DOMAIN Alias : name \in Alias[a]}

PublicKey(scheme, key) == [scheme |-> scheme, key |-> key]

ASSUME KeyConstants == \A scheme \in Scheme, key \in Secret : PublicKey(scheme, key) # NotAPoint

\* derive_shared: fails unless the bytes are a point of the curve; a key of
\* the other scheme gives a secret that nobody else derives.
DeriveShared(scheme, key, public) ==
    IF public = NotAPoint THEN {}
    ELSE {[scheme |-> scheme, keys |-> {PublicKey(scheme, key), public}]}

\* The AEAD key: HKDF of the shared secret for this algorithm.
Hkdf(shared, algorithm) == [shared |-> shared, info |-> algorithm]

\* Cipher::encrypt: the set of its results, empty if it fails.
Encrypt(scheme, key, plaintext, receiver, algorithm) ==
    {[algorithm |-> algorithm, from |-> PublicKey(scheme, key),
      nonce |-> NonceSize[algorithm],
      ciphertext |-> [key |-> Hkdf(shared, algorithm), plaintext |-> plaintext]] :
        shared \in DeriveShared(scheme, key, receiver)}

\* Cipher::decrypt without an expected sender.
Decrypt(scheme, key, message) ==
    {message.ciphertext.plaintext :
        shared \in {s \in DeriveShared(scheme, key, message.from) :
            /\ message.nonce = NonceSize[message.algorithm]
            /\ Hkdf(s, message.algorithm) = message.ciphertext.key}}
=============================================================================

--------------------------- MODULE DiffieHellman ---------------------------
(***************************************************************************)
(* The keys of two ends: keypairs and secrets over the group of a prime    *)
(* (phase4/src/crypto/dh.cpp), and AES-GCM under the key derived from a    *)
(* secret (crypto.cpp).  The program's group is the 2048-bit one of RFC    *)
(* 3526 with base 2 and private keys of 256 bits; here its size is a       *)
(* parameter.  A hash is the hashed value with a mark, and a ciphertext    *)
(* the plaintext with the key that opens it.                               *)
(***************************************************************************)
EXTENDS Naturals

CONSTANTS
  DH_Prime,     \* the modulus
  DH_base,      \* the base
  PrivateBits   \* bits of a private key

ASSUME GroupAssumption ==
  DH_Prime \in Nat \ {0, 1} /\ DH_base \in 1..(DH_Prime - 1) /\ PrivateBits \in Nat \ {0}

\* BN_mod_exp
ModExp(b, e) == (b ^ e) % DH_Prime

\* BN_rand with the top bit set.
Private == (2 ^ (PrivateBits - 1))..(2 ^ PrivateBits - 1)
dh_generate_keypair(x) == [private_key |-> x, public_key |-> ModExp(DH_base, x)]
DHkeypair == {dh_generate_keypair(x) : x \in Private}

dhGetSecret(dh, peer_pub) == ModExp(peer_pub, dh.private_key)

deriveAesKey(secret) == [sha256 |-> secret]
AesKey == {deriveAesKey(s) : s \in 0..(DH_Prime - 1)}

aes_gcm_encrypt(key, plaintext) == [ciphertext |-> plaintext, tag |-> key]
\* {} where the code throws: the tag is not one made with this key.
aes_gcm_decrypt(key, data) == {p \in {data.ciphertext} : data.tag = key}

\* What follows from the modulus being a prime: private keys are numbers, no
\* public key is 0, and the secret of two ends is one, each raising the other's
\* public key to its own private key.
KeysAgree ==
  /\ Private \subseteq Nat
  /\ \A dh \in DHkeypair : dh.public_key # 0
  /\ \A dh, peer \in DHkeypair :
       dhGetSecret(dh, peer.public_key) = dhGetSecret(peer, dh.public_key)
=============================================================================

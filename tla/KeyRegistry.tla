------------------------------ MODULE KeyRegistry ------------------------------
(***************************************************************************)
(* Keys and capability tokens (crypto-kernel).  The root endorses the id   *)
(* of a key, register_key puts a key under an endorsed id, in place of the *)
(* one before, and a token is believed when the key that is under its      *)
(* signer's id signed exactly what it says and its expiry has not passed.  *)
(***************************************************************************)
EXTENDS Naturals

CONSTANTS
  KeyId, Key,       \* ids, and the keys there are
  RootId, RootKey,  \* the trust anchor
  Claim,            \* what a token says, but for its expiry
  MaxTime,          \* bound on the clock and on expiries
  None

ASSUME RegistryAssumption ==
  /\ RootId \in KeyId /\ RootKey \in Key
  /\ None \notin Key
  /\ MaxTime \in Nat

VARIABLES
  keys,      \* KeyRegistry.keys: the key under each id, or None
  endorsed,  \* the ids for which the root has signed "register_key:id"
  tokens,    \* the tokens that CapabilityToken::sign has made
  now        \* the wall clock, in seconds

registryVars == <<keys, endorsed, tokens, now>>

RegistryInit ==
  /\ keys = [id \in KeyId |-> IF id = RootId THEN RootKey ELSE None]
  /\ endorsed = {}
  /\ tokens = {}
  /\ now = 0

Registered == {keys[id] : id \in KeyId} \ {None}

\* Mutant: the search ends at the root's key.
GetKeyByHashFirst(hash) == IF hash = keys[RootId] THEN hash ELSE None

\* Keys are found by their hash among those that are registered.
GetKeyByHash(hash) == IF hash \in Registered THEN hash ELSE None

\* A signature can be made by the holder of the key alone.
Signature(key, message) == [key |-> key, message |-> message]

-----------------------------------------------------------------------------
(* CapabilityToken *)

\* The signer's id is not part of it, nor are the hash and the signature.
Payload(claim, expiry) == [claim |-> claim, expiry |-> expiry]

CanonicalPayload(token) == Payload(token.claim, token.expiry)

Token(claim, expiry, payload_hash, signature, signer_key_id) ==
  [claim |-> claim, expiry |-> expiry, payload_hash |-> payload_hash,
   signature |-> signature, signer_key_id |-> signer_key_id]

\* Mutant: the hash is signed but not computed again.
VerifyHashOnly(token) ==
  LET signer_key == keys[token.signer_key_id]
  IN  IF signer_key = None THEN "key_not_found"
      ELSE IF token.signature # Signature(signer_key, token.payload_hash)
        THEN "invalid_signature"
      ELSE IF now > token.expiry THEN "token_expired"
      ELSE "ok"

VerifyToken(token) ==
  LET signer_key == keys[token.signer_key_id]
  IN  IF signer_key = None THEN "key_not_found"
      ELSE IF token.signature # Signature(signer_key, token.payload_hash)
        THEN "invalid_signature"
      ELSE IF token.payload_hash # CanonicalPayload(token) THEN "payload_tampered"
      ELSE IF now > token.expiry THEN "token_expired"
      ELSE "ok"

-----------------------------------------------------------------------------

\* The holder of the root key signs for an id (not for a key).
RootEndorses(id) ==
  /\ endorsed' = endorsed \cup {id}
  /\ UNCHANGED <<keys, tokens, now>>

\* Any other signature is refused and nothing changes.
RegisterKey(id, public_key) ==
  /\ id \in endorsed
  /\ keys' = [keys EXCEPT ![id] = public_key]
  /\ UNCHANGED <<endorsed, tokens, now>>

\* CapabilityToken::sign looks at no registry: the id it is given may be any.
SignToken(claim, expiry, signing_key, key_id) ==
  LET payload == Payload(claim, expiry)
  IN  /\ tokens' = tokens \cup
           {Token(claim, expiry, payload, Signature(signing_key, payload), key_id)}
      /\ UNCHANGED <<keys, endorsed, now>>

\* The clock may be set back.
ClockChange ==
  /\ now' \in 0..MaxTime
  /\ UNCHANGED <<keys, endorsed, tokens>>

-----------------------------------------------------------------------------

\* Tokens that may be presented: their fields are public and pass through
\* serialisation, so hash and signature may be those of others.
Presented ==
  { Token(claim, expiry, hash, other.signature, id) :
      claim \in Claim, expiry \in 0..MaxTime, id \in KeyId, other \in tokens,
      hash \in [claim : Claim, expiry : 0..MaxTime] }

\* A token is believed exactly when the key that is now under its signer's id
\* once signed the fields it has, and its expiry has not passed: a key that was
\* replaced, a field that was changed and a clock that was set back leave no
\* other way, and no genuine token is refused.
TokenIsGenuine ==
  /\ \A token \in Presented : VerifyToken(token) = "ok" =>
       /\ now <= token.expiry
       /\ \E t \in tokens : /\ CanonicalPayload(t) = CanonicalPayload(token)
                            /\ t.signature.key = keys[token.signer_key_id]
  /\ \A t \in tokens :
       keys[t.signer_key_id] = t.signature.key /\ now <= t.expiry => VerifyToken(t) = "ok"
=============================================================================

----------------------------- MODULE KeyService -----------------------------
(***************************************************************************)
(* What the service promises of API keys, with no mention of challenges,   *)
(* locks, requests or pages: a key belongs to one agent for ever, it is    *)
(* revoked once and for good, and an agent that has a key gets another one *)
(* only while it has fewer than the limit.  That an agent keeps an active  *)
(* key is not promised: two of its keys may revoke each other.  ApiKeys is *)
(* shown to implement this specification under concurrent requests, and    *)
(* CredentialVault to rely on no more.                                     *)
(***************************************************************************)
EXTENDS Naturals, FiniteSets

CONSTANTS
  Agents,          \* agents that may register
  Keys,            \* keys that may be issued
  MaxActive,       \* API_KEY_MAX_ACTIVE
  None

VARIABLES
  owner,           \* api_keys: key -> its agent, or None
  revoked          \* api_keys with revoked_at set

keyVars == <<owner, revoked>>

KeysOf(a) == {k \in Keys : owner[k] = a}

Init ==
  /\ owner = [k \in Keys |-> None]
  /\ revoked = {}

(* An account comes with a key; an account that has one gets more of them   *)
(* up to the limit.                                                         *)
Issue(a, k) ==
  /\ owner[k] = None
  /\ Cardinality(KeysOf(a) \ revoked) < MaxActive
  /\ owner' = [owner EXCEPT ![k] = a]
  /\ UNCHANGED revoked

Revoke(k) ==
  /\ owner[k] # None
  /\ k \notin revoked
  /\ revoked' = revoked \cup {k}
  /\ UNCHANGED owner

Next ==
  \/ \E a \in Agents, k \in Keys : Issue(a, k)
  \/ \E k \in Keys : Revoke(k)

Spec == Init /\ [][Next]_keyVars
=============================================================================

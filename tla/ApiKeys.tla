------------------------------- MODULE ApiKeys -------------------------------
(***************************************************************************)
(* Registration and API keys: the handlers of AuthService, run as          *)
(* concurrent requests over Redis (the challenges) and PostgreSQL (the     *)
(* accounts and keys).                                                     *)
(*                                                                         *)
(* An agent is its public key.  A request to create or revoke a key is     *)
(* authenticated by the guard, which reads that its key is not revoked     *)
(* before the handler starts; the handler does not look again.  createKey  *)
(* serialises on pg_advisory_xact_lock, which ends with its transaction.   *)
(* Signatures and developer tokens are valid: what they check does not     *)
(* depend on state.  The rate limits of public endpoints are not modelled. *)
(***************************************************************************)
EXTENDS Naturals, FiniteSets

CONSTANTS
  Agents,          \* public keys of the agents
  Challenges,      \* challenges the server draws (random, never twice)
  Keys,            \* API keys the server draws (random, never twice)
  Requests,        \* bound: requests in flight at the same time
  MaxActive,       \* API_KEY_MAX_ACTIVE
  MaxFaults,       \* bound: requests lost to a crash or a failed query
  None

ASSUME KeysAssumption ==
  /\ IsFiniteSet(Keys)
  /\ MaxActive \in Nat \ {0}
  /\ MaxFaults \in Nat
  /\ None \notin Agents \cup Challenges \cup Keys \cup Requests

VARIABLES
  challenge,       \* Redis: challenge -> "unissued", "live" or "gone"
  accounts,        \* rows of agents with this public key
  owner,           \* api_keys: key -> its agent, or None
  revoked,         \* api_keys with revoked_at set
  lock,            \* advisory lock of an agent's keys -> request, or None
  req,             \* requests in flight
  faults           \* requests lost so far

vars == <<challenge, accounts, owner, revoked, lock, req, faults>>

Steps == {"idle", "lookup", "insert", "consume", "lock", "count", "issue", "revoke"}
Idle == [pc |-> "idle", agent |-> None, with |-> None, key |-> None]

(* The rows that listKeys and createKey see as an agent's active keys.      *)
Active(a) == {k \in Keys : owner[k] = a /\ k \notin revoked}

Init ==
  /\ challenge = [c \in Challenges |-> "unissued"]
  /\ accounts = [a \in Agents |-> 0]
  /\ owner = [k \in Keys |-> None]
  /\ revoked = {}
  /\ lock = [a \in Agents |-> None]
  /\ req = [r \in Requests |-> Idle]
  /\ faults = 0

-----------------------------------------------------------------------------
(* Plausible mistakes, each standing in for the definition it names.        *)

NoLock(a, r) == UNCHANGED lock                                 \* Acquire
CountTooMany(a) == Cardinality(Active(a)) <= MaxActive         \* MayIssue
SessionLock(a, r) == UNCHANGED lock                            \* ReleaseLock
ForgetTheKey(a, k) == UNCHANGED owner                          \* FirstKey

-----------------------------------------------------------------------------
Goto(r, step) == req' = [req EXCEPT ![r].pc = step]
Answer(r) == req' = [req EXCEPT ![r] = Idle]

(* What randomBytes may draw: no key that was issued or is about to be.     *)
Fresh(k) == owner[k] = None /\ \A r \in Requests : req[r].key # k

(* agents_public_key_uq.                                                    *)
FreshAccount(a) == accounts[a] = 0

(* The test of createKey, on what its SELECT counts.                        *)
MayIssue(a) == Cardinality(Active(a)) < MaxActive

Acquire(a, r) == lock' = [lock EXCEPT ![a] = r]
ReleaseLock(a, r) == lock' = [lock EXCEPT ![a] = IF @ = r THEN None ELSE @]
FirstKey(a, k) == owner' = [owner EXCEPT ![k] = a]

(* challenge: SET ... EX 300 NX of a random value; and its expiry.          *)
Challenge(c) ==
  /\ challenge[c] = "unissued"
  /\ challenge' = [challenge EXCEPT ![c] = "live"]
  /\ UNCHANGED <<accounts, owner, revoked, lock, req, faults>>

Expire(c) ==
  /\ challenge[c] = "live"
  /\ challenge' = [challenge EXCEPT ![c] = "gone"]
  /\ UNCHANGED <<accounts, owner, revoked, lock, req, faults>>

(* register: the GET of the challenge (the key it will issue is drawn later *)
(* in the code, which makes no difference), ...                             *)
RegisterCheck(r, a, c, k) ==
  /\ req[r].pc = "idle"
  /\ challenge[c] = "live"
  /\ Fresh(k)
  /\ req' = [req EXCEPT ![r] = [pc |-> "lookup", agent |-> a, with |-> c, key |-> k]]
  /\ UNCHANGED <<challenge, accounts, owner, revoked, lock, faults>>

(* ... the SELECT of the public key, ...                                    *)
RegisterLookup(r) ==
  /\ req[r].pc = "lookup"
  /\ IF accounts[req[r].agent] = 0 THEN Goto(r, "insert") ELSE Answer(r)
  /\ UNCHANGED <<challenge, accounts, owner, revoked, lock, faults>>

(* ... the transaction that inserts the agent and its first key, unless the *)
(* unique index refuses the public key, ...                                 *)
RegisterInsert(r) ==
  LET a == req[r].agent IN
  /\ req[r].pc = "insert"
  /\ IF FreshAccount(a)
     THEN /\ accounts' = [accounts EXCEPT ![a] = @ + 1]
          /\ FirstKey(a, req[r].key)
          /\ Goto(r, "consume")
     ELSE /\ Answer(r)
          /\ UNCHANGED <<accounts, owner>>
  /\ UNCHANGED <<challenge, revoked, lock, faults>>

(* ... and the DEL of the challenge.                                        *)
RegisterConsume(r) ==
  /\ req[r].pc = "consume"
  /\ challenge' = [challenge EXCEPT ![req[r].with] = "gone"]
  /\ Answer(r)
  /\ UNCHANGED <<accounts, owner, revoked, lock, faults>>

(* A signed request passes the guard: its key is not revoked.  It asks for  *)
(* a new key, ...                                                           *)
CreateStart(r, k, new) ==
  /\ req[r].pc = "idle"
  /\ owner[k] # None /\ k \notin revoked
  /\ Fresh(new)
  /\ req' = [req EXCEPT ![r] = [pc |-> "lock", agent |-> owner[k], with |-> k,
                                key |-> new]]
  /\ UNCHANGED <<challenge, accounts, owner, revoked, lock, faults>>

(* ... waits for the advisory lock of its agent, ...                        *)
CreateLock(r) ==
  /\ req[r].pc = "lock"
  /\ lock[req[r].agent] = None
  /\ Acquire(req[r].agent, r)
  /\ Goto(r, "count")
  /\ UNCHANGED <<challenge, accounts, owner, revoked, faults>>

(* ... counts the active keys, ...                                          *)
CreateCount(r) ==
  LET a == req[r].agent IN
  /\ req[r].pc = "count"
  /\ IF MayIssue(a)
     THEN Goto(r, "issue") /\ UNCHANGED lock
     ELSE Answer(r) /\ ReleaseLock(a, r)
  /\ UNCHANGED <<challenge, accounts, owner, revoked, faults>>

(* ... and inserts the key; the commit releases the lock.                   *)
CreateIssue(r) ==
  LET a == req[r].agent IN
  /\ req[r].pc = "issue"
  /\ owner' = [owner EXCEPT ![req[r].key] = a]
  /\ ReleaseLock(a, r)
  /\ Answer(r)
  /\ UNCHANGED <<challenge, accounts, revoked, faults>>

(* Or it asks to revoke a key other than the one it is signed with, ...     *)
RevokeStart(r, k, target) ==
  /\ req[r].pc = "idle"
  /\ owner[k] # None /\ k \notin revoked
  /\ target # k
  /\ req' = [req EXCEPT ![r] = [pc |-> "revoke", agent |-> owner[k], with |-> k,
                                key |-> target]]
  /\ UNCHANGED <<challenge, accounts, owner, revoked, lock, faults>>

(* ... which the guarded UPDATE does if it is an active key of the agent.   *)
RevokeCommit(r) ==
  /\ req[r].pc = "revoke"
  /\ revoked' = IF req[r].key \in Active(req[r].agent)
                THEN revoked \cup {req[r].key} ELSE revoked
  /\ Answer(r)
  /\ UNCHANGED <<challenge, accounts, owner, lock, faults>>

(* A crash or a failed query: an open transaction is rolled back, which     *)
(* releases its lock.                                                       *)
Abandon(r) ==
  /\ req[r].pc # "idle"
  /\ faults < MaxFaults
  /\ faults' = faults + 1
  /\ lock' = [a \in Agents |-> IF lock[a] = r THEN None ELSE lock[a]]
  /\ Answer(r)
  /\ UNCHANGED <<challenge, accounts, owner, revoked>>

-----------------------------------------------------------------------------
Proceed(r) ==
  \/ RegisterLookup(r)
  \/ RegisterInsert(r)
  \/ RegisterConsume(r)
  \/ CreateCount(r)
  \/ CreateIssue(r)
  \/ RevokeCommit(r)

Next ==
  \/ \E c \in Challenges : Challenge(c)
  \/ \E c \in Challenges : Expire(c)
  \/ \E r \in Requests, a \in Agents, c \in Challenges, k \in Keys :
       RegisterCheck(r, a, c, k)
  \/ \E r \in Requests, k, new \in Keys : CreateStart(r, k, new)
  \/ \E r \in Requests, k, target \in Keys : RevokeStart(r, k, target)
  \/ \E r \in Requests : CreateLock(r)
  \/ \E r \in Requests : Proceed(r)
  \/ \E r \in Requests : Abandon(r)

Spec == Init /\ [][Next]_vars

(* Requests run on; PostgreSQL grants a lock in the order of the waiters,   *)
(* so nobody waits for it while others get it again and again.              *)
FairSpec ==
  /\ Spec
  /\ \A r \in Requests : WF_vars(Proceed(r)) /\ SF_vars(CreateLock(r))

-----------------------------------------------------------------------------
(* Properties.                                                              *)

(* An agent has at most API_KEY_MAX_ACTIVE active keys, also when several   *)
(* createKey requests count and insert at the same time (createKey 143-165, *)
(* README "at most API_KEY_MAX_ACTIVE active keys").                        *)
AtMostMaxActive == \A a \in Agents : Cardinality(Active(a)) <= MaxActive

(* A public key has one account at most, although two registrations may     *)
(* both find it free, and has one exactly when it was given a key: the two  *)
(* inserts are one transaction (register 67-92).                            *)
AccountsMatchKeys ==
  \A a \in Agents :
    accounts[a] = IF \E k \in Keys : owner[k] = a THEN 1 ELSE 0

(* Every request ends, those that wait for the lock as well: it is released *)
(* on each way out of the transaction (createKey).                          *)
RequestsEnd ==
  \A r \in Requests : req[r].pc # "idle" ~> req[r].pc = "idle"

(* Registering, creating and revoking keys, with everything that may happen *)
(* between the statements of these handlers, come down to the steps of the  *)
(* abstract service: one key at a time, each within the limit.              *)
Service == INSTANCE KeyService
ImplementsKeyService == Service!Spec
=============================================================================

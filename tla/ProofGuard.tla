----------------------------- MODULE ProofGuard -----------------------------
(***************************************************************************)
(* The Proof-of-Agent guard that runs before every handler: a signed       *)
(* request is accepted when its timestamp is recent, its key is active,    *)
(* its nonce is new and its key has not used up the minute.  The checks    *)
(* are separate calls to the clock, PostgreSQL and Redis, and requests of  *)
(* several processes interleave between them; clients retransmit.          *)
(*                                                                         *)
(* Time is a counter that all processes and Redis share.  Two bounds on    *)
(* the world, which the code does not enforce, are constants: how far the  *)
(* clock of a client is ahead, and how long a request takes in the guard.  *)
(* Signatures are valid, and every request has a nonce of its own.         *)
(***************************************************************************)
EXTENDS Naturals, FiniteSets

CONSTANTS
  Signed,          \* signed requests, each a (timestamp, nonce, body)
  Keys,            \* API keys
  KeyOf,           \* signed request -> the key it is sent with
  Requests,        \* bound: transmissions in the guard at the same time
  MaxAge,          \* SIGNATURE_MAX_AGE_SECONDS
  Minute,          \* length of the rate limit's window, 60 seconds
  QuotaPerMinute,  \* api_keys.quota_per_minute
  Skew,            \* a client's clock is at most this much ahead
  MaxDelay,        \* a transmission spends at most this long in the guard
  MaxTime,         \* bound: end of time
  None

ASSUME GuardAssumption ==
  /\ KeyOf \in [Signed -> Keys]
  /\ {MaxAge, QuotaPerMinute, Skew, MaxDelay, MaxTime} \subseteq Nat
  /\ Minute \in Nat \ {0}
  /\ Skew + MaxDelay < MaxAge
  /\ MaxDelay < Minute
  /\ None \notin Signed \cup Nat

ASSUME FinitelyMany == IsFiniteSet(Requests)

VARIABLES
  now,             \* the clock, in the guard's unit
  stamp,           \* x-agent-timestamp of a signed request, or None
  nonces,          \* Redis: when the nonce of a signed request expires, or None
  counters,        \* Redis: <<key, minute>> -> requests counted, and expiry
  revokedAt,       \* api_keys.revoked_at, or None
  req,             \* transmissions in the guard
  uses,            \* how often a signed request was accepted
  served           \* <<key, minute>> -> requests accepted on its count

vars == <<now, stamp, nonces, counters, revokedAt, req, uses, served>>
history == <<uses, served>>

Idle == [pc |-> "idle", of |-> None, since |-> 0, minute |-> 0]
Windows == Keys \X (0 .. MaxTime \div Minute)
Gone == [n |-> 0, expires |-> None]

Init ==
  /\ now = 0
  /\ stamp = [m \in Signed |-> None]
  /\ nonces = [m \in Signed |-> None]
  /\ counters = [w \in Windows |-> Gone]
  /\ revokedAt = [k \in Keys |-> None]
  /\ req = [r \in Requests |-> Idle]
  /\ uses = [m \in Signed |-> 0]
  /\ served = [w \in Windows |-> 0]

-----------------------------------------------------------------------------
(* Plausible mistakes, each standing in for the definition it names.        *)

OneWindow == now + MaxAge                                      \* NonceExpiry
RevokedAsWell(k) == TRUE                                       \* KeyActive
CountedBefore(n) == n - 1 <= QuotaPerMinute                    \* WithinQuota

-----------------------------------------------------------------------------
Goto(r, step) == req' = [req EXCEPT ![r].pc = step]
Answer(r) == req' = [req EXCEPT ![r] = Idle]

(* Neither too old nor too far ahead, the bounds included.                  *)
Recent(t) == now <= t + MaxAge /\ t <= now + MaxAge

KeyActive(k) == revokedAt[k] = None

(* SET ... EX of twice the window.                                          *)
NonceExpiry == now + 2 * MaxAge

(* The Lua script: INCR, and EXPIRE 120 on the first count.                 *)
Incremented(c) ==
  [n |-> c.n + 1, expires |-> IF c.n = 0 THEN now + 2 * Minute ELSE c.expires]

WithinQuota(n) == n <= QuotaPerMinute

(* A client signs a request by its own clock.                               *)
Sign(m) ==
  /\ stamp[m] = None
  /\ \E t \in now .. now + Skew : stamp' = [stamp EXCEPT ![m] = t]
  /\ UNCHANGED <<now, nonces, counters, revokedAt, req, history>>

(* It is transmitted, perhaps again; one that is too old or too early is    *)
(* refused.                                                                 *)
Receive(r, m) ==
  /\ req[r].pc = "idle"
  /\ stamp[m] # None
  /\ Recent(stamp[m])
  /\ req' = [req EXCEPT ![r] = [Idle EXCEPT !.pc = "lookup", !.of = m, !.since = now]]
  /\ UNCHANGED <<now, stamp, nonces, counters, revokedAt, history>>

(* The key is looked up, ...                                                *)
Lookup(r) ==
  /\ req[r].pc = "lookup"
  /\ IF KeyActive(KeyOf[req[r].of]) THEN Goto(r, "nonce") ELSE Answer(r)
  /\ UNCHANGED <<now, stamp, nonces, counters, revokedAt, history>>

(* ... the nonce is taken if it is free, ...                                *)
TakeNonce(r) ==
  LET m == req[r].of IN
  /\ req[r].pc = "nonce"
  /\ IF nonces[m] = None
     THEN nonces' = [nonces EXCEPT ![m] = NonceExpiry] /\ Goto(r, "clock")
     ELSE Answer(r) /\ UNCHANGED nonces
  /\ UNCHANGED <<now, stamp, counters, revokedAt, history>>

(* ... the minute is read from the clock, ...                               *)
ReadMinute(r) ==
  /\ req[r].pc = "clock"
  /\ req' = [req EXCEPT ![r].pc = "count", ![r].minute = now \div Minute]
  /\ UNCHANGED <<now, stamp, nonces, counters, revokedAt, history>>

(* ... the request is counted, ...                                          *)
Count(r) ==
  LET w == <<KeyOf[req[r].of], req[r].minute>>
      c == Incremented(counters[w])
  IN
  /\ req[r].pc = "count"
  /\ counters' = [counters EXCEPT ![w] = c]
  /\ IF WithinQuota(c.n) THEN Goto(r, "touch") ELSE Answer(r)
  /\ UNCHANGED <<now, stamp, nonces, revokedAt, history>>

(* ... and the use of the key noted, which lets the request through.        *)
Accept(r) ==
  LET m == req[r].of
      w == <<KeyOf[m], req[r].minute>>
  IN
  /\ req[r].pc = "touch"
  /\ uses' = [uses EXCEPT ![m] = @ + 1]
  /\ served' = [served EXCEPT ![w] = @ + 1]
  /\ Answer(r)
  /\ UNCHANGED <<now, stamp, nonces, counters, revokedAt>>

(* The process dies or a call fails: the nonce stays taken.                 *)
Abandon(r) ==
  /\ req[r].pc # "idle"
  /\ Answer(r)
  /\ UNCHANGED <<now, stamp, nonces, counters, revokedAt, history>>

Revoke(k) ==
  /\ revokedAt[k] = None
  /\ revokedAt' = [revokedAt EXCEPT ![k] = now]
  /\ UNCHANGED <<now, stamp, nonces, counters, req, history>>

(* Time passes, and Redis forgets what has expired; no transmission stays   *)
(* in the guard for longer than MaxDelay.                                   *)
Tick ==
  /\ now < MaxTime
  /\ \A r \in Requests : req[r].pc # "idle" => now < req[r].since + MaxDelay
  /\ now' = now + 1
  /\ nonces' = [m \in Signed |-> IF nonces[m] = now + 1 THEN None ELSE nonces[m]]
  /\ counters' = [w \in Windows |->
       IF counters[w].expires = now + 1 THEN Gone ELSE counters[w]]
  /\ UNCHANGED <<stamp, revokedAt, req, history>>

Check(r) ==
  \/ Lookup(r)
  \/ TakeNonce(r)
  \/ ReadMinute(r)
  \/ Count(r)
  \/ Accept(r)

Next ==
  \/ \E m \in Signed : Sign(m)
  \/ \E r \in Requests, m \in Signed : Receive(r, m)
  \/ \E r \in Requests : Check(r)
  \/ \E r \in Requests : Abandon(r)
  \/ \E k \in Keys : Revoke(k)
  \/ Tick

Spec == Init /\ [][Next]_vars

-----------------------------------------------------------------------------
(* Properties.                                                              *)

(* A signed request is let through at most once, however often and wherever *)
(* it is transmitted: its timestamp is refused by the time Redis forgets    *)
(* the nonce (canActivate 65-67, 103-112).                                  *)
AcceptedOnce == \A m \in Signed : uses[m] <= 1

(* At most quota_per_minute requests of a key are let through in a minute,  *)
(* the counter outlives the requests that read this minute from the clock,  *)
(* and one that counts has an expiry, or its window would never be          *)
(* forgotten (canActivate 114-127).                                         *)
RateLimited ==
  \A w \in Windows :
    /\ served[w] <= QuotaPerMinute
    /\ counters[w].n > 0 => counters[w].expires # None

(* What lets a request through was true a moment ago: when it is accepted,  *)
(* its key was active and its timestamp recent no longer than MaxDelay ago. *)
AcceptedWhileValid ==
  [][\A m \in Signed : uses'[m] # uses[m] =>
       /\ now <= stamp[m] + MaxAge + MaxDelay
       /\ revokedAt[KeyOf[m]] # None => now <= revokedAt[KeyOf[m]] + MaxDelay]_vars
=============================================================================

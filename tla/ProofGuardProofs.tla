--------------------------- MODULE ProofGuardProofs ---------------------------
(***************************************************************************)
(* Theorems about ProofGuard, for every signature window, skew and delay   *)
(* that fit together, every number of signed requests and transmissions,   *)
(* and any end of time.                                                    *)
(***************************************************************************)
EXTENDS ProofGuard, FiniteSetTheorems, TLAPS

USE GuardAssumption

-----------------------------------------------------------------------------
(* The inductive invariant.                                                 *)

Steps == {"idle", "lookup", "nonce", "clock", "count", "touch"}
Transmission == [pc : Steps, of : Signed \cup {None}, since : Nat,
  minute : Nat]

Typed ==
  /\ now \in Nat
  /\ stamp \in [Signed -> Nat \cup {None}]
  /\ nonces \in [Signed -> Nat \cup {None}]
  /\ revokedAt \in [Keys -> Nat \cup {None}]
  /\ req \in [Requests -> Transmission]
  /\ uses \in [Signed -> Nat]

(* No client signs with a time that lies further ahead than the skew.       *)
StampsAreBounded == \A m \in Signed : stamp[m] # None => stamp[m] <= now + Skew

(* A transmission in the guard was recent when it came in, which is not     *)
(* long ago, ...                                                            *)
CameInRecently ==
  \A r \in Requests : req[r].pc # "idle" =>
    /\ req[r].of \in Signed
    /\ stamp[req[r].of] # None
    /\ req[r].since <= now /\ now <= req[r].since + MaxDelay
    /\ req[r].since <= stamp[req[r].of] + MaxAge

(* ... and past the lookup, its key was active when it came in.             *)
KeyWasActive ==
  \A r \in Requests : req[r].pc \in Steps \ {"idle", "lookup"} =>
    LET k == KeyOf[req[r].of] IN
    revokedAt[k] # None => req[r].since <= revokedAt[k]

(* Whoever took the nonce of a signed request and is not done yet.          *)
Holds(r, m) == req[r].pc \in {"clock", "count", "touch"} /\ req[r].of = m

(* A signed request is accepted once or held once, never both, ...          *)
OneHolder ==
  /\ \A m \in Signed : uses[m] <= 1
  /\ \A m \in Signed, r \in Requests : Holds(r, m) =>
       /\ uses[m] = 0
       /\ \A q \in Requests : Holds(q, m) => q = r

(* ... and from then on either its nonce is remembered for longer than its  *)
(* timestamp is good for, or the timestamp is good no longer, not even for  *)
(* a transmission that came in when it was.                                 *)
NonceOutlivesStamp ==
  \A m \in Signed :
    uses[m] # 0 \/ (\E r \in Requests : Holds(r, m)) =>
      /\ stamp[m] # None
      /\ IF nonces[m] # None THEN nonces[m] > stamp[m] + MaxAge + MaxDelay
                             ELSE now > stamp[m] + MaxAge + MaxDelay

GuardSound ==
  /\ Typed
  /\ StampsAreBounded
  /\ CameInRecently
  /\ KeyWasActive
  /\ OneHolder
  /\ NonceOutlivesStamp

-----------------------------------------------------------------------------
(* It is inductive.                                                         *)

LEMMA MinutesAreNatural == \A t \in Nat : t \div Minute \in Nat
OBVIOUS

LEMMA CountedTransmission ==
  ASSUME NEW t \in Transmission, NEW n \in Nat
  PROVE  [t EXCEPT !.pc = "count", !.minute = n] \in Transmission
BY DEF Transmission, Steps

LEMMA TypedStep == GuardSound /\ [Next]_vars => Typed'
<1> SUFFICES ASSUME GuardSound, [Next]_vars PROVE Typed'
  OBVIOUS
<1> USE DEF GuardSound, Typed, Transmission, Steps
<1>1. ASSUME NEW m \in Signed, Sign(m) PROVE Typed'
  BY <1>1 DEF Sign, history
<1>2. ASSUME NEW r \in Requests, NEW m \in Signed, Receive(r, m) PROVE Typed'
  BY <1>2 DEF Receive, Idle, Recent, history
<1>3. ASSUME NEW r \in Requests, Lookup(r) PROVE Typed'
  BY <1>3 DEF Lookup, Goto, Answer, Idle, KeyActive, history
<1>4. ASSUME NEW r \in Requests, TakeNonce(r) PROVE Typed'
  BY <1>4 DEF TakeNonce, Goto, Answer, Idle, NonceExpiry, history
<1>5. ASSUME NEW r \in Requests, ReadMinute(r) PROVE Typed'
  <2> DEFINE minute == now \div Minute
  <2>1. minute \in Nat
    BY MinutesAreNatural
  <2>2. /\ req' = [req EXCEPT ![r].pc = "count", ![r].minute = minute]
        /\ UNCHANGED <<now, stamp, nonces, revokedAt, uses>>
    BY <1>5 DEF ReadMinute, history
  <2> HIDE DEF minute
  <2>3. [req[r] EXCEPT !.pc = "count", !.minute = minute] \in Transmission
    <3>1. req[r] \in Transmission
      OBVIOUS
    <3> QED
      BY <2>1, <3>1, CountedTransmission
  <2>4. req' \in [Requests -> Transmission]
    BY <2>2, <2>3
  <2> QED
    BY <2>2, <2>4
<1>6. ASSUME NEW r \in Requests, Count(r) PROVE Typed'
  BY <1>6 DEF Count, Goto, Answer, Idle, history
<1>7. ASSUME NEW r \in Requests, Accept(r) PROVE Typed'
  <2>1. req[r].of \in Signed
    BY <1>7 DEF Accept, CameInRecently
  <2>2. uses' \in [Signed -> Nat]
    BY <1>7, <2>1 DEF Accept
  <2>3. req' \in [Requests -> Transmission]
    BY <1>7 DEF Accept, Answer, Idle
  <2> QED
    BY <1>7, <2>2, <2>3 DEF Accept
<1>8. ASSUME NEW r \in Requests, Abandon(r) PROVE Typed'
  BY <1>8 DEF Abandon, Answer, Idle, history
<1>9. ASSUME NEW k \in Keys, Revoke(k) PROVE Typed'
  BY <1>9 DEF Revoke, history
<1>10. ASSUME Tick PROVE Typed'
  BY <1>10 DEF Tick, history
<1>11. CASE UNCHANGED vars
  BY <1>11 DEF vars, history
<1> QED
  BY <1>1, <1>2, <1>3, <1>4, <1>5, <1>6, <1>7, <1>8, <1>9, <1>10, <1>11
     DEF Next, Check

LEMMA StampsStep == GuardSound /\ [Next]_vars => StampsAreBounded'
<1> SUFFICES ASSUME GuardSound, [Next]_vars PROVE StampsAreBounded'
  OBVIOUS
<1> USE DEF GuardSound, Typed, StampsAreBounded
<1>1. ASSUME NEW m \in Signed, Sign(m) PROVE StampsAreBounded'
  BY <1>1 DEF Sign, history
<1>2. ASSUME NEW r \in Requests, NEW m \in Signed, Receive(r, m)
      PROVE  StampsAreBounded'
  BY <1>2 DEF Receive, Idle, Recent, history
<1>3. ASSUME NEW r \in Requests, Lookup(r) PROVE StampsAreBounded'
  BY <1>3 DEF Lookup, Goto, Answer, Idle, KeyActive, history
<1>4. ASSUME NEW r \in Requests, TakeNonce(r) PROVE StampsAreBounded'
  BY <1>4 DEF TakeNonce, Goto, Answer, Idle, NonceExpiry, history
<1>5. ASSUME NEW r \in Requests, ReadMinute(r) PROVE StampsAreBounded'
  BY <1>5 DEF ReadMinute, history
<1>6. ASSUME NEW r \in Requests, Count(r) PROVE StampsAreBounded'
  BY <1>6 DEF Count, Goto, Answer, Idle, history
<1>7. ASSUME NEW r \in Requests, Accept(r) PROVE StampsAreBounded'
  BY <1>7 DEF Accept, Answer, Idle, history
<1>8. ASSUME NEW r \in Requests, Abandon(r) PROVE StampsAreBounded'
  BY <1>8 DEF Abandon, Answer, Idle, history
<1>9. ASSUME NEW k \in Keys, Revoke(k) PROVE StampsAreBounded'
  BY <1>9 DEF Revoke, history
<1>10. ASSUME Tick PROVE StampsAreBounded'
  BY <1>10 DEF Tick, history
<1>11. CASE UNCHANGED vars
  BY <1>11 DEF vars, history
<1> QED
  BY <1>1, <1>2, <1>3, <1>4, <1>5, <1>6, <1>7, <1>8, <1>9, <1>10, <1>11
     DEF Next, Check

LEMMA RecentStep == GuardSound /\ [Next]_vars => CameInRecently'
<1> SUFFICES ASSUME GuardSound, [Next]_vars PROVE CameInRecently'
  OBVIOUS
<1> USE DEF GuardSound, Typed, Transmission, CameInRecently
<1>1. ASSUME NEW m \in Signed, Sign(m) PROVE CameInRecently'
  BY <1>1 DEF Sign, history
<1>2. ASSUME NEW r \in Requests, NEW m \in Signed, Receive(r, m)
      PROVE  CameInRecently'
  BY <1>2 DEF Receive, Idle, Recent, history
<1>3. ASSUME NEW r \in Requests, Lookup(r) PROVE CameInRecently'
  BY <1>3 DEF Lookup, Goto, Answer, Idle, KeyActive, history
<1>4. ASSUME NEW r \in Requests, TakeNonce(r) PROVE CameInRecently'
  BY <1>4 DEF TakeNonce, Goto, Answer, Idle, NonceExpiry, history
<1>5. ASSUME NEW r \in Requests, ReadMinute(r) PROVE CameInRecently'
  BY <1>5 DEF ReadMinute, history
<1>6. ASSUME NEW r \in Requests, Count(r) PROVE CameInRecently'
  BY <1>6 DEF Count, Goto, Answer, Idle, history
<1>7. ASSUME NEW r \in Requests, Accept(r) PROVE CameInRecently'
  BY <1>7 DEF Accept, Answer, Idle, history
<1>8. ASSUME NEW r \in Requests, Abandon(r) PROVE CameInRecently'
  BY <1>8 DEF Abandon, Answer, Idle, history
<1>9. ASSUME NEW k \in Keys, Revoke(k) PROVE CameInRecently'
  BY <1>9 DEF Revoke, history
<1>10. ASSUME Tick PROVE CameInRecently'
  BY <1>10 DEF Tick, history
<1>11. CASE UNCHANGED vars
  BY <1>11 DEF vars, history
<1> QED
  BY <1>1, <1>2, <1>3, <1>4, <1>5, <1>6, <1>7, <1>8, <1>9, <1>10, <1>11
     DEF Next, Check

LEMMA KeyStep == GuardSound /\ [Next]_vars => KeyWasActive'
<1> SUFFICES ASSUME GuardSound, [Next]_vars PROVE KeyWasActive'
  OBVIOUS
<1> USE DEF GuardSound, Typed, Transmission, Steps, CameInRecently,
KeyWasActive
<1>1. ASSUME NEW m \in Signed, Sign(m) PROVE KeyWasActive'
  BY <1>1 DEF Sign, history
<1>2. ASSUME NEW r \in Requests, NEW m \in Signed, Receive(r, m)
      PROVE  KeyWasActive'
  BY <1>2 DEF Receive, Idle, Recent, history
<1>3. ASSUME NEW r \in Requests, Lookup(r) PROVE KeyWasActive'
  BY <1>3 DEF Lookup, Goto, Answer, Idle, KeyActive, history
<1>4. ASSUME NEW r \in Requests, TakeNonce(r) PROVE KeyWasActive'
  BY <1>4 DEF TakeNonce, Goto, Answer, Idle, NonceExpiry, history
<1>5. ASSUME NEW r \in Requests, ReadMinute(r) PROVE KeyWasActive'
  BY <1>5 DEF ReadMinute, history
<1>6. ASSUME NEW r \in Requests, Count(r) PROVE KeyWasActive'
  BY <1>6 DEF Count, Goto, Answer, Idle, history
<1>7. ASSUME NEW r \in Requests, Accept(r) PROVE KeyWasActive'
  BY <1>7 DEF Accept, Answer, Idle, history
<1>8. ASSUME NEW r \in Requests, Abandon(r) PROVE KeyWasActive'
  BY <1>8 DEF Abandon, Answer, Idle, history
<1>9. ASSUME NEW k \in Keys, Revoke(k) PROVE KeyWasActive'
  BY <1>9 DEF Revoke, history
<1>10. ASSUME Tick PROVE KeyWasActive'
  BY <1>10 DEF Tick, history
<1>11. CASE UNCHANGED vars
  BY <1>11 DEF vars, history
<1> QED
  BY <1>1, <1>2, <1>3, <1>4, <1>5, <1>6, <1>7, <1>8, <1>9, <1>10, <1>11
     DEF Next, Check

(* A nonce that is free was never taken, or else the transmission that      *)
(* finds it free has stayed for too long.                                   *)
LEMMA FreeNonceIsNew ==
  ASSUME GuardSound, NEW r \in Requests, req[r].pc = "nonce",
           nonces[req[r].of] = None
  PROVE  /\ uses[req[r].of] = 0
         /\ \A q \in Requests : ~ Holds(q, req[r].of)
BY DEF GuardSound, Typed, Transmission, CameInRecently, NonceOutlivesStamp

(* Who goes on holding a nonce, or lets go of it, does no harm.             *)
LEMMA HolderKept ==
  ASSUME OneHolder, uses' = uses,
         \A r \in Requests, m \in Signed : Holds(r, m)' => Holds(r, m)
  PROVE  OneHolder'
BY DEF OneHolder

LEMMA HolderStep == GuardSound /\ [Next]_vars => OneHolder'
<1> SUFFICES ASSUME GuardSound, [Next]_vars PROVE OneHolder'
  OBVIOUS
<1> USE DEF GuardSound
<1>1. ASSUME NEW m \in Signed, Sign(m) PROVE OneHolder'
  <2>1. uses' = uses
          /\ \A q \in Requests, n \in Signed : Holds(q, n)' => Holds(q, n)
    BY <1>1 DEF Sign, Holds, Typed, Transmission, history
  <2> QED
    BY <2>1, HolderKept
<1>2. ASSUME NEW r \in Requests, NEW m \in Signed, Receive(r, m)
      PROVE  OneHolder'
  <2>1. uses' = uses
          /\ \A q \in Requests, n \in Signed : Holds(q, n)' => Holds(q, n)
    BY <1>2 DEF Receive, Idle, Recent, Holds, Typed, Transmission, history
  <2> QED
    BY <2>1, HolderKept
<1>3. ASSUME NEW r \in Requests, Lookup(r) PROVE OneHolder'
  <2>1. uses' = uses /\ (req'[r].pc \in {"idle", "nonce"})
        /\ \A q \in Requests \ {r} : req'[q] = req[q]
    BY <1>3 DEF Lookup, Goto, Answer, Idle, Typed, Transmission, history
  <2>2. \A q \in Requests, n \in Signed : Holds(q, n)' => Holds(q, n)
    BY <2>1 DEF Holds
  <2> QED
    BY <2>1, <2>2, HolderKept
<1>4. ASSUME NEW r \in Requests, TakeNonce(r) PROVE OneHolder'
  <2>1. req[r].pc = "nonce" /\ uses' = uses /\ req[r].of \in Signed
    BY <1>4 DEF TakeNonce, CameInRecently, history
  <2>2. CASE nonces[req[r].of] = None
    <3> DEFINE m == req[r].of
    <3>1. uses[m] = 0 /\ \A q \in Requests : ~ Holds(q, m)
      BY <2>1, <2>2, FreeNonceIsNew
    <3>2. /\ req'[r].of = m
          /\ \A q \in Requests \ {r} : req'[q] = req[q]
      BY <1>4, <2>2 DEF TakeNonce, Goto, Typed, Transmission
    <3>3. ASSUME NEW q \in Requests, NEW n \in Signed, Holds(q, n)'
          PROVE  (q = r /\ n = m) \/ (Holds(q, n) /\ n # m)
      BY <3>1, <3>2, <3>3 DEF Holds
    <3> QED
      BY <2>1, <3>1, <3>3 DEF OneHolder
  <2>3. CASE nonces[req[r].of] # None
    <3>1. \A q \in Requests, n \in Signed : Holds(q, n)' => Holds(q, n)
      BY <1>4, <2>3 DEF TakeNonce, Answer, Idle, Holds, Typed
    <3> QED
      BY <2>1, <3>1, HolderKept
  <2> QED
    BY <2>2, <2>3
<1>5. ASSUME NEW r \in Requests, ReadMinute(r) PROVE OneHolder'
  <2>1. uses' = uses
          /\ \A q \in Requests, n \in Signed : Holds(q, n)' => Holds(q, n)
    BY <1>5 DEF ReadMinute, Holds, Typed, Transmission, history
  <2> QED
    BY <2>1, HolderKept
<1>6. ASSUME NEW r \in Requests, Count(r) PROVE OneHolder'
  <2>1. uses' = uses
          /\ \A q \in Requests, n \in Signed : Holds(q, n)' => Holds(q, n)
    BY <1>6 DEF Count, Goto, Answer, Idle, Holds, Typed, Transmission, history
  <2> QED
    BY <2>1, HolderKept
<1>7. ASSUME NEW r \in Requests, Accept(r) PROVE OneHolder'
  <2> DEFINE m == req[r].of
  <2>1. m \in Signed /\ Holds(r, m)
    BY <1>7 DEF Accept, CameInRecently, Holds
  <2>2. uses[m] = 0 /\ \A q \in Requests : Holds(q, m) => q = r
    BY <2>1 DEF OneHolder
  <2>3. uses'[m] = 1 /\ \A n \in Signed \ {m} : uses'[n] = uses[n]
    BY <1>7, <2>1, <2>2 DEF Accept, Typed
  <2>4. req'[r].pc = "idle" /\ \A q \in Requests \ {r} : req'[q] = req[q]
    BY <1>7 DEF Accept, Answer, Idle, Typed
  <2>5. ASSUME NEW q \in Requests, NEW n \in Signed, Holds(q, n)'
        PROVE  Holds(q, n) /\ n # m
    BY <2>2, <2>4, <2>5 DEF Holds
  <2> QED
    BY <2>1, <2>2, <2>3, <2>5 DEF OneHolder
<1>8. ASSUME NEW r \in Requests, Abandon(r) PROVE OneHolder'
  <2>1. uses' = uses
          /\ \A q \in Requests, n \in Signed : Holds(q, n)' => Holds(q, n)
    BY <1>8 DEF Abandon, Answer, Idle, Holds, Typed, Transmission, history
  <2> QED
    BY <2>1, HolderKept
<1>9. ASSUME NEW k \in Keys, Revoke(k) PROVE OneHolder'
  <2>1. uses' = uses
          /\ \A q \in Requests, n \in Signed : Holds(q, n)' => Holds(q, n)
    BY <1>9 DEF Revoke, Holds, Typed, Transmission, history
  <2> QED
    BY <2>1, HolderKept
<1>10. ASSUME Tick PROVE OneHolder'
  <2>1. uses' = uses
          /\ \A q \in Requests, n \in Signed : Holds(q, n)' => Holds(q, n)
    BY <1>10 DEF Tick, Holds, Typed, Transmission, history
  <2> QED
    BY <2>1, HolderKept
<1>11. CASE UNCHANGED vars
  BY <1>11 DEF vars, history, OneHolder, Holds
<1> QED
  BY <1>1, <1>2, <1>3, <1>4, <1>5, <1>6, <1>7, <1>8, <1>9, <1>10, <1>11
     DEF Next, Check

LEMMA OutlivesStep == GuardSound /\ [Next]_vars => NonceOutlivesStamp'
<1> SUFFICES ASSUME GuardSound, [Next]_vars PROVE NonceOutlivesStamp'
  OBVIOUS
<1> USE DEF GuardSound, Typed, Transmission, StampsAreBounded, CameInRecently,
           NonceOutlivesStamp, Holds
<1>1. ASSUME NEW m \in Signed, Sign(m) PROVE NonceOutlivesStamp'
  BY <1>1 DEF Sign, history
<1>2. ASSUME NEW r \in Requests, NEW m \in Signed, Receive(r, m)
      PROVE  NonceOutlivesStamp'
  BY <1>2 DEF Receive, Idle, Recent, history
<1>3. ASSUME NEW r \in Requests, Lookup(r) PROVE NonceOutlivesStamp'
  BY <1>3 DEF Lookup, Goto, Answer, Idle, KeyActive, history
<1>4. ASSUME NEW r \in Requests, TakeNonce(r) PROVE NonceOutlivesStamp'
  <2> DEFINE m == req[r].of
  <2>1. /\ m \in Signed /\ stamp[m] \in Nat /\ stamp[m] <= now + Skew
        /\ now' = now /\ stamp' = stamp /\ uses' = uses
    BY <1>4 DEF TakeNonce, history
  <2>2. CASE nonces[m] # None
    BY <1>4, <2>1, <2>2 DEF TakeNonce, Answer, Idle
  <2>3. CASE nonces[m] = None
    <3>1. nonces' = [nonces EXCEPT ![m] = NonceExpiry]
      BY <1>4, <2>3 DEF TakeNonce
    <3>2. NonceExpiry \in Nat /\ NonceExpiry > stamp[m] + MaxAge + MaxDelay
      BY <2>1 DEF NonceExpiry
    <3>3. \A q \in Requests, n \in Signed \ {m} : Holds(q, n)' => Holds(q, n)
      BY <1>4, <2>3 DEF TakeNonce, Goto
    <3>4. nonces'[m] = NonceExpiry
            /\ \A n \in Signed \ {m} : nonces'[n] = nonces[n]
      BY <2>1, <3>1
    <3> HIDE DEF m
    <3>5. ASSUME NEW n \in Signed, n # m, uses'[n] # 0
                   \/ (\E q \in Requests : Holds(q, n)')
          PROVE  /\ stamp'[n] # None
                 /\ IF nonces'[n] # None THEN nonces'[n] > stamp'[n] + MaxAge + MaxDelay
                                         ELSE now' > stamp'[n] + MaxAge + MaxDelay
      BY <2>1, <3>3, <3>4, <3>5
    <3>6. ASSUME NEW n \in Signed, n = m
          PROVE  /\ stamp'[n] # None
                 /\ IF nonces'[n] # None THEN nonces'[n] > stamp'[n] + MaxAge + MaxDelay
                                         ELSE now' > stamp'[n] + MaxAge + MaxDelay
      BY <2>1, <3>2, <3>4, <3>6
    <3> QED
      BY <3>5, <3>6
  <2> QED
    BY <2>2, <2>3
<1>5. ASSUME NEW r \in Requests, ReadMinute(r) PROVE NonceOutlivesStamp'
  BY <1>5 DEF ReadMinute, history
<1>6. ASSUME NEW r \in Requests, Count(r) PROVE NonceOutlivesStamp'
  BY <1>6 DEF Count, Goto, Answer, Idle, history
<1>7. ASSUME NEW r \in Requests, Accept(r) PROVE NonceOutlivesStamp'
  BY <1>7 DEF Accept, Answer, Idle, history
<1>8. ASSUME NEW r \in Requests, Abandon(r) PROVE NonceOutlivesStamp'
  BY <1>8 DEF Abandon, Answer, Idle, history
<1>9. ASSUME NEW k \in Keys, Revoke(k) PROVE NonceOutlivesStamp'
  BY <1>9 DEF Revoke, history
<1>10. ASSUME Tick PROVE NonceOutlivesStamp'
  BY <1>10 DEF Tick, history
<1>11. CASE UNCHANGED vars
  BY <1>11 DEF vars, history
<1> QED
  BY <1>1, <1>2, <1>3, <1>4, <1>5, <1>6, <1>7, <1>8, <1>9, <1>10, <1>11
     DEF Next, Check

-----------------------------------------------------------------------------
(* The theorems.                                                            *)

LEMMA SoundInit == Init => GuardSound
BY DEF Init, Idle, GuardSound, Typed, Transmission, Steps, StampsAreBounded,
       CameInRecently, KeyWasActive, OneHolder, NonceOutlivesStamp, Holds

LEMMA SoundStep == GuardSound /\ [Next]_vars => GuardSound'
BY TypedStep, StampsStep, RecentStep, KeyStep, HolderStep, OutlivesStep
   DEF GuardSound

(* The inductive invariant: a nonce is remembered for longer than any      *)
(* transmission of its timestamp would be taken.                            *)
THEOREM GuardSoundAlways == Spec => []GuardSound
<1>1. Init => GuardSound
  BY SoundInit
<1>2. GuardSound /\ [Next]_vars => GuardSound'
  BY SoundStep
<1> QED
  BY <1>1, <1>2, PTL DEF Spec

(* A signed request is let through at most once, however often it is        *)
(* transmitted (canActivate 65-67, 103-112).                                *)
THEOREM AlwaysAcceptedOnce == Spec => []AcceptedOnce
<1>1. GuardSound => AcceptedOnce
  BY DEF GuardSound, OneHolder, AcceptedOnce
<1> QED
  BY <1>1, GuardSoundAlways, PTL

(* What is let through was recent, and its key active, no longer ago than a *)
(* transmission stays in the guard (canActivate 65-101).                    *)
AcceptedIsValid ==
  \A m \in Signed : uses'[m] # uses[m] =>
    /\ now <= stamp[m] + MaxAge + MaxDelay
    /\ revokedAt[KeyOf[m]] # None => now <= revokedAt[KeyOf[m]] + MaxDelay

LEMMA AcceptedStep == GuardSound /\ [Next]_vars => AcceptedIsValid
<1> SUFFICES ASSUME GuardSound, [Next]_vars PROVE AcceptedIsValid
  OBVIOUS
<1> USE DEF GuardSound, Typed, Transmission, AcceptedIsValid
<1>1. ASSUME NEW m \in Signed, Sign(m) PROVE AcceptedIsValid
  BY <1>1 DEF Sign, history
<1>2. ASSUME NEW r \in Requests, NEW m \in Signed, Receive(r, m)
      PROVE  AcceptedIsValid
  BY <1>2 DEF Receive, Idle, Recent, history
<1>3. ASSUME NEW r \in Requests, Lookup(r) PROVE AcceptedIsValid
  BY <1>3 DEF Lookup, Goto, Answer, Idle, KeyActive, history
<1>4. ASSUME NEW r \in Requests, TakeNonce(r) PROVE AcceptedIsValid
  BY <1>4 DEF TakeNonce, Goto, Answer, Idle, NonceExpiry, history
<1>5. ASSUME NEW r \in Requests, ReadMinute(r) PROVE AcceptedIsValid
  BY <1>5 DEF ReadMinute, history
<1>6. ASSUME NEW r \in Requests, Count(r) PROVE AcceptedIsValid
  BY <1>6 DEF Count, Goto, Answer, Idle, history
<1>7. ASSUME NEW r \in Requests, Accept(r) PROVE AcceptedIsValid
  <2> SUFFICES ASSUME NEW m \in Signed, uses'[m] # uses[m]
               PROVE  /\ now <= stamp[m] + MaxAge + MaxDelay
                      /\ revokedAt[KeyOf[m]] # None =>
                           now <= revokedAt[KeyOf[m]] + MaxDelay
    OBVIOUS
  <2>1. req[r].pc = "touch" /\ req[r].of = m
    BY <1>7 DEF Accept
  <2>2. now <= stamp[m] + MaxAge + MaxDelay
    BY <2>1 DEF CameInRecently
  <2>3. revokedAt[KeyOf[m]] # None => now <= revokedAt[KeyOf[m]] + MaxDelay
    BY <2>1 DEF CameInRecently, KeyWasActive, Steps
  <2> QED
    BY <2>2, <2>3
<1>8. ASSUME NEW r \in Requests, Abandon(r) PROVE AcceptedIsValid
  BY <1>8 DEF Abandon, Answer, Idle, history
<1>9. ASSUME NEW k \in Keys, Revoke(k) PROVE AcceptedIsValid
  BY <1>9 DEF Revoke, history
<1>10. ASSUME Tick PROVE AcceptedIsValid
  BY <1>10 DEF Tick, history
<1>11. CASE UNCHANGED vars
  BY <1>11 DEF vars, history
<1> QED
  BY <1>1, <1>2, <1>3, <1>4, <1>5, <1>6, <1>7, <1>8, <1>9, <1>10, <1>11
     DEF Next, Check

(* What is let through was signed, with an active key, a moment ago         *)
(* (canActivate 65-67, 81-93).                                              *)
THEOREM AlwaysAcceptedWhileValid == Spec => AcceptedWhileValid
<1>1. GuardSound /\ [Next]_vars => [AcceptedIsValid]_vars
  BY AcceptedStep
<1> QED
  BY <1>1, GuardSoundAlways, PTL DEF Spec, AcceptedWhileValid, AcceptedIsValid

-----------------------------------------------------------------------------
(* The rate limit: minutes ...                                              *)

LEMMA MinuteOfTime ==
  ASSUME NEW t \in Nat
  PROVE  /\ t \div Minute \in Nat
         /\ (t \div Minute) * Minute <= t
         /\ t < (t \div Minute) * Minute + Minute
<1>1. t \div Minute \in Nat
  OBVIOUS
<1>2. (t \div Minute) * Minute <= t
  OBVIOUS
<1>3. t < (t \div Minute) * Minute + Minute
  OBVIOUS
<1> QED
  BY <1>1, <1>2, <1>3

LEMMA MinutesInOrder ==
  ASSUME NEW a \in Nat, NEW b \in Nat, a * Minute < b * Minute + Minute
  PROVE  a <= b
<1>1. CASE a > b
  <2>1. PICK d \in Nat : a = b + 1 + d
    <3>1. a - b - 1 \in Nat /\ a = b + 1 + (a - b - 1)
      BY <1>1
    <3> QED
      BY <3>1
  <2>2. a * Minute = b * Minute + Minute + d * Minute
    BY <2>1
  <2>3. d * Minute >= 0
    OBVIOUS
  <2> QED
    BY <2>2, <2>3
<1> QED
  BY <1>1

LEMMA MinuteInWindows ==
  ASSUME NEW t \in Nat, t <= MaxTime
  PROVE  t \div Minute \in 0 .. MaxTime \div Minute
<1> DEFINE a == t \div Minute
           b == MaxTime \div Minute
<1>1. a \in Nat /\ b \in Nat /\ a * Minute <= t
        /\ MaxTime < b * Minute + Minute
  BY MinuteOfTime
<1> HIDE DEF a, b
<1>2. a * Minute < b * Minute + Minute
  BY <1>1
<1>3. a <= b
  BY <1>1, <1>2, MinutesInOrder
<1>4. a \in 0 .. b
  BY <1>1, <1>3
<1> QED
  BY <1>4 DEF a, b

-----------------------------------------------------------------------------
(* ... and what is counted in them.                                         *)

Start(w) == w[2] * Minute
WindowOf(r) == <<KeyOf[req[r].of], req[r].minute>>
Touching(w) == {r \in Requests : req[r].pc = "touch" /\ WindowOf(r) = w}
Taken(w) == served[w] + Cardinality(Touching(w))

CountersTyped ==
  /\ now <= MaxTime
  /\ counters \in [Windows -> [n : Nat, expires : Nat \cup {None}]]
  /\ served \in [Windows -> Nat]

(* A transmission that read the minute came in before its end, ...          *)
CountsInTime ==
  \A r \in Requests : req[r].pc \in {"count", "touch"} =>
    /\ WindowOf(r) \in Windows
    /\ Start(WindowOf(r)) <= now
    /\ req[r].since < Start(WindowOf(r)) + Minute

(* ... so that it finds its counter, which lasts for another minute, ...    *)
CountersLast ==
  \A w \in Windows : counters[w].n > 0 =>
    /\ counters[w].expires # None
    /\ counters[w].expires >= Start(w) + 2 * Minute

(* ... and what was let through, or is about to be, has been counted.       *)
TakenIsCounted ==
  \A w \in Windows :
    /\ Taken(w) <= QuotaPerMinute
    /\ now < Start(w) + 2 * Minute => Taken(w) <= counters[w].n

RateSound ==
  /\ CountersTyped
  /\ CountsInTime
  /\ CountersLast
  /\ TakenIsCounted

LEMMA StartsAreNatural == \A w \in Windows : Start(w) \in Nat
<1> SUFFICES ASSUME NEW w \in Windows PROVE Start(w) \in Nat
  OBVIOUS
<1>1. w[2] \in Nat
  BY DEF Windows
<1> QED
  BY <1>1 DEF Start

LEMMA TouchingIsFinite ==
  ASSUME NEW w
  PROVE  IsFiniteSet(Touching(w)) /\ Cardinality(Touching(w)) \in Nat
BY FinitelyMany, FS_Subset, FS_CardinalityType DEF Touching

(* Whoever counts does so before the counter of its minute may be gone.     *)
LEMMA CountsBeforeTheEnd ==
  ASSUME GuardSound, RateSound, NEW r \in Requests, req[r].pc \in {"count",
           "touch"}
  PROVE  now < Start(WindowOf(r)) + 2 * Minute
<1>1. WindowOf(r) \in Windows /\ Start(WindowOf(r)) \in Nat
  BY StartsAreNatural DEF RateSound, CountsInTime
<1>2. req[r].since \in Nat /\ now \in Nat /\ now <= req[r].since + MaxDelay
  BY DEF GuardSound, Typed, Transmission, CameInRecently
<1>3. req[r].since < Start(WindowOf(r)) + Minute
  BY DEF RateSound, CountsInTime
<1> QED
  BY <1>1, <1>2, <1>3

LEMMA CountersTypedStep == GuardSound /\ RateSound
  /\ [Next]_vars => CountersTyped'
<1> SUFFICES ASSUME GuardSound /\ RateSound, [Next]_vars PROVE CountersTyped'
  OBVIOUS
<1> USE DEF RateSound, CountersTyped
<1>1. ASSUME NEW m \in Signed, Sign(m) PROVE CountersTyped'
  BY <1>1 DEF Sign, history
<1>2. ASSUME NEW r \in Requests, NEW m \in Signed, Receive(r, m)
      PROVE  CountersTyped'
  BY <1>2 DEF Receive, Idle, Recent, history
<1>3. ASSUME NEW r \in Requests, Lookup(r) PROVE CountersTyped'
  BY <1>3 DEF Lookup, Goto, Answer, Idle, KeyActive, history
<1>4. ASSUME NEW r \in Requests, TakeNonce(r) PROVE CountersTyped'
  BY <1>4 DEF TakeNonce, Goto, Answer, Idle, NonceExpiry, history
<1>5. ASSUME NEW r \in Requests, ReadMinute(r) PROVE CountersTyped'
  BY <1>5 DEF ReadMinute, history
<1>6. ASSUME NEW r \in Requests, Count(r) PROVE CountersTyped'
  <2> DEFINE w == <<KeyOf[req[r].of], req[r].minute>>
  <2>1. w \in Windows
    BY <1>6 DEF Count, CountsInTime, WindowOf
  <2>2. now \in Nat
    BY DEF GuardSound, Typed
  <2>3. Incremented(counters[w]) \in [n : Nat, expires : Nat \cup {None}]
    BY <2>1, <2>2 DEF Incremented
  <2> QED
    BY <1>6, <2>1, <2>3 DEF Count, history
<1>7. ASSUME NEW r \in Requests, Accept(r) PROVE CountersTyped'
  <2> DEFINE w == <<KeyOf[req[r].of], req[r].minute>>
  <2>1. w \in Windows
    BY <1>7 DEF Accept, CountsInTime, WindowOf
  <2>2. /\ served' = [served EXCEPT ![w] = @ + 1]
        /\ counters' = counters /\ now' = now
    BY <1>7 DEF Accept
  <2> HIDE DEF w
  <2>3. served[w] + 1 \in Nat
    BY <2>1
  <2>4. served' \in [Windows -> Nat]
    BY <2>2, <2>3
  <2> QED
    BY <2>2, <2>4
<1>8. ASSUME NEW r \in Requests, Abandon(r) PROVE CountersTyped'
  BY <1>8 DEF Abandon, Answer, Idle, history
<1>9. ASSUME NEW k \in Keys, Revoke(k) PROVE CountersTyped'
  BY <1>9 DEF Revoke, history
<1>10. ASSUME Tick PROVE CountersTyped'
  <2>1. now \in Nat
    BY DEF GuardSound, Typed
  <2>2. Gone \in [n : Nat, expires : Nat \cup {None}]
    BY DEF Gone
  <2> QED
    BY <1>10, <2>1, <2>2 DEF Tick, history
<1>11. CASE UNCHANGED vars
  BY <1>11 DEF vars, history
<1> QED
  BY <1>1, <1>2, <1>3, <1>4, <1>5, <1>6, <1>7, <1>8, <1>9, <1>10, <1>11
     DEF Next, Check

(* A minute that is read is the current one.                                *)
LEMMA InTimeStep == GuardSound /\ RateSound /\ [Next]_vars => CountsInTime'
<1> SUFFICES ASSUME GuardSound /\ RateSound, [Next]_vars PROVE CountsInTime'
  OBVIOUS
<1> USE DEF GuardSound, RateSound, Typed, Transmission, CountersTyped,
CountsInTime,
           WindowOf
<1>1. ASSUME NEW m \in Signed, Sign(m) PROVE CountsInTime'
  BY <1>1 DEF Sign, Start, history
<1>2. ASSUME NEW r \in Requests, NEW m \in Signed, Receive(r, m)
      PROVE  CountsInTime'
  BY <1>2 DEF Receive, Idle, Recent, Start, history
<1>3. ASSUME NEW r \in Requests, Lookup(r) PROVE CountsInTime'
  BY <1>3 DEF Lookup, Goto, Answer, Idle, KeyActive, Start, history
<1>4. ASSUME NEW r \in Requests, TakeNonce(r) PROVE CountsInTime'
  BY <1>4 DEF TakeNonce, Goto, Answer, Idle, NonceExpiry, Start, history
<1>5. ASSUME NEW r \in Requests, ReadMinute(r) PROVE CountsInTime'
  <2> DEFINE minute == now \div Minute
             w == <<KeyOf[req[r].of], minute>>
  <2>1. req[r].of \in Signed /\ req[r].since <= now /\ now \in Nat
    BY <1>5 DEF ReadMinute, CameInRecently
  <2>2. minute \in 0 .. MaxTime \div Minute
    BY <2>1, MinuteInWindows
  <2>3. minute * Minute <= now /\ now < minute * Minute + Minute
    BY <2>1, MinuteOfTime
  <2>4. w \in Windows
    BY <2>1, <2>2 DEF Windows
  <2>5. /\ req' = [req EXCEPT ![r].pc = "count", ![r].minute = minute]
        /\ now' = now
    BY <1>5 DEF ReadMinute
  <2>6. minute \in Nat /\ minute * Minute \in Nat /\ req[r].since \in Nat
    BY <2>1, MinuteOfTime
  <2>7. w[2] * Minute <= now /\ req[r].since < w[2] * Minute + Minute
    BY <2>1, <2>3, <2>6
  <2> HIDE DEF minute
  <2>8. WindowOf(r)' = w /\ req'[r].since = req[r].since
    BY <2>5
  <2>9. \A q \in Requests \ {r} : req'[q] = req[q]
          /\ WindowOf(q)' = WindowOf(q)
    BY <2>5
  <2>10. ASSUME NEW q \in Requests, req'[q].pc \in {"count", "touch"}
         PROVE  /\ WindowOf(q)' \in Windows
                /\ Start(WindowOf(q)') <= now'
                /\ req'[q].since < Start(WindowOf(q)') + Minute
    BY <2>4, <2>5, <2>7, <2>8, <2>9, <2>10 DEF Start
  <2> QED
    BY <2>10 DEF Start
<1>6. ASSUME NEW r \in Requests, Count(r) PROVE CountsInTime'
  <2>1. now' = now
    BY <1>6 DEF Count
  <2>2. \A q \in Requests : req'[q].pc \in {"count", "touch"} =>
          /\ req[q].pc \in {"count", "touch"}
          /\ req'[q].of = req[q].of /\ req'[q].minute = req[q].minute
          /\ req'[q].since = req[q].since
    BY <1>6 DEF Count, Goto, Answer, Idle
  <2> QED
    BY <2>1, <2>2 DEF Start
<1>7. ASSUME NEW r \in Requests, Accept(r) PROVE CountsInTime'
  BY <1>7 DEF Accept, Answer, Idle, Start, history
<1>8. ASSUME NEW r \in Requests, Abandon(r) PROVE CountsInTime'
  BY <1>8 DEF Abandon, Answer, Idle, Start, history
<1>9. ASSUME NEW k \in Keys, Revoke(k) PROVE CountsInTime'
  BY <1>9 DEF Revoke, Start, history
<1>10. ASSUME Tick PROVE CountsInTime'
  <2>1. now \in Nat /\ now' = now + 1 /\ req' = req
    BY <1>10 DEF Tick
  <2>2. \A r \in Requests : req[r].pc \in {"count", "touch"} =>
          Start(WindowOf(r)) \in Nat
    BY StartsAreNatural
  <2> QED
    BY <2>1, <2>2 DEF Start
<1>11. CASE UNCHANGED vars
  BY <1>11 DEF vars, history, Start
<1> QED
  BY <1>1, <1>2, <1>3, <1>4, <1>5, <1>6, <1>7, <1>8, <1>9, <1>10, <1>11
     DEF Next, Check

LEMMA LastStep == GuardSound /\ RateSound /\ [Next]_vars => CountersLast'
<1> SUFFICES ASSUME GuardSound /\ RateSound, [Next]_vars PROVE CountersLast'
  OBVIOUS
<1> USE DEF RateSound, CountersTyped, CountersLast, Start
<1>1. ASSUME NEW m \in Signed, Sign(m) PROVE CountersLast'
  BY <1>1 DEF Sign, history
<1>2. ASSUME NEW r \in Requests, NEW m \in Signed, Receive(r, m)
      PROVE  CountersLast'
  BY <1>2 DEF Receive, Idle, Recent, history
<1>3. ASSUME NEW r \in Requests, Lookup(r) PROVE CountersLast'
  BY <1>3 DEF Lookup, Goto, Answer, Idle, KeyActive, history
<1>4. ASSUME NEW r \in Requests, TakeNonce(r) PROVE CountersLast'
  BY <1>4 DEF TakeNonce, Goto, Answer, Idle, NonceExpiry, history
<1>5. ASSUME NEW r \in Requests, ReadMinute(r) PROVE CountersLast'
  BY <1>5 DEF ReadMinute, history
<1>6. ASSUME NEW r \in Requests, Count(r) PROVE CountersLast'
  <2> DEFINE w == WindowOf(r)
  <2>1. w \in Windows /\ Start(w) \in Nat /\ Start(w) <= now
    BY <1>6, StartsAreNatural DEF Count, CountsInTime
  <2>2. now \in Nat
    BY DEF GuardSound, Typed
  <2>3. counters' = [counters EXCEPT ![w] = Incremented(@)]
    BY <1>6 DEF Count, WindowOf
  <2>4. /\ Incremented(counters[w]).expires # None
        /\ Incremented(counters[w]).expires >= Start(w) + 2 * Minute
    <3>1. CASE counters[w].n = 0
      BY <2>1, <2>2, <3>1 DEF Incremented
    <3>2. CASE counters[w].n # 0
      BY <2>1, <3>2 DEF Incremented
    <3> QED
      BY <3>1, <3>2
  <2> QED
    BY <2>1, <2>3, <2>4
<1>7. ASSUME NEW r \in Requests, Accept(r) PROVE CountersLast'
  BY <1>7 DEF Accept, Answer, Idle, history
<1>8. ASSUME NEW r \in Requests, Abandon(r) PROVE CountersLast'
  BY <1>8 DEF Abandon, Answer, Idle, history
<1>9. ASSUME NEW k \in Keys, Revoke(k) PROVE CountersLast'
  BY <1>9 DEF Revoke, history
<1>10. ASSUME Tick PROVE CountersLast'
  <2>1. \A w \in Windows : counters'[w] = Gone \/ counters'[w] = counters[w]
    BY <1>10 DEF Tick
  <2> QED
    BY <2>1 DEF Gone
<1>11. CASE UNCHANGED vars
  BY <1>11 DEF vars, history
<1> QED
  BY <1>1, <1>2, <1>3, <1>4, <1>5, <1>6, <1>7, <1>8, <1>9, <1>10, <1>11
     DEF Next, Check

(* Counters stay and nobody new is about to be let through.                 *)
LEMMA TakenKept ==
  ASSUME GuardSound, RateSound, served' = served, counters' = counters,
           now' = now,
         \A w \in Windows : Touching(w)' \subseteq Touching(w)
  PROVE  TakenIsCounted'
<1> SUFFICES ASSUME NEW w \in Windows
             PROVE  /\ Taken(w)' <= QuotaPerMinute
                    /\ (now < Start(w) + 2 * Minute =>
                         Taken(w) <= counters[w].n)'
  BY DEF TakenIsCounted
<1>1. /\ Cardinality(Touching(w)') \in Nat
      /\ Cardinality(Touching(w)) \in Nat
      /\ Cardinality(Touching(w)') <= Cardinality(Touching(w))
  BY TouchingIsFinite, FS_Subset, FS_CardinalityType
<1>2. Taken(w)' \in Nat /\ Taken(w) \in Nat /\ Taken(w)' <= Taken(w)
  BY <1>1 DEF Taken, RateSound, CountersTyped
<1>3. Taken(w) <= QuotaPerMinute
        /\ (now < Start(w) + 2 * Minute => Taken(w) <= counters[w].n)
  BY DEF RateSound, TakenIsCounted
<1>4. counters[w].n \in Nat
  BY DEF RateSound, CountersTyped
<1> QED
  BY <1>2, <1>3, <1>4 DEF Start

LEMMA TakenStep == GuardSound /\ RateSound /\ [Next]_vars => TakenIsCounted'
<1> SUFFICES ASSUME GuardSound /\ RateSound, [Next]_vars PROVE TakenIsCounted'
  OBVIOUS
<1> USE DEF GuardSound, RateSound
<1>1. ASSUME NEW m \in Signed, Sign(m) PROVE TakenIsCounted'
  <2>1. served' = served /\ counters' = counters /\ now' = now
    BY <1>1 DEF Sign, history
  <2>2. \A w \in Windows : Touching(w)' \subseteq Touching(w)
    BY <1>1 DEF Sign, Touching, WindowOf, Typed, Transmission
  <2> QED
    BY <2>1, <2>2, TakenKept
<1>2. ASSUME NEW r \in Requests, NEW m \in Signed, Receive(r, m)
      PROVE  TakenIsCounted'
  <2>1. served' = served /\ counters' = counters /\ now' = now
    BY <1>2 DEF Receive, history
  <2>2. \A w \in Windows : Touching(w)' \subseteq Touching(w)
    BY <1>2 DEF Receive, Idle, Recent, Touching, WindowOf, Typed, Transmission
  <2> QED
    BY <2>1, <2>2, TakenKept
<1>3. ASSUME NEW r \in Requests, Lookup(r) PROVE TakenIsCounted'
  <2>1. served' = served /\ counters' = counters /\ now' = now
    BY <1>3 DEF Lookup, history
  <2>2. \A w \in Windows : Touching(w)' \subseteq Touching(w)
    BY <1>3
       DEF Lookup, Goto, Answer, Idle, KeyActive, Touching, WindowOf, Typed,
              Transmission
  <2> QED
    BY <2>1, <2>2, TakenKept
<1>4. ASSUME NEW r \in Requests, TakeNonce(r) PROVE TakenIsCounted'
  <2>1. served' = served /\ counters' = counters /\ now' = now
    BY <1>4 DEF TakeNonce, history
  <2>2. \A w \in Windows : Touching(w)' \subseteq Touching(w)
    BY <1>4
       DEF TakeNonce, Goto, Answer, Idle, NonceExpiry, Touching, WindowOf,
              Typed, Transmission
  <2> QED
    BY <2>1, <2>2, TakenKept
<1>5. ASSUME NEW r \in Requests, ReadMinute(r) PROVE TakenIsCounted'
  <2>1. served' = served /\ counters' = counters /\ now' = now
    BY <1>5 DEF ReadMinute, history
  <2>2. \A w \in Windows : Touching(w)' \subseteq Touching(w)
    BY <1>5 DEF ReadMinute, Touching, WindowOf, Typed, Transmission
  <2> QED
    BY <2>1, <2>2, TakenKept
<1>6. ASSUME NEW r \in Requests, Count(r) PROVE TakenIsCounted'
  <2>0. PICK v \in Windows : v = WindowOf(r)
    BY <1>6 DEF Count, CountsInTime
  <2> DEFINE n == counters[v].n + 1
  <2>1. v \in Windows /\ now < Start(v) + 2 * Minute
    BY <1>6, <2>0, CountsBeforeTheEnd DEF Count
  <2>2. /\ served' = served /\ now' = now
        /\ counters' = [counters EXCEPT ![v] = Incremented(@)]
    BY <1>6, <2>0 DEF Count, WindowOf, history
  <2>3. counters'[v].n = n /\ n \in Nat
    BY <2>1, <2>2 DEF Incremented, CountersTyped
  <2>4. \A w \in Windows \ {v} : counters'[w] = counters[w]
    BY <2>2 DEF CountersTyped
  <2>5. \A w \in Windows \ {v} : Touching(w)' \subseteq Touching(w)
    BY <1>6, <2>0
       DEF Count, Goto, Answer, Idle, Touching, WindowOf, Typed, Transmission
  <2>6. r \notin Touching(v)
    BY <1>6 DEF Count, Touching
  <2>7. Touching(v)' \subseteq Touching(v) \cup {r}
    BY <1>6, <2>0
       DEF Count, Goto, Answer, Idle, Touching, WindowOf, Typed, Transmission
  <2>8. ~ WithinQuota(n) => Touching(v)' \subseteq Touching(v)
    BY <1>6, <2>0, <2>1
       DEF Count, Answer, Idle, Touching, WindowOf, Typed, Transmission,
              Incremented
  <2>9. ASSUME NEW w \in Windows \ {v}
        PROVE  Taken(w)' <= Taken(w) /\ Taken(w)' \in Nat /\ Taken(w) \in Nat
    <3>1. /\ Cardinality(Touching(w)') \in Nat
          /\ Cardinality(Touching(w)) \in Nat
          /\ Cardinality(Touching(w)') <= Cardinality(Touching(w))
      BY <2>5, TouchingIsFinite, FS_Subset, FS_CardinalityType
    <3> QED
      BY <2>2, <3>1 DEF Taken, CountersTyped
  <2>10. /\ Cardinality(Touching(v)) \in Nat
         /\ Cardinality(Touching(v) \cup {r}) = Cardinality(Touching(v)) + 1
         /\ IsFiniteSet(Touching(v) \cup {r})
    BY <2>6, TouchingIsFinite, FS_AddElement
  <2>11. /\ Cardinality(Touching(v)') \in Nat
         /\ Cardinality(Touching(v)') <= Cardinality(Touching(v)) + 1
    BY <2>7, <2>10, FS_Subset, FS_CardinalityType
  <2>12. Taken(v) \in Nat /\ Taken(v)' \in Nat /\ Taken(v)' <= Taken(v) + 1
    BY <2>1, <2>2, <2>10, <2>11 DEF Taken, CountersTyped
  <2>13. Taken(v) <= counters[v].n /\ Taken(v) <= QuotaPerMinute
    BY <2>1 DEF TakenIsCounted
  <2>14. Taken(v)' <= n
    BY <2>1, <2>3, <2>12, <2>13 DEF CountersTyped
  <2>15. Taken(v)' <= QuotaPerMinute
    <3>1. CASE WithinQuota(n)
      BY <2>3, <2>12, <2>14, <3>1 DEF WithinQuota
    <3>2. CASE ~ WithinQuota(n)
      <4>1. Cardinality(Touching(v)') <= Cardinality(Touching(v))
        BY <2>8, <3>2, TouchingIsFinite, FS_Subset
      <4>2. Taken(v)' <= Taken(v)
        BY <2>1, <2>2, <2>10, <2>11, <4>1 DEF Taken, CountersTyped
      <4> QED
        BY <2>12, <2>13, <4>2
    <3> QED
      BY <3>1, <3>2
  <2>16. ASSUME NEW w \in Windows
         PROVE  /\ Taken(w)' <= QuotaPerMinute
                /\ now' < Start(w) + 2 * Minute => Taken(w)' <= counters'[w].n
    <3>1. CASE w = v
      BY <2>3, <2>14, <2>15, <3>1
    <3>2. CASE w # v
      <4>1. Taken(w) <= QuotaPerMinute
        BY DEF TakenIsCounted
      <4>2. now < Start(w) + 2 * Minute => Taken(w) <= counters[w].n
        BY DEF TakenIsCounted
      <4>3. counters'[w].n = counters[w].n /\ counters[w].n \in Nat
        BY <2>4, <3>2 DEF CountersTyped
      <4>4. Taken(w)' <= Taken(w) /\ Taken(w)' \in Nat /\ Taken(w) \in Nat
        BY <2>9, <3>2
      <4> QED
        BY <2>2, <4>1, <4>2, <4>3, <4>4
    <3> QED
      BY <3>1, <3>2
  <2> QED
    BY <2>16 DEF TakenIsCounted, Start
<1>7. ASSUME NEW r \in Requests, Accept(r) PROVE TakenIsCounted'
  <2>0. PICK v \in Windows : v = WindowOf(r)
    BY <1>7 DEF Accept, CountsInTime
  <2>1. v \in Windows /\ r \in Touching(v)
    BY <1>7, <2>0 DEF Accept, Touching
  <2>2. /\ served' = [served EXCEPT ![v] = @ + 1]
        /\ counters' = counters /\ now' = now
    BY <1>7, <2>0 DEF Accept, WindowOf
  <2>3. Touching(v)' = Touching(v) \ {r}
    BY <1>7, <2>0
       DEF Accept, Answer, Idle, Touching, WindowOf, Typed, Transmission
  <2>4. \A w \in Windows \ {v} : Touching(w)' = Touching(w)
    BY <1>7, <2>0
       DEF Accept, Answer, Idle, Touching, WindowOf, Typed, Transmission
  <2>5. /\ Cardinality(Touching(v)) \in Nat
        /\ Cardinality(Touching(v) \ {r}) = Cardinality(Touching(v)) - 1
    BY <2>1, TouchingIsFinite, FS_RemoveElement
  <2>6. Taken(v)' = Taken(v)
    BY <2>1, <2>2, <2>3, <2>5 DEF Taken, CountersTyped
  <2>7. \A w \in Windows \ {v} : Taken(w)' = Taken(w)
    BY <2>2, <2>4 DEF Taken, CountersTyped
  <2>8. \A w \in Windows : Taken(w)' = Taken(w)
    BY <2>6, <2>7
  <2> QED
    BY <2>2, <2>8 DEF TakenIsCounted, Start
<1>8. ASSUME NEW r \in Requests, Abandon(r) PROVE TakenIsCounted'
  <2>1. served' = served /\ counters' = counters /\ now' = now
    BY <1>8 DEF Abandon, history
  <2>2. \A w \in Windows : Touching(w)' \subseteq Touching(w)
    BY <1>8 DEF Abandon, Answer, Idle, Touching, WindowOf, Typed, Transmission
  <2> QED
    BY <2>1, <2>2, TakenKept
<1>9. ASSUME NEW k \in Keys, Revoke(k) PROVE TakenIsCounted'
  <2>1. served' = served /\ counters' = counters /\ now' = now
    BY <1>9 DEF Revoke, history
  <2>2. \A w \in Windows : Touching(w)' \subseteq Touching(w)
    BY <1>9 DEF Revoke, Touching, WindowOf, Typed, Transmission
  <2> QED
    BY <2>1, <2>2, TakenKept
<1>10. ASSUME Tick PROVE TakenIsCounted'
  <2>1. now \in Nat /\ now' = now + 1 /\ served' = served /\ req' = req
    BY <1>10 DEF Tick, Typed, history
  <2>2. \A w \in Windows : Taken(w)' = Taken(w)
    BY <2>1 DEF Taken, Touching, WindowOf
  <2>3. ASSUME NEW w \in Windows, now + 1 < Start(w) + 2 * Minute
        PROVE  Taken(w) <= counters'[w].n
    <3>1. Start(w) \in Nat
      BY StartsAreNatural
    <3>2. Taken(w) <= counters[w].n
      BY <2>1, <2>3, <3>1 DEF TakenIsCounted
    <3>3. CASE counters[w].n > 0
      <4>1. counters[w].expires # now + 1
        BY <2>1, <2>3, <3>1, <3>3 DEF CountersLast, CountersTyped
      <4> QED
        BY <1>10, <3>2, <4>1 DEF Tick
    <3>4. CASE counters[w].n = 0
      <4>1. counters'[w].n = 0
        BY <1>10, <3>4 DEF Tick, Gone
      <4> QED
        BY <3>2, <3>4, <4>1
    <3> QED
      BY <3>3, <3>4 DEF CountersTyped
  <2> QED
    BY <2>1, <2>2, <2>3 DEF TakenIsCounted, Start
<1>11. CASE UNCHANGED vars
  <2>1. served' = served /\ counters' = counters /\ now' = now /\ req' = req
    BY <1>11 DEF vars, history
  <2>2. \A w \in Windows : Touching(w)' \subseteq Touching(w)
    BY <2>1 DEF Touching, WindowOf
  <2> QED
    BY <2>1, <2>2, TakenKept
<1> QED
  BY <1>1, <1>2, <1>3, <1>4, <1>5, <1>6, <1>7, <1>8, <1>9, <1>10, <1>11
     DEF Next, Check

LEMMA RateInit == Init => RateSound
<1> SUFFICES ASSUME Init PROVE RateSound
  OBVIOUS
<1>1. CountersTyped /\ CountsInTime /\ CountersLast
  BY DEF Init, Idle, Gone, CountersTyped, CountsInTime, CountersLast
<1>2. ASSUME NEW w \in Windows
      PROVE  Taken(w) = 0 /\ counters[w].n = 0
  <2>1. Touching(w) = {}
    BY DEF Init, Idle, Touching
  <2> QED
    BY <2>1, FS_EmptySet DEF Init, Taken, Gone
<1>3. TakenIsCounted
  BY <1>2 DEF TakenIsCounted
<1> QED
  BY <1>1, <1>3 DEF RateSound

(* At most quota_per_minute requests of a key are let through in a minute,  *)
(* and every counter that counts will expire (canActivate 114-127).         *)
THEOREM AlwaysRateLimited == Spec => []RateLimited
<1>1. Init => RateSound
  BY RateInit
<1>2. GuardSound /\ RateSound /\ [Next]_vars => RateSound'
  BY CountersTypedStep, InTimeStep, LastStep, TakenStep DEF RateSound
<1>3. RateSound => RateLimited
  <2> SUFFICES ASSUME RateSound, NEW w \in Windows
               PROVE  /\ served[w] <= QuotaPerMinute
                      /\ counters[w].n > 0 => counters[w].expires # None
    BY DEF RateLimited
  <2>1. served[w] \in Nat /\ Cardinality(Touching(w)) \in Nat
    BY TouchingIsFinite DEF RateSound, CountersTyped
  <2>2. Taken(w) <= QuotaPerMinute
    BY DEF RateSound, TakenIsCounted
  <2> QED
    BY <2>1, <2>2 DEF Taken, RateSound, CountersLast
<1> QED
  BY <1>1, <1>2, <1>3, GuardSoundAlways, PTL DEF Spec
=============================================================================

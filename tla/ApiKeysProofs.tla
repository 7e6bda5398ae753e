---------------------------- MODULE ApiKeysProofs ----------------------------
(***************************************************************************)
(* Theorems about ApiKeys, for every number of agents, keys and concurrent *)
(* requests, and every limit on active keys.                               *)
(***************************************************************************)
EXTENDS ApiKeys, FiniteSetTheorems, TLAPS

USE KeysAssumption

-----------------------------------------------------------------------------
(* The inductive invariant.                                                 *)

Request == [pc : Steps, agent : Agents \cup {None},
            with : Keys \cup Challenges \cup {None}, key : Keys \cup {None}]

Typed ==
  /\ accounts \in [Agents -> Nat]
  /\ owner \in [Keys -> Agents \cup {None}]
  /\ revoked \subseteq Keys
  /\ lock \in [Agents -> Requests \cup {None}]
  /\ req \in [Requests -> Request]
  /\ \A r \in Requests : req[r].pc # "idle" =>
       req[r].agent \in Agents /\ req[r].key \in Keys

(* A request that is to issue a key has one of its own ...                  *)
Issuing == {"lookup", "insert", "lock", "count", "issue"}
KeysAreFresh ==
  \A r \in Requests : req[r].pc \in Issuing =>
    /\ owner[req[r].key] = None
    /\ \A q \in Requests \ {r} : req[q].pc \in Issuing => req[q].key # req[r].key

(* ..., holds the lock of its agent while it counts and issues, ...         *)
HoldersCount ==
  \A r \in Requests : req[r].pc \in {"count", "issue"} => lock[req[r].agent] = r

(* ... and finds the agent below the limit then: what it counted is still   *)
(* so.                                                                      *)
RoomForKey ==
  \A r \in Requests : req[r].pc = "issue" => MayIssue(req[r].agent)

(* A request that passed the guard is of an agent that has an account.      *)
SignedByAgents ==
  \A r \in Requests : req[r].pc \in {"lock", "count", "issue"} =>
    accounts[req[r].agent] # 0

KeysSound ==
  /\ Typed
  /\ KeysAreFresh
  /\ HoldersCount
  /\ RoomForKey
  /\ SignedByAgents
  /\ AccountsMatchKeys
  /\ AtMostMaxActive

-----------------------------------------------------------------------------
(* Active keys are counted.                                                 *)

LEMMA ActiveIsFinite ==
  ASSUME NEW a
  PROVE  IsFiniteSet(Active(a)) /\ Cardinality(Active(a)) \in Nat
BY FS_Subset, FS_CardinalityType DEF Active

(* A key more is one more at most; no key more, none.                       *)
LEMMA OneKeyMore ==
  ASSUME NEW S, IsFiniteSet(S), NEW T, NEW k, T \subseteq S \cup {k}
  PROVE  /\ Cardinality(T) \in Nat
         /\ Cardinality(T) <= Cardinality(S) + 1
         /\ T \subseteq S => Cardinality(T) <= Cardinality(S)
<1>1. Cardinality(S) \in Nat
  BY FS_CardinalityType
<1>2. IsFiniteSet(S \cup {k}) /\ Cardinality(S \cup {k}) <= Cardinality(S) + 1
  <2>1. CASE k \in S
    <3>1. S \cup {k} = S
      BY <2>1
    <3>2. IsFiniteSet(S \cup {k}) /\ Cardinality(S \cup {k}) = Cardinality(S)
      BY <3>1
    <3> QED
      BY <1>1, <3>2
  <2>2. CASE k \notin S
    <3>1. Cardinality(S \cup {k}) = Cardinality(S) + 1 /\ IsFiniteSet(S \cup {k})
      BY <2>2, FS_AddElement
    <3> QED
      BY <1>1, <3>1
  <2> QED
    BY <2>1, <2>2
<1>3. IsFiniteSet(T) /\ Cardinality(T) <= Cardinality(S \cup {k})
  BY <1>2, FS_Subset
<1>4. Cardinality(T) \in Nat /\ Cardinality(S \cup {k}) \in Nat
  BY <1>2, <1>3, FS_CardinalityType
<1>5. T \subseteq S => Cardinality(T) <= Cardinality(S)
  BY FS_Subset
<1> QED
  BY <1>1, <1>2, <1>3, <1>4, <1>5

-----------------------------------------------------------------------------
(* The three kinds of step a handler takes: it changes no row of api_keys,  *)
(* issues one key, or revokes one.                                          *)

Issues(a, k) ==
  /\ a \in Agents /\ k \in Keys
  /\ owner[k] = None
  /\ MayIssue(a)
  /\ owner' = [owner EXCEPT ![k] = a]
  /\ UNCHANGED revoked

Revokes(k) ==
  /\ k \in Keys
  /\ owner[k] # None /\ k \notin revoked
  /\ revoked' = revoked \cup {k}
  /\ UNCHANGED owner

KeyStep ==
  \/ UNCHANGED <<owner, revoked>>
  \/ \E a, k : Issues(a, k)
  \/ \E k : Revokes(k)

(* A new account has no key yet, and so is below the limit.                 *)
LEMMA NewAccountMayIssue ==
  ASSUME AccountsMatchKeys, NEW a \in Agents, FreshAccount(a)
  PROVE  MayIssue(a)
<1>1. \A k \in Keys : owner[k] # a
  BY DEF AccountsMatchKeys, FreshAccount
<1>2. Active(a) = {}
  BY <1>1 DEF Active
<1> QED
  BY <1>2, FS_EmptySet DEF MayIssue

LEMMA KeySteps == KeysSound /\ [Next]_vars => KeyStep
<1> SUFFICES ASSUME KeysSound, [Next]_vars PROVE KeyStep
  OBVIOUS
<1> USE DEF KeysSound
<1>1. ASSUME NEW c \in Challenges, Challenge(c) PROVE KeyStep
  BY <1>1 DEF Challenge, KeyStep
<1>2. ASSUME NEW c \in Challenges, Expire(c) PROVE KeyStep
  BY <1>2 DEF Expire, KeyStep
<1>3. ASSUME NEW r \in Requests, NEW a \in Agents, NEW c \in Challenges,
             NEW k \in Keys, RegisterCheck(r, a, c, k)
      PROVE  KeyStep
  BY <1>3 DEF RegisterCheck, KeyStep
<1>4. ASSUME NEW r \in Requests, NEW k \in Keys, NEW new \in Keys,
             CreateStart(r, k, new)
      PROVE  KeyStep
  BY <1>4 DEF CreateStart, KeyStep
<1>5. ASSUME NEW r \in Requests, NEW k \in Keys, NEW target \in Keys,
             RevokeStart(r, k, target)
      PROVE  KeyStep
  BY <1>5 DEF RevokeStart, KeyStep
<1>6. ASSUME NEW r \in Requests, CreateLock(r) PROVE KeyStep
  BY <1>6 DEF CreateLock, KeyStep
<1>7. ASSUME NEW r \in Requests, RegisterLookup(r) PROVE KeyStep
  BY <1>7 DEF RegisterLookup, KeyStep
<1>8. ASSUME NEW r \in Requests, RegisterInsert(r) PROVE KeyStep
  <2>1. CASE FreshAccount(req[r].agent)
    <3>1. req[r].agent \in Agents /\ req[r].key \in Keys /\ owner[req[r].key] = None
      BY <1>8 DEF RegisterInsert, Typed, KeysAreFresh, Issuing
    <3>2. MayIssue(req[r].agent)
      BY <2>1, <3>1, NewAccountMayIssue
    <3>3. owner' = [owner EXCEPT ![req[r].key] = req[r].agent] /\ UNCHANGED revoked
      BY <1>8, <2>1 DEF RegisterInsert, FirstKey
    <3> QED
      BY <3>1, <3>2, <3>3 DEF Issues, KeyStep
  <2>2. CASE ~ FreshAccount(req[r].agent)
    BY <1>8, <2>2 DEF RegisterInsert, KeyStep
  <2> QED
    BY <2>1, <2>2
<1>9. ASSUME NEW r \in Requests, RegisterConsume(r) PROVE KeyStep
  BY <1>9 DEF RegisterConsume, KeyStep
<1>10. ASSUME NEW r \in Requests, CreateCount(r) PROVE KeyStep
  BY <1>10 DEF CreateCount, KeyStep
<1>11. ASSUME NEW r \in Requests, CreateIssue(r) PROVE KeyStep
  <2>1. req[r].agent \in Agents /\ req[r].key \in Keys /\ owner[req[r].key] = None
    BY <1>11 DEF CreateIssue, Typed, KeysAreFresh, Issuing
  <2>2. MayIssue(req[r].agent)
    BY <1>11 DEF CreateIssue, RoomForKey
  <2> QED
    BY <1>11, <2>1, <2>2 DEF CreateIssue, Issues, KeyStep
<1>12. ASSUME NEW r \in Requests, RevokeCommit(r) PROVE KeyStep
  <2>1. CASE req[r].key \in Active(req[r].agent)
    <3>1. req[r].agent \in Agents
      BY <1>12 DEF RevokeCommit, Typed
    <3>2. Revokes(req[r].key)
      BY <1>12, <2>1, <3>1 DEF RevokeCommit, Active, Revokes
    <3> QED
      BY <3>2 DEF KeyStep
  <2>2. CASE req[r].key \notin Active(req[r].agent)
    BY <1>12, <2>2 DEF RevokeCommit, KeyStep
  <2> QED
    BY <2>1, <2>2
<1>13. ASSUME NEW r \in Requests, Abandon(r) PROVE KeyStep
  BY <1>13 DEF Abandon, KeyStep
<1>14. CASE UNCHANGED vars
  BY <1>14 DEF vars, KeyStep
<1> QED
  BY <1>1, <1>2, <1>3, <1>4, <1>5, <1>6, <1>7, <1>8, <1>9, <1>10, <1>11, <1>12,
     <1>13, <1>14 DEF Next, Proceed

-----------------------------------------------------------------------------
(* The refinement.                                                          *)

(* FiniteSets, as KeyService extends it and as ApiKeys does.                *)
LEMMA CountedAlike == \A S : Service!Cardinality(S) = Cardinality(S)
BY DEF Service!Cardinality, Cardinality

(* The steps above are the steps of the abstract service.                   *)
LEMMA StepOfTheService == KeyStep => [Service!Next]_Service!keyVars
<1> SUFFICES ASSUME KeyStep PROVE [Service!Next]_Service!keyVars
  OBVIOUS
<1>1. CASE UNCHANGED <<owner, revoked>>
  BY <1>1 DEF Service!keyVars
<1>2. ASSUME NEW a, NEW k, Issues(a, k) PROVE Service!Next
  <2>1. Active(a) = Service!KeysOf(a) \ revoked
    BY DEF Active, Service!KeysOf
  <2>2. Service!Issue(a, k)
    BY <1>2, <2>1, CountedAlike DEF Issues, MayIssue, Service!Issue
  <2> QED
    BY <1>2, <2>2 DEF Issues, Service!Next
<1>3. ASSUME NEW k, Revokes(k) PROVE Service!Next
  BY <1>3 DEF Revokes, Service!Revoke, Service!Next
<1> QED
  BY <1>1, <1>2, <1>3 DEF KeyStep

-----------------------------------------------------------------------------
(* What a step does to the numbers of active keys.                          *)

(* Only the agent that a key is issued to gets another active key, and it   *)
(* was below the limit.                                                     *)
LEMMA LimitStep == KeysSound /\ [Next]_vars => AtMostMaxActive'
<1> SUFFICES ASSUME KeysSound, [Next]_vars, NEW a \in Agents
             PROVE  Cardinality(Active(a)') <= MaxActive
  BY DEF AtMostMaxActive
<1>1. Cardinality(Active(a)) \in Nat /\ Cardinality(Active(a)) <= MaxActive
  BY ActiveIsFinite DEF KeysSound, AtMostMaxActive
<1>2. KeyStep
  BY KeySteps
<1>3. CASE UNCHANGED <<owner, revoked>>
  BY <1>1, <1>3 DEF Active
<1>4. ASSUME NEW b, NEW k, Issues(b, k)
      PROVE  Cardinality(Active(a)') <= MaxActive
  <2>1. CASE a = b
    <3>1. Active(a)' \subseteq Active(a) \cup {k}
      BY <1>4 DEF Issues, Active, KeysSound, Typed
    <3>2. Cardinality(Active(a)) < MaxActive
      BY <1>4, <2>1 DEF Issues, MayIssue
    <3>3. /\ Cardinality(Active(a)') \in Nat
          /\ Cardinality(Active(a)') <= Cardinality(Active(a)) + 1
      BY <3>1, ActiveIsFinite, OneKeyMore
    <3> QED
      BY <1>1, <3>2, <3>3
  <2>2. CASE a # b
    <3>1. Active(a)' \subseteq Active(a)
      BY <1>4, <2>2 DEF Issues, Active, KeysSound, Typed
    <3> QED
      BY <1>1, <3>1, ActiveIsFinite, FS_Subset, FS_CardinalityType
  <2> QED
    BY <2>1, <2>2
<1>5. ASSUME NEW k, Revokes(k)
      PROVE  Cardinality(Active(a)') <= MaxActive
  <2>1. Active(a)' \subseteq Active(a)
    BY <1>5 DEF Revokes, Active
  <2> QED
    BY <1>1, <2>1, ActiveIsFinite, FS_Subset, FS_CardinalityType
<1> QED
  BY <1>2, <1>3, <1>4, <1>5 DEF KeyStep

(* An agent stays below the limit unless a key is issued to it.             *)
LEMMA RoomIsKept ==
  ASSUME KeyStep, Typed, NEW a \in Agents, MayIssue(a),
         \A k \in Keys : owner'[k] = a => owner[k] = a
  PROVE  MayIssue(a)'
<1>1. Active(a)' \subseteq Active(a)
  <2>1. CASE UNCHANGED <<owner, revoked>>
    BY <2>1 DEF Active
  <2>2. ASSUME NEW b, NEW k, Issues(b, k) PROVE Active(a)' \subseteq Active(a)
    BY <2>2 DEF Issues, Active
  <2>3. ASSUME NEW k, Revokes(k) PROVE Active(a)' \subseteq Active(a)
    BY <2>3 DEF Revokes, Active
  <2> QED
    BY <2>1, <2>2, <2>3 DEF KeyStep
<1>2. /\ Cardinality(Active(a)') \in Nat
      /\ Cardinality(Active(a)) \in Nat
      /\ Cardinality(Active(a)') <= Cardinality(Active(a))
  BY <1>1, ActiveIsFinite, FS_Subset, FS_CardinalityType
<1>3. Cardinality(Active(a)) < MaxActive
  BY DEF MayIssue
<1> QED
  BY <1>2, <1>3 DEF MayIssue

-----------------------------------------------------------------------------
(* The invariant is inductive: first, what the handlers remember.           *)

LEMMA TypedStep == KeysSound /\ [Next]_vars => Typed'
<1> SUFFICES ASSUME KeysSound, [Next]_vars PROVE Typed'
  OBVIOUS
<1> USE DEF KeysSound, Typed, Request
<1>1. ASSUME NEW c \in Challenges, Challenge(c) PROVE Typed'
  BY <1>1 DEF Challenge
<1>2. ASSUME NEW c \in Challenges, Expire(c) PROVE Typed'
  BY <1>2 DEF Expire
<1>3. ASSUME NEW r \in Requests, NEW a \in Agents, NEW c \in Challenges,
             NEW k \in Keys, RegisterCheck(r, a, c, k)
      PROVE  Typed'
  BY <1>3 DEF RegisterCheck, Steps
<1>4. ASSUME NEW r \in Requests, NEW k \in Keys, NEW new \in Keys,
             CreateStart(r, k, new)
      PROVE  Typed'
  BY <1>4 DEF CreateStart, Steps
<1>5. ASSUME NEW r \in Requests, NEW k \in Keys, NEW target \in Keys,
             RevokeStart(r, k, target)
      PROVE  Typed'
  BY <1>5 DEF RevokeStart, Steps
<1>6. ASSUME NEW r \in Requests, CreateLock(r) PROVE Typed'
  BY <1>6 DEF CreateLock, Acquire, Goto, Steps
<1>7. ASSUME NEW r \in Requests, RegisterLookup(r) PROVE Typed'
  BY <1>7 DEF RegisterLookup, Goto, Answer, Idle, Steps
<1>8. ASSUME NEW r \in Requests, RegisterInsert(r) PROVE Typed'
  BY <1>8 DEF RegisterInsert, FirstKey, Goto, Answer, Idle, Steps
<1>9. ASSUME NEW r \in Requests, RegisterConsume(r) PROVE Typed'
  BY <1>9 DEF RegisterConsume, Answer, Idle, Steps
<1>10. ASSUME NEW r \in Requests, CreateCount(r) PROVE Typed'
  BY <1>10 DEF CreateCount, ReleaseLock, Goto, Answer, Idle, Steps
<1>11. ASSUME NEW r \in Requests, CreateIssue(r) PROVE Typed'
  BY <1>11 DEF CreateIssue, ReleaseLock, Answer, Idle, Steps
<1>12. ASSUME NEW r \in Requests, RevokeCommit(r) PROVE Typed'
  BY <1>12 DEF RevokeCommit, Answer, Idle, Steps
<1>13. ASSUME NEW r \in Requests, Abandon(r) PROVE Typed'
  BY <1>13 DEF Abandon, Answer, Idle, Steps
<1>14. CASE UNCHANGED vars
  BY <1>14 DEF vars
<1> QED
  BY <1>1, <1>2, <1>3, <1>4, <1>5, <1>6, <1>7, <1>8, <1>9, <1>10, <1>11, <1>12,
     <1>13, <1>14 DEF Next, Proceed

LEMMA FreshStep == KeysSound /\ [Next]_vars => KeysAreFresh'
<1> SUFFICES ASSUME KeysSound, [Next]_vars PROVE KeysAreFresh'
  OBVIOUS
<1> USE DEF KeysSound, Typed, Request, KeysAreFresh, Issuing
<1>1. ASSUME NEW c \in Challenges, Challenge(c) PROVE KeysAreFresh'
  BY <1>1 DEF Challenge
<1>2. ASSUME NEW c \in Challenges, Expire(c) PROVE KeysAreFresh'
  BY <1>2 DEF Expire
<1>3. ASSUME NEW r \in Requests, NEW a \in Agents, NEW c \in Challenges,
             NEW k \in Keys, RegisterCheck(r, a, c, k)
      PROVE  KeysAreFresh'
  BY <1>3 DEF RegisterCheck, Fresh
<1>4. ASSUME NEW r \in Requests, NEW k \in Keys, NEW new \in Keys,
             CreateStart(r, k, new)
      PROVE  KeysAreFresh'
  BY <1>4 DEF CreateStart, Fresh
<1>5. ASSUME NEW r \in Requests, NEW k \in Keys, NEW target \in Keys,
             RevokeStart(r, k, target)
      PROVE  KeysAreFresh'
  BY <1>5 DEF RevokeStart
<1>6. ASSUME NEW r \in Requests, CreateLock(r) PROVE KeysAreFresh'
  BY <1>6 DEF CreateLock, Goto
<1>7. ASSUME NEW r \in Requests, RegisterLookup(r) PROVE KeysAreFresh'
  BY <1>7 DEF RegisterLookup, Goto, Answer, Idle
<1>8. ASSUME NEW r \in Requests, RegisterInsert(r) PROVE KeysAreFresh'
  BY <1>8 DEF RegisterInsert, FirstKey, Goto, Answer, Idle
<1>9. ASSUME NEW r \in Requests, RegisterConsume(r) PROVE KeysAreFresh'
  BY <1>9 DEF RegisterConsume, Answer, Idle
<1>10. ASSUME NEW r \in Requests, CreateCount(r) PROVE KeysAreFresh'
  BY <1>10 DEF CreateCount, Goto, Answer, Idle
<1>11. ASSUME NEW r \in Requests, CreateIssue(r) PROVE KeysAreFresh'
  BY <1>11 DEF CreateIssue, Answer, Idle
<1>12. ASSUME NEW r \in Requests, RevokeCommit(r) PROVE KeysAreFresh'
  BY <1>12 DEF RevokeCommit, Answer, Idle
<1>13. ASSUME NEW r \in Requests, Abandon(r) PROVE KeysAreFresh'
  BY <1>13 DEF Abandon, Answer, Idle
<1>14. CASE UNCHANGED vars
  BY <1>14 DEF vars
<1> QED
  BY <1>1, <1>2, <1>3, <1>4, <1>5, <1>6, <1>7, <1>8, <1>9, <1>10, <1>11, <1>12,
     <1>13, <1>14 DEF Next, Proceed

(* Nobody takes a lock that is held, and a request lets go of its own only  *)
(* when it stops counting.                                                  *)
LEMMA HoldersStep == KeysSound /\ [Next]_vars => HoldersCount'
<1> SUFFICES ASSUME KeysSound, [Next]_vars PROVE HoldersCount'
  OBVIOUS
<1> USE DEF KeysSound, Typed, Request, HoldersCount
<1>1. ASSUME NEW c \in Challenges, Challenge(c) PROVE HoldersCount'
  BY <1>1 DEF Challenge
<1>2. ASSUME NEW c \in Challenges, Expire(c) PROVE HoldersCount'
  BY <1>2 DEF Expire
<1>3. ASSUME NEW r \in Requests, NEW a \in Agents, NEW c \in Challenges,
             NEW k \in Keys, RegisterCheck(r, a, c, k)
      PROVE  HoldersCount'
  BY <1>3 DEF RegisterCheck
<1>4. ASSUME NEW r \in Requests, NEW k \in Keys, NEW new \in Keys,
             CreateStart(r, k, new)
      PROVE  HoldersCount'
  BY <1>4 DEF CreateStart
<1>5. ASSUME NEW r \in Requests, NEW k \in Keys, NEW target \in Keys,
             RevokeStart(r, k, target)
      PROVE  HoldersCount'
  BY <1>5 DEF RevokeStart
<1>6. ASSUME NEW r \in Requests, CreateLock(r) PROVE HoldersCount'
  BY <1>6 DEF CreateLock, Acquire, Goto
<1>7. ASSUME NEW r \in Requests, RegisterLookup(r) PROVE HoldersCount'
  BY <1>7 DEF RegisterLookup, Goto, Answer, Idle
<1>8. ASSUME NEW r \in Requests, RegisterInsert(r) PROVE HoldersCount'
  BY <1>8 DEF RegisterInsert, Goto, Answer, Idle
<1>9. ASSUME NEW r \in Requests, RegisterConsume(r) PROVE HoldersCount'
  BY <1>9 DEF RegisterConsume, Answer, Idle
<1>10. ASSUME NEW r \in Requests, CreateCount(r) PROVE HoldersCount'
  BY <1>10 DEF CreateCount, ReleaseLock, Goto, Answer, Idle
<1>11. ASSUME NEW r \in Requests, CreateIssue(r) PROVE HoldersCount'
  BY <1>11 DEF CreateIssue, ReleaseLock, Answer, Idle
<1>12. ASSUME NEW r \in Requests, RevokeCommit(r) PROVE HoldersCount'
  BY <1>12 DEF RevokeCommit, Answer, Idle
<1>13. ASSUME NEW r \in Requests, Abandon(r) PROVE HoldersCount'
  BY <1>13 DEF Abandon, Answer, Idle
<1>14. CASE UNCHANGED vars
  BY <1>14 DEF vars
<1> QED
  BY <1>1, <1>2, <1>3, <1>4, <1>5, <1>6, <1>7, <1>8, <1>9, <1>10, <1>11, <1>12,
     <1>13, <1>14 DEF Next, Proceed

-----------------------------------------------------------------------------
(* Then, what it says of accounts and keys.                                 *)

(* An account is never deleted, and a key that signs is of one.             *)
LEMMA SignedStep == KeysSound /\ [Next]_vars => SignedByAgents'
<1> SUFFICES ASSUME KeysSound, [Next]_vars PROVE SignedByAgents'
  OBVIOUS
<1> USE DEF KeysSound, Typed, Request, SignedByAgents
<1>1. ASSUME NEW c \in Challenges, Challenge(c) PROVE SignedByAgents'
  BY <1>1 DEF Challenge
<1>2. ASSUME NEW c \in Challenges, Expire(c) PROVE SignedByAgents'
  BY <1>2 DEF Expire
<1>3. ASSUME NEW r \in Requests, NEW a \in Agents, NEW c \in Challenges,
             NEW k \in Keys, RegisterCheck(r, a, c, k)
      PROVE  SignedByAgents'
  BY <1>3 DEF RegisterCheck
<1>4. ASSUME NEW r \in Requests, NEW k \in Keys, NEW new \in Keys,
             CreateStart(r, k, new)
      PROVE  SignedByAgents'
  BY <1>4 DEF CreateStart, AccountsMatchKeys
<1>5. ASSUME NEW r \in Requests, NEW k \in Keys, NEW target \in Keys,
             RevokeStart(r, k, target)
      PROVE  SignedByAgents'
  BY <1>5 DEF RevokeStart
<1>6. ASSUME NEW r \in Requests, CreateLock(r) PROVE SignedByAgents'
  BY <1>6 DEF CreateLock, Goto
<1>7. ASSUME NEW r \in Requests, RegisterLookup(r) PROVE SignedByAgents'
  BY <1>7 DEF RegisterLookup, Goto, Answer, Idle
<1>8. ASSUME NEW r \in Requests, RegisterInsert(r) PROVE SignedByAgents'
  BY <1>8 DEF RegisterInsert, Goto, Answer, Idle
<1>9. ASSUME NEW r \in Requests, RegisterConsume(r) PROVE SignedByAgents'
  BY <1>9 DEF RegisterConsume, Answer, Idle
<1>10. ASSUME NEW r \in Requests, CreateCount(r) PROVE SignedByAgents'
  BY <1>10 DEF CreateCount, Goto, Answer, Idle
<1>11. ASSUME NEW r \in Requests, CreateIssue(r) PROVE SignedByAgents'
  BY <1>11 DEF CreateIssue, Answer, Idle
<1>12. ASSUME NEW r \in Requests, RevokeCommit(r) PROVE SignedByAgents'
  BY <1>12 DEF RevokeCommit, Answer, Idle
<1>13. ASSUME NEW r \in Requests, Abandon(r) PROVE SignedByAgents'
  BY <1>13 DEF Abandon, Answer, Idle
<1>14. CASE UNCHANGED vars
  BY <1>14 DEF vars
<1> QED
  BY <1>1, <1>2, <1>3, <1>4, <1>5, <1>6, <1>7, <1>8, <1>9, <1>10, <1>11, <1>12,
     <1>13, <1>14 DEF Next, Proceed

(* A new account has the key that is inserted with it, and a further key    *)
(* goes to an agent that has an account.                                    *)
LEMMA AccountsStep == KeysSound /\ [Next]_vars => AccountsMatchKeys'
<1> SUFFICES ASSUME KeysSound, [Next]_vars PROVE AccountsMatchKeys'
  OBVIOUS
<1> USE DEF KeysSound, Typed, Request, AccountsMatchKeys
<1>1. ASSUME NEW c \in Challenges, Challenge(c) PROVE AccountsMatchKeys'
  BY <1>1 DEF Challenge
<1>2. ASSUME NEW c \in Challenges, Expire(c) PROVE AccountsMatchKeys'
  BY <1>2 DEF Expire
<1>3. ASSUME NEW r \in Requests, NEW a \in Agents, NEW c \in Challenges,
             NEW k \in Keys, RegisterCheck(r, a, c, k)
      PROVE  AccountsMatchKeys'
  BY <1>3 DEF RegisterCheck
<1>4. ASSUME NEW r \in Requests, NEW k \in Keys, NEW new \in Keys,
             CreateStart(r, k, new)
      PROVE  AccountsMatchKeys'
  BY <1>4 DEF CreateStart
<1>5. ASSUME NEW r \in Requests, NEW k \in Keys, NEW target \in Keys,
             RevokeStart(r, k, target)
      PROVE  AccountsMatchKeys'
  BY <1>5 DEF RevokeStart
<1>6. ASSUME NEW r \in Requests, CreateLock(r) PROVE AccountsMatchKeys'
  BY <1>6 DEF CreateLock
<1>7. ASSUME NEW r \in Requests, RegisterLookup(r) PROVE AccountsMatchKeys'
  BY <1>7 DEF RegisterLookup
<1>8. ASSUME NEW r \in Requests, RegisterInsert(r) PROVE AccountsMatchKeys'
  BY <1>8 DEF RegisterInsert, FirstKey, FreshAccount, KeysAreFresh, Issuing
<1>9. ASSUME NEW r \in Requests, RegisterConsume(r) PROVE AccountsMatchKeys'
  BY <1>9 DEF RegisterConsume
<1>10. ASSUME NEW r \in Requests, CreateCount(r) PROVE AccountsMatchKeys'
  BY <1>10 DEF CreateCount
<1>11. ASSUME NEW r \in Requests, CreateIssue(r) PROVE AccountsMatchKeys'
  BY <1>11 DEF CreateIssue, SignedByAgents, KeysAreFresh, Issuing
<1>12. ASSUME NEW r \in Requests, RevokeCommit(r) PROVE AccountsMatchKeys'
  BY <1>12 DEF RevokeCommit
<1>13. ASSUME NEW r \in Requests, Abandon(r) PROVE AccountsMatchKeys'
  BY <1>13 DEF Abandon
<1>14. CASE UNCHANGED vars
  BY <1>14 DEF vars
<1> QED
  BY <1>1, <1>2, <1>3, <1>4, <1>5, <1>6, <1>7, <1>8, <1>9, <1>10, <1>11, <1>12,
     <1>13, <1>14 DEF Next, Proceed

(* Between count and issue nobody else gives the agent a key: to register   *)
(* it is too late, and to create one it takes the lock.                     *)
RoomReserved ==
  \A q \in Requests : req'[q].pc = "issue" =>
    LET a == req[q].agent IN
    /\ a \in Agents /\ req'[q].agent = a
    /\ MayIssue(a)
    /\ \A k \in Keys : owner'[k] = a => owner[k] = a

LEMMA ReservedStep == KeysSound /\ [Next]_vars => RoomReserved
<1> SUFFICES ASSUME KeysSound, [Next]_vars PROVE RoomReserved
  OBVIOUS
<1> USE DEF KeysSound, Typed, Request, RoomForKey, RoomReserved
<1>1. ASSUME NEW c \in Challenges, Challenge(c) PROVE RoomReserved
  BY <1>1 DEF Challenge
<1>2. ASSUME NEW c \in Challenges, Expire(c) PROVE RoomReserved
  BY <1>2 DEF Expire
<1>3. ASSUME NEW r \in Requests, NEW a \in Agents, NEW c \in Challenges,
             NEW k \in Keys, RegisterCheck(r, a, c, k)
      PROVE  RoomReserved
  BY <1>3 DEF RegisterCheck
<1>4. ASSUME NEW r \in Requests, NEW k \in Keys, NEW new \in Keys,
             CreateStart(r, k, new)
      PROVE  RoomReserved
  BY <1>4 DEF CreateStart
<1>5. ASSUME NEW r \in Requests, NEW k \in Keys, NEW target \in Keys,
             RevokeStart(r, k, target)
      PROVE  RoomReserved
  BY <1>5 DEF RevokeStart
<1>6. ASSUME NEW r \in Requests, CreateLock(r) PROVE RoomReserved
  BY <1>6 DEF CreateLock, Goto
<1>7. ASSUME NEW r \in Requests, RegisterLookup(r) PROVE RoomReserved
  BY <1>7 DEF RegisterLookup, Goto, Answer, Idle
<1>8. ASSUME NEW r \in Requests, RegisterInsert(r) PROVE RoomReserved
  BY <1>8 DEF RegisterInsert, Goto, Answer, Idle, FirstKey, FreshAccount, SignedByAgents
<1>9. ASSUME NEW r \in Requests, RegisterConsume(r) PROVE RoomReserved
  BY <1>9 DEF RegisterConsume, Answer, Idle
<1>10. ASSUME NEW r \in Requests, CreateCount(r) PROVE RoomReserved
  BY <1>10 DEF CreateCount, Goto, Answer, Idle
<1>11. ASSUME NEW r \in Requests, CreateIssue(r) PROVE RoomReserved
  BY <1>11 DEF CreateIssue, Answer, Idle, HoldersCount
<1>12. ASSUME NEW r \in Requests, RevokeCommit(r) PROVE RoomReserved
  BY <1>12 DEF RevokeCommit, Answer, Idle
<1>13. ASSUME NEW r \in Requests, Abandon(r) PROVE RoomReserved
  BY <1>13 DEF Abandon, Answer, Idle
<1>14. CASE UNCHANGED vars
  BY <1>14 DEF vars
<1> QED
  BY <1>1, <1>2, <1>3, <1>4, <1>5, <1>6, <1>7, <1>8, <1>9, <1>10, <1>11, <1>12,
     <1>13, <1>14 DEF Next, Proceed

LEMMA RoomStep == KeysSound /\ [Next]_vars => RoomForKey'
<1> SUFFICES ASSUME KeysSound, [Next]_vars, NEW q \in Requests, (req[q].pc = "issue")'
             PROVE  MayIssue(req[q].agent)'
  BY DEF RoomForKey
<1> DEFINE a == req[q].agent
<1>1. /\ a \in Agents /\ req'[q].agent = a
      /\ MayIssue(a)
      /\ \A k \in Keys : owner'[k] = a => owner[k] = a
  BY ReservedStep DEF RoomReserved
<1>2. ASSUME NEW b \in Agents, MayIssue(b),
             \A k \in Keys : owner'[k] = b => owner[k] = b
      PROVE  Cardinality({k \in Keys : owner'[k] = b /\ k \notin revoked'}) < MaxActive
  BY <1>2, KeySteps, RoomIsKept DEF KeysSound, MayIssue, Active
<1> QED
  BY <1>1, <1>2 DEF MayIssue, Active

-----------------------------------------------------------------------------
(* The theorems.                                                            *)

LEMMA SoundInit == Init => KeysSound
<1> SUFFICES ASSUME Init PROVE KeysSound
  OBVIOUS
<1>1. Typed
  BY DEF Init, Typed, Request, Idle, Steps
<1>2. KeysAreFresh /\ HoldersCount /\ RoomForKey /\ SignedByAgents
  BY DEF Init, Idle, KeysAreFresh, Issuing, HoldersCount, RoomForKey, SignedByAgents
<1>3. AccountsMatchKeys
  BY DEF Init, AccountsMatchKeys
<1>4. AtMostMaxActive
  <2>1. ASSUME NEW a \in Agents PROVE Active(a) = {}
    BY DEF Init, Active
  <2> QED
    BY <2>1, FS_EmptySet DEF AtMostMaxActive
<1> QED
  BY <1>1, <1>2, <1>3, <1>4 DEF KeysSound

LEMMA SoundStep == KeysSound /\ [Next]_vars => KeysSound'
BY TypedStep, FreshStep, HoldersStep, RoomStep, SignedStep, AccountsStep, LimitStep
   DEF KeysSound

(* The inductive invariant: what requests have read and rely on is true.    *)
THEOREM KeysSoundAlways == Spec => []KeysSound
<1>1. Init => KeysSound
  BY SoundInit
<1>2. KeysSound /\ [Next]_vars => KeysSound'
  BY SoundStep
<1> QED
  BY <1>1, <1>2, PTL DEF Spec

(* No agent has more active keys than the limit, however many requests      *)
(* count and insert at the same time (createKey 143-165).                   *)
THEOREM NeverTooManyKeys == Spec => []AtMostMaxActive
<1>1. KeysSound => AtMostMaxActive
  BY DEF KeysSound
<1> QED
  BY <1>1, KeysSoundAlways, PTL

(* A public key has one account, and has one exactly when it has a key      *)
(* (register 67-92).                                                        *)
THEOREM AccountsAlwaysMatchKeys == Spec => []AccountsMatchKeys
<1>1. KeysSound => AccountsMatchKeys
  BY DEF KeysSound
<1> QED
  BY <1>1, KeysSoundAlways, PTL

(* The handlers implement the abstract key service.                         *)
THEOREM KeysImplementService == Spec => ImplementsKeyService
<1>1. Init => Service!Init
  BY DEF Init, Service!Init
<1>2. KeysSound /\ [Next]_vars => [Service!Next]_Service!keyVars
  BY KeySteps, StepOfTheService
<1> QED
  BY <1>1, <1>2, KeysSoundAlways, PTL DEF Spec, ImplementsKeyService, Service!Spec
=============================================================================

---------------------------- MODULE CredentialVault ----------------------------
(***************************************************************************)
(* The browser's credential vault: pages in several tabs that share one    *)
(* vault in localStorage, the memory of each page, and the API keys that   *)
(* the service knows.  The connect page registers an agent or imports a    *)
(* backup; the keys page unlocks the vault, creates a key, switches the    *)
(* vault to it and revokes others, over a network that loses requests and  *)
(* answers and may deliver a request after the page stopped waiting.       *)
(*                                                                         *)
(* A handler that awaits is under way with what it captured when it        *)
(* started.  Each page has a flag `busy' that disables its buttons; every  *)
(* handler of the page sets it and clears it at its end, whoever set it.   *)
(* Neither the unlock form nor "Forget this browser" looks at it: the form *)
(* may be sent again while an unlock is under way, and the late one ends   *)
(* after, or amid, whatever the user did since.                            *)
(*                                                                         *)
(* Encrypting and decrypting take time, so that they have steps of their   *)
(* own, and so has the answer to a request; passwords are right, files may *)
(* be damaged.  Keys are numbered as they are issued, an agent by its      *)
(* first key; the service serves a request in one step (ApiKeys has its    *)
(* steps).                                                                 *)
(***************************************************************************)
EXTENDS Integers, FiniteSets

CONSTANTS
  Tabs,            \* tabs of one browser
  Handlers,        \* bound: handlers and lost requests under way at once
  MaxKeys,         \* bound: keys issued altogether
  MaxActive,       \* API_KEY_MAX_ACTIVE (10, at least 2)
  MaxLosses,       \* bound: requests or answers that are lost
  None

ASSUME VaultAssumption ==
  /\ {MaxKeys, MaxLosses} \subseteq Nat
  /\ MaxActive \in Nat \ {0, 1}
  /\ None \notin Nat \cup Tabs
  /\ None \notin [agent : Nat \cup {None}, key : Nat \cup {None}]

Keys == 1 .. MaxKeys

VARIABLES
  owner,           \* the agent a key was issued to, or None
  active,          \* keys that are not revoked
  vault,           \* credentials in localStorage, or None
  backups,         \* credentials in downloaded vault files
  tab,             \* the page in each tab with its memory
  handler,         \* handlers under way, each of the page in a tab; one that
                   \* no page waits for is a request that may yet arrive
  careful,         \* whether the user minded what no page checks
  losses

vars == <<owner, active, vault, backups, tab, handler, careful, losses>>
service == <<owner, active>>
storage == <<vault, backups>>
user == <<careful, losses>>

-----------------------------------------------------------------------------
Requests == {"register", "unlock", "list", "create", "revoke"}
Changing == {"register", "create", "revoke"}
Storing == {"store", "import", "save"}
Unlocking == {"decrypt", "unlock"}

(* A handler at the point where it waits: for a request, with the answer    *)
(* once there is one, or for a cipher.                                      *)
Operation(name, t, cred, target) ==
  [name |-> name, tab |-> t, cred |-> cred, target |-> target,
   answer |-> "none", keys |-> {}]
Done == Operation("idle", None, None, None)

(* A file that is no vault and no credentials.                              *)
Damaged == [agent |-> None, key |-> None]

(* A page as it is mounted: CredentialUnlock looks for the vault only then. *)
(* Three fields record what happened to a page and are read by nobody:      *)
(* keeper, that a vault was forgotten which it may write again; overtaken,  *)
(* that the vault was written behind its back; outdated, that its agent's   *)
(* keys changed behind its back or that it was unlocked once too often.     *)
Page(kind, stored) ==
  [kind |-> kind, available |-> stored # None, cred |-> None, password |-> FALSE,
   issued |-> None, list |-> {}, current |-> None, shown |-> None, busy |-> FALSE,
   keeper |-> FALSE, overtaken |-> FALSE, outdated |-> FALSE]

Init ==
  /\ owner = [k \in Keys |-> None]
  /\ active = {}
  /\ vault = None
  /\ backups = {}
  /\ tab = [t \in Tabs |-> Page("connect", None)]
  /\ handler = [h \in Handlers |-> Done]
  /\ careful = TRUE
  /\ losses = 0

KeysOf(agent) == {k \in active : owner[k] = agent}
Issued == {k \in Keys : owner[k] # None}
NextKey == Cardinality(Issued) + 1

(* Handlers of a page with one of these names, for an agent or for any.     *)
Under(t) == {h \in Handlers : handler[h].tab = t}
Holds(t, agent) == tab[t].cred # None /\ tab[t].cred.agent = agent
Awaits(t, agent, names) ==
  \E h \in Under(t) : handler[h].name \in names /\ handler[h].cred.agent = agent

-----------------------------------------------------------------------------
(* Plausible mistakes, each standing in for the definition it names.        *)

AnyKeyButNone(cred, k) == k \in KeysOf(cred.agent)           \* Revocable
VaultOnly(page) == [page EXCEPT !.shown = None]              \* Forgotten
ListLater(h, cred) == handler' = [handler EXCEPT ![h] = Done] \* Reloading
LimitIncluded(cred) ==                                       \* BelowLimit
  Cardinality(KeysOf(cred.agent)) <= MaxActive

-----------------------------------------------------------------------------
(* The service.                                                             *)

(* The guard finds the key that signs, active.                              *)
Accepted(cred) == cred.key \in active /\ owner[cred.key] = cred.agent

(* createKey counts before it issues.                                       *)
BelowLimit(cred) == Cardinality(KeysOf(cred.agent)) < MaxActive

(* revokeKey refuses the key that signs.                                    *)
Revocable(cred, k) == k \in KeysOf(cred.agent) /\ k # cred.key

Grants(op) ==
  CASE op.name = "register" -> TRUE
    [] op.name = "create" -> Accepted(op.cred) /\ BelowLimit(op.cred)
    [] op.name = "revoke" -> Accepted(op.cred) /\ Revocable(op.cred, op.target)
    [] OTHER -> Accepted(op.cred)

Issue(agent) ==
  /\ NextKey \in Keys
  /\ owner' = [owner EXCEPT ![NextKey] = agent]
  /\ active' = active \cup {NextKey}

(* What a request does, whether or not anybody waits for its answer.        *)
Does(op) ==
  \/ op.name = "register" /\ Issue(NextKey)
  \/ op.name = "create" /\ Grants(op) /\ Issue(op.cred.agent)
  \/ /\ op.name = "revoke" /\ Grants(op)
     /\ active' = active \ {op.target}
     /\ UNCHANGED owner
  \/ /\ op.name \notin Changing \/ ~ Grants(op)
     /\ UNCHANGED service

(* The answer: refused, or done with the keys it names.                     *)
Answer(op) ==
  [op EXCEPT !.answer = IF Grants(op) THEN "done" ELSE "refused",
             !.keys = IF ~ Grants(op) THEN {}
                      ELSE IF op.name \in Changing \ {"revoke"} THEN {NextKey}
                      ELSE IF op.name = "revoke" THEN {}
                      ELSE KeysOf(op.cred.agent)]

(* Pages in other tabs whose list the request makes wrong.                  *)
Outdated(op) ==
  {u \in Tabs \ {op.tab} :
     /\ op.name \in Changing \ {"register"} /\ Grants(op)
     /\ Holds(u, op.cred.agent) \/ Awaits(u, op.cred.agent, {"unlock"})}

(* Served, a request that nobody waits for is done with.                    *)
Serve(h) ==
  LET op == handler[h] IN
  /\ op.name \in Requests /\ op.answer = "none"
  /\ Does(op)
  /\ handler' = [handler EXCEPT ![h] = IF op.tab \in Tabs THEN Answer(op) ELSE Done]
  /\ tab' = [u \in Tabs |->
       [tab[u] EXCEPT !.outdated = tab[u].outdated \/ u \in Outdated(op)]]
  /\ UNCHANGED <<storage, user>>

-----------------------------------------------------------------------------
(* The pages.                                                               *)

(* The buttons that are enabled, and what becomes of a file.                *)
MayConnect(t) == tab[t].kind = "connect" /\ ~ tab[t].busy
MayImport(t) == tab[t].kind = "connect" /\ ~ tab[t].busy
MayDownload(t) == tab[t].shown # None
MayUnlock(t) == tab[t].kind = "keys" /\ tab[t].available /\ tab[t].cred = None
MayCreate(t) == tab[t].cred # None /\ ~ tab[t].busy /\ tab[t].issued = None
MayUse(t) ==
  tab[t].cred # None /\ ~ tab[t].busy /\ tab[t].issued # None /\ tab[t].password
MayRevoke(t, k) ==
  tab[t].cred # None /\ ~ tab[t].busy /\ k \in tab[t].list \ {tab[t].current}
WellFormed(file) == file # Damaged

(* A handler starts, goes on, or ends and clears the flag.                  *)
Start(h, op) == handler[h] = Done /\ handler' = [handler EXCEPT ![h] = op]
Continue(h, op) == handler' = [handler EXCEPT ![h] = op]
End(h) == handler' = [handler EXCEPT ![h] = Done]
Set(t, page) == tab' = [tab EXCEPT ![t] = page]
Busy(t) == Set(t, [tab[t] EXCEPT !.busy = TRUE])
Idle(page) == [page EXCEPT !.busy = FALSE]
Answered(h, name, answer) == handler[h].name = name /\ handler[h].answer = answer

(* A handler whose request was refused shows the error.                     *)
Refused(h) ==
  /\ handler[h].answer = "refused"
  /\ End(h)
  /\ Set(handler[h].tab, Idle(tab[handler[h].tab]))
  /\ UNCHANGED <<service, storage, user>>

(* What a user has to mind, and no page checks: a key is doomed when it is  *)
(* revoked or its revocation is under way, and no file with such a key is   *)
(* imported and the vault not switched to one; a key that a page is about   *)
(* to write to the vault is not revoked; and a page that was overtaken is   *)
(* reloaded before it switches the vault or revokes a key.                  *)
Doomed(k) ==
  \/ k \notin active
  \/ \E op \in {handler[h] : h \in Handlers} :
       op.name = "revoke" /\ op.target = k /\ Revocable(op.cred, k)
Coming(k) ==
  \E h \in Handlers :
    \/ handler[h].name \in Storing /\ handler[h].cred.key = k
    \/ handler[h].name = "register" /\ k \in handler[h].keys

(* The vault is written: other pages with the agent's credentials are       *)
(* overtaken, and so is every page that is being unlocked.                  *)
Write(t, cred, page) ==
  /\ vault' = cred
  /\ tab' = [u \in Tabs |->
       [(IF u = t THEN page ELSE tab[u]) EXCEPT !.keeper = FALSE, !.overtaken =
          \/ tab[u].overtaken
          \/ u # t /\ Holds(u, cred.agent)
          \/ \E h \in Under(u) : handler[h].name \in Unlocking]]

(* Navigating or reloading drops the page with its handlers; a request it   *)
(* waits for is lost first.                                                 *)
Open(t, kind) ==
  /\ \A h \in Under(t) : handler[h].name \notin Requests
  /\ handler' = [h \in Handlers |-> IF h \in Under(t) THEN Done ELSE handler[h]]
  /\ Set(t, Page(kind, vault))
  /\ UNCHANGED <<service, storage, user>>

(* connect: challenge and registration, ...                                 *)
Connect(t, h) ==
  /\ MayConnect(t)
  /\ Start(h, Operation("register", t, None, None))
  /\ Busy(t)
  /\ UNCHANGED <<service, storage, user>>

Registered(h) ==
  /\ Answered(h, "register", "done")
  /\ \E k \in handler[h].keys :
       Continue(h, Operation("store", handler[h].tab, [agent |-> k, key |-> k], None))
  /\ UNCHANGED <<service, storage, tab, user>>

(* ... or importBackup, which reads a file; both end by writing the vault,  *)
(* whatever it holds by then.                                               *)
Import(t, h) ==
  \E file \in backups \cup {Damaged} :
    /\ MayImport(t)
    /\ Start(h, Operation("import", t, file, None))
    /\ Busy(t)
    /\ careful' = (careful /\ (WellFormed(file) => ~ Doomed(file.key)))
    /\ UNCHANGED <<service, storage, losses>>

Keep(h) ==
  LET t == handler[h].tab  cred == handler[h].cred IN
  /\ Write(t, cred, Idle([tab[t] EXCEPT !.shown = cred]))
  /\ End(h)

Store(h) ==
  /\ handler[h].name = "store"
  /\ Keep(h)
  /\ UNCHANGED <<service, backups, user>>

Imported(h) ==
  /\ handler[h].name = "import"
  /\ \/ WellFormed(handler[h].cred) /\ Keep(h)
     \/ /\ ~ WellFormed(handler[h].cred)
        /\ End(h)
        /\ Set(handler[h].tab, Idle(tab[handler[h].tab]))
        /\ UNCHANGED vault
  /\ UNCHANGED <<service, backups, user>>

Download(t) ==
  /\ MayDownload(t)
  /\ backups' = backups \cup {tab[t].shown}
  /\ UNCHANGED <<service, vault, tab, handler, user>>

(* unlock decrypts the vault, as often as the form is sent; ...             *)
Unlock(t, h) ==
  /\ MayUnlock(t)
  /\ vault # None
  /\ Start(h, Operation("decrypt", t, vault, None))
  /\ Set(t, [tab[t] EXCEPT !.outdated = @ \/ Under(t) # {}])
  /\ UNCHANGED <<service, storage, user>>

(* ... unlocked asks for the list of keys, and the page gets list and       *)
(* credentials when it is there.                                            *)
Decrypted(h) ==
  LET op == handler[h] IN
  /\ op.name = "decrypt"
  /\ Continue(h, Operation("unlock", op.tab, op.cred, None))
  /\ Busy(op.tab)
  /\ UNCHANGED <<service, storage, user>>

Listed(page, op) == Idle([page EXCEPT !.list = op.keys, !.current = op.cred.key])

Unlocked(h) ==
  LET op == handler[h]  page == tab[op.tab] IN
  /\ Answered(h, "unlock", "done")
  /\ Set(op.tab, [Listed(page, op) EXCEPT !.cred = op.cred, !.password = TRUE])
  /\ End(h)
  /\ UNCHANGED <<service, storage, user>>

(* loadKeys, at the end of the handlers below.                              *)
Reloading(h, cred) == Continue(h, Operation("list", handler[h].tab, cred, None))

LoadKeys(h) ==
  LET op == handler[h] IN
  /\ Answered(h, "list", "done")
  /\ Set(op.tab, Listed(tab[op.tab], op))
  /\ End(h)
  /\ UNCHANGED <<service, storage, user>>

CreateKey(t, h) ==
  /\ MayCreate(t)
  /\ Start(h, Operation("create", t, tab[t].cred, None))
  /\ Busy(t)
  /\ UNCHANGED <<service, storage, user>>

Created(h) ==
  LET op == handler[h] IN
  /\ Answered(h, "create", "done")
  /\ \E k \in op.keys : Set(op.tab, [tab[op.tab] EXCEPT !.issued = k])
  /\ Reloading(h, op.cred)
  /\ UNCHANGED <<service, storage, user>>

(* useIssuedKey: encrypt, ...                                               *)
UseIssuedKey(t, h) ==
  /\ MayUse(t)
  /\ Start(h, Operation("save", t, [tab[t].cred EXCEPT !.key = tab[t].issued], None))
  /\ Busy(t)
  /\ careful' = (careful /\ ~ tab[t].overtaken /\ ~ Doomed(tab[t].issued))
  /\ UNCHANGED <<service, storage, losses>>

(* ... then write the vault and go on with the new key.                     *)
Saved(h) ==
  LET op == handler[h] IN
  /\ op.name = "save"
  /\ Write(op.tab, op.cred, [tab[op.tab] EXCEPT !.cred = op.cred, !.issued = None])
  /\ Reloading(h, op.cred)
  /\ UNCHANGED <<service, backups, user>>

(* revokeKey, for a key that the page lists and not as the current one.     *)
RevokeKey(t, k, h) ==
  /\ MayRevoke(t, k)
  /\ Start(h, Operation("revoke", t, tab[t].cred, k))
  /\ Busy(t)
  /\ careful' = (careful /\ ~ tab[t].overtaken /\ ~ Coming(k))
  /\ UNCHANGED <<service, storage, losses>>

Revoked(h) ==
  /\ Answered(h, "revoke", "done")
  /\ Reloading(h, handler[h].cred)
  /\ UNCHANGED <<service, storage, tab, user>>

(* forgetVault, whatever the page is doing.  A page that is saving or is    *)
(* about to get the credentials, and another one that is unlocked, will     *)
(* keep them.                                                               *)
Forgotten(page) ==
  [page EXCEPT !.cred = None, !.password = FALSE, !.issued = None, !.list = {},
               !.current = None, !.available = FALSE]
Keeps(u, t) ==
  \/ \E h \in Under(u) : handler[h].name \in Unlocking \cup {"save"}
  \/ u # t /\ tab[u].cred # None
ForgetVault(t) ==
  /\ tab[t].cred # None
  /\ vault' = None
  /\ tab' = [u \in Tabs |->
       [(IF u = t THEN Forgotten(tab[t]) ELSE tab[u]) EXCEPT !.keeper = Keeps(u, t)]]
  /\ UNCHANGED <<service, backups, handler, user>>

(* A request or its answer is lost: the handler shows the error and ends;   *)
(* the request never arrives, or it does, now or later.                     *)
Lose(h) ==
  LET op == handler[h] IN
  /\ op.name \in Requests /\ op.tab \in Tabs
  /\ losses < MaxLosses
  /\ losses' = losses + 1
  /\ Set(op.tab, Idle(tab[op.tab]))
  /\ \/ End(h)
     \/ /\ op.name \in Changing /\ op.answer = "none"
        /\ Continue(h, [op EXCEPT !.tab = None])
  /\ UNCHANGED <<service, storage, careful>>

-----------------------------------------------------------------------------
Next ==
  \/ \E h \in Handlers : Serve(h)
  \/ \E h \in Handlers : Refused(h)
  \/ \E t \in Tabs, kind \in {"connect", "keys"} : Open(t, kind)
  \/ \E t \in Tabs, h \in Handlers : Connect(t, h)
  \/ \E h \in Handlers : Registered(h)
  \/ \E t \in Tabs, h \in Handlers : Import(t, h)
  \/ \E h \in Handlers : Store(h)
  \/ \E h \in Handlers : Imported(h)
  \/ \E t \in Tabs : Download(t)
  \/ \E t \in Tabs, h \in Handlers : Unlock(t, h)
  \/ \E h \in Handlers : Decrypted(h)
  \/ \E h \in Handlers : Unlocked(h)
  \/ \E h \in Handlers : LoadKeys(h)
  \/ \E t \in Tabs, h \in Handlers : CreateKey(t, h)
  \/ \E h \in Handlers : Created(h)
  \/ \E t \in Tabs, h \in Handlers : UseIssuedKey(t, h)
  \/ \E h \in Handlers : Saved(h)
  \/ \E t \in Tabs, k \in Keys, h \in Handlers : RevokeKey(t, k, h)
  \/ \E h \in Handlers : Revoked(h)
  \/ \E t \in Tabs : ForgetVault(t)
  \/ \E h \in Handlers : Lose(h)

Spec == Init /\ [][Next]_vars

-----------------------------------------------------------------------------
(* Properties.                                                              *)

(* Whoever can open the vault can sign with it: it holds an active key of   *)
(* the agent it names, whatever tabs are open and however often each was    *)
(* unlocked, through lost answers, late revocations, reloads and lists that *)
(* are out of date, for a user who stores no key that is revoked, revokes   *)
(* none that is being stored, and reloads a page that was overtaken before  *)
(* going on with it; none of which the pages ask for (keys/page.tsx 49-123, *)
(* connect/page.tsx 103-124).                                               *)
VaultStaysUsable ==
  careful /\ vault # None =>
    vault.key \in active /\ owner[vault.key] = vault.agent

(* A forgotten vault comes back only by connecting or importing, or from a  *)
(* page that was saving it, was being unlocked (perhaps once more) or was   *)
(* another unlocked page when it was forgotten (keys/page.tsx 125-137).     *)
ForgottenUnlessKept ==
  [][vault = None /\ vault' # None =>
       \E h \in Handlers :
         /\ handler'[h] # handler[h]
         /\ LET page == tab[handler[h].tab] IN page.kind = "connect" \/ page.keeper
    ]_vars

(* A page with nothing under way shows the agent's active keys and signs    *)
(* with the one it marks as current, unless another page changed the        *)
(* agent's keys meanwhile, it was unlocked twice, or an answer was lost:    *)
(* every way out of a handler leaves the list right (loadKeys at 77, 94,    *)
(* 115).                                                                    *)
ListIsTheServices ==
  careful /\ losses = 0 =>
    \A t \in Tabs :
      tab[t].cred # None /\ ~ tab[t].outdated /\ Under(t) = {} =>
        /\ tab[t].list = KeysOf(tab[t].cred.agent)
        /\ tab[t].current = tab[t].cred.key

(* What the pages see of the service is what it promises: a request that    *)
(* arrives late, or again from another tab, issues no key beyond the limit  *)
(* and brings none back.                                                    *)
Service == INSTANCE KeyService WITH Agents <- Keys, revoked <- Issued \ active
ImplementsKeyService == Service!Spec
=============================================================================

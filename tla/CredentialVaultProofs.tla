------------------------ MODULE CredentialVaultProofs ------------------------
(***************************************************************************)
(* Theorems about CredentialVault, for every number of tabs, keys,         *)
(* handlers and losses, and every limit on active keys.                    *)
(***************************************************************************)
EXTENDS CredentialVault, FiniteSetTheorems, TLAPS

USE VaultAssumption DEF Keys

-----------------------------------------------------------------------------
(* The inductive invariant.                                                 *)

Cred == [agent : Keys, key : Keys]
Connecting == {"register", "store", "import"}
Signing == {"list", "create", "save", "revoke"}
OpNames == {"idle"} \cup Connecting \cup Unlocking \cup Signing
OpState ==
  [name : OpNames, tab : Tabs \cup {None}, cred : Cred \cup {None, Damaged},
   target : Keys \cup {None}, answer : {"none", "done", "refused"},
   keys : SUBSET Keys]
PageState ==
  [kind : {"connect", "keys"}, available : BOOLEAN, cred : Cred \cup {None},
   password : BOOLEAN, issued : Keys \cup {None}, list : SUBSET Keys,
   current : Keys \cup {None}, shown : Cred \cup {None}, busy : BOOLEAN,
   keeper : BOOLEAN, overtaken : BOOLEAN, outdated : BOOLEAN]

(* What a handler carries.  One that no page waits for is a request on its  *)
(* way.                                                                     *)
WellShaped(op) ==
  /\ op.name \in {"store"} \cup Unlocking \cup Signing => op.cred \in Cred
  /\ op.name = "import" => op.cred # None
  /\ op.name = "revoke" => op.target \in Keys
  /\ op.tab = None => op.name \in {"idle"} \cup Changing /\ op.answer = "none"
  /\ op.name = "idle" => op = Done
  /\ op.answer = "none" => op.keys = {}

Typed ==
  /\ owner \in [Keys -> Keys \cup {None}]
  /\ active \subseteq Keys
  /\ vault \in Cred \cup {None}
  /\ backups \subseteq Cred
  /\ tab \in [Tabs -> PageState]
  /\ handler \in [Handlers -> OpState]
  /\ careful \in BOOLEAN
  /\ losses \in Nat
  /\ \A h \in Handlers : WellShaped(handler[h])

(* Keys are issued one after the other, and agents are named by a key; what *)
(* pages and answers name was issued.                                       *)
KeysInOrder ==
  /\ \E n \in Nat : n <= MaxKeys /\ Issued = 1 .. n
  /\ active \subseteq Issued
  /\ \A k \in Issued : owner[k] \in Issued

OnlyIssued ==
  /\ \A t \in Tabs : tab[t].list \subseteq Issued
  /\ \A h \in Handlers :
       /\ handler[h].keys \subseteq Issued
       /\ handler[h].name = "revoke" => handler[h].target \in Issued

(* Which handler goes with which page; a page that was not unlocked since   *)
(* it was opened has nothing but unlocks under way.                         *)
PageShape(t) ==
  /\ tab[t].kind = "connect" => tab[t].cred = None
  /\ \A h \in Under(t) : tab[t].kind = "connect" <=> handler[h].name \in Connecting
  /\ tab[t].available /\ tab[t].cred = None /\ tab[t].kind = "keys" =>
       tab[t].issued = None /\ \A h \in Under(t) : handler[h].name \in Unlocking
PagesInShape == \A t \in Tabs : PageShape(t)

(* While there is no vault, who may write it again is a keeper.             *)
KeepersKeep ==
  vault = None =>
    \A t \in Tabs :
      tab[t].kind = "keys" /\ ~ tab[t].keeper =>
        /\ tab[t].cred = None
        /\ \A h \in Under(t) : handler[h].name \notin Unlocking \cup {"save"}

(* A page that was not overtaken has, or is about to get, the credentials   *)
(* that the vault has for its agent, ...                                    *)
Agrees(t) ==
  ~ tab[t].overtaken /\ vault # None =>
    /\ Holds(t, vault.agent) => tab[t].cred = vault
    /\ \A h \in Under(t) : handler[h].name \in Unlocking => handler[h].cred = vault

(* ... and all it does is about one agent.                                  *)
About(t, a) ==
  /\ tab[t].cred # None => tab[t].cred.agent = a
  /\ tab[t].issued # None => owner[tab[t].issued] = a
  /\ \A h \in Under(t) :
       handler[h].name \in Unlocking \cup Signing => handler[h].cred.agent = a
OneAgent(t) == ~ tab[t].overtaken => \E a \in Nat : About(t, a)
VaultAgrees == \A t \in Tabs : Agrees(t) /\ OneAgent(t)

(* New keys belong to who asked for them.                                   *)
NewKeysAreOwned ==
  \A h \in Handlers : \A k \in handler[h].keys :
    /\ handler[h].name = "register" => owner[k] = k
    /\ handler[h].name = "create" => owner[k] = handler[h].cred.agent

(* With a careful user credentials name the agent their key was issued to,  *)
(* wherever they are, ...                                                   *)
Owned(cred) == cred \in Cred => owner[cred.key] = cred.agent
AllOwned ==
  /\ Owned(vault)
  /\ \A file \in backups : Owned(file)
  /\ \A t \in Tabs : Owned(tab[t].cred) /\ Owned(tab[t].shown)
  /\ \A h \in Handlers : Owned(handler[h].cred)

(* ... and the key in the vault, or on its way there, lasts.                *)
NoneDoomed ==
  /\ vault # None => ~ Doomed(vault.key)
  /\ \A k \in Keys : Coming(k) => ~ Doomed(k)

(* A page that is not outdated does one thing at a time, and its list is    *)
(* right or will be loaded again.                                           *)
Right(t) == tab[t].list = KeysOf(tab[t].cred.agent) /\ tab[t].current = tab[t].cred.key
UnderWay(t, op) ==
  /\ op.name # "decrypt" => tab[t].busy
  /\ op.name \in Unlocking => tab[t].cred = None
  /\ op.name = "unlock" /\ op.answer = "done" =>
       Accepted(op.cred) /\ op.keys = KeysOf(op.cred.agent)
  /\ tab[t].cred # None =>
       /\ op.name \in {"create", "revoke", "list"} => op.cred = tab[t].cred
       /\ op.name \in {"create", "revoke", "save"} /\ op.answer # "done" => Right(t)
       /\ op.name = "list" /\ op.answer = "done" => op.keys = KeysOf(op.cred.agent)
       /\ op.name = "list" => op.answer # "refused"
UpToDate(t) ==
  tab[t].kind = "keys" /\ ~ tab[t].outdated =>
    /\ \A g, h \in Under(t) : g = h
    /\ \A h \in Under(t) : UnderWay(t, handler[h])
    /\ tab[t].cred # None => Accepted(tab[t].cred)
    /\ tab[t].cred # None /\ Under(t) = {} => Right(t)
NothingLost == \A h \in Handlers : handler[h].tab = None => handler[h] = Done
ListsRight == losses = 0 => NothingLost /\ (careful => \A t \in Tabs : UpToDate(t))

VaultSound ==
  /\ Typed /\ KeysInOrder /\ OnlyIssued /\ PagesInShape /\ KeepersKeep
  /\ VaultAgrees /\ NewKeysAreOwned
  /\ careful => AllOwned /\ NoneDoomed
  /\ ListsRight

-----------------------------------------------------------------------------
(* What a step does, field by field.  Each action is one of these moves.    *)

OthersGo(h) == \A g \in Handlers \ {h} : handler'[g] = handler[g]
OthersStay(t) == \A u \in Tabs \ {t} : tab'[u] = tab[u]
SameLook(t) ==
  /\ tab'[t].kind = tab[t].kind
  /\ tab'[t].available = tab[t].available
SamePast(t) ==
  /\ tab'[t].keeper = tab[t].keeper
  /\ tab'[t].overtaken = tab[t].overtaken
SameList(t) == tab'[t].list = tab[t].list /\ tab'[t].current = tab[t].current
SameKeys(t) ==
  /\ tab'[t].cred = tab[t].cred
  /\ tab'[t].issued = tab[t].issued
  /\ tab'[t].shown = tab[t].shown
SamePage(t) == SameLook(t) /\ SamePast(t) /\ SameList(t) /\ SameKeys(t)
SameBusy(t) == tab'[t].busy = tab[t].busy
SameOutdated(t) == tab'[t].outdated = tab[t].outdated
Asks(h, name, t, cred) ==
  /\ handler'[h].name = name
  /\ handler'[h].tab = t
  /\ handler'[h].cred = cred
  /\ handler'[h].answer = "none"
  /\ handler'[h].keys = {}

(* A handler starts.                                                        *)
Starts(t, h, name, cred) ==
  /\ handler[h] = Done /\ Asks(h, name, t, cred) /\ OthersGo(h)
  /\ OthersStay(t) /\ SamePage(t) /\ SameOutdated(t) /\ tab'[t].busy
  /\ UNCHANGED <<service, storage, losses>>
StartsRegister(t, h) ==
  MayConnect(t) /\ Starts(t, h, "register", None) /\ UNCHANGED careful
StartsImport(t, h, file) ==
  /\ MayImport(t) /\ Starts(t, h, "import", file)
  /\ careful' = (careful /\ (WellFormed(file) => ~ Doomed(file.key)))
StartsCreate(t, h) ==
  MayCreate(t) /\ Starts(t, h, "create", tab[t].cred) /\ UNCHANGED careful
StartsSave(t, h) ==
  /\ MayUse(t)
  /\ Starts(t, h, "save", [agent |-> tab[t].cred.agent, key |-> tab[t].issued])
  /\ careful' = (careful /\ ~ tab[t].overtaken /\ ~ Doomed(tab[t].issued))
StartsRevoke(t, k, h) ==
  /\ MayRevoke(t, k) /\ Starts(t, h, "revoke", tab[t].cred)
  /\ handler'[h].target = k
  /\ careful' = (careful /\ ~ tab[t].overtaken /\ ~ Coming(k))
StartsUnlock(t, h) ==
  /\ MayUnlock(t) /\ vault # None
  /\ handler[h] = Done /\ Asks(h, "decrypt", t, vault) /\ OthersGo(h)
  /\ OthersStay(t) /\ SamePage(t) /\ SameBusy(t)
  /\ tab'[t].outdated <=> tab[t].outdated \/ Under(t) # {}
  /\ UNCHANGED <<service, storage, user>>

(* It goes on with the page as it was, ...                                  *)
GoesOn(h, t) ==
  /\ handler[h].tab = t /\ OthersGo(h)
  /\ OthersStay(t) /\ SamePage(t) /\ SameOutdated(t)
  /\ UNCHANGED <<service, storage, user>>
Registers(h, t, k) ==
  /\ Answered(h, "register", "done") /\ k \in handler[h].keys
  /\ GoesOn(h, t) /\ Asks(h, "store", t, [agent |-> k, key |-> k]) /\ SameBusy(t)
Decrypts(h, t) ==
  /\ handler[h].name = "decrypt"
  /\ GoesOn(h, t) /\ Asks(h, "unlock", t, handler[h].cred) /\ tab'[t].busy
Revokes(h, t) ==
  /\ Answered(h, "revoke", "done")
  /\ GoesOn(h, t) /\ Asks(h, "list", t, handler[h].cred) /\ SameBusy(t)

(* ... or ends, refused, with a damaged file, or as its request is lost.    *)
Ends(h, t) ==
  /\ handler[h].tab = t /\ OthersGo(h) /\ handler'[h] = Done
  /\ OthersStay(t) /\ SamePage(t) /\ SameOutdated(t) /\ ~ tab'[t].busy
  /\ UNCHANGED <<service, storage, careful>>
Fails(h, t) == handler[h].answer = "refused" /\ Ends(h, t) /\ UNCHANGED losses
Rejects(h, t) == handler[h].name = "import" /\ Ends(h, t) /\ UNCHANGED losses
Loses(h, t) == Ends(h, t) /\ losses' = losses + 1
Abandons(h, t) ==
  /\ handler[h].tab = t /\ OthersGo(h)
  /\ handler[h].name \in Changing
  /\ Asks(h, handler[h].name, None, handler[h].cred)
  /\ handler'[h].target = handler[h].target
  /\ OthersStay(t) /\ SamePage(t) /\ SameOutdated(t) /\ ~ tab'[t].busy
  /\ UNCHANGED <<service, storage, careful>> /\ losses' = losses + 1

(* An answer is shown.                                                      *)
Shows(h, t) ==
  /\ handler[h].tab = t /\ handler'[h] = Done /\ OthersGo(h)
  /\ OthersStay(t) /\ SameLook(t) /\ SamePast(t) /\ SameOutdated(t)
  /\ tab'[t].list = handler[h].keys /\ tab'[t].current = handler[h].cred.key
  /\ tab'[t].issued = tab[t].issued /\ tab'[t].shown = tab[t].shown
  /\ ~ tab'[t].busy
  /\ UNCHANGED <<service, storage, user>>
Unlocks(h, t) ==
  Answered(h, "unlock", "done") /\ Shows(h, t) /\ tab'[t].cred = handler[h].cred
Loads(h, t) ==
  Answered(h, "list", "done") /\ Shows(h, t) /\ tab'[t].cred = tab[t].cred
Creates(h, t) ==
  /\ Answered(h, "create", "done") /\ handler[h].tab = t
  /\ Asks(h, "list", t, handler[h].cred) /\ OthersGo(h)
  /\ OthersStay(t) /\ SameLook(t) /\ SamePast(t) /\ SameList(t) /\ SameBusy(t)
  /\ SameOutdated(t)
  /\ tab'[t].cred = tab[t].cred /\ tab'[t].shown = tab[t].shown
  /\ tab'[t].issued \in handler[h].keys
  /\ UNCHANGED <<service, storage, user>>

(* The vault is written, ...                                                *)
Overtakes(h, u) ==
  /\ ~ tab'[u].keeper
  /\ tab'[u].overtaken <=>
       \/ tab[u].overtaken
       \/ u # handler[h].tab /\ Holds(u, handler[h].cred.agent)
       \/ \E g \in Under(u) : handler[g].name \in Unlocking
Writes(h, t) ==
  /\ handler[h].name \in {"store", "import"} /\ handler[h].cred \in Cred
  /\ handler[h].tab = t /\ vault' = handler[h].cred
  /\ handler'[h] = Done /\ OthersGo(h)
  /\ \A u \in Tabs :
       /\ Overtakes(h, u) /\ SameLook(u) /\ SameList(u) /\ SameOutdated(u)
       /\ tab'[u].cred = tab[u].cred /\ tab'[u].issued = tab[u].issued
       /\ tab'[u].shown = IF u = t THEN handler[h].cred ELSE tab[u].shown
       /\ u # t => SameBusy(u)
  /\ UNCHANGED <<service, backups, user>>
Saves(h, t) ==
  /\ handler[h].name = "save" /\ handler[h].tab = t /\ vault' = handler[h].cred
  /\ Asks(h, "list", t, handler[h].cred) /\ OthersGo(h)
  /\ \A u \in Tabs :
       /\ Overtakes(h, u) /\ SameLook(u) /\ SameList(u) /\ SameOutdated(u)
       /\ SameBusy(u) /\ tab'[u].shown = tab[u].shown
       /\ u # t => tab'[u].cred = tab[u].cred /\ tab'[u].issued = tab[u].issued
  /\ tab'[t].cred = handler[h].cred /\ tab'[t].issued = None
  /\ UNCHANGED <<service, backups, user>>

(* ... or forgotten, downloaded, or looked for by a new page.               *)
Forgets(t) ==
  /\ tab[t].cred # None /\ vault' = None
  /\ \A u \in Tabs :
       /\ tab'[u].kind = tab[u].kind /\ tab'[u].shown = tab[u].shown
       /\ tab'[u].overtaken = tab[u].overtaken /\ SameOutdated(u) /\ SameBusy(u)
       /\ tab'[u].keeper <=> Keeps(u, t)
       /\ u # t => SameLook(u) /\ SameKeys(u) /\ SameList(u)
  /\ tab'[t].cred = None /\ tab'[t].issued = None /\ ~ tab'[t].available
  /\ tab'[t].list = {}
  /\ UNCHANGED <<service, backups, handler, user>>
Downloads(t) ==
  /\ tab[t].shown # None /\ backups' = backups \cup {tab[t].shown}
  /\ UNCHANGED <<service, vault, tab, handler, user>>
Opens(t) ==
  /\ \A h \in Handlers : handler'[h] = IF h \in Under(t) THEN Done ELSE handler[h]
  /\ OthersStay(t)
  /\ tab'[t].cred = None /\ tab'[t].issued = None /\ tab'[t].shown = None
  /\ tab'[t].list = {} /\ ~ tab'[t].keeper /\ ~ tab'[t].overtaken
  /\ tab'[t].available <=> vault # None
  /\ UNCHANGED <<service, storage, user>>

(* The service serves a request.                                            *)
Gives(a, n) ==
  /\ n \in Keys /\ Issued = 1 .. (n - 1) /\ owner[n] = None
  /\ a = n \/ a \in Issued
  /\ a # n => Cardinality(KeysOf(a)) < MaxActive
  /\ owner' = [owner EXCEPT ![n] = a]
  /\ active' = active \cup {n}
Takes(op) ==
  /\ Accepted(op.cred) /\ Revocable(op.cred, op.target)
  /\ active' = active \ {op.target} /\ UNCHANGED owner
Replies(h, answer, keys) ==
  /\ handler[h].name \in Requests /\ handler[h].answer = "none" /\ OthersGo(h)
  /\ handler[h].tab \in Tabs =>
       /\ handler'[h].name = handler[h].name
       /\ handler'[h].tab = handler[h].tab
       /\ handler'[h].cred = handler[h].cred
       /\ handler'[h].target = handler[h].target
       /\ handler'[h].answer = answer
       /\ handler'[h].keys = keys
  /\ handler[h].tab \notin Tabs => handler'[h] = Done
  /\ \A u \in Tabs : SamePage(u) /\ SameBusy(u)
  /\ UNCHANGED <<storage, user>>
Outdates(h) ==
  \A u \in Tabs : tab'[u].outdated <=> tab[u].outdated \/
    /\ u # handler[h].tab
    /\ Holds(u, handler[h].cred.agent) \/ Awaits(u, handler[h].cred.agent, {"unlock"})
Accounts(h, n) ==
  /\ handler[h].name = "register" /\ Gives(n, n) /\ Replies(h, "done", {n})
  /\ \A u \in Tabs : SameOutdated(u)
Issues(h, n) ==
  /\ handler[h].name = "create" /\ Accepted(handler[h].cred)
  /\ Gives(handler[h].cred.agent, n) /\ Replies(h, "done", {n})
  /\ Outdates(h)
Drops(h) ==
  /\ handler[h].name = "revoke" /\ Takes(handler[h]) /\ Replies(h, "done", {})
  /\ Outdates(h)
Reads(h) ==
  /\ handler[h].name \in {"list", "unlock"} /\ Accepted(handler[h].cred)
  /\ Replies(h, "done", KeysOf(handler[h].cred.agent))
  /\ UNCHANGED service /\ \A u \in Tabs : SameOutdated(u)
Refuses(h) ==
  /\ handler[h].name \in {"list", "unlock"} => ~ Accepted(handler[h].cred)
  /\ Replies(h, "refused", {}) /\ UNCHANGED service
  /\ \A u \in Tabs : SameOutdated(u)

PageMoves(h, t) ==
  \/ StartsRegister(t, h) \/ StartsCreate(t, h) \/ StartsSave(t, h)
  \/ StartsUnlock(t, h)
  \/ \E file \in backups \cup {Damaged} : StartsImport(t, h, file)
  \/ \E k \in Keys : StartsRevoke(t, k, h)
  \/ \E k \in Keys : Registers(h, t, k)
  \/ Decrypts(h, t) \/ Revokes(h, t) \/ Fails(h, t) \/ Rejects(h, t)
  \/ Loses(h, t) \/ Abandons(h, t) \/ Unlocks(h, t) \/ Loads(h, t)
  \/ Creates(h, t) \/ Writes(h, t) \/ Saves(h, t)
ServiceMoves(h) ==
  \/ \E n \in Keys : Accounts(h, n) \/ Issues(h, n)
  \/ Drops(h) \/ Reads(h) \/ Refuses(h)
Moves ==
  \/ \E t \in Tabs, h \in Handlers : PageMoves(h, t)
  \/ \E h \in Handlers : ServiceMoves(h)
  \/ \E t \in Tabs : Forgets(t) \/ Downloads(t) \/ Opens(t)
  \/ UNCHANGED vars

-----------------------------------------------------------------------------
(* Types.                                                                   *)

LEMMA DoneTyped == Done \in OpState /\ WellShaped(Done)
BY DEF Done, Operation, OpState, OpNames, WellShaped, Unlocking, Signing, Changing

LEMMA OperationTyped ==
  ASSUME NEW name \in OpNames, NEW t \in Tabs, NEW cred \in Cred \cup {None, Damaged},
         NEW k \in Keys \cup {None}
  PROVE  /\ Operation(name, t, cred, k) \in OpState
         /\ Operation(name, t, cred, k).name = name
         /\ Operation(name, t, cred, k).tab = t
         /\ Operation(name, t, cred, k).cred = cred
         /\ Operation(name, t, cred, k).target = k
         /\ Operation(name, t, cred, k).answer = "none"
         /\ Operation(name, t, cred, k).keys = {}
BY DEF Operation, OpState

(* A page in which one field is set.                                        *)
LEMMA BusyPage ==
  ASSUME NEW p \in PageState, NEW b \in BOOLEAN
  PROVE  /\ [p EXCEPT !.busy = b] \in PageState
         /\ [p EXCEPT !.busy = b].kind = p.kind
         /\ [p EXCEPT !.busy = b].available = p.available
         /\ [p EXCEPT !.busy = b].cred = p.cred
         /\ [p EXCEPT !.busy = b].issued = p.issued
         /\ [p EXCEPT !.busy = b].list = p.list
         /\ [p EXCEPT !.busy = b].current = p.current
         /\ [p EXCEPT !.busy = b].shown = p.shown
         /\ [p EXCEPT !.busy = b].keeper = p.keeper
         /\ [p EXCEPT !.busy = b].overtaken = p.overtaken
         /\ [p EXCEPT !.busy = b].outdated = p.outdated
         /\ [p EXCEPT !.busy = b].busy = b
BY DEF PageState

LEMMA OnePage ==
  ASSUME Typed, NEW t \in Tabs, NEW p \in PageState, Set(t, p)
  PROVE  tab' \in [Tabs -> PageState] /\ tab'[t] = p /\ OthersStay(t)
BY DEF Typed, Set, OthersStay

LEMMA OneHandler ==
  ASSUME Typed, NEW h \in Handlers, NEW op \in OpState, WellShaped(op),
         handler' = [handler EXCEPT ![h] = op]
  PROVE  /\ handler' \in [Handlers -> OpState]
         /\ \A g \in Handlers : WellShaped(handler'[g])
         /\ handler'[h] = op /\ OthersGo(h)
BY DEF Typed, OthersGo

LEMMA BusySet ==
  ASSUME Typed, NEW t \in Tabs, NEW b \in BOOLEAN,
         tab' = [tab EXCEPT ![t] = [tab[t] EXCEPT !.busy = b]]
  PROVE  /\ tab' \in [Tabs -> PageState]
         /\ OthersStay(t) /\ SamePage(t) /\ SameOutdated(t) /\ tab'[t].busy = b
<1>1. tab[t] \in PageState
  BY DEF Typed
<1>2. PICK p \in PageState : p = [tab[t] EXCEPT !.busy = b]
  BY <1>1, BusyPage
<1>3. tab' \in [Tabs -> PageState] /\ tab'[t] = p /\ OthersStay(t)
  BY <1>2, OnePage DEF Set
<1> QED
  BY <1>1, <1>2, <1>3, BusyPage
     DEF SamePage, SameLook, SamePast, SameList, SameKeys, SameOutdated

(* A handler starts with the page's flag set.                               *)
LEMMA StartTyped ==
  ASSUME Typed, NEW t \in Tabs, NEW h \in Handlers,
         NEW name \in OpNames, NEW cred \in Cred \cup {None, Damaged},
         NEW k \in Keys \cup {None}, WellShaped(Operation(name, t, cred, k)),
         Start(h, Operation(name, t, cred, k)), Busy(t),
         UNCHANGED <<service, storage, losses>>, careful' \in BOOLEAN
  PROVE  Typed' /\ Starts(t, h, name, cred) /\ handler'[h].target = k
<1>1. Operation(name, t, cred, k) \in OpState
  BY OperationTyped
<1>2. /\ handler' \in [Handlers -> OpState]
      /\ \A g \in Handlers : WellShaped(handler'[g])
      /\ handler'[h] = Operation(name, t, cred, k) /\ OthersGo(h)
  BY <1>1, OneHandler DEF Start
<1>3. /\ tab' \in [Tabs -> PageState]
      /\ OthersStay(t) /\ SamePage(t) /\ SameOutdated(t) /\ tab'[t].busy = TRUE
  BY BusySet DEF Busy, Set
<1>4. Typed'
  BY <1>2, <1>3 DEF Typed, service, storage, WellShaped
<1>5. Asks(h, name, t, cred) /\ handler'[h].target = k
  BY <1>2, OperationTyped DEF Asks
<1> QED
  BY <1>2, <1>3, <1>4, <1>5 DEF Starts, Start

(* The next key is the first that nobody has.                               *)
LEMMA NextKeyIsFree ==
  ASSUME Typed, KeysInOrder, NextKey \in Keys
  PROVE  Issued = 1 .. (NextKey - 1) /\ owner[NextKey] = None
<1>1. PICK n \in Nat : n <= MaxKeys /\ Issued = 1 .. n
  BY DEF KeysInOrder
<1>2. Cardinality(1 .. n) = n
  BY <1>1, FS_Interval
<1>3. NextKey = n + 1
  BY <1>1, <1>2 DEF NextKey
<1>4. NextKey \notin Issued
  BY <1>1, <1>3
<1> QED
  BY <1>1, <1>3, <1>4 DEF Issued

(* What serving a request comes to.                                         *)
LEMMA DoesGives ==
  ASSUME Typed, KeysInOrder, NEW op \in OpState, op.name \in Requests, Does(op)
  PROVE  \/ op.name = "register" /\ Grants(op) /\ NextKey \in Keys
              /\ Gives(NextKey, NextKey)
         \/ op.name = "create" /\ Grants(op) /\ Accepted(op.cred) /\ NextKey \in Keys
              /\ Gives(op.cred.agent, NextKey)
         \/ op.name = "revoke" /\ Grants(op) /\ Takes(op)
         \/ op.name \in {"list", "unlock"} /\ Grants(op) /\ Accepted(op.cred)
              /\ UNCHANGED service
         \/ /\ op.name \in {"list", "unlock"} => ~ Accepted(op.cred)
            /\ ~ Grants(op) /\ UNCHANGED service
<1>1. CASE op.name = "register"
  <2>1. Grants(op) /\ Issue(NextKey)
    BY <1>1 DEF Grants, Does, Changing
  <2> QED
    BY <1>1, <2>1, NextKeyIsFree DEF Issue, Gives
<1>2. CASE op.name = "create" /\ Grants(op)
  <2>1. Accepted(op.cred) /\ BelowLimit(op.cred) /\ Issue(op.cred.agent)
    BY <1>2 DEF Grants, Does, Changing
  <2>2. op.cred.agent \in Issued
    BY <2>1 DEF Accepted, KeysInOrder
  <2> QED
    BY <1>2, <2>1, <2>2, NextKeyIsFree DEF Issue, Gives, BelowLimit
<1>3. CASE op.name = "revoke" /\ Grants(op)
  BY <1>3 DEF Grants, Does, Changing, Takes
<1>4. CASE op.name \in {"list", "unlock"}
  BY <1>4 DEF Grants, Does, Changing
<1>5. CASE op.name \in {"create", "revoke"} /\ ~ Grants(op)
  BY <1>5 DEF Does
<1> QED
  BY <1>1, <1>2, <1>3, <1>4, <1>5 DEF Requests

-----------------------------------------------------------------------------
(* Every action keeps the types and is one of the moves.                    *)

(* A handler ends with the page's flag cleared.                             *)
LEMMA EndTyped ==
  ASSUME Typed, NEW h \in Handlers, handler[h].tab \in Tabs, End(h),
         Set(handler[h].tab, Idle(tab[handler[h].tab])),
         UNCHANGED <<service, storage, careful>>, losses' \in Nat
  PROVE  Typed' /\ Ends(h, handler[h].tab)
<1> DEFINE t == handler[h].tab
<1>1. /\ handler' \in [Handlers -> OpState]
      /\ \A g \in Handlers : WellShaped(handler'[g])
      /\ handler'[h] = Done /\ OthersGo(h)
  BY DoneTyped, OneHandler DEF End
<1>2. /\ tab' \in [Tabs -> PageState]
      /\ OthersStay(t) /\ SamePage(t) /\ SameOutdated(t) /\ tab'[t].busy = FALSE
  BY BusySet DEF Idle, Set
<1> QED
  BY <1>1, <1>2 DEF Typed, service, storage, WellShaped, Ends

(* A handler goes on with another wait.                                     *)
LEMMA ContinueTyped ==
  ASSUME Typed, NEW h \in Handlers, NEW name \in OpNames, NEW t \in Tabs,
         NEW cred \in Cred \cup {None, Damaged}, WellShaped(Operation(name, t, cred, None)),
         Continue(h, Operation(name, t, cred, None))
  PROVE  /\ handler' \in [Handlers -> OpState]
         /\ \A g \in Handlers : WellShaped(handler'[g])
         /\ Asks(h, name, t, cred) /\ OthersGo(h)
<1>1. Operation(name, t, cred, None) \in OpState
  BY OperationTyped
<1>2. /\ handler' \in [Handlers -> OpState]
      /\ \A g \in Handlers : WellShaped(handler'[g])
      /\ handler'[h] = Operation(name, t, cred, None) /\ OthersGo(h)
  BY <1>1, OneHandler DEF Continue
<1>3. /\ Operation(name, t, cred, None).name = name
      /\ Operation(name, t, cred, None).tab = t
      /\ Operation(name, t, cred, None).cred = cred
      /\ Operation(name, t, cred, None).answer = "none"
      /\ Operation(name, t, cred, None).keys = {}
  BY DEF Operation
<1> QED
  BY <1>2, <1>3 DEF Asks

(* What the handlers are that carry credentials.                            *)
LEMMA HandlerTyped ==
  ASSUME Typed, NEW h \in Handlers
  PROVE  /\ handler[h] \in OpState /\ WellShaped(handler[h])
         /\ handler[h].tab \in Tabs \cup {None} /\ handler[h].keys \subseteq Keys
         /\ handler[h].name \in OpNames
         /\ handler[h].cred \in Cred \cup {None, Damaged}
         /\ handler[h].name \in {"store"} \cup Unlocking \cup Signing =>
              /\ handler[h].cred \in Cred
              /\ handler[h].cred.agent \in Keys /\ handler[h].cred.key \in Keys
         /\ handler[h].name \in {"decrypt", "unlock", "store", "import", "save", "list"} =>
              handler[h].tab \in Tabs
         /\ handler[h].answer # "none" => handler[h].tab \in Tabs
<1>1. handler[h] \in OpState /\ WellShaped(handler[h])
  BY DEF Typed
<1>2. handler[h].answer # "none" => handler[h].tab \in Tabs
  BY <1>1 DEF OpState, WellShaped
<1>3. handler[h].name \in {"decrypt", "unlock", "store", "import", "save", "list"} =>
              handler[h].tab \in Tabs
  BY <1>1 DEF OpState, WellShaped, Changing
<1> QED
  BY <1>1, <1>2, <1>3 DEF OpState, WellShaped, Cred

LEMMA PageTyped ==
  ASSUME Typed, NEW t \in Tabs
  PROVE  /\ tab[t] \in PageState
         /\ tab[t].cred \in Cred \cup {None} /\ tab[t].shown \in Cred \cup {None}
         /\ tab[t].cred # None =>
              tab[t].cred.agent \in Keys /\ tab[t].cred.key \in Keys
         /\ tab[t].issued \in Keys \cup {None} /\ tab[t].list \subseteq Keys
         /\ tab[t].kind \in {"connect", "keys"} /\ tab[t].busy \in BOOLEAN
         /\ tab[t].overtaken \in BOOLEAN /\ tab[t].outdated \in BOOLEAN
         /\ tab[t].keeper \in BOOLEAN /\ tab[t].available \in BOOLEAN
BY DEF Typed, PageState, Cred
LEMMA ServeMoves ==
  ASSUME Typed, KeysInOrder, NEW h \in Handlers, Serve(h)
  PROVE  Typed' /\ ServiceMoves(h)
<1> DEFINE op == handler[h]
<1>1. op \in OpState /\ WellShaped(op) /\ op.name \in Requests /\ op.answer = "none"
  BY HandlerTyped DEF Serve
<1>2. Does(op) /\ UNCHANGED <<storage, user>>
  BY DEF Serve
<1>3. tab' \in [Tabs -> PageState]
  <2>1. tab' = [u \in Tabs |->
          [tab[u] EXCEPT !.outdated = tab[u].outdated \/ u \in Outdated(op)]]
    BY DEF Serve
  <2>2. ASSUME NEW u \in Tabs
        PROVE  [tab[u] EXCEPT !.outdated = tab[u].outdated \/ u \in Outdated(op)]
                 \in PageState
    <3>1. PICK b \in BOOLEAN : b = (tab[u].outdated \/ u \in Outdated(op))
      OBVIOUS
    <3>2. [tab[u] EXCEPT !.outdated = b] \in PageState
      BY PageTyped DEF PageState
    <3> QED
      BY <3>1, <3>2
  <2> QED
    BY <2>1, <2>2
<1>4. \A u \in Tabs : SamePage(u) /\ SameBusy(u)
  BY PageTyped DEF Serve, SamePage, SameLook, SamePast, SameList, SameKeys,
     SameBusy, PageState
<1>5. \A u \in Tabs : tab'[u].outdated <=> tab[u].outdated \/ u \in Outdated(op)
  BY PageTyped DEF Serve, PageState
<1>6. KeysOf(op.cred.agent) \subseteq Keys
  BY DEF Typed, KeysOf
<1>7. /\ Answer(op).name = op.name /\ Answer(op).tab = op.tab
      /\ Answer(op).cred = op.cred /\ Answer(op).target = op.target
      /\ Answer(op).answer = IF Grants(op) THEN "done" ELSE "refused"
      /\ Answer(op).keys = IF ~ Grants(op) THEN {}
                           ELSE IF op.name \in {"register", "create"} THEN {NextKey}
                           ELSE IF op.name = "revoke" THEN {}
                           ELSE KeysOf(op.cred.agent)
  BY <1>1 DEF Answer, OpState, Changing
<1>8. op.name \in {"register", "create"} /\ Grants(op) => NextKey \in Keys
  BY <1>2 DEF Does, Issue, Changing
<1>9. Answer(op) \in OpState
  BY <1>1, <1>6, <1>8 DEF Answer, OpState, Changing
<1>10. op.tab # None => WellShaped(Answer(op))
  BY <1>1, <1>7 DEF WellShaped, Requests
<1>11. op.tab \in Tabs \/ op.tab = None
  BY <1>1 DEF OpState
<1>12. handler' = [handler EXCEPT ![h] = IF op.tab \in Tabs THEN Answer(op) ELSE Done]
  BY DEF Serve
<1>13. /\ handler' \in [Handlers -> OpState]
       /\ \A g \in Handlers : WellShaped(handler'[g])
       /\ \A answer, keys : Answer(op).answer = answer /\ Answer(op).keys = keys =>
            Replies(h, answer, keys)
  <2>1. CASE op.tab \in Tabs
    <3>1. /\ handler' \in [Handlers -> OpState]
          /\ \A g \in Handlers : WellShaped(handler'[g])
          /\ handler'[h] = Answer(op) /\ OthersGo(h)
      BY <1>9, <1>10, <1>12, <2>1, OneHandler
    <3> QED
      BY <1>1, <1>2, <1>4, <1>7, <2>1, <3>1 DEF Replies
  <2>2. CASE op.tab = None
    <3>1. /\ handler' \in [Handlers -> OpState]
          /\ \A g \in Handlers : WellShaped(handler'[g])
          /\ handler'[h] = Done /\ OthersGo(h)
      BY <1>12, <2>2, DoneTyped, OneHandler
    <3> QED
      BY <1>1, <1>2, <1>4, <2>2, <3>1 DEF Replies
  <2> QED
    BY <1>11, <2>1, <2>2
<1>14. active' \subseteq Keys /\ owner' \in [Keys -> Keys \cup {None}]
  <2>1. \A a \in Keys, n \in Keys : Gives(a, n) =>
          active' \subseteq Keys /\ owner' \in [Keys -> Keys \cup {None}]
    BY DEF Gives, Typed
  <2>2. Takes(op) \/ UNCHANGED service =>
          active' \subseteq Keys /\ owner' \in [Keys -> Keys \cup {None}]
    BY DEF Takes, Typed, service
  <2>3. Gives(op.cred.agent, NextKey) => op.cred.agent \in Keys
    BY DEF Gives, Issued
  <2> QED
    BY <1>1, <1>2, <2>1, <2>2, <2>3, DoesGives
<1>15. Typed'
  BY <1>2, <1>3, <1>13, <1>14 DEF Typed, storage, user, WellShaped
<1>16. ServiceMoves(h)
  <2>1. op.name \in {"create", "revoke"} /\ Grants(op) => Outdates(h)
    BY <1>5, <1>11 DEF Outdated, Outdates, Changing
  <2>2. op.name \notin {"create", "revoke"} \/ ~ Grants(op) =>
          \A u \in Tabs : SameOutdated(u)
    <3>1. op.name \notin {"create", "revoke"} \/ ~ Grants(op) => Outdated(op) = {}
      BY DEF Outdated, Changing
    <3> QED
      BY <1>3, <1>5, <3>1, PageTyped DEF SameOutdated, PageState
  <2>3. CASE op.name = "register" /\ Grants(op) /\ NextKey \in Keys
               /\ Gives(NextKey, NextKey)
    BY <1>7, <1>13, <2>2, <2>3 DEF ServiceMoves, Accounts
  <2>4. CASE op.name = "create" /\ Grants(op) /\ Accepted(op.cred)
               /\ NextKey \in Keys /\ Gives(op.cred.agent, NextKey)
    BY <1>7, <1>13, <2>1, <2>4 DEF ServiceMoves, Issues
  <2>5. CASE op.name = "revoke" /\ Grants(op) /\ Takes(op)
    BY <1>7, <1>13, <2>1, <2>5 DEF ServiceMoves, Drops
  <2>6. CASE op.name \in {"list", "unlock"} /\ Grants(op) /\ Accepted(op.cred)
               /\ UNCHANGED service
    BY <1>7, <1>13, <2>2, <2>6 DEF ServiceMoves, Reads
  <2>7. CASE /\ op.name \in {"list", "unlock"} => ~ Accepted(op.cred)
             /\ ~ Grants(op) /\ UNCHANGED service
    BY <1>7, <1>13, <2>2, <2>7 DEF ServiceMoves, Refuses
  <2> QED
    BY <1>1, <1>2, <2>3, <2>4, <2>5, <2>6, <2>7, DoesGives
<1> QED
  BY <1>15, <1>16

(* What a step of a page does.                                              *)
LEMMA Step ==
  ASSUME Typed, KeysInOrder, [Next]_vars
  PROVE  Typed' /\ Moves
<1> DEFINE Moved == Typed' /\ Moves
<1>n. None \in Cred \cup {None, Damaged} /\ None \in Keys \cup {None}
  OBVIOUS
<1>1. ASSUME NEW h \in Handlers, Serve(h) PROVE Moved
  BY <1>1, ServeMoves DEF Moves
<1>2. ASSUME NEW h \in Handlers, Refused(h) PROVE Moved
  <2>1. handler[h].tab \in Tabs
    BY <1>2, HandlerTyped DEF Refused
  <2>2. losses' \in Nat /\ UNCHANGED <<service, storage, careful>>
    BY <1>2 DEF Refused, user, Typed
  <2>3. Typed' /\ Ends(h, handler[h].tab)
    BY <1>2, <2>1, <2>2, EndTyped DEF Refused
  <2>4. Fails(h, handler[h].tab)
    BY <1>2, <2>3 DEF Fails, Refused, user
  <2> QED
    BY <2>1, <2>3, <2>4 DEF Moves, PageMoves
<1>3. ASSUME NEW t \in Tabs, NEW kind \in {"connect", "keys"}, Open(t, kind)
      PROVE  Moved
  <2>1. Page(kind, vault) \in PageState
    BY DEF Page, PageState
  <2>2. tab' \in [Tabs -> PageState] /\ tab'[t] = Page(kind, vault) /\ OthersStay(t)
    BY <1>3, <2>1, OnePage DEF Open
  <2>3. /\ handler' \in [Handlers -> OpState]
        /\ \A h \in Handlers : handler'[h] = IF h \in Under(t) THEN Done ELSE handler[h]
        /\ \A h \in Handlers : WellShaped(handler'[h])
    BY <1>3, DoneTyped DEF Open, Typed
  <2>4. Typed'
    BY <1>3, <2>2, <2>3 DEF Open, Typed, service, storage, user, WellShaped
  <2>5. LET p == Page(kind, vault) IN
          /\ p.cred = None /\ p.issued = None /\ p.shown = None /\ p.list = {}
          /\ ~ p.keeper /\ ~ p.overtaken /\ (p.available <=> vault # None)
    BY DEF Page
  <2>6. Opens(t)
    BY <1>3, <2>2, <2>3, <2>5 DEF Open, Opens
  <2> QED
    BY <2>4, <2>6 DEF Moves
<1>4. ASSUME NEW t \in Tabs, NEW h \in Handlers, Connect(t, h) PROVE Moved
  <2>1. WellShaped(Operation("register", t, None, None))
    BY DEF WellShaped, Operation, Unlocking, Signing, Changing
  <2>2. careful' \in BOOLEAN /\ UNCHANGED <<service, storage, losses, careful>>
    BY <1>4 DEF Connect, user, Typed
  <2>3. Typed' /\ Starts(t, h, "register", None)
    BY <1>4, <1>n, <2>1, <2>2, StartTyped DEF Connect, OpNames, Connecting
  <2>4. StartsRegister(t, h)
    BY <1>4, <2>2, <2>3 DEF Connect, StartsRegister
  <2> QED
    BY <2>3, <2>4 DEF Moves, PageMoves
<1>5. ASSUME NEW h \in Handlers, Registered(h) PROVE Moved
  <2> DEFINE t == handler[h].tab
  <2>1. t \in Tabs /\ handler[h].keys \subseteq Keys
    BY <1>5, HandlerTyped DEF Registered, Answered
  <2>2. PICK k \in handler[h].keys :
          Continue(h, Operation("store", t, [agent |-> k, key |-> k], None))
    BY <1>5 DEF Registered
  <2>3. [agent |-> k, key |-> k] \in Cred /\ k \in Keys
    BY <2>1 DEF Cred
  <2>4. WellShaped(Operation("store", t, [agent |-> k, key |-> k], None))
    BY <2>1, <2>3 DEF WellShaped, Operation, Unlocking, Signing, Changing
  <2>5. /\ handler' \in [Handlers -> OpState]
        /\ \A g \in Handlers : WellShaped(handler'[g])
        /\ Asks(h, "store", t, [agent |-> k, key |-> k]) /\ OthersGo(h)
    BY <2>1, <2>2, <2>3, <2>4, ContinueTyped DEF OpNames, Connecting
  <2>6. UNCHANGED <<service, storage, tab, user>>
    BY <1>5 DEF Registered
  <2>7. Typed'
    BY <2>5, <2>6 DEF Typed, service, storage, user, WellShaped
  <2>8. Registers(h, t, k)
    BY <1>5, <2>1, <2>5, <2>6 DEF Registered, Registers, GoesOn, OthersStay, SamePage,
       SameLook, SamePast, SameList, SameKeys, SameOutdated, SameBusy
  <2> QED
    BY <2>1, <2>3, <2>7, <2>8 DEF Moves, PageMoves
<1>6. ASSUME NEW t \in Tabs, NEW h \in Handlers, Import(t, h) PROVE Moved
  <2>1. PICK file \in backups \cup {Damaged} :
          /\ MayImport(t) /\ Start(h, Operation("import", t, file, None)) /\ Busy(t)
          /\ careful' = (careful /\ (WellFormed(file) => ~ Doomed(file.key)))
          /\ UNCHANGED <<service, storage, losses>>
    BY <1>6 DEF Import
  <2>2. file \in Cred \cup {None, Damaged} /\ file # None
    BY DEF Typed, Cred, Damaged
  <2>3. WellShaped(Operation("import", t, file, None))
    BY <2>2 DEF WellShaped, Operation, Unlocking, Signing, Changing
  <2>4. careful' \in BOOLEAN
    BY <2>1
  <2>5. Typed' /\ Starts(t, h, "import", file)
    BY <1>n, <2>1, <2>2, <2>3, <2>4, StartTyped DEF OpNames, Connecting
  <2>6. StartsImport(t, h, file)
    BY <2>1, <2>5 DEF StartsImport
  <2> QED
    BY <2>5, <2>6 DEF Moves, PageMoves
<1>7. ASSUME NEW h \in Handlers, Keep(h), handler[h].tab \in Tabs,
             handler[h].name \in {"store", "import"}, handler[h].cred \in Cred,
             UNCHANGED <<service, backups, user>>
      PROVE  Moved
  <2> DEFINE t == handler[h].tab
             cred == handler[h].cred
             page == Idle([tab[t] EXCEPT !.shown = cred])
             over(u) == \/ tab[u].overtaken
                        \/ u # t /\ Holds(u, cred.agent)
                        \/ \E g \in Under(u) : handler[g].name \in Unlocking
  <2>1. handler'[h] = Done /\ OthersGo(h) /\ handler' \in [Handlers -> OpState]
          /\ \A g \in Handlers : WellShaped(handler'[g])
    BY <1>7, DoneTyped, OneHandler DEF Keep, End
  <2>2. vault' = cred /\ tab' = [u \in Tabs |->
          [(IF u = t THEN page ELSE tab[u]) EXCEPT !.keeper = FALSE, !.overtaken = over(u)]]
    BY <1>7 DEF Keep, Write
  <2>3. page \in PageState /\ page = [tab[t] EXCEPT !.shown = cred, !.busy = FALSE]
    BY <1>7, PageTyped DEF PageState, Idle
  <2>4. \A u \in Tabs : over(u) \in BOOLEAN
    BY PageTyped
  <2>5. tab' \in [Tabs -> PageState]
    <3>1. ASSUME NEW p \in PageState, NEW b \in BOOLEAN
          PROVE  [p EXCEPT !.keeper = FALSE, !.overtaken = b] \in PageState
      BY DEF PageState
    <3>2. \A u \in Tabs : (IF u = t THEN page ELSE tab[u]) \in PageState
      BY <2>3, PageTyped
    <3> HIDE DEF over, page
    <3> QED
      BY <2>2, <2>4, <3>1, <3>2
  <2>6. \A u \in Tabs :
          /\ Overtakes(h, u) /\ SameLook(u) /\ SameList(u) /\ SameOutdated(u)
          /\ tab'[u].cred = tab[u].cred /\ tab'[u].issued = tab[u].issued
          /\ tab'[u].shown = IF u = t THEN cred ELSE tab[u].shown
          /\ u # t => SameBusy(u)
    <3> SUFFICES ASSUME NEW u \in Tabs
                 PROVE
          /\ Overtakes(h, u) /\ SameLook(u) /\ SameList(u) /\ SameOutdated(u)
          /\ tab'[u].cred = tab[u].cred /\ tab'[u].issued = tab[u].issued
          /\ tab'[u].shown = IF u = t THEN cred ELSE tab[u].shown
          /\ u # t => SameBusy(u)
      OBVIOUS
    <3>1. PICK b \in BOOLEAN : b = over(u)
      BY <2>4
    <3>2. CASE u = t
      <4>1. tab'[u] = [tab[t] EXCEPT !.shown = cred, !.busy = FALSE, !.keeper = FALSE,
                                     !.overtaken = b]
        BY <2>2, <2>3, <3>1, <3>2, PageTyped DEF PageState
      <4> QED
        BY <3>1, <3>2, <4>1, PageTyped
           DEF PageState, Overtakes, SameLook, SameList, SameOutdated
    <3>3. CASE u # t
      <4>1. tab'[u] = [tab[u] EXCEPT !.keeper = FALSE, !.overtaken = b]
        BY <2>2, <3>1, <3>3
      <4> QED
        BY <3>1, <3>3, <4>1, PageTyped
           DEF PageState, Overtakes, SameLook, SameList, SameOutdated, SameBusy
    <3> QED
      BY <3>2, <3>3
  <2>7. Typed'
    BY <1>7, <2>1, <2>2, <2>5 DEF Typed, service, user, WellShaped
  <2>8. Writes(h, t)
    BY <1>7, <2>1, <2>2, <2>6 DEF Writes
  <2> QED
    BY <1>7, <2>7, <2>8 DEF Moves, PageMoves
<1>8. ASSUME NEW h \in Handlers, Store(h) PROVE Moved
  BY <1>7, <1>8, HandlerTyped DEF Store
<1>9. ASSUME NEW h \in Handlers, Imported(h) PROVE Moved
  <2>1. handler[h].tab \in Tabs /\ handler[h].cred \in Cred \cup {Damaged}
    BY <1>9, HandlerTyped DEF Imported, WellShaped
  <2>2. CASE WellFormed(handler[h].cred) /\ Keep(h)
    BY <1>7, <1>9, <2>1, <2>2 DEF Imported, WellFormed
  <2>3. CASE /\ End(h) /\ Set(handler[h].tab, Idle(tab[handler[h].tab]))
             /\ UNCHANGED vault
    <3>1. losses' \in Nat /\ UNCHANGED <<service, storage, careful, losses>>
      BY <1>9, <2>3 DEF Imported, user, storage, Typed
    <3>2. Typed' /\ Ends(h, handler[h].tab)
      BY <2>1, <2>3, <3>1, EndTyped
    <3>3. Rejects(h, handler[h].tab)
      BY <1>9, <3>1, <3>2 DEF Imported, Rejects
    <3> QED
      BY <2>1, <3>2, <3>3 DEF Moves, PageMoves
  <2> QED
    BY <1>9, <2>2, <2>3 DEF Imported
<1>10. ASSUME NEW t \in Tabs, Download(t) PROVE Moved
  <2>1. Typed'
    BY <1>10, PageTyped DEF Download, MayDownload, Typed, service, user, WellShaped
  <2>2. Downloads(t)
    BY <1>10 DEF Download, MayDownload, Downloads
  <2> QED
    BY <2>1, <2>2 DEF Moves
<1>11. ASSUME NEW t \in Tabs, NEW h \in Handlers, Unlock(t, h) PROVE Moved
  <2>1. vault \in Cred /\ "decrypt" \in OpNames
    BY <1>11 DEF Unlock, Typed, OpNames, Unlocking
  <2>2. WellShaped(Operation("decrypt", t, vault, None))
    BY <2>1 DEF WellShaped, Operation, Unlocking, Signing, Changing
  <2>3. /\ handler' \in [Handlers -> OpState]
        /\ \A g \in Handlers : WellShaped(handler'[g])
        /\ Asks(h, "decrypt", t, vault) /\ OthersGo(h)
    BY <1>11, <2>1, <2>2, ContinueTyped DEF Unlock, Start, Continue
  <2>4. PICK b \in BOOLEAN : b = (tab[t].outdated \/ Under(t) # {})
    OBVIOUS
  <2>5. Set(t, [tab[t] EXCEPT !.outdated = b])
    BY <1>11, <2>4 DEF Unlock
  <2>6. [tab[t] EXCEPT !.outdated = b] \in PageState
    BY PageTyped DEF PageState
  <2>7. tab' \in [Tabs -> PageState] /\ tab'[t] = [tab[t] EXCEPT !.outdated = b]
          /\ OthersStay(t)
    BY <2>5, <2>6, OnePage
  <2>8. SamePage(t) /\ SameBusy(t) /\ tab'[t].outdated = b
    BY <2>7, PageTyped DEF PageState, SamePage, SameLook, SamePast, SameList, SameKeys,
       SameBusy
  <2>9. UNCHANGED <<service, storage, user>>
    BY <1>11 DEF Unlock
  <2>10. Typed'
    BY <2>3, <2>7, <2>9 DEF Typed, service, storage, user, WellShaped
  <2>11. StartsUnlock(t, h)
    BY <1>11, <2>3, <2>4, <2>7, <2>8, <2>9 DEF StartsUnlock, Unlock, Start
  <2> QED
    BY <2>10, <2>11 DEF Moves, PageMoves
<1>12. ASSUME NEW h \in Handlers, Decrypted(h) PROVE Moved
  <2> DEFINE t == handler[h].tab
  <2>1. t \in Tabs /\ handler[h].cred \in Cred /\ "unlock" \in OpNames
    BY <1>12, HandlerTyped DEF Decrypted, OpNames, Unlocking
  <2>2. WellShaped(Operation("unlock", t, handler[h].cred, None))
    BY <2>1 DEF WellShaped, Operation, Unlocking, Signing, Changing
  <2>3. /\ handler' \in [Handlers -> OpState]
        /\ \A g \in Handlers : WellShaped(handler'[g])
        /\ Asks(h, "unlock", t, handler[h].cred) /\ OthersGo(h)
    BY <1>12, <2>1, <2>2, ContinueTyped DEF Decrypted
  <2>4. /\ tab' \in [Tabs -> PageState]
        /\ OthersStay(t) /\ SamePage(t) /\ SameOutdated(t) /\ tab'[t].busy = TRUE
    BY <1>12, <2>1, BusySet DEF Decrypted, Busy, Set
  <2>5. UNCHANGED <<service, storage, user>>
    BY <1>12 DEF Decrypted
  <2>6. Typed'
    BY <2>3, <2>4, <2>5 DEF Typed, service, storage, user, WellShaped
  <2>7. Decrypts(h, t)
    BY <1>12, <2>3, <2>4, <2>5 DEF Decrypted, Decrypts, GoesOn
  <2> QED
    BY <2>1, <2>6, <2>7 DEF Moves, PageMoves
<1>13. ASSUME NEW h \in Handlers, handler[h].tab \in Tabs, End(h),
              handler[h].cred \in Cred,
              NEW cred \in Cred \cup {None}, NEW password \in BOOLEAN,
              tab' = [tab EXCEPT ![handler[h].tab] =
                [Listed(tab[handler[h].tab], handler[h])
                   EXCEPT !.cred = cred, !.password = password]],
              UNCHANGED <<service, storage, user>>
       PROVE  Typed' /\ Shows(h, handler[h].tab) /\ tab'[handler[h].tab].cred = cred
  <2> DEFINE t == handler[h].tab
             page == [tab[t] EXCEPT !.list = handler[h].keys,
                        !.current = handler[h].cred.key, !.busy = FALSE,
                        !.cred = cred, !.password = password]
  <2>1. handler'[h] = Done /\ OthersGo(h) /\ handler' \in [Handlers -> OpState]
          /\ \A g \in Handlers : WellShaped(handler'[g])
    BY <1>13, DoneTyped, OneHandler DEF End
  <2>2. page \in PageState
    <3>1. handler[h].keys \subseteq Keys /\ handler[h].cred.key \in Keys
      BY <1>13, HandlerTyped DEF Cred
    <3>2. tab[t] \in PageState
      BY <1>13, PageTyped
    <3> QED
      BY <1>13, <3>1, <3>2 DEF PageState
  <2>3. [Listed(tab[t], handler[h]) EXCEPT !.cred = cred, !.password = password] = page
    BY PageTyped, <1>13 DEF PageState, Listed, Idle
  <2>4. tab' \in [Tabs -> PageState] /\ tab'[t] = page /\ OthersStay(t)
    BY <1>13, <2>2, <2>3, OnePage DEF Set
  <2>5. /\ page.kind = tab[t].kind /\ page.available = tab[t].available
        /\ page.keeper = tab[t].keeper /\ page.overtaken = tab[t].overtaken
        /\ page.outdated = tab[t].outdated /\ page.list = handler[h].keys
        /\ page.current = handler[h].cred.key /\ page.issued = tab[t].issued
        /\ page.shown = tab[t].shown /\ ~ page.busy /\ page.cred = cred
    BY <1>13, PageTyped DEF PageState
  <2>6. Typed'
    BY <1>13, <2>1, <2>4 DEF Typed, service, storage, user, WellShaped
  <2>7. Shows(h, t)
    BY <1>13, <2>1, <2>4, <2>5 DEF Shows, SameLook, SamePast, SameOutdated
  <2> QED
    BY <2>4, <2>5, <2>6, <2>7
<1>14. ASSUME NEW h \in Handlers, Unlocked(h) PROVE Moved
  <2>1. handler[h].tab \in Tabs /\ handler[h].cred \in Cred
    BY <1>14, HandlerTyped DEF Unlocked, Answered, Unlocking
  <2>2. Typed' /\ Shows(h, handler[h].tab)
          /\ tab'[handler[h].tab].cred = handler[h].cred
    BY <1>13, <1>14, <2>1 DEF Unlocked, Set
  <2>3. Unlocks(h, handler[h].tab)
    BY <1>14, <2>2 DEF Unlocked, Unlocks
  <2> QED
    BY <2>1, <2>2, <2>3 DEF Moves, PageMoves
<1>15. ASSUME NEW h \in Handlers, LoadKeys(h) PROVE Moved
  <2> DEFINE t == handler[h].tab
  <2>1. t \in Tabs /\ handler[h].cred \in Cred
    BY <1>15, HandlerTyped DEF LoadKeys, Answered, Signing
  <2>2. tab[t].cred \in Cred \cup {None} /\ tab[t].password \in BOOLEAN
    BY <2>1, PageTyped DEF PageState
  <2>3. Listed(tab[t], handler[h]) =
          [Listed(tab[t], handler[h]) EXCEPT !.cred = tab[t].cred,
                                             !.password = tab[t].password]
    BY <2>1, PageTyped DEF PageState, Listed, Idle
  <2>4. tab' = [tab EXCEPT ![t] =
          [Listed(tab[t], handler[h]) EXCEPT !.cred = tab[t].cred,
                                             !.password = tab[t].password]]
    BY <1>15, <2>3 DEF LoadKeys, Set
  <2>5. Typed' /\ Shows(h, t) /\ tab'[t].cred = tab[t].cred
    BY <1>13, <1>15, <2>1, <2>2, <2>4 DEF LoadKeys
  <2>6. Loads(h, t)
    BY <1>15, <2>5 DEF LoadKeys, Loads
  <2> QED
    BY <2>1, <2>5, <2>6 DEF Moves, PageMoves
<1>16. ASSUME NEW t \in Tabs, NEW h \in Handlers, CreateKey(t, h) PROVE Moved
  <2>1. tab[t].cred \in Cred /\ "create" \in OpNames
    BY <1>16, PageTyped DEF CreateKey, MayCreate, OpNames, Signing
  <2>2. WellShaped(Operation("create", t, tab[t].cred, None))
    BY <2>1 DEF WellShaped, Operation, Unlocking, Signing, Changing
  <2>3. careful' \in BOOLEAN /\ UNCHANGED <<service, storage, losses, careful>>
    BY <1>16 DEF CreateKey, user, Typed
  <2>4. Typed' /\ Starts(t, h, "create", tab[t].cred)
    <3>1. Start(h, Operation("create", t, tab[t].cred, None)) /\ Busy(t)
      BY <1>16 DEF CreateKey
    <3>2. PICK cred \in Cred \cup {None, Damaged} : cred = tab[t].cred
      BY <2>1
    <3>3. PICK k \in Keys \cup {None} : k = None
      OBVIOUS
    <3>4. Typed' /\ Starts(t, h, "create", cred)
      BY <2>1, <2>2, <2>3, <3>1, <3>2, <3>3, StartTyped
    <3> QED
      BY <3>2, <3>4
  <2>5. StartsCreate(t, h)
    BY <1>16, <2>3, <2>4 DEF CreateKey, StartsCreate
  <2> QED
    BY <2>4, <2>5 DEF Moves, PageMoves
<1>17. ASSUME NEW h \in Handlers, Created(h) PROVE Moved
  <2> DEFINE t == handler[h].tab
  <2>1. /\ t \in Tabs /\ handler[h].cred \in Cred /\ handler[h].keys \subseteq Keys
        /\ "list" \in OpNames
    BY <1>17, HandlerTyped DEF Created, Answered, Signing, OpNames
  <2>2. PICK k \in handler[h].keys : Set(t, [tab[t] EXCEPT !.issued = k])
    BY <1>17 DEF Created
  <2>3. WellShaped(Operation("list", t, handler[h].cred, None))
    BY <2>1 DEF WellShaped, Operation, Unlocking, Signing, Changing
  <2>4. /\ handler' \in [Handlers -> OpState]
        /\ \A g \in Handlers : WellShaped(handler'[g])
        /\ Asks(h, "list", t, handler[h].cred) /\ OthersGo(h)
    BY <1>17, <2>1, <2>3, ContinueTyped DEF Created, Reloading
  <2>5. [tab[t] EXCEPT !.issued = k] \in PageState
    BY <2>1, PageTyped DEF PageState
  <2>6. tab' \in [Tabs -> PageState] /\ OthersStay(t)
          /\ tab'[t] = [tab[t] EXCEPT !.issued = k]
    BY <2>1, <2>2, <2>5, OnePage
  <2>7. UNCHANGED <<service, storage, user>>
    BY <1>17 DEF Created
  <2>8. Typed'
    BY <2>4, <2>6, <2>7 DEF Typed, service, storage, user, WellShaped
  <2>9. Creates(h, t)
    BY <1>17, <2>1, <2>4, <2>6, <2>7, PageTyped
       DEF Created, Creates, PageState, SameLook, SamePast, SameList, SameBusy,
           SameOutdated
  <2> QED
    BY <2>1, <2>8, <2>9 DEF Moves, PageMoves
<1>18. ASSUME NEW t \in Tabs, NEW h \in Handlers, UseIssuedKey(t, h) PROVE Moved
  <2> DEFINE cred == [tab[t].cred EXCEPT !.key = tab[t].issued]
  <2>1. /\ cred \in Cred /\ "save" \in OpNames
        /\ cred = [agent |-> tab[t].cred.agent, key |-> tab[t].issued]
    <3>1. tab[t].cred \in Cred /\ tab[t].issued \in Keys
      BY <1>18, PageTyped DEF UseIssuedKey, MayUse
    <3> QED
      BY <3>1 DEF OpNames, Signing, Cred
  <2>2. WellShaped(Operation("save", t, cred, None))
    BY <2>1 DEF WellShaped, Operation, Unlocking, Signing, Changing
  <2>3. careful' = (careful /\ ~ tab[t].overtaken /\ ~ Doomed(tab[t].issued))
          /\ UNCHANGED <<service, storage, losses>>
    BY <1>18 DEF UseIssuedKey
  <2>4. careful' \in BOOLEAN
    BY <2>3
  <2>5. Typed' /\ Starts(t, h, "save", cred)
    BY <1>n, <1>18, <2>1, <2>2, <2>3, <2>4, StartTyped DEF UseIssuedKey
  <2>6. StartsSave(t, h)
    BY <1>18, <2>1, <2>3, <2>5 DEF UseIssuedKey, StartsSave
  <2> QED
    BY <2>5, <2>6 DEF Moves, PageMoves
<1>19. ASSUME NEW h \in Handlers, Saved(h) PROVE Moved
  <2> DEFINE t == handler[h].tab
             cred == handler[h].cred
             page == [tab[t] EXCEPT !.cred = cred, !.issued = None]
             over(u) == \/ tab[u].overtaken
                        \/ u # t /\ Holds(u, cred.agent)
                        \/ \E g \in Under(u) : handler[g].name \in Unlocking
  <2>1. t \in Tabs /\ cred \in Cred /\ "list" \in OpNames
    BY <1>19, HandlerTyped DEF Saved, Signing, OpNames
  <2>2. WellShaped(Operation("list", t, cred, None))
    BY <2>1 DEF WellShaped, Operation, Unlocking, Signing, Changing
  <2>3. /\ handler' \in [Handlers -> OpState]
        /\ \A g \in Handlers : WellShaped(handler'[g])
        /\ Asks(h, "list", t, cred) /\ OthersGo(h)
    BY <1>19, <2>1, <2>2, ContinueTyped DEF Saved, Reloading
  <2>4. vault' = cred /\ tab' = [u \in Tabs |->
          [(IF u = t THEN page ELSE tab[u]) EXCEPT !.keeper = FALSE, !.overtaken = over(u)]]
    BY <1>19 DEF Saved, Write
  <2>5. page \in PageState
    BY <2>1, PageTyped DEF PageState
  <2>6. \A u \in Tabs : over(u) \in BOOLEAN
    BY PageTyped
  <2>7. tab' \in [Tabs -> PageState]
    <3>1. ASSUME NEW p \in PageState, NEW b \in BOOLEAN
          PROVE  [p EXCEPT !.keeper = FALSE, !.overtaken = b] \in PageState
      BY DEF PageState
    <3>2. \A u \in Tabs : (IF u = t THEN page ELSE tab[u]) \in PageState
      BY <2>5, PageTyped
    <3> HIDE DEF over, page
    <3> QED
      BY <2>4, <2>6, <3>1, <3>2
  <2>8. ASSUME NEW u \in Tabs
        PROVE  /\ Overtakes(h, u) /\ SameLook(u) /\ SameList(u) /\ SameOutdated(u)
               /\ SameBusy(u) /\ tab'[u].shown = tab[u].shown
               /\ u # t => tab'[u].cred = tab[u].cred /\ tab'[u].issued = tab[u].issued
               /\ u = t => tab'[u].cred = cred /\ tab'[u].issued = None
    <3>1. PICK b \in BOOLEAN : b = over(u)
      BY <2>6
    <3>2. CASE u = t
      <4>1. tab'[u] = [tab[t] EXCEPT !.cred = cred, !.issued = None, !.keeper = FALSE,
                                     !.overtaken = b]
        BY <2>4, <3>1, <3>2, PageTyped DEF PageState
      <4> QED
        BY <3>1, <3>2, <4>1, PageTyped
           DEF PageState, Overtakes, SameLook, SameList, SameOutdated, SameBusy
    <3>3. CASE u # t
      <4>1. tab'[u] = [tab[u] EXCEPT !.keeper = FALSE, !.overtaken = b]
        BY <2>4, <3>1, <3>3
      <4> QED
        BY <3>1, <3>3, <4>1, PageTyped
           DEF PageState, Overtakes, SameLook, SameList, SameOutdated, SameBusy
    <3> QED
      BY <3>2, <3>3
  <2>9. Typed'
    BY <1>19, <2>1, <2>3, <2>4, <2>7 DEF Saved, Typed, service, user, WellShaped
  <2>10. Saves(h, t)
    BY <1>19, <2>1, <2>3, <2>4, <2>8 DEF Saved, Saves
  <2> QED
    BY <2>1, <2>9, <2>10 DEF Moves, PageMoves
<1>20. ASSUME NEW t \in Tabs, NEW k \in Keys, NEW h \in Handlers, RevokeKey(t, k, h)
       PROVE  Moved
  <2>1. tab[t].cred \in Cred /\ "revoke" \in OpNames
    BY <1>20, PageTyped DEF RevokeKey, MayRevoke, OpNames, Signing
  <2>2. WellShaped(Operation("revoke", t, tab[t].cred, k))
    BY <2>1 DEF WellShaped, Operation, Unlocking, Signing, Changing
  <2>3. careful' = (careful /\ ~ tab[t].overtaken /\ ~ Coming(k))
          /\ UNCHANGED <<service, storage, losses>>
    BY <1>20 DEF RevokeKey
  <2>4. careful' \in BOOLEAN
    BY <2>3
  <2>5. Typed' /\ Starts(t, h, "revoke", tab[t].cred) /\ handler'[h].target = k
    BY <1>20, <2>1, <2>2, <2>3, <2>4, StartTyped DEF RevokeKey
  <2>6. StartsRevoke(t, k, h)
    BY <1>20, <2>3, <2>5 DEF RevokeKey, StartsRevoke
  <2> QED
    BY <2>5, <2>6 DEF Moves, PageMoves
<1>21. ASSUME NEW h \in Handlers, Revoked(h) PROVE Moved
  <2> DEFINE t == handler[h].tab
  <2>1. t \in Tabs /\ handler[h].cred \in Cred /\ "list" \in OpNames
    BY <1>21, HandlerTyped DEF Revoked, Answered, Signing, OpNames
  <2>2. WellShaped(Operation("list", t, handler[h].cred, None))
    BY <2>1 DEF WellShaped, Operation, Unlocking, Signing, Changing
  <2>3. /\ handler' \in [Handlers -> OpState]
        /\ \A g \in Handlers : WellShaped(handler'[g])
        /\ Asks(h, "list", t, handler[h].cred) /\ OthersGo(h)
    BY <1>21, <2>1, <2>2, ContinueTyped DEF Revoked, Reloading
  <2>4. UNCHANGED <<service, storage, tab, user>>
    BY <1>21 DEF Revoked
  <2>5. Typed'
    BY <2>3, <2>4 DEF Typed, service, storage, user, WellShaped
  <2>6. Revokes(h, t)
    BY <1>21, <2>1, <2>3, <2>4 DEF Revoked, Revokes, GoesOn, OthersStay, SamePage,
       SameLook, SamePast, SameList, SameKeys, SameOutdated, SameBusy
  <2> QED
    BY <2>1, <2>5, <2>6 DEF Moves, PageMoves
<1>22. ASSUME NEW t \in Tabs, ForgetVault(t) PROVE Moved
  <2>1. tab' = [u \in Tabs |->
          [(IF u = t THEN Forgotten(tab[t]) ELSE tab[u]) EXCEPT !.keeper = Keeps(u, t)]]
    BY <1>22 DEF ForgetVault
  <2>2. Forgotten(tab[t]) \in PageState
    BY PageTyped DEF PageState, Forgotten
  <2>3. \A u \in Tabs : Keeps(u, t) \in BOOLEAN
    BY DEF Keeps
  <2>4. tab' \in [Tabs -> PageState]
    <3>1. ASSUME NEW p \in PageState, NEW b \in BOOLEAN
          PROVE  [p EXCEPT !.keeper = b] \in PageState
      BY DEF PageState
    <3>2. \A u \in Tabs : (IF u = t THEN Forgotten(tab[t]) ELSE tab[u]) \in PageState
      BY <2>2, PageTyped
    <3> QED
      BY <2>1, <2>3, <3>1, <3>2
  <2>5. ASSUME NEW u \in Tabs
        PROVE  /\ tab'[u].kind = tab[u].kind /\ tab'[u].shown = tab[u].shown
               /\ tab'[u].overtaken = tab[u].overtaken /\ SameOutdated(u) /\ SameBusy(u)
               /\ tab'[u].keeper <=> Keeps(u, t)
               /\ u # t => SameLook(u) /\ SameKeys(u) /\ SameList(u)
               /\ u = t => /\ tab'[t].cred = None /\ tab'[t].issued = None
                           /\ ~ tab'[t].available /\ tab'[t].list = {}
    <3>1. PICK b \in BOOLEAN : b = Keeps(u, t)
      BY <2>3
    <3>2. CASE u = t
      <4>1. tab'[u] = [tab[t] EXCEPT !.cred = None, !.password = FALSE, !.issued = None,
              !.list = {}, !.current = None, !.available = FALSE, !.keeper = b]
        BY <2>1, <3>1, <3>2, PageTyped DEF PageState, Forgotten
      <4> QED
        BY <3>1, <3>2, <4>1, PageTyped DEF PageState, SameOutdated, SameBusy
    <3>3. CASE u # t
      <4>1. tab'[u] = [tab[u] EXCEPT !.keeper = b]
        BY <2>1, <3>1, <3>3
      <4> QED
        BY <3>1, <3>3, <4>1, PageTyped
           DEF PageState, SameOutdated, SameBusy, SameLook, SameKeys, SameList
    <3> QED
      BY <3>2, <3>3
  <2>6. Typed'
    BY <1>22, <2>4 DEF ForgetVault, Typed, service, user, WellShaped
  <2>7. Forgets(t)
    BY <1>22, <2>5 DEF ForgetVault, Forgets
  <2> QED
    BY <2>6, <2>7 DEF Moves
<1>23. ASSUME NEW h \in Handlers, Lose(h) PROVE Moved
  <2> DEFINE t == handler[h].tab
  <2>1. /\ t \in Tabs /\ losses' = losses + 1 /\ losses' \in Nat
        /\ Set(t, Idle(tab[t])) /\ UNCHANGED <<service, storage, careful>>
    BY <1>23 DEF Lose, Typed
  <2>2. CASE End(h)
    <3>1. Typed' /\ Ends(h, t)
      BY <2>1, <2>2, EndTyped
    <3>2. Loses(h, t)
      BY <2>1, <3>1 DEF Loses
    <3> QED
      BY <2>1, <3>1, <3>2 DEF Moves, PageMoves
  <2>3. CASE /\ handler[h].name \in Changing /\ handler[h].answer = "none"
             /\ Continue(h, [handler[h] EXCEPT !.tab = None])
    <3>1. handler[h] \in OpState /\ WellShaped(handler[h])
      BY HandlerTyped
    <3>2. PICK op \in OpState : op = [handler[h] EXCEPT !.tab = None]
      BY <3>1 DEF OpState
    <3>3. /\ op.name = handler[h].name /\ op.tab = None /\ op.cred = handler[h].cred
          /\ op.target = handler[h].target /\ op.answer = "none" /\ op.keys = {}
      BY <2>3, <3>1, <3>2 DEF OpState, WellShaped
    <3>4. WellShaped(op)
      BY <2>3, <3>1, <3>3 DEF WellShaped, Changing
    <3>5. /\ handler' \in [Handlers -> OpState]
          /\ \A g \in Handlers : WellShaped(handler'[g])
          /\ handler'[h] = op /\ OthersGo(h)
      BY <2>3, <3>2, <3>4, OneHandler DEF Continue
    <3>6. /\ tab' \in [Tabs -> PageState] /\ OthersStay(t) /\ SamePage(t)
          /\ SameOutdated(t) /\ tab'[t].busy = FALSE
      BY <2>1, BusySet DEF Idle, Set
    <3>7. Typed'
      BY <2>1, <3>5, <3>6 DEF Typed, service, storage, WellShaped
    <3>8. Abandons(h, t)
      BY <2>1, <2>3, <3>3, <3>5, <3>6 DEF Abandons, Asks
    <3> QED
      BY <2>1, <3>7, <3>8 DEF Moves, PageMoves
  <2> QED
    BY <1>23, <2>2, <2>3 DEF Lose
<1>24. CASE UNCHANGED vars
  BY <1>24 DEF vars, Typed, WellShaped, Moves
<1> QED
  BY <1>1, <1>2, <1>3, <1>4, <1>5, <1>6, <1>8, <1>9, <1>10, <1>11, <1>12, <1>14,
     <1>15, <1>16, <1>17, <1>18, <1>19, <1>20, <1>21, <1>22, <1>23, <1>24 DEF Next

-----------------------------------------------------------------------------
(* The service, as all moves see it.                                        *)

LEMMA PagesKeepService ==
  ASSUME NEW t \in Tabs, NEW h \in Handlers, PageMoves(h, t)
  PROVE  UNCHANGED service
BY DEF PageMoves, StartsRegister, StartsImport, StartsCreate, StartsSave,
   StartsRevoke, StartsUnlock, Starts, Registers, Decrypts, Revokes, GoesOn,
   Fails, Rejects, Loses, Ends, Abandons, Unlocks, Loads, Shows, Creates, Writes,
   Saves

LEMMA MovesServe ==
  ASSUME Typed, Moves
  PROVE  \/ UNCHANGED service
         \/ \E a, n \in Keys : Gives(a, n)
         \/ \E h \in Handlers : handler[h].name = "revoke" /\ Takes(handler[h])
<1>1. ASSUME NEW h \in Handlers, NEW t \in Tabs, PageMoves(h, t) PROVE UNCHANGED service
  BY <1>1, PagesKeepService
<1>2. ASSUME NEW h \in Handlers, ServiceMoves(h)
      PROVE  \/ UNCHANGED service
             \/ \E a, n \in Keys : Gives(a, n)
             \/ handler[h].name = "revoke" /\ Takes(handler[h])
  <2>1. \A n : Gives(handler[h].cred.agent, n) => handler[h].cred.agent \in Keys
    BY DEF Gives, Issued
  <2> QED
    BY <1>2, <2>1 DEF ServiceMoves, Accounts, Issues, Drops, Reads, Refuses
<1>3. ASSUME NEW t \in Tabs, Forgets(t) \/ Downloads(t) \/ Opens(t)
      PROVE  UNCHANGED service
  BY <1>3 DEF Forgets, Downloads, Opens
<1>4. CASE UNCHANGED vars
  BY <1>4 DEF vars, service
<1> QED
  BY <1>1, <1>2, <1>3, <1>4 DEF Moves

LEMMA KeysInOrderStep == Typed /\ KeysInOrder /\ Moves => KeysInOrder'
<1> SUFFICES ASSUME Typed, KeysInOrder, Moves PROVE KeysInOrder'
  OBVIOUS
<1>1. CASE UNCHANGED service
  BY <1>1 DEF KeysInOrder, Issued, service
<1>2. ASSUME NEW a \in Keys, NEW n \in Keys, Gives(a, n) PROVE KeysInOrder'
  <2>1. /\ Issued = 1 .. (n - 1) /\ owner' = [owner EXCEPT ![n] = a]
        /\ active' = active \cup {n}
    BY <1>2 DEF Gives
  <2>2. Issued' = Issued \cup {n}
    BY <2>1 DEF Typed, Issued
  <2>3. Issued' = 1 .. n /\ n \in Nat /\ n <= MaxKeys
    BY <2>1, <2>2
  <2>4. a \in Issued'
    BY <1>2, <2>2 DEF Gives, KeysInOrder, Issued
  <2>5. \A k \in Issued' : owner'[k] \in Issued'
    BY <2>1, <2>2, <2>4 DEF Typed, KeysInOrder
  <2>6. active' \subseteq Issued'
    BY <2>1, <2>2 DEF KeysInOrder
  <2> QED
    BY <2>3, <2>5, <2>6 DEF KeysInOrder
<1>3. ASSUME NEW h \in Handlers, Takes(handler[h]) PROVE KeysInOrder'
  BY <1>3 DEF Takes, KeysInOrder, Issued
<1> QED
  BY <1>1, <1>2, <1>3, MovesServe

(* An issued key stays with its agent, and once revoked is never active.    *)
LEMMA IssuedStays ==
  ASSUME Typed, KeysInOrder, Moves
  PROVE  \A k \in Issued : /\ k \in Issued' /\ owner'[k] = owner[k]
                           /\ k \in active' => k \in active
<1>1. CASE UNCHANGED service
  BY <1>1 DEF service, Issued
<1>2. ASSUME NEW a \in Keys, NEW n \in Keys, Gives(a, n)
      PROVE  \A k \in Issued : /\ k \in Issued' /\ owner'[k] = owner[k]
                               /\ k \in active' => k \in active
  BY <1>2 DEF Gives, Issued, Typed
<1>3. ASSUME NEW h \in Handlers, Takes(handler[h])
      PROVE  \A k \in Issued : /\ k \in Issued' /\ owner'[k] = owner[k]
                               /\ k \in active' => k \in active
  BY <1>3 DEF Takes, Issued
<1> QED
  BY <1>1, <1>2, <1>3, MovesServe

LEMMA OwnersStay ==
  ASSUME Typed, KeysInOrder, Moves, NEW k \in Keys, NEW a \in Keys, owner[k] = a
  PROVE  owner'[k] = a
<1>1. a # None
  OBVIOUS
<1>2. k \in Issued
  BY <1>1 DEF Issued
<1> QED
  BY <1>2, IssuedStays

(* Who has no active keys but n when it is issued to somebody else.         *)
LEMMA OwnersAreIssued ==
  ASSUME Typed, KeysInOrder, NEW k \in Keys, NEW a \in Keys, owner[k] = a
  PROVE  a \in Issued
<1>1. a # None
  OBVIOUS
<1> QED
  BY <1>1 DEF Issued, KeysInOrder

-----------------------------------------------------------------------------
(* What pages and handlers name was issued.                                 *)

LEMMA OnlyIssuedStep ==
  ASSUME Typed, KeysInOrder, OnlyIssued, Moves
  PROVE  OnlyIssued'
<1> DEFINE Fine(g) == /\ handler'[g].keys \subseteq Issued'
                      /\ handler'[g].name = "revoke" => handler'[g].target \in Issued'
<1>s. \A S \in SUBSET Issued : S \subseteq Issued'
  BY IssuedStays
<1>1. ASSUME NEW g \in Handlers, handler'[g] = handler[g] PROVE Fine(g)
  BY <1>s, <1>1 DEF OnlyIssued
<1>2. ASSUME NEW g \in Handlers, handler'[g] = Done PROVE Fine(g)
  BY <1>2 DEF Done, Operation
<1>3. ASSUME NEW u \in Tabs, \/ tab'[u].list = tab[u].list
                             \/ tab'[u].list = {}
                             \/ \E h \in Handlers : tab'[u].list = handler[h].keys
      PROVE  tab'[u].list \subseteq Issued'
  BY <1>s, <1>3 DEF OnlyIssued
<1>4. ASSUME NEW h \in Handlers, NEW t \in Tabs, PageMoves(h, t) PROVE OnlyIssued'
  <2>1. \A g \in Handlers : handler'[g] = handler[g] \/ g = h
    BY <1>4 DEF OthersGo, PageMoves, StartsRegister, StartsImport, StartsCreate,
       StartsSave, StartsRevoke, StartsUnlock, Starts, Registers, Decrypts,
       Revokes, GoesOn, Fails, Rejects, Loses, Ends, Abandons, Unlocks, Loads,
       Shows, Creates, Writes, Saves
  <2>2. handler'[h].keys = {} \/ handler'[h] = Done
    BY <1>4 DEF Asks, PageMoves, StartsRegister, StartsImport, StartsCreate,
       StartsSave, StartsRevoke, StartsUnlock, Starts, Registers, Decrypts,
       Revokes, GoesOn, Fails, Rejects, Loses, Ends, Abandons, Unlocks, Loads,
       Shows, Creates, Writes, Saves
  <2>3. CASE Abandons(h, t)
    <3>1. /\ handler'[h].target = handler[h].target /\ handler'[h].name = handler[h].name
          /\ tab'[t].list = tab[t].list /\ OthersStay(t)
      BY <2>3 DEF Abandons, Asks, SamePage, SameList
    <3>2. Fine(h)
      BY <1>s, <1>2, <2>2, <3>1 DEF OnlyIssued
    <3>3. \A u \in Tabs : tab'[u].list = tab[u].list
      BY <3>1 DEF OthersStay
    <3> QED
      BY <1>1, <1>3, <2>1, <3>2, <3>3 DEF OnlyIssued
  <2>4. ASSUME NEW k \in Keys, StartsRevoke(t, k, h) PROVE handler'[h].target \in Issued'
    <3>1. k \in tab[t].list /\ handler'[h].target = k
      BY <2>4 DEF StartsRevoke, MayRevoke
    <3> QED
      BY <1>s, <3>1 DEF OnlyIssued
  <2>5. \/ handler'[h] = Done \/ Abandons(h, t) \/ handler'[h].name # "revoke"
        \/ \E k \in Keys : StartsRevoke(t, k, h)
    BY <1>4 DEF Asks, PageMoves, StartsRegister, StartsImport, StartsCreate,
       StartsSave, StartsUnlock, Starts, Registers, Decrypts, Revokes, GoesOn,
       Fails, Rejects, Loses, Ends, Unlocks, Loads, Shows, Creates, Writes, Saves
  <2>6. Abandons(h, t) \/ Fine(h)
    BY <1>2, <2>2, <2>4, <2>5
  <2>7. \A u \in Tabs : \/ tab'[u].list = tab[u].list
                        \/ tab'[u].list = handler[h].keys
    BY <1>4 DEF OthersStay, SamePage, SameList, PageMoves, StartsRegister,
       StartsImport, StartsCreate, StartsSave, StartsRevoke, StartsUnlock, Starts,
       Registers, Decrypts, Revokes, GoesOn, Fails, Rejects, Loses, Ends,
       Abandons, Unlocks, Loads, Shows, Creates, Writes, Saves
  <2> QED
    BY <1>1, <1>3, <2>1, <2>3, <2>6, <2>7 DEF OnlyIssued
<1>5. ASSUME NEW h \in Handlers, ServiceMoves(h) PROVE OnlyIssued'
  <2>1. /\ \A g \in Handlers : handler'[g] = handler[g] \/ g = h
        /\ \A u \in Tabs : tab'[u].list = tab[u].list
    BY <1>5 DEF ServiceMoves, Accounts, Issues, Drops, Reads, Refuses, Replies,
       OthersGo, SamePage, SameList
  <2>2. CASE handler[h].tab \notin Tabs
    <3>1. handler'[h] = Done
      BY <1>5, <2>2 DEF ServiceMoves, Accounts, Issues, Drops, Reads, Refuses, Replies
    <3> QED
      BY <1>1, <1>2, <1>3, <2>1, <3>1 DEF OnlyIssued
  <2>3. CASE handler[h].tab \in Tabs
    <3>1. handler'[h].name = handler[h].name /\ handler'[h].target = handler[h].target
      BY <1>5, <2>3 DEF ServiceMoves, Accounts, Issues, Drops, Reads, Refuses, Replies
    <3>2. \A a, n : Gives(a, n) => {n} \subseteq Issued'
      BY DEF Gives, Issued, Typed
    <3>3. KeysOf(handler[h].cred.agent) \subseteq Issued'
      BY <1>s DEF KeysInOrder, KeysOf
    <3>4. handler'[h].keys \subseteq Issued'
      BY <1>5, <2>3, <3>2, <3>3
         DEF ServiceMoves, Accounts, Issues, Drops, Reads, Refuses, Replies
    <3>5. Fine(h)
      BY <1>s, <3>1, <3>4 DEF OnlyIssued
    <3> QED
      BY <1>1, <1>3, <2>1, <3>5 DEF OnlyIssued
  <2> QED
    BY <2>2, <2>3
<1>6. ASSUME NEW t \in Tabs, Forgets(t) \/ Downloads(t) \/ Opens(t) PROVE OnlyIssued'
  <2>1. \A g \in Handlers : handler'[g] = handler[g] \/ handler'[g] = Done
    BY <1>6 DEF Forgets, Downloads, Opens
  <2>2. \A u \in Tabs : tab'[u].list = tab[u].list \/ tab'[u].list = {}
    BY <1>6 DEF Forgets, Downloads, Opens, OthersStay, SameList
  <2> QED
    BY <1>1, <1>2, <1>3, <2>1, <2>2 DEF OnlyIssued
<1>7. CASE UNCHANGED vars
  BY <1>1, <1>3, <1>7 DEF OnlyIssued, vars
<1> QED
  BY <1>4, <1>5, <1>6, <1>7 DEF Moves

-----------------------------------------------------------------------------
(* Which handlers go with which page.                                       *)

(* What a move does to all pages and handlers but one of each.              *)
LEMMA OthersAsBefore ==
  ASSUME NEW t \in Tabs, NEW h \in Handlers, PageMoves(h, t)
  PROVE  /\ OthersGo(h)
         /\ handler[h] # Done => handler[h].tab = t
         /\ handler'[h] = Done \/ handler'[h].tab = t \/ Abandons(h, t)
         /\ \A u \in Tabs \ {t} :
              /\ SameLook(u) /\ SameList(u) /\ SameKeys(u) /\ SameOutdated(u)
              /\ SameBusy(u)
         /\ tab'[t].kind = tab[t].kind /\ tab'[t].available = tab[t].available
BY DEF OthersGo, OthersStay, SamePage, SameLook, SameList, SameKeys, SamePast,
   SameOutdated, SameBusy, Asks, PageMoves, StartsRegister, StartsImport, StartsCreate,
   StartsSave, StartsRevoke, StartsUnlock, Starts, Registers, Decrypts, Revokes, GoesOn,
   Fails, Rejects, Loses, Ends, Abandons, Unlocks, Loads, Shows, Creates, Writes, Saves

LEMMA ServedAsBefore ==
  ASSUME NEW h \in Handlers, ServiceMoves(h)
  PROVE  /\ OthersGo(h) /\ UNCHANGED <<storage, user>>
         /\ handler[h].name \in Requests /\ handler[h].answer = "none"
         /\ handler[h].tab \in Tabs =>
              /\ handler'[h].name = handler[h].name
              /\ handler'[h].tab = handler[h].tab
              /\ handler'[h].cred = handler[h].cred
              /\ handler'[h].target = handler[h].target
         /\ handler[h].tab \notin Tabs => handler'[h] = Done
         /\ \A u \in Tabs : SamePage(u) /\ SameBusy(u)
BY DEF ServiceMoves, Accounts, Issues, Drops, Reads, Refuses, Replies

LEMMA ShapeStep ==
  ASSUME Typed, Typed', PagesInShape, Moves
  PROVE  PagesInShape'
<1>d. Done.tab \notin Tabs /\ Done.name = "idle"
  BY DEF Done, Operation
<1>1. ASSUME NEW h \in Handlers, NEW t \in Tabs, PageMoves(h, t) PROVE PagesInShape'
  <2>1. /\ OthersGo(h)
        /\ handler[h] # Done => handler[h].tab = t
        /\ handler'[h] = Done \/ handler'[h].tab = t \/ handler'[h].tab = None
        /\ \A u \in Tabs \ {t} : SameLook(u) /\ SameKeys(u)
        /\ tab'[t].kind = tab[t].kind /\ tab'[t].available = tab[t].available
    BY <1>1, OthersAsBefore DEF Abandons, Asks
  <2>2. ASSUME NEW u \in Tabs \ {t} PROVE PageShape(u)'
    <3>1. \A g \in Handlers : handler'[g].tab = u =>
            g \in Under(u) /\ handler'[g] = handler[g]
      BY <1>d, <2>1 DEF Under, OthersGo
    <3> QED
      BY <2>1, <3>1 DEF PagesInShape, PageShape, SameLook, SameKeys, Under
  <2>3. \A g \in Handlers \ {h} : g \in Under(t)' =>
          g \in Under(t) /\ handler'[g] = handler[g]
    BY <2>1 DEF Under, OthersGo
  <2>4. PageShape(t) /\ tab[t] \in PageState /\ tab'[t] \in PageState
    BY DEF PagesInShape, Typed
  <2>5. tab'[t].kind = "connect" => tab'[t].cred = None
    BY <1>1, <2>1, <2>4, HandlerTyped
       DEF PageShape, Under, SamePage, SameKeys, PageMoves, StartsRegister, StartsImport,
           StartsCreate, StartsSave, StartsRevoke, StartsUnlock, Starts, Registers,
           Decrypts, Revokes, GoesOn, Fails, Rejects, Loses, Ends, Abandons, Unlocks,
           Loads, Shows, Creates, Writes, Saves, Connecting, Unlocking, Signing, Answered
  <2>6. handler'[h].tab = t => (tab'[t].kind = "connect" <=> handler'[h].name \in Connecting)
    BY <1>1, <1>d, <2>1, <2>4, HandlerTyped
       DEF PageShape, Under, PageMoves, StartsRegister, StartsImport, MayConnect, MayImport,
           StartsCreate, StartsSave, StartsRevoke, StartsUnlock, MayCreate, MayUse,
           MayRevoke, MayUnlock, Starts, Registers,
           Decrypts, Revokes, GoesOn, Fails, Rejects, Loses, Ends, Abandons, Unlocks,
           Loads, Shows, Creates, Writes, Saves, Connecting, Unlocking, Signing, Answered,
           Asks
  <2>7. tab'[t].available /\ tab'[t].cred = None /\ tab'[t].kind = "keys" =>
          /\ tab'[t].issued = None
          /\ handler'[h].tab = t => handler'[h].name \in Unlocking
          /\ tab[t].cred = None
    <3> SUFFICES ASSUME tab'[t].available, tab'[t].cred = None, tab'[t].kind = "keys"
                 PROVE  /\ tab'[t].issued = None
                        /\ handler'[h].tab = t => handler'[h].name \in Unlocking
                        /\ tab[t].cred = None
      OBVIOUS
    <3>1. /\ tab[t].available /\ tab[t].kind = "keys" /\ None \notin Cred
          /\ handler[h].tab = t => handler[h].name \notin Connecting
          /\ tab[t].cred = None =>
               /\ tab[t].issued = None
               /\ handler[h].tab = t => handler[h].name \in Unlocking
      BY <2>1, <2>4 DEF PageShape, Under, Cred
    <3>2. CASE \/ StartsRegister(t, h) \/ StartsCreate(t, h) \/ StartsSave(t, h)
               \/ \E file \in backups \cup {Damaged} : StartsImport(t, h, file)
               \/ \E k \in Keys : StartsRevoke(t, k, h)
      BY <3>1, <3>2 DEF StartsRegister, MayConnect, StartsCreate, MayCreate, StartsSave,
         MayUse, StartsImport, MayImport, StartsRevoke, MayRevoke, Starts, SamePage, SameKeys
    <3>3. CASE StartsUnlock(t, h)
      BY <3>1, <3>3 DEF StartsUnlock, MayUnlock, Asks, Unlocking, SamePage, SameKeys
    <3>4. CASE Decrypts(h, t)
      BY <3>1, <3>4 DEF Decrypts, GoesOn, Asks, Unlocking, SamePage, SameKeys
    <3>5. CASE \/ \E k \in Keys : Registers(h, t, k)
               \/ Revokes(h, t) \/ Loads(h, t) \/ Creates(h, t)
      BY <3>1, <3>5 DEF Registers, Revokes, Loads, Creates, Shows, GoesOn, Answered,
         Unlocking, Connecting, SamePage, SameKeys
    <3>6. CASE Fails(h, t) \/ Rejects(h, t) \/ Loses(h, t) \/ Abandons(h, t)
      BY <1>d, <3>1, <3>6 DEF Fails, Rejects, Loses, Ends, Abandons, Asks, SamePage,
         SameKeys
    <3>7. CASE Unlocks(h, t) \/ Saves(h, t)
      BY <3>1, <3>7, HandlerTyped DEF Unlocks, Saves, Answered, Unlocking, Signing
    <3>8. CASE Writes(h, t)
      BY <1>d, <3>1, <3>8 DEF Writes
    <3> QED
      BY <1>1, <3>2, <3>3, <3>4, <3>5, <3>6, <3>7, <3>8 DEF PageMoves
  <2> QED
    BY <2>2, <2>3, <2>4, <2>5, <2>6, <2>7, <2>1 DEF PagesInShape, PageShape, Under
<1>2. ASSUME NEW h \in Handlers, ServiceMoves(h) PROVE PagesInShape'
  <2>1. \A g \in Handlers, u \in Tabs : handler'[g].tab = u =>
            handler[g].tab = u /\ handler'[g].name = handler[g].name
    BY <1>2, <1>d, ServedAsBefore DEF OthersGo
  <2> QED
    BY <1>2, <2>1, ServedAsBefore
       DEF PagesInShape, PageShape, SamePage, SameLook, SameKeys, Under
<1>3. ASSUME NEW t \in Tabs, Forgets(t) PROVE PagesInShape'
  BY <1>3 DEF Forgets, PagesInShape, PageShape, SameLook, SameKeys, Under
<1>4. ASSUME NEW t \in Tabs, Downloads(t) PROVE PagesInShape'
  BY <1>4 DEF Downloads, PagesInShape, PageShape, Under
<1>5. ASSUME NEW t \in Tabs, Opens(t) PROVE PagesInShape'
  <2>1. \A g \in Handlers, u \in Tabs : handler'[g].tab = u =>
          u # t /\ handler[g].tab = u /\ handler'[g] = handler[g]
    BY <1>5, <1>d DEF Opens, Under
  <2> QED
    BY <1>5, <2>1 DEF Opens, OthersStay, PagesInShape, PageShape, Under
<1>6. CASE UNCHANGED vars
  BY <1>6 DEF vars, PagesInShape, PageShape, Under
<1> QED
  BY <1>1, <1>2, <1>3, <1>4, <1>5, <1>6 DEF Moves

(* What a move that does not write the vault leaves alone.                  *)
LEMMA NoWrite ==
  ASSUME NEW t \in Tabs, NEW h \in Handlers, PageMoves(h, t),
         ~ Writes(h, t), ~ Saves(h, t)
  PROVE  UNCHANGED storage /\ OthersStay(t) /\ SamePast(t)
BY DEF SamePage, PageMoves, StartsRegister, StartsImport, StartsCreate, StartsSave,
   StartsRevoke, StartsUnlock, Starts, Registers, Decrypts, Revokes, GoesOn, Fails,
   Rejects, Loses, Ends, Abandons, Unlocks, Loads, Shows, Creates

LEMMA UnderThen ==
  ASSUME Typed, NEW t \in Tabs, NEW h \in Handlers, PageMoves(h, t)
  PROVE  /\ \A u \in Tabs : Under(u)' \subseteq Handlers
         /\ \A u \in Tabs \ {t} : /\ Under(u)' = Under(u)
                                  /\ \A g \in Under(u) : handler'[g] = handler[g]
         /\ \A g \in Handlers \ {h} : handler'[g] = handler[g]
         /\ \A g \in Under(t)' : g # h => g \in Under(t)
         /\ \A g \in Under(t) : g # h => g \in Under(t)'
         /\ h \in Under(t)' <=> handler'[h].tab = t
<1>1. Done.tab = None /\ None \notin Tabs
  BY DEF Done, Operation
<1>2. /\ \A g \in Handlers \ {h} : handler'[g] = handler[g]
      /\ \A u \in Tabs \ {t} : handler[h].tab # u /\ handler'[h].tab # u
  BY <1>1, OthersAsBefore DEF OthersGo, Abandons, Asks
<1> QED
  BY <1>2 DEF Under

LEMMA ServedUnder ==
  ASSUME Typed, NEW h \in Handlers, ServiceMoves(h), NEW u \in Tabs
  PROVE  /\ Under(u)' = Under(u)
         /\ \A g \in Under(u) : /\ handler'[g].name = handler[g].name
                                /\ handler'[g].cred = handler[g].cred
                                /\ handler'[g].target = handler[g].target
                                /\ handler'[g].tab = handler[g].tab
<1>1. Done.tab = None /\ None \notin Tabs
  BY DEF Done, Operation
<1>2. handler[h].tab # u => handler'[h].tab # u
  BY <1>1, ServedAsBefore
<1> QED
  BY <1>2, ServedAsBefore DEF Under, OthersGo

-----------------------------------------------------------------------------
(* Without a vault only keepers will write it again.                        *)

LEMMA KeepersStep ==
  ASSUME Typed, Typed', PagesInShape, KeepersKeep, Moves
  PROVE  KeepersKeep'
<1> DEFINE Late == Unlocking \cup {"save"}
<1> SUFFICES ASSUME vault' = None, NEW u \in Tabs, tab'[u].kind = "keys",
                    ~ tab'[u].keeper
             PROVE  /\ tab'[u].cred = None
                    /\ \A g \in Under(u)' : handler'[g].name \notin Late
  BY DEF KeepersKeep, Under
<1>1. ASSUME NEW h \in Handlers, NEW t \in Tabs, PageMoves(h, t)
      PROVE  /\ tab'[u].cred = None
             /\ \A g \in Under(u)' : handler'[g].name \notin Late
  <2>1. ~ Writes(h, t) /\ ~ Saves(h, t)
    BY HandlerTyped DEF Writes, Saves, Cred, Signing
  <2>2. vault = None /\ tab'[u].keeper = tab[u].keeper /\ tab'[u].kind = tab[u].kind
    BY <1>1, <2>1, NoWrite, OthersAsBefore DEF storage, OthersStay, SamePast
  <2>3. tab[u].cred = None /\ \A g \in Under(u) : handler[g].name \notin Late
    BY <2>2 DEF KeepersKeep
  <2>4. CASE u # t
    BY <1>1, <2>1, <2>3, <2>4, NoWrite, UnderThen DEF OthersStay
  <2>5. CASE u = t
    <3>1. handler[h] # Done => h \in Under(t)
      BY <1>1, OthersAsBefore DEF Under
    <3>2. Done.name \notin Late
      BY DEF Done, Operation, Unlocking
    <3>3. tab'[t].cred = None /\ handler'[h].name \notin Late
      BY <1>1, <2>1, <2>2, <2>3, <2>5, <3>1, <3>2
         DEF SamePage, SameKeys, PageMoves, StartsRegister, StartsImport, StartsCreate,
             MayCreate, StartsSave, MayUse, StartsRevoke, MayRevoke, StartsUnlock, Starts,
             Registers, Decrypts, Revokes, GoesOn, Fails, Rejects, Loses, Ends, Abandons,
             Unlocks, Loads, Shows, Creates, Unlocking, Answered, Asks, Changing
    <3> QED
      BY <1>1, <2>3, <2>5, <3>3, UnderThen
  <2> QED
    BY <2>4, <2>5
<1>2. ASSUME NEW h \in Handlers, ServiceMoves(h)
      PROVE  /\ tab'[u].cred = None
             /\ \A g \in Under(u)' : handler'[g].name \notin Late
  BY <1>2, ServedAsBefore, ServedUnder
     DEF storage, SamePage, SamePast, SameLook, SameKeys, KeepersKeep
<1>3. ASSUME NEW t \in Tabs, Forgets(t)
      PROVE  /\ tab'[u].cred = None
             /\ \A g \in Under(u)' : handler'[g].name \notin Late
  BY <1>3 DEF Forgets, Keeps, Under, SameKeys
<1>4. ASSUME NEW t \in Tabs, Downloads(t)
      PROVE  /\ tab'[u].cred = None
             /\ \A g \in Under(u)' : handler'[g].name \notin Late
  BY <1>4 DEF Downloads, Under, KeepersKeep
<1>5. ASSUME NEW t \in Tabs, Opens(t)
      PROVE  /\ tab'[u].cred = None
             /\ \A g \in Under(u)' : handler'[g].name \notin Late
  <2>1. \A g \in Handlers : handler'[g].tab = u =>
          u # t /\ handler[g].tab = u /\ handler'[g] = handler[g]
    BY <1>5 DEF Opens, Under, Done, Operation
  <2> QED
    BY <1>5, <2>1 DEF Opens, OthersStay, KeepersKeep, Under, storage
<1>6. CASE UNCHANGED vars
  BY <1>6 DEF vars, KeepersKeep, Under
<1> QED
  BY <1>1, <1>2, <1>3, <1>4, <1>5, <1>6 DEF Moves

-----------------------------------------------------------------------------
(* A page that was not overtaken agrees with the vault.                     *)

LEMMA AgreesStep ==
  ASSUME Typed, Typed', PagesInShape, \A u \in Tabs : Agrees(u), Moves, NEW u \in Tabs
  PROVE  Agrees(u)'
<1> SUFFICES ASSUME ~ tab'[u].overtaken, vault' # None
             PROVE  /\ Holds(u, vault.agent)' => tab'[u].cred = vault'
                    /\ \A g \in Under(u)' :
                         handler'[g].name \in Unlocking => handler'[g].cred = vault'
  BY DEF Agrees, Holds, Under
<1> DEFINE Goal == /\ Holds(u, vault.agent)' => tab'[u].cred = vault'
                   /\ \A g \in Under(u)' :
                        handler'[g].name \in Unlocking => handler'[g].cred = vault'
<1>1. ASSUME NEW h \in Handlers, NEW t \in Tabs, Writes(h, t) \/ Saves(h, t), PageMoves(h, t)
      PROVE  Goal
  <2>1. /\ \A g \in Under(u) : handler[g].name \notin Unlocking
        /\ u # t => ~ Holds(u, vault'.agent)
    BY <1>1 DEF Writes, Saves, Overtakes
  <2>2. CASE u # t
    BY <1>1, <2>1, <2>2, UnderThen DEF Writes, Saves, Holds
  <2>3. CASE u = t
    <3>1. handler'[h].name \notin Unlocking
      BY <1>1 DEF Writes, Saves, Done, Operation, Asks, Unlocking
    <3>2. Saves(h, t) => tab'[u].cred = vault'
      BY <2>3 DEF Saves
    <3>3. Writes(h, t) => tab'[u].cred = None
      BY <2>3, PageTyped DEF Writes, PagesInShape, PageShape, Under, Connecting
    <3> QED
      BY <1>1, <2>1, <2>3, <3>1, <3>2, <3>3, UnderThen DEF Holds
  <2> QED
    BY <2>2, <2>3
<1>2. ASSUME NEW h \in Handlers, NEW t \in Tabs, PageMoves(h, t),
             ~ Writes(h, t), ~ Saves(h, t)
      PROVE  Goal
  <2>1. UNCHANGED vault /\ OthersStay(t) /\ SamePast(t)
    BY <1>2, NoWrite DEF storage
  <2>2. /\ Holds(u, vault.agent) => tab[u].cred = vault
        /\ \A g \in Under(u) : handler[g].name \in Unlocking => handler[g].cred = vault
    BY <2>1 DEF Agrees, OthersStay, SamePast
  <2>3. CASE u # t
    BY <1>2, <2>1, <2>2, <2>3, UnderThen DEF OthersStay, Holds
  <2>4. CASE u = t
    <3>1. handler[h] # Done => h \in Under(t)
      BY <1>2, OthersAsBefore DEF Under
    <3>2. Done.name \notin Unlocking
      BY DEF Done, Operation, Unlocking
    <3>3. tab'[t].cred = tab[t].cred \/ tab'[t].cred = vault
      BY <1>2, <2>2, <2>4, <3>1, <3>2
         DEF SamePage, SameKeys, PageMoves, StartsRegister, StartsImport, StartsCreate,
             StartsSave, StartsRevoke, StartsUnlock, Starts,
             Registers, Decrypts, Revokes, GoesOn, Fails, Rejects, Loses, Ends, Abandons,
             Unlocks, Loads, Shows, Creates, Unlocking, Answered
    <3>4. handler'[h].name \in Unlocking => handler'[h].cred = vault
      BY <1>2, <2>2, <2>4, <3>1, <3>2
         DEF PageMoves, StartsRegister, StartsImport, StartsCreate,
             StartsSave, StartsRevoke, StartsUnlock, Starts,
             Registers, Decrypts, Revokes, GoesOn, Fails, Rejects, Loses, Ends, Abandons,
             Unlocks, Loads, Shows, Creates, Unlocking, Answered, Asks, Changing
    <3> QED
      BY <1>2, <2>1, <2>2, <2>4, <3>3, <3>4, UnderThen DEF Holds
  <2> QED
    BY <2>3, <2>4
<1>3. ASSUME NEW h \in Handlers, ServiceMoves(h) PROVE Goal
  BY <1>3, ServedAsBefore, ServedUnder
     DEF storage, SamePage, SamePast, SameKeys, Agrees, Holds
<1>4. ASSUME NEW t \in Tabs, Forgets(t) PROVE Goal
  BY <1>4 DEF Forgets
<1>5. ASSUME NEW t \in Tabs, Downloads(t) PROVE Goal
  BY <1>5 DEF Downloads, Under, Agrees, Holds
<1>6. ASSUME NEW t \in Tabs, Opens(t) PROVE Goal
  <2>1. \A g \in Handlers : handler'[g].tab = u =>
          u # t /\ handler[g].tab = u /\ handler'[g] = handler[g]
    BY <1>6 DEF Opens, Under, Done, Operation
  <2> QED
    BY <1>6, <2>1 DEF Opens, OthersStay, Agrees, Under, Holds, storage
<1>7. CASE UNCHANGED vars
  BY <1>7 DEF vars, Agrees, Under, Holds
<1> QED
  BY <1>1, <1>2, <1>3, <1>4, <1>5, <1>6, <1>7 DEF Moves

-----------------------------------------------------------------------------
(* What such a page does is about one agent.                                *)

LEMMA OneAgentStep ==
  ASSUME Typed, Typed', KeysInOrder, PagesInShape, VaultAgrees, NewKeysAreOwned, Moves,
         NEW u \in Tabs, ~ tab'[u].overtaken
  PROVE  \E a \in Nat : About(u, a)'
<1>d. Done.name = "idle" /\ Done.tab = None /\ None \notin Tabs
  BY DEF Done, Operation
<1>o. \A k \in Keys, a \in Nat : owner[k] = a => owner'[k] = a
  <2> SUFFICES ASSUME NEW k \in Keys, NEW a \in Nat, owner[k] = a PROVE owner'[k] = a
    OBVIOUS
  <2>1. a \in Keys
    BY DEF Typed
  <2> QED
    BY <2>1, OwnersStay
<1>i. \A v \in Tabs : tab[v].issued \in Keys \cup {None}
  BY PageTyped
<1>1. ASSUME NEW h \in Handlers, NEW t \in Tabs, PageMoves(h, t), tab'[t].overtaken =
             tab[t].overtaken, u = t, ~ Writes(h, t), ~ Saves(h, t)
      PROVE  \E a \in Nat : About(u, a)'
  <2>1. PICK a \in Nat : About(t, a)
    BY <1>1 DEF VaultAgrees, OneAgent
  <2>2. /\ Agrees(t) /\ PageShape(t) /\ ~ tab[t].overtaken /\ UNCHANGED owner
        /\ handler[h] # Done => h \in Under(t)
    BY <1>1, OthersAsBefore, PagesKeepService
       DEF VaultAgrees, PagesInShape, Under, service
  <2>3. CASE StartsUnlock(t, h)
    <3>1. /\ tab[t].cred = None /\ tab[t].issued = None
          /\ \A g \in Under(t) : handler[g].cred = vault
      BY <2>2, <2>3 DEF StartsUnlock, MayUnlock, PageShape, Agrees
    <3>2. tab'[t].cred = None /\ tab'[t].issued = None /\ handler'[h].cred = vault
      BY <2>3, <3>1 DEF StartsUnlock, SamePage, SameKeys, Asks
    <3>3. PICK b \in Nat : b = vault.agent
      BY <2>3 DEF StartsUnlock, Typed, Cred
    <3>4. About(t, b)'
      BY <1>1, <3>1, <3>2, <3>3, UnderThen DEF About
    <3> QED
      BY <1>1, <3>4
  <2>4. CASE ~ StartsUnlock(t, h)
    <3>1. CASE \/ StartsRegister(t, h) \/ StartsCreate(t, h) \/ StartsSave(t, h)
               \/ \E file \in backups \cup {Damaged} : StartsImport(t, h, file)
               \/ \E k \in Keys : StartsRevoke(t, k, h)
      <4>1. handler'[h].name \in Unlocking \cup Signing => handler'[h].cred.agent = a
        BY <2>1, <3>1 DEF About, StartsRegister, StartsImport, MayCreate, MayUse, MayRevoke,
           StartsCreate, StartsSave, StartsRevoke, Starts, Unlocking, Signing, Asks
      <4>2. tab'[t].cred = tab[t].cred /\ tab'[t].issued = tab[t].issued
        BY <3>1 DEF StartsRegister, StartsImport, StartsCreate, StartsSave, StartsRevoke,
           Starts, SamePage, SameKeys
      <4>3. About(t, a)'
        BY <1>1, <2>1, <2>2, <4>1, <4>2, UnderThen DEF About
      <4> QED
        BY <1>1, <4>3
    <3>2. CASE Creates(h, t)
      <4>1. \A k \in handler[h].keys : owner[k] = a
        BY <1>d, <2>1, <2>2, <3>2 DEF NewKeysAreOwned, About, Signing, Creates, Answered
      <4>2. About(t, a)'
        BY <1>1, <1>d, <2>1, <2>2, <3>2, <4>1, UnderThen
           DEF About, Creates, Answered, Asks, Signing
      <4> QED
        BY <1>1, <4>2
    <3>3. CASE \/ \E k \in Keys : Registers(h, t, k)
               \/ Decrypts(h, t) \/ Revokes(h, t) \/ Fails(h, t) \/ Rejects(h, t)
               \/ Loses(h, t) \/ Abandons(h, t) \/ Unlocks(h, t) \/ Loads(h, t)
      <4>1. tab'[t].cred # None => tab'[t].cred.agent = a
        BY <1>d, <2>1, <2>2, <3>3
           DEF About, SamePage, SameKeys, Registers, Decrypts, Revokes, GoesOn, Fails,
               Rejects, Loses, Ends, Abandons, Unlocks, Loads, Shows, Unlocking, Answered
      <4>2. handler'[h].name \in Unlocking \cup Signing /\ handler'[h].tab = t =>
              handler'[h].cred.agent = a
        BY <1>d, <2>1, <2>2, <3>3
           DEF About, Registers, Decrypts, Revokes, GoesOn, Fails, Rejects, Loses, Ends,
               Abandons, Unlocks, Loads, Shows, Unlocking, Signing, Answered, Asks
      <4>3. tab'[t].issued = tab[t].issued
        BY <3>3 DEF SamePage, SameKeys, Registers, Decrypts, Revokes, GoesOn, Fails,
           Rejects, Loses, Ends, Abandons, Unlocks, Loads, Shows
      <4>4. About(t, a)'
        BY <1>1, <2>1, <2>2, <4>1, <4>2, <4>3, UnderThen DEF About
      <4> QED
        BY <1>1, <4>4
    <3> QED
      BY <1>1, <2>4, <3>1, <3>2, <3>3 DEF PageMoves
  <2> QED
    BY <2>3, <2>4
<1>2. ASSUME NEW h \in Handlers, NEW t \in Tabs, PageMoves(h, t), u # t,
             tab[u].overtaken => tab'[u].overtaken
      PROVE  \E a \in Nat : About(u, a)'
  <2>1. PICK a \in Nat : About(u, a)
    BY <1>2 DEF VaultAgrees, OneAgent
  <2>2. SameKeys(u) /\ UNCHANGED owner
    BY <1>2, OthersAsBefore, PagesKeepService DEF service
  <2>3. About(u, a)'
    BY <1>2, <2>1, <2>2, UnderThen DEF About, SameKeys
  <2> QED
    BY <2>1, <2>3
<1>3. ASSUME NEW h \in Handlers, NEW t \in Tabs, PageMoves(h, t), u = t,
             Writes(h, t) \/ Saves(h, t)
      PROVE  \E a \in Nat : About(u, a)'
  <2>1. PICK a \in Nat : About(t, a)
    BY <1>3 DEF VaultAgrees, OneAgent, Writes, Saves, Overtakes
  <2>2. UNCHANGED owner /\ h \in Under(t)
    BY <1>3 DEF Writes, Saves, service, Under
  <2>3. CASE Writes(h, t)
    BY <1>3, <1>d, <2>1, <2>2, <2>3, UnderThen DEF About, Writes
  <2>4. CASE Saves(h, t)
    <3>1. handler'[h].cred.agent = a /\ tab'[t].cred.agent = a /\ tab'[t].issued = None
      BY <2>1, <2>2, <2>4 DEF Saves, About, Asks, Signing
    <3> QED
      BY <1>3, <2>1, <3>1, UnderThen DEF About
  <2> QED
    BY <1>3, <2>3, <2>4
<1>4. ASSUME NEW h \in Handlers, NEW t \in Tabs, PageMoves(h, t)
      PROVE  \E a \in Nat : About(u, a)'
  <2>1. CASE Writes(h, t) \/ Saves(h, t)
    <3>1. tab[u].overtaken => tab'[u].overtaken
      BY <2>1 DEF Writes, Saves, Overtakes
    <3> QED
      BY <1>2, <1>3, <1>4, <2>1, <3>1
  <2>2. CASE ~ Writes(h, t) /\ ~ Saves(h, t)
    BY <1>1, <1>2, <1>4, <2>2, NoWrite DEF OthersStay, SamePast
  <2> QED
    BY <2>1, <2>2
<1>5. ASSUME NEW h \in Handlers, ServiceMoves(h)
      PROVE  \E a \in Nat : About(u, a)'
  <2>1. SamePage(u)
    BY <1>5, ServedAsBefore
  <2>2. PICK a \in Nat : About(u, a)
    BY <2>1 DEF VaultAgrees, OneAgent, SamePage, SamePast
  <2>3. About(u, a)'
    BY <1>5, <1>o, <1>i, <2>1, <2>2, ServedUnder DEF About, SamePage, SameKeys
  <2> QED
    BY <2>2, <2>3
<1>6. ASSUME NEW t \in Tabs, Forgets(t) PROVE \E a \in Nat : About(u, a)'
  <2>1. PICK a \in Nat : About(u, a)
    BY <1>6 DEF VaultAgrees, OneAgent, Forgets
  <2>2. About(u, a)'
    BY <1>6, <2>1 DEF About, Forgets, SameKeys, Under, service
  <2> QED
    BY <2>1, <2>2
<1>7. ASSUME NEW t \in Tabs, Downloads(t) PROVE \E a \in Nat : About(u, a)'
  BY <1>7 DEF VaultAgrees, OneAgent, Downloads, About, Under, service
<1>8. ASSUME NEW t \in Tabs, Opens(t) PROVE \E a \in Nat : About(u, a)'
  <2>1. \A g \in Handlers : handler'[g].tab = u =>
          u # t /\ handler[g].tab = u /\ handler'[g] = handler[g]
    BY <1>8, <1>d DEF Opens, Under
  <2>2. CASE u = t
    <3>1. About(u, 0)'
      BY <1>8, <2>1, <2>2 DEF Opens, About, Under
    <3> QED
      BY <3>1
  <2>3. CASE u # t
    BY <1>8, <2>1, <2>3 DEF VaultAgrees, OneAgent, Opens, OthersStay, About, Under, service
  <2> QED
    BY <2>2, <2>3
<1>9. CASE UNCHANGED vars
  BY <1>9 DEF vars, VaultAgrees, OneAgent, About, Under
<1> QED
  BY <1>4, <1>5, <1>6, <1>7, <1>8, <1>9 DEF Moves

LEMMA VaultAgreesStep ==
  ASSUME Typed, Typed', KeysInOrder, PagesInShape, VaultAgrees, NewKeysAreOwned, Moves
  PROVE  VaultAgrees'
<1>1. ASSUME NEW u \in Tabs PROVE Agrees(u)'
  BY AgreesStep DEF VaultAgrees
<1>2. ASSUME NEW u \in Tabs PROVE OneAgent(u)'
  <2>1. ~ tab'[u].overtaken => \E a \in Nat : About(u, a)'
    BY OneAgentStep
  <2> QED
    BY <2>1 DEF OneAgent, About, Under
<1> QED
  BY <1>1, <1>2 DEF VaultAgrees

-----------------------------------------------------------------------------
(* New keys belong to who asked for them.                                   *)

LEMMA NewKeysStep ==
  ASSUME Typed, Typed', KeysInOrder, NewKeysAreOwned, Moves
  PROVE  NewKeysAreOwned'
<1> DEFINE Fine(g) == \A k \in handler'[g].keys :
             /\ handler'[g].name = "register" => owner'[k] = k
             /\ handler'[g].name = "create" => owner'[k] = handler'[g].cred.agent
<1>1. ASSUME NEW g \in Handlers, handler'[g] = handler[g] PROVE Fine(g)
  <2>1. handler[g].keys \subseteq Keys
          /\ (handler[g].name = "create" => handler[g].cred.agent \in Keys)
    BY HandlerTyped DEF Signing
  <2> QED
    BY <1>1, <2>1, OwnersStay DEF NewKeysAreOwned
<1>2. ASSUME NEW g \in Handlers, handler'[g].keys = {} \/ handler'[g] = Done PROVE Fine(g)
  BY <1>2 DEF Done, Operation
<1>3. ASSUME NEW h \in Handlers, NEW t \in Tabs, PageMoves(h, t) PROVE NewKeysAreOwned'
  <2>1. handler'[h].keys = {} \/ handler'[h] = Done
    BY <1>3 DEF Asks, PageMoves, StartsRegister, StartsImport, StartsCreate, StartsSave,
       StartsRevoke, StartsUnlock, Starts, Registers, Decrypts, Revokes, GoesOn, Fails,
       Rejects, Loses, Ends, Abandons, Unlocks, Loads, Shows, Creates, Writes, Saves
  <2> QED
    BY <1>1, <1>2, <1>3, <2>1, UnderThen DEF NewKeysAreOwned
<1>4. ASSUME NEW h \in Handlers, ServiceMoves(h) PROVE NewKeysAreOwned'
  <2>1. \A g \in Handlers \ {h} : handler'[g] = handler[g]
    BY <1>4, ServedAsBefore DEF OthersGo
  <2>2. CASE handler'[h] = Done
    BY <1>1, <1>2, <2>1, <2>2 DEF NewKeysAreOwned
  <2>3. CASE handler[h].tab \in Tabs
    <3>1. \A a, n : Gives(a, n) => owner'[n] = a
      BY DEF Gives, Typed
    <3>2. /\ handler'[h].name = handler[h].name /\ handler'[h].cred = handler[h].cred
      BY <1>4, <2>3, ServedAsBefore
    <3>3. Fine(h)
      BY <1>4, <2>3, <3>1, <3>2
         DEF ServiceMoves, Accounts, Issues, Drops, Reads, Refuses, Replies
    <3> QED
      BY <1>1, <2>1, <3>3 DEF NewKeysAreOwned
  <2> QED
    BY <1>4, <2>2, <2>3, ServedAsBefore
<1>5. ASSUME NEW t \in Tabs, Forgets(t) \/ Downloads(t) \/ Opens(t)
      PROVE  NewKeysAreOwned'
  <2>1. \A g \in Handlers : handler'[g] = handler[g] \/ handler'[g] = Done
    BY <1>5 DEF Forgets, Downloads, Opens
  <2> QED
    BY <1>1, <1>2, <2>1 DEF NewKeysAreOwned
<1>6. CASE UNCHANGED vars
  BY <1>1, <1>6 DEF vars, NewKeysAreOwned
<1> QED
  BY <1>3, <1>4, <1>5, <1>6 DEF Moves

-----------------------------------------------------------------------------
(* With a careful user, credentials are of the agent that has the key.      *)

LEMMA CarefulWas ==
  ASSUME Moves, careful'
  PROVE  careful
<1>1. ASSUME NEW t \in Tabs, NEW h \in Handlers, PageMoves(h, t) PROVE careful
  BY <1>1 DEF PageMoves, StartsRegister, StartsImport, StartsCreate, StartsSave,
     StartsRevoke, StartsUnlock, Starts, Registers, Decrypts, Revokes, GoesOn, Fails,
     Rejects, Loses, Ends, Abandons, Unlocks, Loads, Shows, Creates, Writes, Saves, user
<1>2. ASSUME NEW h \in Handlers, ServiceMoves(h) PROVE careful
  BY <1>2, ServedAsBefore DEF user
<1>3. ASSUME NEW t \in Tabs, Forgets(t) \/ Downloads(t) \/ Opens(t) PROVE careful
  BY <1>3 DEF Forgets, Downloads, Opens, user
<1>4. CASE UNCHANGED vars
  BY <1>4 DEF vars
<1> QED
  BY <1>1, <1>2, <1>3, <1>4 DEF Moves

LEMMA OwnedStays ==
  ASSUME Typed, KeysInOrder, Moves, NEW cred, Owned(cred)
  PROVE  Owned(cred)'
BY OwnersStay DEF Owned, Cred

(* Wherever credentials are kept, they were somewhere before.               *)
LEMMA OwnedThen ==
  ASSUME AllOwned, NEW t \in Tabs, NEW h \in Handlers,
         OthersStay(t) \/ \A u \in Tabs \ {t} : SameKeys(u),
         \A g \in Handlers \ {h} : handler'[g] = handler[g],
         UNCHANGED owner,
         Owned(vault'), Owned(tab'[t].cred), Owned(tab'[t].shown),
         Owned(handler'[h].cred), UNCHANGED backups
  PROVE  AllOwned'
BY DEF AllOwned, Owned, OthersStay, SameKeys

LEMMA OwnedStep ==
  ASSUME Typed, Typed', KeysInOrder, PagesInShape, VaultAgrees, NewKeysAreOwned, careful,
         careful', AllOwned, Moves
  PROVE  AllOwned'
<1>n. Owned(None) /\ Owned(Damaged) /\ Owned(Done.cred)
  BY DEF Owned, Done, Operation, Cred, Damaged
<1>1. ASSUME NEW h \in Handlers, NEW t \in Tabs, PageMoves(h, t) PROVE AllOwned'
  <2>1. /\ UNCHANGED <<owner, backups>> /\ Owned(vault) /\ Owned(tab[t].cred)
        /\ Owned(tab[t].shown) /\ Owned(handler[h].cred)
        /\ \A file \in backups : Owned(file)
    BY <1>1, PagesKeepService, NoWrite DEF AllOwned, service, storage, Writes, Saves
  <2>2. \A k \in handler[h].keys : handler[h].name = "register" =>
          Owned([agent |-> k, key |-> k])
    BY DEF NewKeysAreOwned, Owned
  <2>3. StartsSave(t, h) => Owned([agent |-> tab[t].cred.agent, key |-> tab[t].issued])
    <3> SUFFICES ASSUME StartsSave(t, h)
                 PROVE  Owned([agent |-> tab[t].cred.agent, key |-> tab[t].issued])
      OBVIOUS
    <3>1. ~ tab[t].overtaken /\ tab[t].cred # None /\ tab[t].issued # None
      BY DEF StartsSave, MayUse
    <3>2. PICK a \in Nat : About(t, a)
      BY <3>1 DEF VaultAgrees, OneAgent
    <3> QED
      BY <3>1, <3>2 DEF About, Owned
  <2>4. Owned(vault')
    BY <1>1, <2>1, NoWrite DEF storage, Writes, Saves
  <2>5. Owned(tab'[t].cred) /\ Owned(tab'[t].shown)
    BY <1>1, <2>1
       DEF SamePage, SameKeys, PageMoves, StartsRegister, StartsImport,
           StartsCreate, StartsSave, StartsRevoke, StartsUnlock, Starts, Registers,
           Decrypts, Revokes, GoesOn, Fails, Rejects, Loses, Ends, Abandons, Unlocks,
           Loads, Shows, Creates, Writes, Saves
  <2>6. Owned(handler'[h].cred)
    BY <1>n, <1>1, <2>1, <2>2, <2>3
       DEF Asks, PageMoves, StartsRegister, StartsImport, Answered,
           StartsCreate, StartsSave, StartsRevoke, StartsUnlock, Starts, Registers,
           Decrypts, Revokes, GoesOn, Fails, Rejects, Loses, Ends, Abandons, Unlocks,
           Loads, Shows, Creates, Writes, Saves
  <2>7. \A u \in Tabs \ {t} : SameKeys(u)
    BY <1>1, OthersAsBefore
  <2> QED
    BY <1>1, <2>1, <2>4, <2>5, <2>6, <2>7, OwnedThen, UnderThen
<1>2. ASSUME NEW h \in Handlers, ServiceMoves(h) PROVE AllOwned'
  <2>1. /\ UNCHANGED storage
        /\ \A u \in Tabs : tab'[u].cred = tab[u].cred /\ tab'[u].shown = tab[u].shown
        /\ \A g \in Handlers : handler'[g].cred = handler[g].cred \/ handler'[g] = Done
    BY <1>2, ServedAsBefore DEF OthersGo, SamePage, SameKeys
  <2>2. Owned(None)' /\ Owned(Done.cred)'
    BY DEF Owned, Done, Operation, Cred
  <2>3. \A cred : Owned(cred) => (cred \in Cred => owner'[cred.key] = cred.agent)
    BY OwnedStays DEF Owned
  <2> QED
    BY <2>1, <2>2, <2>3 DEF AllOwned, Owned, storage
<1>3. ASSUME NEW t \in Tabs, Forgets(t) PROVE AllOwned'
  BY <1>n, <1>3 DEF Forgets, AllOwned, Owned, SameKeys, service
<1>4. ASSUME NEW t \in Tabs, Downloads(t) PROVE AllOwned'
  BY <1>4 DEF Downloads, AllOwned, Owned, service
<1>5. ASSUME NEW t \in Tabs, Opens(t) PROVE AllOwned'
  BY <1>n, <1>5 DEF Opens, OthersStay, AllOwned, Owned, service, storage
<1>6. CASE UNCHANGED vars
  BY <1>6 DEF vars, AllOwned, Owned
<1> QED
  BY <1>1, <1>2, <1>3, <1>4, <1>5, <1>6 DEF Moves

-----------------------------------------------------------------------------
(* What the vault has, or is about to get, is not doomed.                   *)

(* An issued key is doomed by nothing but a revocation that starts.         *)
Revoking(k) == \E t \in Tabs, h \in Handlers : StartsRevoke(t, k, h)
LEMMA DoomedThen ==
  ASSUME Typed, Typed', KeysInOrder, Moves, NEW k \in Issued, ~ Revoking(k), Doomed(k)'
  PROVE  Doomed(k)
<1>1. CASE k \notin active'
  <2>1. CASE \E h \in Handlers : handler[h].name = "revoke" /\ Takes(handler[h])
    <3>1. PICK h \in Handlers : handler[h].name = "revoke" /\ Takes(handler[h])
      BY <2>1
    <3>2. k \in active => handler[h].target = k
      BY <1>1, <3>1 DEF Takes
    <3>3. handler[h].target = k => Revocable(handler[h].cred, k)
      BY <3>1 DEF Takes
    <3> QED
      BY <3>1, <3>2, <3>3 DEF Doomed
  <2>2. CASE UNCHANGED service \/ \E a, n \in Keys : Gives(a, n)
    BY <1>1, <2>2 DEF service, Gives, Doomed
  <2> QED
    BY <2>1, <2>2, MovesServe
<1>2. ASSUME NEW g \in Handlers, handler'[g].name = "revoke", handler'[g].target = k,
             Revocable(handler[g].cred, k)'
      PROVE  Doomed(k)
  <2>1. k \in active' /\ owner'[k] = handler'[g].cred.agent /\ k # handler'[g].cred.key
    BY <1>2 DEF Revocable, KeysOf
  <2>2. Revocable(handler'[g].cred, k)
    BY <2>1, IssuedStays DEF Revocable, KeysOf
  <2>3. /\ handler[g].name = "revoke" /\ handler[g].target = k
        /\ handler[g].cred = handler'[g].cred
    <3>d. Done.name # "revoke"
      BY DEF Done, Operation
    <3>1. ASSUME NEW h \in Handlers, NEW t \in Tabs, PageMoves(h, t)
          PROVE  /\ handler[g].name = "revoke" /\ handler[g].target = k
                 /\ handler[g].cred = handler'[g].cred
      <4>1. CASE g # h
        BY <1>2, <3>1, <4>1, UnderThen
      <4>2. CASE g = h
        <5>1. \A j \in Keys : StartsRevoke(t, j, h) => FALSE
          BY <1>2, <4>2 DEF StartsRevoke, Revoking
        <5>2. Abandons(h, t)
          BY <1>2, <3>d, <3>1, <4>2, <5>1
             DEF Asks, PageMoves, StartsRegister, StartsImport,
                 StartsCreate, StartsSave, StartsUnlock, Starts, Registers,
                 Decrypts, Revokes, GoesOn, Fails, Rejects, Loses, Ends, Unlocks,
                 Loads, Shows, Creates, Writes, Saves
        <5> QED
          BY <1>2, <4>2, <5>2 DEF Abandons, Asks
      <4> QED
        BY <4>1, <4>2
    <3>2. ASSUME NEW h \in Handlers, ServiceMoves(h)
          PROVE  /\ handler[g].name = "revoke" /\ handler[g].target = k
                 /\ handler[g].cred = handler'[g].cred
      BY <1>2, <3>d, <3>2, ServedAsBefore DEF OthersGo
    <3>3. ASSUME NEW t \in Tabs, Forgets(t) \/ Downloads(t) \/ Opens(t)
          PROVE  handler'[g] = handler[g]
      BY <1>2, <3>d, <3>3 DEF Forgets, Downloads, Opens
    <3>4. CASE UNCHANGED vars
      BY <1>2, <3>4 DEF vars
    <3> QED
      BY <1>2, <3>1, <3>2, <3>3, <3>4 DEF Moves
  <2> QED
    BY <2>2, <2>3 DEF Doomed
<1> QED
  BY <1>1, <1>2 DEF Doomed, Revocable, KeysOf

(* Moves that bring no key closer to the vault.                             *)
LEMMA ComingThen ==
  ASSUME NEW h \in Handlers, \A g \in Handlers \ {h} : handler'[g] = handler[g],
         NEW k, Coming(k)'
  PROVE  \/ Coming(k)
         \/ handler'[h].name \in Storing /\ handler'[h].cred.key = k
         \/ handler'[h].name = "register" /\ k \in handler'[h].keys
BY DEF Coming

LEMMA ComingIsIssued ==
  ASSUME Typed, KeysInOrder, OnlyIssued, AllOwned, NEW k \in Keys, Coming(k)
  PROVE  k \in Issued
<1>1. PICK h \in Handlers : \/ handler[h].name \in Storing /\ handler[h].cred.key = k
                            \/ handler[h].name = "register" /\ k \in handler[h].keys
  BY DEF Coming
<1>2. CASE handler[h].name \in Storing /\ handler[h].cred.key = k
  <2>1. handler[h].cred # None
    BY <1>2, HandlerTyped DEF Storing, Signing, WellShaped, Cred
  <2>2. handler[h].cred \in Cred
    BY <1>2, <2>1, HandlerTyped DEF Damaged
  <2>3. owner[k] = handler[h].cred.agent /\ handler[h].cred.agent \in Keys
    BY <1>2, <2>2 DEF AllOwned, Owned, Cred
  <2> QED
    BY <2>3 DEF Issued
<1> QED
  BY <1>1, <1>2 DEF OnlyIssued

LEMMA VaultIsIssued ==
  ASSUME Typed, AllOwned, vault # None
  PROVE  vault.key \in Issued /\ vault \in Cred
BY DEF Typed, AllOwned, Owned, Cred, Issued

LEMMA NoneDoomedStep ==
  ASSUME Typed, Typed', KeysInOrder, OnlyIssued, PagesInShape, VaultAgrees,
         careful', AllOwned, AllOwned', NoneDoomed, Moves
  PROVE  NoneDoomed'
<1>d. Done.name \notin Storing \cup {"register"}
  BY DEF Done, Operation, Storing
<1>1. ASSUME NEW t \in Tabs, NEW j \in Keys, NEW h \in Handlers, StartsRevoke(t, j, h)
      PROVE  NoneDoomed'
  <2>1. /\ ~ tab[t].overtaken /\ ~ Coming(j) /\ j \in tab[t].list /\ tab[t].cred # None
        /\ handler'[h].name = "revoke" /\ handler'[h].target = j
        /\ handler'[h].cred = tab[t].cred /\ OthersGo(h)
        /\ UNCHANGED <<service, storage>> /\ handler[h] = Done
    BY <1>1 DEF StartsRevoke, MayRevoke, Starts, Asks
  <2>2. \A k \in Keys : Coming(k)' => Coming(k)
    BY <2>1 DEF Coming, Storing, OthersGo
  <2>3. ASSUME NEW k \in Keys, Doomed(k)', ~ Doomed(k)
        PROVE  k = j /\ Revocable(tab[t].cred, j)
    <3>1. \A cred : Revocable(cred, k)' <=> Revocable(cred, k)
      BY <2>1 DEF Revocable, KeysOf, service
    <3> QED
      BY <2>1, <2>3 DEF Doomed, Revocable, KeysOf, service, OthersGo
  <2>4. \A k \in Keys : Coming(k)' => ~ Doomed(k)'
    BY <2>1, <2>2, <2>3 DEF NoneDoomed
  <2>5. ASSUME vault # None, Doomed(vault.key)' PROVE FALSE
    <3>1. vault' = vault /\ vault.key \in Issued /\ vault \in Cred /\ vault.key \in Keys
      BY <2>1, <2>5, VaultIsIssued DEF storage, Cred
    <3>2. vault.key = j /\ Revocable(tab[t].cred, j)
      <4>1. PICK k \in Keys : k = vault.key
        BY <3>1
      <4>2. Doomed(k)' /\ ~ Doomed(k)
        BY <2>5, <3>1, <4>1 DEF NoneDoomed
      <4> QED
        BY <2>3, <4>1, <4>2
    <3>3. tab[t].cred.agent = vault.agent
      BY <3>1, <3>2 DEF Revocable, KeysOf, AllOwned, Owned
    <3>4. tab[t].cred = vault
      BY <2>1, <2>5, <3>3 DEF VaultAgrees, Agrees, Holds
    <3> QED
      BY <3>2, <3>4 DEF Revocable
  <2> QED
    BY <2>1, <2>4, <2>5 DEF NoneDoomed, storage
<1>2. CASE \A k \in Keys : ~ Revoking(k)
  <2>1. ASSUME NEW k \in Keys, k \in Issued, ~ Doomed(k) PROVE ~ Doomed(k)'
    BY <1>2, <2>1, DoomedThen
  <2>6. ASSUME UNCHANGED vault, vault # None PROVE ~ Doomed(vault.key)'
    <3>1. vault.key \in Issued /\ vault.key \in Keys /\ ~ Doomed(vault.key)
      BY <2>6, VaultIsIssued DEF NoneDoomed, Cred
    <3>2. PICK k \in Keys : k = vault.key
      BY <3>1
    <3> QED
      BY <2>1, <2>6, <3>1, <3>2
  <2>7. ASSUME NEW k \in Keys, Coming(k) PROVE ~ Doomed(k)'
    BY <2>1, <2>7, ComingIsIssued DEF NoneDoomed
  <2>2. ASSUME NEW h \in Handlers, NEW t \in Tabs, PageMoves(h, t) PROVE NoneDoomed'
    <3>1. ASSUME Writes(h, t) \/ Saves(h, t) PROVE ~ Doomed(vault.key)'
      <4>1. vault' = handler[h].cred /\ handler[h].name \in Storing /\ handler[h].cred \in Cred
        BY <3>1, HandlerTyped DEF Writes, Saves, Storing, Signing
      <4>2. PICK k \in Keys : k = vault'.key
        BY <4>1 DEF Cred
      <4>3. Coming(k)
        BY <4>1, <4>2 DEF Coming
      <4> QED
        BY <2>7, <4>2, <4>3
    <3>2. vault' # None => ~ Doomed(vault.key)'
      BY <2>2, <2>6, <3>1, NoWrite DEF storage
    <3>3. ASSUME NEW k \in Keys, Coming(k)', ~ Coming(k) PROVE ~ Doomed(k)'
      <4>1. \/ handler'[h].name \in Storing /\ handler'[h].cred.key = k
            \/ handler'[h].name = "register" /\ k \in handler'[h].keys
        BY <2>2, <3>3, ComingThen, UnderThen
      <4>2. ASSUME NEW file \in backups \cup {Damaged}, StartsImport(t, h, file)
            PROVE  ~ Doomed(k)'
        <5>1. file.key = k /\ file # Damaged
          BY <4>1, <4>2 DEF StartsImport, Starts, Asks, Damaged
        <5>2. ~ Doomed(k) /\ file \in Cred /\ Owned(file)
          BY <4>2, <5>1 DEF StartsImport, WellFormed, Typed, AllOwned
        <5>3. k \in Issued
          BY <5>1, <5>2 DEF Owned, Cred, Issued
        <5> QED
          BY <2>1, <5>2, <5>3
      <4>3. ASSUME StartsSave(t, h) PROVE ~ Doomed(k)'
        <5>1. tab[t].issued = k /\ ~ Doomed(k)
          <6>1. /\ handler'[h].name = "save"
                /\ handler'[h].cred = [agent |-> tab[t].cred.agent, key |-> tab[t].issued]
                /\ ~ Doomed(tab[t].issued)
            BY <4>3 DEF StartsSave, Starts, Asks
          <6>2. tab[t].issued = k
            BY <4>1, <6>1
          <6> QED
            BY <6>1, <6>2
        <5>2. k \in Issued
          <6>1. /\ Owned(handler[h].cred)' /\ UNCHANGED owner
                /\ handler'[h].cred = [agent |-> tab[t].cred.agent, key |-> k]
            BY <4>3, <5>1 DEF AllOwned, StartsSave, Starts, Asks, service
          <6>2. tab[t].cred.agent \in Keys
            BY <4>3, PageTyped DEF StartsSave, MayUse
          <6> QED
            BY <6>1, <6>2 DEF Owned, Cred, Issued
        <5> QED
          BY <2>1, <5>1, <5>2
      <4>4. ASSUME NEW j \in Keys, Registers(h, t, j) PROVE FALSE
        BY <3>3, <4>1, <4>4 DEF Registers, Answered, Asks, Coming
      <4>5. \/ \E file \in backups \cup {Damaged} : StartsImport(t, h, file)
            \/ StartsSave(t, h)
            \/ \E j \in Keys : Registers(h, t, j)
        <5>1. CASE \/ StartsRegister(t, h) \/ StartsCreate(t, h) \/ StartsUnlock(t, h)
                   \/ \E j \in Keys : StartsRevoke(t, j, h)
          BY <4>1, <5>1 DEF Asks, StartsRegister, StartsCreate, StartsRevoke, StartsUnlock,
             Starts, Storing
        <5>2. CASE Decrypts(h, t) \/ Revokes(h, t) \/ Creates(h, t) \/ Saves(h, t)
          BY <4>1, <5>2 DEF Asks, Decrypts, Revokes, GoesOn, Creates, Saves, Storing
        <5>3. CASE \/ Fails(h, t) \/ Rejects(h, t) \/ Loses(h, t) \/ Unlocks(h, t)
                   \/ Loads(h, t) \/ Writes(h, t)
          BY <1>d, <4>1, <5>3 DEF Fails, Rejects, Loses, Ends, Unlocks, Loads, Shows, Writes
        <5>4. CASE Abandons(h, t)
          BY <4>1, <5>4 DEF Abandons, Asks, Changing, Storing
        <5> QED
          BY <2>2, <5>1, <5>2, <5>3, <5>4 DEF PageMoves
      <4> QED
        BY <4>2, <4>3, <4>4, <4>5
    <3> QED
      BY <2>7, <3>2, <3>3 DEF NoneDoomed
  <2>3. ASSUME NEW h \in Handlers, ServiceMoves(h) PROVE NoneDoomed'
    <3>1. UNCHANGED vault /\ OthersGo(h)
      BY <2>3, ServedAsBefore DEF storage
    <3>2. ASSUME NEW k \in Keys, Coming(k)', ~ Coming(k) PROVE ~ Doomed(k)'
      <4>1. \/ handler'[h].name \in Storing /\ handler'[h].cred.key = k
            \/ handler'[h].name = "register" /\ k \in handler'[h].keys
        BY <3>1, <3>2, ComingThen DEF OthersGo
      <4>2. /\ handler[h].tab \in Tabs /\ handler[h].name \in Requests
            /\ handler'[h].name = handler[h].name
        BY <1>d, <2>3, <4>1, ServedAsBefore
      <4>3. Accounts(h, k)
        BY <2>3, <4>1, <4>2
           DEF ServiceMoves, Accounts, Issues, Drops, Reads, Refuses, Replies, Requests,
               Storing
      <4>4. k \in active' /\ k \notin Issued
        BY <4>3 DEF Accounts, Gives, Issued
      <4>5. \A g \in Handlers : handler'[g].name = "revoke" => handler'[g].target \in Issued
        BY <2>3, ServedAsBefore DEF OthersGo, OnlyIssued, Done, Operation
      <4> QED
        BY <4>4, <4>5 DEF Doomed
    <3> QED
      BY <2>6, <2>7, <3>1, <3>2 DEF NoneDoomed
  <2>4. ASSUME NEW t \in Tabs, Forgets(t) \/ Downloads(t) \/ Opens(t) PROVE NoneDoomed'
    <3>1. /\ vault' = None \/ UNCHANGED vault
          /\ \A g \in Handlers : handler'[g] = handler[g] \/ handler'[g] = Done
      BY <2>4 DEF Forgets, Downloads, Opens, storage
    <3>2. \A k \in Keys : Coming(k)' => Coming(k)
      BY <1>d, <3>1 DEF Coming
    <3> QED
      BY <2>6, <2>7, <3>1, <3>2 DEF NoneDoomed
  <2>5. CASE UNCHANGED vars
    BY <2>5 DEF vars, NoneDoomed, Doomed, Coming, Revocable, KeysOf
  <2> QED
    BY <2>2, <2>3, <2>4, <2>5 DEF Moves
<1> QED
  BY <1>1, <1>2 DEF Revoking

-----------------------------------------------------------------------------
(* Lists are right, or will be.                                             *)

LEMMA NothingLostStep ==
  ASSUME Typed, Typed', losses' = 0, Moves
  PROVE  (NothingLost => NothingLost') /\ losses = 0
<1>1. ASSUME NEW h \in Handlers, NEW t \in Tabs, PageMoves(h, t)
      PROVE  (NothingLost => NothingLost') /\ losses = 0
  <2>1. ~ Abandons(h, t)
    BY DEF Abandons, Typed
  <2>2. handler'[h] = Done \/ handler'[h].tab = t
    BY <1>1, <2>1, OthersAsBefore
  <2>3. losses = 0
    <3>1. losses' = losses \/ losses' = losses + 1
      BY <1>1
         DEF PageMoves, StartsRegister, StartsImport,
             StartsCreate, StartsSave, StartsRevoke, StartsUnlock, Starts, Registers,
             Decrypts, Revokes, GoesOn, Fails, Rejects, Loses, Ends, Abandons, Unlocks,
             Loads, Shows, Creates, Writes, Saves, user
    <3> QED
      BY <3>1 DEF Typed
  <2> QED
    BY <1>1, <2>2, <2>3, UnderThen DEF NothingLost
<1>2. ASSUME NEW h \in Handlers, ServiceMoves(h)
      PROVE  (NothingLost => NothingLost') /\ losses = 0
  <2>1. handler[h].tab \in Tabs \cup {None}
    BY HandlerTyped
  <2> QED
    BY <1>2, <2>1, ServedAsBefore DEF OthersGo, NothingLost, user
<1>3. ASSUME NEW t \in Tabs, Forgets(t) \/ Downloads(t) \/ Opens(t)
      PROVE  (NothingLost => NothingLost') /\ losses = 0
  BY <1>3 DEF Forgets, Downloads, Opens, NothingLost, user
<1>4. CASE UNCHANGED vars
  BY <1>4 DEF vars, NothingLost
<1> QED
  BY <1>1, <1>2, <1>3, <1>4 DEF Moves

(* A page that nothing happened to.                                         *)
LEMMA UpToDateStays ==
  ASSUME NEW u \in Tabs, UpToDate(u), UNCHANGED service,
         tab'[u].kind = tab[u].kind, SameOutdated(u), SameList(u), SameBusy(u),
         tab'[u].cred = tab[u].cred, Under(u)' = Under(u),
         \A h \in Under(u) : handler'[h] = handler[h]
  PROVE  UpToDate(u)'
BY DEF UpToDate, UnderWay, Right, KeysOf, Accepted, SameOutdated, SameList,
   SameBusy, service

(* A page with a handler that starts, goes on or ends, when it was the only *)
(* one.                                                                     *)
LEMMA UpToDateThen ==
  ASSUME NEW t \in Tabs, NEW h \in Handlers, Under(t)' \subseteq {h},
         h \in Under(t)' => UnderWay(t, handler[h])',
         tab'[t].cred # None => Accepted(tab[t].cred)',
         tab'[t].cred # None /\ h \notin Under(t)' => Right(t)'
  PROVE  UpToDate(t)'
<1>1. Under(t)' = {} \/ h \in Under(t)'
  OBVIOUS
<1>2. \A g \in Under(t)' : g = h
  OBVIOUS
<1>3. \A g \in Under(t)' : UnderWay(t, handler[g])'
  BY <1>2
<1> QED
  BY <1>1, <1>2, <1>3 DEF UpToDate

LEMMA PageUpToDate ==
  ASSUME Typed, Typed', PagesInShape, AllOwned, NoneDoomed, losses' = losses,
         NEW t \in Tabs, NEW h \in Handlers, PageMoves(h, t), UpToDate(t),
         tab'[t].kind = "keys", ~ tab'[t].outdated
  PROVE  UpToDate(t)'
<1>d. Done.tab = None /\ None \notin Tabs /\ None \notin Cred
  BY DEF Done, Operation, Cred
<1>1. tab[t].kind = "keys" /\ ~ tab[t].outdated
        /\ (StartsUnlock(t, h) => Under(t) = {})
  <2>1. tab[t].kind = "keys"
    BY OthersAsBefore
  <2>2. StartsUnlock(t, h) => ~ tab[t].outdated /\ Under(t) = {}
    BY DEF StartsUnlock
  <2>3. ~ StartsUnlock(t, h) => tab'[t].outdated = tab[t].outdated
    BY DEF SameOutdated, PageMoves, StartsRegister, StartsImport,
           StartsCreate, StartsSave, StartsRevoke, Starts, Registers,
           Decrypts, Revokes, GoesOn, Fails, Rejects, Loses, Ends, Abandons, Unlocks,
           Loads, Shows, Creates, Writes, Saves
  <2> QED
    BY <2>1, <2>2, <2>3
<1>2. /\ \A f, g \in Under(t) : f = g
      /\ \A g \in Under(t) : UnderWay(t, handler[g])
      /\ tab[t].cred # None => Accepted(tab[t].cred)
      /\ tab[t].cred # None /\ Under(t) = {} => Right(t)
  BY <1>1 DEF UpToDate
<1>3. /\ UNCHANGED service
      /\ \A a : KeysOf(a)' = KeysOf(a)
      /\ \A cred : Accepted(cred)' <=> Accepted(cred)
  BY PagesKeepService DEF KeysOf, Accepted, service
<1>4. handler[h].tab = t => handler[h].name \notin Connecting
  BY <1>1 DEF PagesInShape, PageShape, Under
<1>5. CASE StartsCreate(t, h) \/ StartsSave(t, h) \/ \E k \in Keys : StartsRevoke(t, k, h)
  <2>1. /\ tab[t].cred # None /\ ~ tab[t].busy /\ SamePage(t) /\ tab'[t].busy
        /\ handler'[h].name \in {"create", "save", "revoke"}
        /\ handler'[h].name \in {"create", "revoke"} => handler'[h].cred = tab[t].cred
    BY <1>5 DEF StartsCreate, MayCreate, StartsSave, MayUse, StartsRevoke, MayRevoke,
       Starts, Asks
  <2>2. Under(t) = {}
    BY <1>2, <2>1 DEF UnderWay, Unlocking
  <2>3. Right(t)
    BY <1>2, <2>1, <2>2
  <2>4. Under(t)' \subseteq {h}
    BY <2>2, UnderThen
  <2>5. Right(t)'
    BY <1>3, <2>1, <2>3 DEF Right, SamePage, SameList, SameKeys
  <2>6. UnderWay(t, handler[h])'
    BY <2>1, <2>5 DEF UnderWay, Unlocking, SamePage, SameKeys
  <2>7. Accepted(tab[t].cred)'
    BY <1>2, <1>3, <2>1 DEF Accepted, SamePage, SameKeys, service
  <2> QED
    BY <2>4, <2>5, <2>6, <2>7, UpToDateThen
<1>6. CASE StartsUnlock(t, h)
  <2>1. /\ tab[t].cred = None /\ SamePage(t) /\ handler'[h].name = "decrypt"
    BY <1>6 DEF StartsUnlock, MayUnlock, Asks
  <2>2. Under(t)' \subseteq {h} /\ tab'[t].cred = None
    BY <1>1, <1>6, <2>1, UnderThen DEF SamePage, SameKeys
  <2>3. UnderWay(t, handler[h])'
    BY <2>1, <2>2 DEF UnderWay
  <2> QED
    BY <2>2, <2>3, UpToDateThen
<1>7. CASE handler[h].tab = t
  <2> DEFINE op == handler[h]
  <2>1. h \in Under(t) /\ Under(t) = {h} /\ UnderWay(t, op)
    BY <1>2, <1>7 DEF Under
  <2>2. Under(t)' \subseteq {h}
    BY <2>1, UnderThen
  <2>3. CASE Decrypts(h, t)
    <3>1. tab[t].cred = None /\ tab'[t].cred = None /\ tab'[t].busy
            /\ handler'[h].name = "unlock" /\ handler'[h].answer = "none"
      BY <2>1, <2>3 DEF Decrypts, GoesOn, UnderWay, Unlocking, SamePage, SameKeys, Asks
    <3>2. UnderWay(t, handler[h])'
      BY <3>1 DEF UnderWay
    <3> QED
      BY <2>2, <3>1, <3>2, UpToDateThen
  <2>4. CASE Revokes(h, t) \/ Creates(h, t)
    <3>1. /\ tab'[t].cred = tab[t].cred /\ tab[t].busy /\ tab'[t].busy
          /\ handler'[h].name = "list" /\ handler'[h].answer = "none"
          /\ handler'[h].cred = op.cred /\ handler'[h].tab = t
          /\ op.name \in {"create", "revoke"}
      BY <2>1, <2>4 DEF Revokes, Creates, GoesOn, UnderWay, SamePage, SameKeys, SameBusy,
         Asks, Answered
    <3>2. UnderWay(t, handler[h])'
      BY <2>1, <3>1 DEF UnderWay, Unlocking
    <3>3. tab'[t].cred # None => Accepted(tab[t].cred)'
      BY <1>2, <1>3, <3>1 DEF Accepted, service
    <3>4. h \in Under(t)'
      BY <3>1 DEF Under
    <3> QED
      BY <2>2, <3>2, <3>3, <3>4, UpToDateThen
  <2>5. CASE Fails(h, t)
    <3>1. SamePage(t) /\ op.answer = "refused" /\ handler'[h] = Done
      BY <2>5 DEF Fails, Ends
    <3>2. op.name # "idle"
      BY <1>7, <1>d, HandlerTyped, <3>1 DEF WellShaped
    <3>3. op.name \in Unlocking \cup Signing
      BY <1>4, <1>7, <3>2, HandlerTyped DEF OpNames
    <3>4. tab[t].cred # None => Right(t)
      BY <2>1, <3>1, <3>3 DEF UnderWay, Unlocking, Signing
    <3>5. /\ tab'[t].cred # None => Accepted(tab[t].cred)' /\ Right(t)'
      BY <1>2, <1>3, <3>1, <3>4
         DEF Right, Accepted, KeysOf, service, SamePage, SameKeys, SameList
    <3>6. h \notin Under(t)'
      BY <1>d, <3>1 DEF Under
    <3> QED
      BY <2>2, <3>5, <3>6, UpToDateThen
  <2>6. CASE Unlocks(h, t) \/ Loads(h, t)
    <3>1. /\ tab'[t].list = op.keys /\ tab'[t].current = op.cred.key /\ handler'[h] = Done
      BY <2>6 DEF Unlocks, Loads, Shows
    <3>2. tab'[t].cred # None =>
            Accepted(tab'[t].cred) /\ op.keys = KeysOf(op.cred.agent) /\ tab'[t].cred = op.cred
      BY <1>2, <2>1, <2>6 DEF Unlocks, Loads, Answered, UnderWay
    <3>3. tab'[t].cred # None => Accepted(tab[t].cred)' /\ Right(t)'
      BY <1>3, <3>1, <3>2 DEF Right, Accepted, KeysOf, service
    <3>4. h \notin Under(t)'
      BY <1>d, <3>1 DEF Under
    <3> QED
      BY <2>2, <3>3, <3>4, UpToDateThen
  <2>7. CASE Saves(h, t)
    <3>1. /\ tab'[t].cred = op.cred /\ tab'[t].busy /\ op.cred \in Cred
          /\ handler'[h].name = "list" /\ handler'[h].answer = "none"
          /\ handler'[h].cred = op.cred /\ handler'[h].tab = t /\ op.name = "save"
      BY <1>7, <2>1, <2>7, HandlerTyped
         DEF Saves, UnderWay, SameBusy, Asks, Signing
    <3>2. Accepted(op.cred)
      <4>1. op.cred.key \in Keys /\ Coming(op.cred.key)
        BY <3>1 DEF Cred, Coming, Storing
      <4>2. ~ Doomed(op.cred.key)
        BY <4>1 DEF NoneDoomed
      <4> QED
        BY <3>1, <4>2 DEF Doomed, Accepted, AllOwned, Owned
    <3>3. UnderWay(t, handler[h])'
      BY <3>1 DEF UnderWay, Unlocking
    <3>4. Accepted(tab[t].cred)' /\ h \in Under(t)'
      BY <1>3, <3>1, <3>2 DEF Accepted, service, Under
    <3> QED
      BY <2>2, <3>3, <3>4, UpToDateThen
  <2>8. \/ Decrypts(h, t) \/ Revokes(h, t) \/ Creates(h, t) \/ Fails(h, t)
        \/ Unlocks(h, t) \/ Loads(h, t) \/ Saves(h, t)
    <3>1. ~ Loses(h, t) /\ ~ Abandons(h, t)
      BY DEF Loses, Abandons, Typed
    <3>2. handler[h] # Done
      BY <1>7, <1>d
    <3>3. /\ ~ StartsRegister(t, h) /\ ~ StartsCreate(t, h) /\ ~ StartsSave(t, h)
          /\ ~ StartsUnlock(t, h)
          /\ \A file \in backups \cup {Damaged} : ~ StartsImport(t, h, file)
          /\ \A k \in Keys : ~ StartsRevoke(t, k, h)
      BY <3>2 DEF StartsRegister, StartsImport, StartsCreate, StartsSave, StartsRevoke,
         StartsUnlock, Starts
    <3>4. /\ ~ Rejects(h, t) /\ ~ Writes(h, t) /\ \A k \in Keys : ~ Registers(h, t, k)
      BY <1>4, <1>7 DEF Rejects, Writes, Registers, Answered, Connecting
    <3> QED
      BY <3>1, <3>3, <3>4 DEF PageMoves
  <2> QED
    BY <2>3, <2>4, <2>5, <2>6, <2>7, <2>8
<1>8. \/ StartsCreate(t, h) \/ StartsSave(t, h) \/ StartsUnlock(t, h)
      \/ \E k \in Keys : StartsRevoke(t, k, h)
      \/ handler[h].tab = t
  BY <1>1 DEF PageMoves, StartsRegister, MayConnect, StartsImport, MayImport, Registers,
     Decrypts, Revokes, GoesOn, Fails, Rejects, Loses, Ends, Abandons, Unlocks,
     Loads, Shows, Creates, Writes, Saves
<1> QED
  BY <1>5, <1>6, <1>7, <1>8

(* A page when the service has served a request: what it knows of its agent *)
(* stays true unless the page is outdated.                                  *)
LEMMA ServedUpToDate ==
  ASSUME Typed, Typed', KeysInOrder, PagesInShape, NothingLost,
         NEW h \in Handlers, ServiceMoves(h), NEW u \in Tabs, UpToDate(u),
         tab'[u].kind = "keys", ~ tab'[u].outdated
  PROVE  UpToDate(u)'
<1>1. /\ SamePage(u) /\ SameBusy(u) /\ handler[h].tab \in Tabs /\ OthersGo(h)
      /\ handler'[h].name = handler[h].name
      /\ handler'[h].tab = handler[h].tab
      /\ handler'[h].cred = handler[h].cred
      /\ handler[h].answer = "none"
      /\ handler[h].name \in Requests
  <2>1. handler[h] # Done
    BY ServedAsBefore DEF Done, Operation, Requests
  <2>2. handler[h].tab \in Tabs
    BY <2>1, HandlerTyped DEF NothingLost
  <2> QED
    BY <2>2, ServedAsBefore
<1>2. tab[u].kind = "keys" /\ ~ tab[u].outdated
  BY <1>1 DEF SamePage, SameLook, ServiceMoves, Accounts, Issues, Drops, Reads, Refuses,
     Outdates, SameOutdated
<1>3. /\ \A f, g \in Under(u) : f = g
      /\ \A g \in Under(u) : UnderWay(u, handler[g])
      /\ tab[u].cred # None => Accepted(tab[u].cred)
      /\ tab[u].cred # None /\ Under(u) = {} => Right(u)
  BY <1>2 DEF UpToDate
<1>4. /\ Under(u)' = Under(u)
      /\ \A g \in Under(u) : g # h => handler'[g] = handler[g]
      /\ tab'[u].cred = tab[u].cred /\ tab'[u].busy = tab[u].busy
      /\ tab'[u].list = tab[u].list /\ tab'[u].current = tab[u].current
  BY <1>1, ServedUnder DEF OthersGo, SamePage, SameKeys, SameList, SameBusy, Under
<1> DEFINE Kept(a) ==
             \A k : k \in active' /\ owner'[k] = a <=> k \in active /\ owner[k] = a
(* What it knows of agents whose keys the request leaves alone.             *)
<1>5. ASSUME \A g \in Under(u) : handler'[g] = handler[g],
             tab[u].cred # None => Kept(tab[u].cred.agent),
             \A g \in Under(u) : handler[g].name = "unlock" /\ handler[g].answer = "done" =>
               Kept(handler[g].cred.agent)
      PROVE  UpToDate(u)'
  <2>1. tab'[u].cred # None => Accepted(tab[u].cred)'
    BY <1>3, <1>4, <1>5 DEF Accepted
  <2>2. tab'[u].cred # None => (Right(u) => Right(u)')
    BY <1>4, <1>5 DEF Right, KeysOf
  <2>3. \A g \in Under(u)' : UnderWay(u, handler[g])'
    <3> SUFFICES ASSUME NEW g \in Under(u) PROVE UnderWay(u, handler[g])'
      BY <1>4
    <3>1. handler'[g] = handler[g] /\ UnderWay(u, handler[g])
      BY <1>3, <1>5
    <3>2. tab[u].cred # None => KeysOf(tab[u].cred.agent)' = KeysOf(tab[u].cred.agent)
      BY <1>4, <1>5 DEF KeysOf
    <3>3. handler[g].name = "unlock" /\ handler[g].answer = "done" =>
            /\ Accepted(handler[g].cred) => Accepted(handler[g].cred)'
            /\ KeysOf(handler[g].cred.agent)' = KeysOf(handler[g].cred.agent)
      BY <1>5, <3>1 DEF KeysOf, Accepted
    <3> QED
      BY <1>4, <2>2, <3>1, <3>2, <3>3 DEF UnderWay
  <2> QED
    BY <1>3, <1>4, <2>1, <2>2, <2>3 DEF UpToDate
<1>6. ASSUME NEW b, NEW n, Gives(b, n), NEW a, a # b PROVE Kept(a)
  <2>1. owner' = [owner EXCEPT ![n] = b] /\ active' = active \cup {n} /\ owner[n] = None
          /\ n \in Keys
    BY <1>6 DEF Gives
  <2>2. \A k \in Keys : k # n => owner'[k] = owner[k]
    BY <2>1 DEF Typed
  <2>3. owner'[n] = b /\ active \subseteq Keys /\ n \notin active
    BY <2>1 DEF Typed, KeysInOrder, Issued
  <2>4. \A k : k \in active' /\ owner'[k] = a <=> k \in active /\ owner[k] = a
    BY <1>6, <2>1, <2>2, <2>3
  <2> QED
    BY <2>4
<1>7. ASSUME NEW op, Takes(op), NEW a, a # op.cred.agent PROVE Kept(a)
  BY <1>7 DEF Takes, Revocable, KeysOf
<1>8. ASSUME UNCHANGED service, NEW a PROVE Kept(a)
  BY <1>8 DEF service
<1>9. CASE handler[h].tab # u
  <2>1. h \notin Under(u)
    BY <1>9 DEF Under
  <2>2. \A g \in Under(u) : handler'[g] = handler[g]
    BY <1>4, <2>1
  <2>3. CASE Reads(h) \/ Refuses(h)
    BY <1>5, <1>8, <2>2, <2>3 DEF Reads, Refuses
  <2>4. ASSUME NEW n \in Keys, Accounts(h, n) PROVE UpToDate(u)'
    <3>1. n \notin Issued /\ Gives(n, n)
      BY <2>4 DEF Accounts, Gives, Issued
    <3>2. \A cred : Accepted(cred) => cred.agent # n
      BY <3>1 DEF Accepted, KeysInOrder
    <3>3. /\ tab[u].cred # None => tab[u].cred.agent # n
          /\ \A g \in Under(u) : handler[g].name = "unlock" /\ handler[g].answer = "done" =>
               handler[g].cred.agent # n
      BY <1>3, <3>2 DEF UnderWay
    <3>4. \A a : a # n => Kept(a)
      BY <1>6, <3>1
    <3> QED
      BY <1>5, <2>2, <3>3, <3>4
  <2>5. ASSUME Outdates(h)
        PROVE  /\ tab[u].cred # None => tab[u].cred.agent # handler[h].cred.agent
               /\ \A g \in Under(u) : handler[g].name = "unlock" =>
                    handler[g].cred.agent # handler[h].cred.agent
    BY <1>9, <2>5 DEF Outdates, Holds, Awaits
  <2>6. ASSUME NEW n \in Keys, Issues(h, n) PROVE UpToDate(u)'
    BY <1>5, <1>6, <2>2, <2>5, <2>6 DEF Issues
  <2>7. CASE Drops(h)
    <3>1. Takes(handler[h]) /\ Outdates(h)
      BY <2>7 DEF Drops
    <3>2. \A a : a # handler[h].cred.agent => Kept(a)
      BY <1>7, <3>1
    <3> QED
      BY <1>5, <2>2, <2>5, <3>1, <3>2
  <2> QED
    BY <2>3, <2>4, <2>6, <2>7 DEF ServiceMoves
<1>10. CASE handler[h].tab = u
  <2>1. h \in Under(u) /\ Under(u)' = {h} /\ UnderWay(u, handler[h])
    BY <1>3, <1>4, <1>10 DEF Under
  <2>2. handler[h].name # "register"
    BY <1>2, <1>10 DEF PagesInShape, PageShape, Under, Connecting
  <2>3. ASSUME tab'[u].cred # None => Accepted(tab[u].cred)',
               UnderWay(u, handler[h])'
        PROVE  UpToDate(u)'
    BY <2>1, <2>3, UpToDateThen
  <2>4. ASSUME NEW n \in Keys, Issues(h, n) PROVE UpToDate(u)'
    <3>1. handler'[h].name = "create" /\ handler'[h].answer = "done"
      BY <1>1, <2>4 DEF Issues, Replies
    <3>2. tab[u].cred # None => handler[h].cred = tab[u].cred
      BY <1>1, <2>1, <3>1 DEF UnderWay
    <3>3. UnderWay(u, handler[h])'
      BY <1>1, <1>4, <2>1, <3>1, <3>2 DEF UnderWay, Unlocking
    <3>4. Accepted(tab[u].cred) => Accepted(tab[u].cred)'
      BY <1>4, <2>4 DEF Issues, Gives, Accepted, KeysInOrder, Issued, Typed
    <3> QED
      BY <1>3, <1>4, <2>3, <3>3, <3>4
  <2>5. CASE Drops(h)
    <3>1. handler'[h].name = "revoke" /\ handler'[h].answer = "done"
      BY <1>1, <2>5 DEF Drops, Replies
    <3>2. tab[u].cred # None => handler[h].cred = tab[u].cred
      BY <1>1, <2>1, <3>1 DEF UnderWay
    <3>3. UnderWay(u, handler[h])'
      BY <1>1, <1>4, <2>1, <3>1, <3>2 DEF UnderWay, Unlocking
    <3>4. tab'[u].cred # None => Accepted(tab[u].cred)'
      BY <1>4, <2>5, <3>2 DEF Drops, Takes, Revocable, KeysOf, Accepted
    <3> QED
      BY <2>3, <3>3, <3>4
  <2>6. CASE Reads(h)
    <3>1. /\ handler'[h].name \in {"list", "unlock"} /\ handler'[h].answer = "done"
          /\ handler'[h].keys = KeysOf(handler[h].cred.agent)
          /\ Accepted(handler[h].cred) /\ UNCHANGED service
      BY <1>1, <2>6 DEF Reads, Replies
    <3>2. handler'[h].keys = KeysOf(handler[h].cred.agent)'
            /\ Accepted(handler[h].cred)'
      BY <1>1, <3>1 DEF KeysOf, Accepted, service
    <3>3. UnderWay(u, handler[h])'
      BY <1>1, <1>4, <2>1, <3>1, <3>2 DEF UnderWay, Unlocking
    <3>4. tab'[u].cred # None => Accepted(tab[u].cred)'
      BY <1>3, <1>4, <3>1 DEF Accepted, service
    <3> QED
      BY <2>3, <3>3, <3>4
  <2>7. CASE Refuses(h)
    <3>1. /\ handler'[h].answer = "refused" /\ UNCHANGED service
          /\ handler[h].name = "list" => ~ Accepted(handler[h].cred)
      BY <1>1, <2>7 DEF Refuses, Replies
    <3>2. tab[u].cred # None => handler[h].name # "list"
      BY <1>3, <2>1, <3>1 DEF UnderWay
    <3>3. Right(u)' <=> Right(u)
      BY <1>4, <3>1 DEF Right, KeysOf, service
    <3>4. UnderWay(u, handler[h])'
      BY <1>1, <1>4, <2>1, <3>1, <3>2, <3>3 DEF UnderWay, Unlocking
    <3>5. tab'[u].cred # None => Accepted(tab[u].cred)'
      BY <1>3, <1>4, <3>1 DEF Accepted, service
    <3> QED
      BY <2>3, <3>4, <3>5
  <2>8. \A n \in Keys : ~ Accounts(h, n)
    BY <2>2 DEF Accounts
  <2> QED
    BY <2>4, <2>5, <2>6, <2>7, <2>8 DEF ServiceMoves
<1> QED
  BY <1>9, <1>10

LEMMA ListsRightStep ==
  ASSUME Typed, Typed', KeysInOrder, PagesInShape, careful => AllOwned /\ NoneDoomed,
         ListsRight, Moves
  PROVE  ListsRight'
<1> SUFFICES ASSUME losses' = 0
             PROVE  NothingLost' /\ (careful' => \A u \in Tabs : UpToDate(u)')
  BY DEF ListsRight
<1>1. losses = 0 /\ NothingLost
  BY NothingLostStep DEF ListsRight
<1>2. NothingLost'
  BY <1>1, NothingLostStep
<1>3. ASSUME careful', NEW u \in Tabs PROVE UpToDate(u)'
  <2>1. careful /\ AllOwned /\ NoneDoomed /\ \A v \in Tabs : UpToDate(v)
    BY <1>1, <1>3, CarefulWas DEF ListsRight
  <2> SUFFICES ASSUME tab'[u].kind = "keys", ~ tab'[u].outdated PROVE UpToDate(u)'
    BY DEF UpToDate
  <2>2. ASSUME NEW h \in Handlers, NEW t \in Tabs, PageMoves(h, t) PROVE UpToDate(u)'
    <3>1. CASE u = t
      BY <1>1, <2>1, <2>2, <3>1, PageUpToDate
    <3>2. CASE u # t
      <4>1. /\ SameLook(u) /\ SameList(u) /\ SameKeys(u) /\ SameOutdated(u) /\ SameBusy(u)
            /\ UNCHANGED service
            /\ Under(u)' = Under(u) /\ \A g \in Under(u) : handler'[g] = handler[g]
        BY <2>2, <3>2, OthersAsBefore, UnderThen, PagesKeepService
      <4> QED
        BY <2>1, <4>1, UpToDateStays DEF SameLook, SameKeys
    <3> QED
      BY <3>1, <3>2
  <2>3. ASSUME NEW h \in Handlers, ServiceMoves(h) PROVE UpToDate(u)'
    BY <1>1, <2>1, <2>3, ServedUpToDate
  <2>4. ASSUME NEW t \in Tabs, Forgets(t) PROVE UpToDate(u)'
    <3>1. CASE u = t
      BY <2>1, <2>4, <3>1
         DEF Forgets, UpToDate, UnderWay, Accepted, KeysOf, SameOutdated, SameBusy, Under,
             service
    <3>2. CASE u # t
      <4>1. /\ SameLook(u) /\ SameList(u) /\ SameKeys(u) /\ SameOutdated(u) /\ SameBusy(u)
            /\ UNCHANGED service
            /\ Under(u)' = Under(u) /\ \A g \in Under(u) : handler'[g] = handler[g]
        BY <2>4, <3>2 DEF Forgets, Under
      <4> QED
        BY <2>1, <4>1, UpToDateStays DEF SameLook, SameKeys
    <3> QED
      BY <3>1, <3>2
  <2>5. ASSUME NEW t \in Tabs, Downloads(t) PROVE UpToDate(u)'
    <3>1. /\ UNCHANGED <<service, tab, handler>> /\ Under(u)' = Under(u)
      BY <2>5 DEF Downloads, Under
    <3> QED
      BY <2>1, <3>1, UpToDateStays DEF SameOutdated, SameList, SameBusy
  <2>6. ASSUME NEW t \in Tabs, Opens(t) PROVE UpToDate(u)'
    <3>1. \A g \in Handlers : handler'[g].tab = u =>
            u # t /\ handler[g].tab = u /\ handler'[g] = handler[g]
      BY <2>6 DEF Opens, Under, Done, Operation
    <3>2. CASE u = t
      <4>1. Under(u)' = {} /\ tab'[u].cred = None
        BY <2>6, <3>1, <3>2 DEF Opens, Under
      <4> QED
        BY <4>1 DEF UpToDate
    <3>3. CASE u # t
      <4>1. /\ tab'[u] = tab[u] /\ UNCHANGED service
            /\ Under(u)' = Under(u) /\ \A g \in Under(u) : handler'[g] = handler[g]
        BY <2>6, <3>1, <3>3 DEF Opens, Under, OthersStay
      <4> QED
        BY <2>1, <4>1, UpToDateStays DEF SameOutdated, SameList, SameBusy
    <3> QED
      BY <3>2, <3>3
  <2>7. CASE UNCHANGED vars
    <3>1. /\ UNCHANGED <<service, tab, handler>> /\ Under(u)' = Under(u)
      BY <2>7 DEF vars, service, Under
    <3> QED
      BY <2>1, <3>1, UpToDateStays DEF SameOutdated, SameList, SameBusy
  <2> QED
    BY <2>2, <2>3, <2>4, <2>5, <2>6, <2>7 DEF Moves
<1> QED
  BY <1>2, <1>3

-----------------------------------------------------------------------------
(* What the pages see is what the service promises.                         *)

(* FiniteSets, as KeyService extends it and as CredentialVault does.        *)
LEMMA CountedAlike == \A S : Service!Cardinality(S) = Cardinality(S)
BY DEF Service!Cardinality, Cardinality

LEMMA ServiceStep ==
  ASSUME Typed, KeysInOrder, Moves
  PROVE  [Service!Next]_Service!keyVars
<1>1. CASE UNCHANGED service
  BY <1>1 DEF Service!keyVars, service, Issued
<1>2. ASSUME NEW a \in Keys, NEW n \in Keys, Gives(a, n) PROVE Service!Next
  <2>1. /\ owner[n] = None /\ owner' = [owner EXCEPT ![n] = a]
        /\ active' = active \cup {n}
    BY <1>2 DEF Gives
  <2>2. (Issued \ active)' = Issued \ active
    <3>1. Issued' = Issued \cup {n} /\ n \notin Issued
      BY <2>1 DEF Typed, Issued
    <3> QED
      BY <2>1, <3>1
  <2>3. Service!KeysOf(a) \ (Issued \ active) = KeysOf(a)
    <3>1. None \notin Keys
      OBVIOUS
    <3>2. \A k : k \in Service!KeysOf(a) \ (Issued \ active) <=> k \in KeysOf(a)
      BY <3>1 DEF Typed, Issued, KeysOf, Service!KeysOf
    <3> QED
      BY <3>2
  <2>4. Cardinality(KeysOf(a)) < MaxActive
    <3>1. CASE a = n
      <4>1. KeysOf(a) = {}
        BY <2>1, <3>1, OwnersAreIssued DEF Typed, KeysOf, Issued
      <4> QED
        BY <4>1, FS_EmptySet
    <3> QED
      BY <1>2, <3>1 DEF Gives
  <2>5. Service!Issue(a, n)
    BY <2>1, <2>2, <2>3, <2>4, CountedAlike DEF Service!Issue
  <2> QED
    BY <2>5 DEF Service!Next
<1>3. ASSUME NEW h \in Handlers, Takes(handler[h]) PROVE Service!Next
  <2> DEFINE k == handler[h].target
  <2>1. /\ k \in active /\ active' = active \ {k} /\ owner' = owner
        /\ k \in Issued
    BY <1>3 DEF Takes, Revocable, KeysOf, KeysInOrder
  <2>2. (Issued \ active)' = (Issued \ active) \cup {k}
    BY <2>1 DEF Issued
  <2>3. PICK j \in Keys : j = k
    BY <2>1 DEF Issued
  <2>4. Service!Revoke(j)
    BY <2>1, <2>2, <2>3 DEF Service!Revoke, Issued
  <2> QED
    BY <2>4 DEF Service!Next
<1> QED
  BY <1>1, <1>2, <1>3, MovesServe

-----------------------------------------------------------------------------
(* The theorems.                                                            *)

LEMMA VaultInit == Init => VaultSound
<1> SUFFICES ASSUME Init PROVE VaultSound
  OBVIOUS
<1> USE DEF Init
<1>1. Typed
  BY DoneTyped DEF Typed, PageState, Page
<1>2. KeysInOrder
  <2>1. Issued = {}
    BY DEF Issued
  <2>2. Issued = 1 .. 0 /\ 0 \in Nat /\ 0 <= MaxKeys
    BY <2>1
  <2> QED
    BY <2>1, <2>2 DEF KeysInOrder
<1>3. /\ \A u \in Tabs : Under(u) = {} /\ tab[u] = Page("connect", None)
      /\ \A h \in Handlers : handler[h].keys = {} /\ handler[h].name = "idle"
           /\ handler[h] = Done /\ handler[h].cred = None
  BY DEF Under, Done, Operation
<1>4. OnlyIssued
  BY <1>3 DEF OnlyIssued, Page
<1>5. PagesInShape /\ KeepersKeep
  BY <1>3 DEF PagesInShape, PageShape, KeepersKeep, Page
<1>6. VaultAgrees
  <2>1. \A u \in Tabs : About(u, 0)
    BY <1>3 DEF About, Page
  <2> QED
    BY <1>3, <2>1 DEF VaultAgrees, Agrees, OneAgent
<1>7. NewKeysAreOwned
  BY <1>3 DEF NewKeysAreOwned
<1>8. AllOwned /\ NoneDoomed
  BY <1>3 DEF AllOwned, Owned, Page, Cred, NoneDoomed, Coming, Storing
<1>9. ListsRight
  BY <1>3 DEF ListsRight, NothingLost, UpToDate, Page
<1> QED
  BY <1>1, <1>2, <1>4, <1>5, <1>6, <1>7, <1>8, <1>9 DEF VaultSound

LEMMA VaultStep == VaultSound /\ [Next]_vars => VaultSound'
<1> SUFFICES ASSUME VaultSound, [Next]_vars PROVE VaultSound'
  OBVIOUS
<1>1. /\ Typed /\ KeysInOrder /\ OnlyIssued /\ PagesInShape /\ KeepersKeep
      /\ VaultAgrees /\ NewKeysAreOwned /\ ListsRight
      /\ careful => AllOwned /\ NoneDoomed
  BY DEF VaultSound
<1>2. Typed' /\ Moves
  BY <1>1, Step
<1>3. KeysInOrder' /\ OnlyIssued' /\ PagesInShape' /\ KeepersKeep'
  BY <1>1, <1>2, KeysInOrderStep, OnlyIssuedStep, ShapeStep, KeepersStep
<1>4. VaultAgrees' /\ NewKeysAreOwned'
  BY <1>1, <1>2, VaultAgreesStep, NewKeysStep
<1>5. ASSUME careful' PROVE AllOwned' /\ NoneDoomed'
  <2>1. careful
    BY <1>2, <1>5, CarefulWas
  <2>2. AllOwned'
    BY <1>1, <1>2, <1>5, <2>1, OwnedStep
  <2> QED
    BY <1>1, <1>2, <1>5, <2>1, <2>2, NoneDoomedStep
<1>6. ListsRight'
  BY <1>1, <1>2, ListsRightStep
<1> QED
  BY <1>2, <1>3, <1>4, <1>5, <1>6 DEF VaultSound

(* The inductive invariant: what the pages, the vault, the files and the    *)
(* handlers under way hold fits what the service knows, however often an    *)
(* unlock form is sent and whatever a late handler puts back                *)
(* (credential-unlock.tsx 23-57, keys/page.tsx 49-137).                     *)
THEOREM VaultSoundAlways == Spec => []VaultSound
<1>1. Init => VaultSound
  BY VaultInit
<1>2. VaultSound /\ [Next]_vars => VaultSound'
  BY VaultStep
<1> QED
  BY <1>1, <1>2, PTL DEF Spec

(* Whoever can open the vault can sign with it, as long as the user stores  *)
(* no key that is doomed, revokes none that is being stored and does not go *)
(* on with a page that was overtaken (keys/page.tsx 49-123,                 *)
(* connect/page.tsx 103-124).                                               *)
THEOREM VaultAlwaysUsable == Spec => []VaultStaysUsable
<1>1. VaultSound => VaultStaysUsable
  <2> SUFFICES ASSUME VaultSound, careful, vault # None
               PROVE  vault.key \in active /\ owner[vault.key] = vault.agent
    BY DEF VaultStaysUsable
  <2>1. vault \in Cred
    BY DEF VaultSound, Typed
  <2> QED
    BY <2>1 DEF VaultSound, AllOwned, Owned, NoneDoomed, Doomed
<1> QED
  BY <1>1, VaultSoundAlways, PTL

(* A page with nothing under way that is not outdated shows the agent's     *)
(* active keys and marks the one that it signs with (loadKeys at            *)
(* keys/page.tsx 77, 94, 115).                                              *)
THEOREM ListsAlwaysRight == Spec => []ListIsTheServices
<1>1. VaultSound => ListIsTheServices
  <2> SUFFICES ASSUME VaultSound, careful, losses = 0, NEW t \in Tabs,
                      tab[t].cred # None, ~ tab[t].outdated, Under(t) = {}
               PROVE  Right(t)
    BY DEF ListIsTheServices, Right
  <2>1. tab[t].kind = "keys" /\ UpToDate(t)
    BY PageTyped DEF VaultSound, ListsRight, PagesInShape, PageShape
  <2> QED
    BY <2>1 DEF UpToDate
<1> QED
  BY <1>1, VaultSoundAlways, PTL

(* A forgotten vault comes back only by connecting or importing, or from a  *)
(* handler of a page that was saving it, was being unlocked or was another  *)
(* unlocked page when it was forgotten (keys/page.tsx 125-137).             *)
THEOREM ForgottenStaysForgotten == Spec => ForgottenUnlessKept
<1> DEFINE Written ==
      \E h \in Handlers :
         /\ handler'[h] # handler[h]
         /\ LET page == tab[handler[h].tab] IN page.kind = "connect" \/ page.keeper
<1>1. ASSUME VaultSound, [Next]_vars, vault = None, vault' # None
      PROVE  Written
  <2>1. Typed /\ PagesInShape /\ KeepersKeep /\ Moves
    BY <1>1, Step DEF VaultSound
  <2>2. ASSUME NEW h \in Handlers, NEW t \in Tabs, Writes(h, t) PROVE Written
    <3>1. /\ handler'[h] = Done /\ handler[h].name \in {"store", "import"}
          /\ handler[h].tab = t
      BY <2>2 DEF Writes
    <3>2. tab[t].kind = "connect"
      BY <2>1, <3>1 DEF PagesInShape, PageShape, Under, Connecting
    <3> QED
      BY <3>1, <3>2 DEF Done, Operation
  <2>3. ASSUME NEW h \in Handlers, NEW t \in Tabs, Saves(h, t) PROVE Written
    <3>1. handler'[h].name = "list" /\ handler[h].name = "save" /\ handler[h].tab = t
      BY <2>3 DEF Saves, Asks
    <3>2. tab[t].kind = "connect" \/ tab[t].keeper
      BY <1>1, <2>1, <3>1, PageTyped DEF KeepersKeep, Under
    <3> QED
      BY <3>1, <3>2
  <2>4. \/ \E h \in Handlers, t \in Tabs : Writes(h, t)
        \/ \E h \in Handlers, t \in Tabs : Saves(h, t)
    <3>1. ASSUME NEW h \in Handlers, NEW t \in Tabs, PageMoves(h, t)
          PROVE  Writes(h, t) \/ Saves(h, t)
      BY <1>1, <3>1, NoWrite DEF storage
    <3>2. ASSUME NEW h \in Handlers, ServiceMoves(h) PROVE FALSE
      BY <1>1, <3>2, ServedAsBefore DEF storage
    <3>3. ASSUME NEW t \in Tabs, Forgets(t) \/ Downloads(t) \/ Opens(t) PROVE FALSE
      BY <1>1, <3>3 DEF Forgets, Downloads, Opens, storage
    <3> QED
      BY <1>1, <2>1, <3>1, <3>2, <3>3 DEF Moves, vars
  <2> QED
    BY <2>2, <2>3, <2>4
<1>2. VaultSound /\ [Next]_vars => [vault = None /\ vault' # None => Written]_vars
  BY <1>1
<1> QED
  BY <1>2, VaultSoundAlways, PTL DEF Spec, ForgottenUnlessKept

(* The pages see of the service what it promises: a late or repeated        *)
(* request issues no key beyond the limit and brings none back.             *)
THEOREM VaultImplementsService == Spec => ImplementsKeyService
<1>1. Init => Service!Init
  BY DEF Init, Service!Init, Issued
<1>2. VaultSound /\ [Next]_vars => [Service!Next]_Service!keyVars
  BY Step, ServiceStep DEF VaultSound
<1> QED
  BY <1>1, <1>2, VaultSoundAlways, PTL
     DEF Spec, ImplementsKeyService, Service!Spec
=============================================================================

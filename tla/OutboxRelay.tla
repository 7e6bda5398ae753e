----------------------------- MODULE OutboxRelay -----------------------------
(***************************************************************************)
(* The transactional outbox: settlements announce themselves as rows of    *)
(* outbox_events, and the relay of every API process polls the table,      *)
(* claims the oldest due event with a lease of 45 seconds, dispatches it   *)
(* and marks it processed or puts it off.  Dispatching "thread.resolved"   *)
(* indexes the thread in Qdrant and then replaces its chunks in            *)
(* PostgreSQL; dispatching "agent.reputation.recalculate" makes the        *)
(* reputation engine insert a snapshot.                                    *)
(*                                                                         *)
(* Time is abstract: availableAt lies in the future (the event is "put     *)
(* off") until a step of its own ends the lease or the delay.  Only one    *)
(* thing is said of the delay, which doubles with every attempt: at its    *)
(* longest, 256 seconds, it outlasts the drain that put the event off.     *)
(* That a lease ends while its relay still works is called an overrun: the *)
(* calls time out after 10 and 20 seconds, so it takes a slow database or  *)
(* a stopped process.                                                      *)
(*                                                                         *)
(* A thread has one event of its kind (BountyEscrow, AnnouncedOnce), so    *)
(* the event stands for its thread.  Its text, a sequence of words, grows  *)
(* with every post; vector-memory cuts the text that was read into chunks  *)
(* that overlap.  The hash of a chunk is its content, its embedding the    *)
(* content it was computed from.                                           *)
(***************************************************************************)
EXTENDS Naturals, FiniteSetsExt, SequencesExt

CONSTANTS
  NumEvents,       \* bound: events are numbered in the order of created_at
  IndexEvents,     \* those with the topic "thread.resolved"
  Relays,          \* API processes
  Batch,           \* events that one drain handles (10)
  MaxPosts,        \* bound: posts added to a resolved thread
  Text,            \* <<event, posts>> -> words of the thread
  ChunkWords,      \* wordsPerChunk (375)
  OverlapWords,    \* words that a chunk repeats of the one before (60)
  LongestDelay,    \* attempts after which the delay grows no more (8)
  MaxFaults,       \* bound: dispatches that fail and relays that die
  MaxOverruns,     \* bound: leases that end too early
  None

Events == 1 .. NumEvents

ASSUME RelayAssumption ==
  /\ NumEvents \in Nat
  /\ IndexEvents \subseteq Events
  /\ Batch \in Nat \ {0}
  /\ {MaxPosts, MaxFaults, MaxOverruns, LongestDelay} \subseteq Nat
  /\ OverlapWords \in Nat /\ ChunkWords \in Nat /\ OverlapWords < ChunkWords
  /\ None \notin Nat \cup Relays

VARIABLES
  written,         \* events written so far
  processed,       \* events with processed_at set
  putOff,          \* events whose available_at lies in the future
  attempts,        \* how often an event was claimed, up to LongestDelay
  patience,        \* the relay in whose drain an event was put off at length
  posted,          \* posts of a thread
  collection,      \* Qdrant: whether the collection exists
  points,          \* Qdrant: points of a thread, one per content hash
  chunks,          \* knowledge_chunks of a thread in their order, or None
  snapshots,       \* reputation events that led to a snapshot
  relay,           \* what each relay is doing
  faults, overruns

vars == <<written, processed, putOff, attempts, patience, posted, collection,
          points, chunks, snapshots, relay, faults, overruns>>
limits == <<faults, overruns>>
delays == <<putOff, attempts, patience>>
stores == <<collection, points, chunks, snapshots>>

Steps == {"idle", "claim", "read", "embed", "create", "index", "store",
          "recalculate", "mark", "putoff"}
Idle == [pc |-> "idle", event |-> 0, left |-> 0, chunks |-> <<>>]

Working(w) == relay[w].pc \notin {"idle", "claim"}
HeldBy(e) == {w \in Relays : Working(w) /\ relay[w].event = e}

Init ==
  /\ written = 0
  /\ processed = {}
  /\ putOff = {}
  /\ attempts = [e \in Events |-> 0]
  /\ patience = [e \in Events |-> None]
  /\ posted = [e \in IndexEvents |-> 0]
  /\ collection = FALSE
  /\ points = [e \in IndexEvents |-> {}]
  /\ chunks = [e \in IndexEvents |-> None]
  /\ snapshots = {}
  /\ relay = [w \in Relays |-> Idle]
  /\ faults = 0 /\ overruns = 0

-----------------------------------------------------------------------------
(* Plausible mistakes, each standing in for the definition it names.        *)

ClaimWithoutLease(e) == UNCHANGED putOff                       \* PutOff
ProcessedWhenClaimed(e) == processed \cup {e}                  \* AfterClaim
OwnerMustEnd(e) == HeldBy(e) # {}                              \* MayEnd
OverlapForgotten == ChunkWords                                 \* Stride
AsTheyCome(data) == [k \in DOMAIN data |-> data[k].embedding]  \* Vectors

-----------------------------------------------------------------------------
(* chunkResolvedThread.                                                     *)

(* The words between the starts of two chunks.                              *)
Stride == ChunkWords - OverlapWords
Start(k) == (k - 1) * Stride

(* The loop ends with the chunk that reaches the end of the text.           *)
Chunks(t) ==
  LET ordinals == {k \in 1 .. Len(t) : k = 1 \/ Start(k - 1) + ChunkWords < Len(t)}
  IN  [k \in ordinals |->
         SubSeq(t, Start(k) + 1, Min({Start(k) + ChunkWords, Len(t)}))]

ASSUME TextAssumption ==
  /\ IndexEvents \X (0 .. MaxPosts) \subseteq DOMAIN Text
  /\ \A i \in DOMAIN Text :
       Text[i] \in Seq(ToSet(Text[i])) /\ Chunks(Text[i]) # None

(* What a provider may answer: an embedding per text, in any order.         *)
Answers(cs) ==
  {[k \in DOMAIN cs |-> [index |-> order[k], embedding |-> cs[order[k]]]] :
     order \in {f \in [DOMAIN cs -> DOMAIN cs] : ToSet(f) = DOMAIN cs}}

(* embed sorts them by index; the vectors are matched to chunks by place.   *)
Sorted(data) ==
  CHOOSE s \in [DOMAIN data -> ToSet(data)] :
    /\ ToSet(s) = ToSet(data)
    /\ \A j, k \in DOMAIN data : j < k => s[j].index < s[k].index
Vectors(data) == [k \in DOMAIN data |-> Sorted(data)[k].embedding]

(* Upserting: the id of a point derives from thread and content hash.       *)
Upsert(old, cs, vectors) ==
  {p \in old : p.hash \notin ToSet(cs)}
    \cup {[hash |-> cs[k], vector |-> vectors[k]] : k \in DOMAIN cs}

(* Unique per thread and hash; and over all threads, as 0001 drops an index *)
(* name that 0000 never created.                                            *)
Storable(e, cs) ==
  /\ IsInjective(cs)
  /\ \A other \in IndexEvents \ {e} :
       chunks[other] = None \/ ToSet(chunks[other]) \cap ToSet(cs) = {}

-----------------------------------------------------------------------------
(* WHERE processed_at IS NULL AND available_at <= now().                    *)
Due == {e \in 1 .. written : e \notin processed \cup putOff}

PutOff(e) == putOff' = putOff \cup {e}

(* Claiming does not touch processed_at.                                    *)
AfterClaim(e) == processed

(* A settlement commits with its events.                                    *)
Write ==
  /\ written < NumEvents
  /\ written' = written + 1
  /\ UNCHANGED <<processed, delays, posted, stores, relay, limits>>

(* createPost does not ask whether the thread is resolved.                  *)
CreatePost(e) ==
  /\ e <= written
  /\ posted[e] < MaxPosts
  /\ posted' = [posted EXCEPT ![e] = @ + 1]
  /\ UNCHANGED <<written, processed, delays, stores, relay, limits>>

(* A search calls ensureCollection as well.                                 *)
Query ==
  /\ ~ collection
  /\ collection' = TRUE
  /\ UNCHANGED <<written, processed, delays, posted, points, chunks, snapshots,
                 relay, limits>>

(* The timer starts a drain, unless the process is draining already.        *)
Tick(w) ==
  /\ relay[w].pc = "idle"
  /\ relay' = [relay EXCEPT ![w] = [Idle EXCEPT !.pc = "claim", !.left = Batch]]
  /\ UNCHANGED <<written, processed, delays, posted, stores, limits>>

(* The drain is over, and soon the long delays it gave are.                 *)
EndDrain(w) ==
  /\ relay' = [relay EXCEPT ![w] = Idle]
  /\ patience' = [e \in Events |-> IF patience[e] = w THEN None ELSE patience[e]]

(* claimOne, in one transaction: the oldest due event that no other relay   *)
(* is claiming, or the end of the drain.                                    *)
Claim(w) ==
  /\ relay[w].pc = "claim"
  /\ IF relay[w].left = 0 \/ Due = {}
     THEN /\ EndDrain(w)
          /\ UNCHANGED <<putOff, attempts, processed>>
     ELSE LET e == Min(Due)
              topic == IF e \in IndexEvents THEN "read" ELSE "recalculate"
          IN  /\ PutOff(e)
              /\ attempts' = [attempts EXCEPT ![e] = Min({@ + 1, LongestDelay})]
              /\ processed' = AfterClaim(e)
              /\ relay' = [relay EXCEPT ![w].pc = topic, ![w].event = e]
              /\ UNCHANGED patience
  /\ UNCHANGED <<written, posted, stores, limits>>

(* indexResolvedThread: read the thread, its posts and the accepted code,...*)
ReadThread(w) ==
  LET e == relay[w].event IN
  /\ relay[w].pc = "read"
  /\ relay' = [relay EXCEPT ![w].pc = "embed",
                            ![w].chunks = Chunks(Text[e, posted[e]])]
  /\ UNCHANGED <<written, processed, delays, posted, stores, limits>>

(* ... let vector-memory cut and embed the text and look for the collection *)
Embed(w) ==
  /\ relay[w].pc = "embed"
  /\ relay' = [relay EXCEPT ![w].pc = IF collection THEN "index" ELSE "create"]
  /\ UNCHANGED <<written, processed, delays, posted, stores, limits>>

(* (creating it fails if somebody else has done so by now), ...             *)
CreateCollection(w) ==
  /\ relay[w].pc = "create"
  /\ collection' = TRUE
  /\ relay' = [relay EXCEPT ![w].pc = IF collection THEN "putoff" ELSE "index"]
  /\ UNCHANGED <<written, processed, delays, posted, points, chunks, snapshots,
                 limits>>

(* ... upsert the points ...                                                *)
IndexPoints(w) ==
  /\ relay[w].pc = "index"
  /\ \E data \in Answers(relay[w].chunks) :
       points' = [points EXCEPT ![relay[w].event] =
                    Upsert(@, relay[w].chunks, Vectors(data))]
  /\ relay' = [relay EXCEPT ![w].pc = "store"]
  /\ UNCHANGED <<written, processed, delays, posted, collection, chunks, snapshots,
                 limits>>

(* ... and replace the thread's chunks in one transaction.                  *)
StoreChunks(w) ==
  LET e == relay[w].event IN
  /\ relay[w].pc = "store"
  /\ IF Storable(e, relay[w].chunks)
     THEN /\ chunks' = [chunks EXCEPT ![e] = relay[w].chunks]
          /\ relay' = [relay EXCEPT ![w].pc = "mark"]
     ELSE /\ relay' = [relay EXCEPT ![w].pc = "putoff"]
          /\ UNCHANGED chunks
  /\ UNCHANGED <<written, processed, delays, posted, collection, points, snapshots,
                 limits>>

(* The reputation engine inserts a snapshot.                                *)
Recalculate(w) ==
  /\ relay[w].pc = "recalculate"
  /\ snapshots' = snapshots \cup {relay[w].event}
  /\ relay' = [relay EXCEPT ![w].pc = "mark"]
  /\ UNCHANGED <<written, processed, delays, posted, collection, points, chunks,
                 limits>>

NextRound(w) ==
  relay' = [relay EXCEPT ![w] = [Idle EXCEPT !.pc = "claim",
                                             !.left = relay[w].left - 1]]

Mark(w) ==
  /\ relay[w].pc = "mark"
  /\ processed' = processed \cup {relay[w].event}
  /\ NextRound(w)
  /\ UNCHANGED <<written, delays, posted, stores, limits>>

(* A call or a query fails or times out, before or after it took effect: ...*)
Fail(w) ==
  /\ relay[w].pc \in Steps \ {"idle", "claim", "putoff"}
  /\ faults < MaxFaults
  /\ faults' = faults + 1
  /\ relay' = [relay EXCEPT ![w].pc = "putoff"]
  /\ UNCHANGED <<written, processed, delays, posted, stores, overruns>>

(* ... the event is put off, whoever holds it by now; for 256 seconds in    *)
(* the end, which is more than ten dispatches can take.                     *)
LongDelay(e) == attempts[e] = LongestDelay
Backoff(w) ==
  LET e == relay[w].event IN
  /\ relay[w].pc = "putoff"
  /\ PutOff(e)
  /\ patience' = [patience EXCEPT ![e] = IF LongDelay(e) THEN w ELSE None]
  /\ NextRound(w)
  /\ UNCHANGED <<written, processed, attempts, posted, stores, limits>>

(* The process dies; a failing query in claimOne or in the catch block ends *)
(* the drain as well (the promise of the timer is not awaited).             *)
Crash(w) ==
  /\ relay[w].pc # "idle"
  /\ faults < MaxFaults
  /\ faults' = faults + 1
  /\ EndDrain(w)
  /\ UNCHANGED <<written, processed, putOff, attempts, posted, stores, overruns>>

(* The time of an event comes that no relay is working on, ...              *)
MayEnd(e) == HeldBy(e) = {}
BecomeDue(e) ==
  /\ e \in putOff /\ patience[e] = None
  /\ MayEnd(e)
  /\ putOff' = putOff \ {e}
  /\ UNCHANGED <<written, processed, attempts, patience, posted, stores, relay,
                 limits>>

(* ... or of one that a slow relay is still working on.                     *)
Overrun(e) ==
  /\ e \in putOff
  /\ HeldBy(e) # {}
  /\ overruns < MaxOverruns
  /\ overruns' = overruns + 1
  /\ putOff' = putOff \ {e}
  /\ UNCHANGED <<written, processed, attempts, patience, posted, stores, relay,
                 faults>>

-----------------------------------------------------------------------------
Work(w) ==
  \/ Tick(w)
  \/ Claim(w)
  \/ ReadThread(w)
  \/ Embed(w)
  \/ CreateCollection(w)
  \/ IndexPoints(w)
  \/ StoreChunks(w)
  \/ Recalculate(w)
  \/ Mark(w)
  \/ Backoff(w)

Next ==
  \/ Write
  \/ \E e \in IndexEvents : CreatePost(e)
  \/ Query
  \/ \E w \in Relays : Work(w)
  \/ \E w \in Relays : Fail(w)
  \/ \E w \in Relays : Crash(w)
  \/ \E e \in Events : BecomeDue(e)
  \/ \E e \in Events : Overrun(e)

Spec == Init /\ [][Next]_vars

(* The timer ticks, a drain runs on because every call in it times out, and *)
(* time passes.                                                             *)
FairSpec ==
  /\ Spec
  /\ \A w \in Relays : WF_vars(Work(w))
  /\ \A e \in Events : WF_vars(BecomeDue(e))

-----------------------------------------------------------------------------
(* Properties.                                                              *)

(* An event is marked as processed only when its work was done: the thread  *)
(* has chunks, the agent a snapshot, through failures, crashes and leases   *)
(* that end too early (drain 44-74).                                        *)
ProcessedWasDone ==
  \A e \in processed :
    IF e \in IndexEvents THEN chunks[e] # None ELSE e \in snapshots

(* As long as no lease ends too early, two relays never work on the same    *)
(* event, although they poll the same table (claimOne).                     *)
OneRelayPerEvent ==
  overruns = 0 => \A e \in Events : Cardinality(HeldBy(e)) <= 1

(* A search finds every chunk that PostgreSQL knows: it has a point, which  *)
(* carries its own embedding, whichever of two relays wrote last to which   *)
(* store and in whatever order the provider answered (indexResolvedThread). *)
ChunksHavePoints ==
  \A e \in IndexEvents :
    chunks[e] # None =>
      \A c \in ToSet(chunks[e]) : [hash |-> c, vector |-> c] \in points[e]

(* Nothing of a thread is lost or mixed up by cutting it: its chunks, less  *)
(* what each repeats of the one before, are a text that the thread had      *)
(* (chunkResolvedThread).                                                   *)
Reassembled(cs) ==
  LET upto[k \in DOMAIN cs] ==
        IF k = 1 THEN cs[1]
        ELSE upto[k - 1] \o SubSeq(cs[k], OverlapWords + 1, Len(cs[k]))
  IN  IF cs = <<>> THEN <<>> ELSE upto[Len(cs)]
ChunksMakeUpTheText ==
  \A e \in IndexEvents :
    chunks[e] # None => \E n \in 0 .. posted[e] : Reassembled(chunks[e]) = Text[e, n]

(* Every event is processed in the end, with a bounded number of faults and *)
(* overruns, unless its thread repeats itself so that it has two equal      *)
(* chunks: an event that fails for ever keeps nobody else waiting.          *)
Repetitive == {i \in DOMAIN Text : ~ IsInjective(Chunks(Text[i]))}
EveryEventProcessed ==
  \A e \in Events :
    e <= written ~>
      \/ e \in processed
      \/ e \in IndexEvents /\ <<e, posted[e]>> \in Repetitive

-----------------------------------------------------------------------------
(* What the repository says and the code does not do.                       *)

(* The schema makes content hashes unique per thread                        *)
(* (knowledge_thread_content_hash_uq): two resolved threads with a chunk in *)
(* common are both indexed in the end (0001_knowledge_chunk_scope.sql).     *)
EveryThreadIndexed ==
  \A e \in IndexEvents : e <= written ~> chunks[e] # None
=============================================================================

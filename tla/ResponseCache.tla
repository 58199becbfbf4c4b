--------------------------- MODULE ResponseCache ---------------------------
(***************************************************************************)
(* The response cache: middleware/cache.py over its two backends, and the  *)
(* admin calls that invalidate it (routes/spend.py).                       *)
(*                                                                         *)
(* In Redis an entry is written in three awaits: the entry with its TTL,   *)
(* its key into the index set of the model, the TTL of the index.  Any of  *)
(* them may raise, and the exception is swallowed.  An invalidation by     *)
(* model reads the index, deletes the entries it named, and deletes the    *)
(* index, in three more.  The memory backend is one OrderedDict and never  *)
(* yields in the middle of an operation.                                   *)
(***************************************************************************)
EXTENDS Integers, FiniteSets, Sequences, SequencesExt

CONSTANTS
    Keys,        \* cache keys; a key hashes the model with the rest of the body
    NoKey,       \* of a slot that is not in use
    Models,
    ModelOf,     \* [Keys -> Models]
    TtlOf,       \* [Models -> TTL], _get_ttl_for_model
    Overrides,   \* TTLs a request may ask for (metadata.cache_ttl)
    Slack,       \* what the index outlives its newest entry by (60 s)
    MaxAges,     \* s_maxage values a request may ask for
    NoAge,       \* no s_maxage
    Delay,       \* how long a command of Redis may take
    Handlers,    \* concurrently running writers (slots, reused)
    MaxSize      \* of the memory backend

ASSUME CacheAssumption ==
    /\ Models # {}
    /\ ModelOf \in [Keys -> Models]
    /\ TtlOf \in [Models -> Nat \ {0}]
    /\ Overrides \subseteq Nat \ {0}
    /\ Slack \in Nat
    /\ MaxAges \subseteq Nat
    /\ NoAge \notin Nat
    /\ Delay \in Nat
    /\ NoKey \notin Keys
    /\ MaxSize \in Nat \ {0}

-----------------------------------------------------------------------------
VARIABLES
    backend,  \* cache_settings.type
    now,
    entry,    \* gateway:cache:*: when it lapses, and its _cached_at; born: history,
              \* when it was stored
    index,    \* gateway:cache_index:model:*, [keys, until]; until 0: no TTL
    mem,      \* MemoryCache._store, oldest position first
    set,      \* the calls of set_cached_response
    del,      \* the call of delete_cache
    stale,    \* history: a lookup has returned an entry that was too old
    loose,    \* history: entries cut off their index by a fault or a race
    uneven,   \* history: models whose index has had an irregular TTL
    uses      \* history: uses of the memory store since a key was last read or inserted

cache == <<entry, index, loose, uneven>>
redis == <<entry, index, set, del, loose, uneven>>
memory == <<mem, uses>>
vars == <<backend, now, redis, memory, stale>>

Gone == [until |-> 0, stamp |-> 0, born |-> 0]
NoIndex == [keys |-> {}, until |-> 0]
Idle == [stage |-> "idle", key |-> NoKey, ttl |-> 1]
\* must: history, the live entries the call has to remove.
Quiet == [stage |-> "idle", model |-> CHOOSE m \in Models : TRUE, keys |-> {}, must |-> {}]

TypeOK ==
    /\ backend \in {"redis", "memory"}
    /\ now \in Nat
    /\ entry \in [Keys -> [until : Nat, stamp : Nat, born : Nat]]
    /\ index \in [Models -> [keys : SUBSET Keys, until : Nat]]
    /\ mem \in Seq([key : Keys, at : Nat, until : Nat, stamped : BOOLEAN])
    /\ set \in [Handlers -> [stage : {"idle", "sadd", "expire"},
                             key : Keys \union {NoKey}, ttl : Nat \ {0}]]
    /\ del \in [stage : {"idle", "read", "deleted", "scan", "scanned", "done"},
                model : Models, keys : SUBSET Keys, must : SUBSET Keys]
    /\ stale \in BOOLEAN
    /\ loose \in SUBSET Keys
    /\ uneven \in SUBSET Models
    /\ uses \in [Keys -> 0..MaxSize]

Init ==
    /\ backend \in {"redis", "memory"}
    /\ now = 0
    /\ entry = [k \in Keys |-> Gone]
    /\ index = [m \in Models |-> NoIndex]
    /\ mem = <<>>
    /\ set = [w \in Handlers |-> Idle]
    /\ del = Quiet
    /\ stale = FALSE
    /\ loose = {}
    /\ uneven = {}
    /\ uses = [k \in Keys |-> MaxSize]

-----------------------------------------------------------------------------
Live(k) == entry[k].until > now
LiveKeys == {k \in Keys : Live(k)}

\* A writer of k has stored its entry and not yet indexed it (stage "sadd"),
\* or not yet prolonged the index (stage "expire").
Writing(k, stage) == \E w \in Handlers : set[w].stage = stage /\ set[w].key = k

-----------------------------------------------------------------------------
(* set_cached_response.                                                    *)

\* The TTL is the request's or the model's; the stamp was taken before the call.
SetEx(w, k, ttl, wait) ==
    /\ set[w].stage = "idle" /\ wait <= now
    /\ entry' = [entry EXCEPT ![k] = [until |-> now + ttl, stamp |-> now - wait, born |-> now]]
    /\ uneven' = IF ttl # TtlOf[ModelOf[k]] THEN uneven \union {ModelOf[k]} ELSE uneven
    /\ del' = [del EXCEPT !.must = @ \ {k}]
    /\ set' = [set EXCEPT ![w] = [stage |-> "sadd", key |-> k, ttl |-> ttl]]
    /\ UNCHANGED <<now, stale, index, loose>>

SAdd(w) ==
    LET k == set[w].key
    IN  /\ set[w].stage = "sadd"
        /\ index' = [index EXCEPT ![ModelOf[k]].keys = @ \union {k}]
        /\ loose' = loose \ {k}
        /\ set' = [set EXCEPT ![w].stage = "expire"]
        /\ UNCHANGED <<now, stale, entry, del, uneven>>

\* Mutant: only an index without a TTL is given one.
ExpireNewIndex(w) ==
    LET m == ModelOf[set[w].key]
    IN  /\ set[w].stage = "expire"
        /\ index' = IF index[m].keys = {} \/ index[m].until # 0 THEN index
                    ELSE [index EXCEPT ![m].until = now + set[w].ttl + Slack]
        /\ set' = [set EXCEPT ![w] = Idle]
        /\ UNCHANGED <<now, stale, entry, del, loose, uneven>>

\* EXPIRE does nothing to an index that has lapsed or was deleted meanwhile.
ExpireIndex(w) ==
    LET m == ModelOf[set[w].key]
    IN  /\ set[w].stage = "expire"
        /\ index' = IF index[m].keys = {} THEN index
                    ELSE [index EXCEPT ![m].until = now + set[w].ttl + Slack]
        /\ set' = [set EXCEPT ![w] = Idle]
        /\ UNCHANGED <<now, stale, entry, del, loose, uneven>>

\* A Redis call of the writer raises (the exception is logged), or its
\* request is cancelled: what it has written so far stays.
CacheSetError(w) ==
    LET k == set[w].key
    IN  /\ set[w].stage # "idle"
        /\ loose' = IF set[w].stage = "sadd" THEN loose \union {k} ELSE loose
        /\ uneven' = IF set[w].stage = "expire" THEN uneven \union {ModelOf[k]} ELSE uneven
        /\ set' = [set EXCEPT ![w] = Idle]
        /\ UNCHANGED <<now, stale, entry, index, del>>

-----------------------------------------------------------------------------
(* get_cached_response: a GET, and the test of s_maxage once it is back.  A *)
(* GET that raises is a miss.                                              *)

\* Mutant: s_maxage 0 is taken for none.
YoungZero(item, time, maxage) ==
    maxage \in {NoAge, 0} \/ (item.stamped /\ time - item.at <= maxage)

\* A popped stamp reads as 0, the epoch: such an entry is always too old.
Young(item, time, maxage) == maxage = NoAge \/ (item.stamped /\ time - item.at <= maxage)

\* history: what the request did not ask for.
TooOld(born, until, time, maxage) ==
    now > until \/ (maxage # NoAge /\ time - born > maxage)

RedisGet(k, maxage, wait) ==
    LET item == [at |-> entry[k].stamp, stamped |-> TRUE]
    IN  /\ Live(k)
        /\ stale' = (stale \/ /\ Young(item, now + wait, maxage)
                              /\ TooOld(entry[k].born, entry[k].until, now + wait, maxage))
        /\ UNCHANGED <<now, set, del, cache>>

-----------------------------------------------------------------------------
(* delete_cache: one call at a time; it knows Redis only.                  *)

\* By key: one DEL.  The index keeps the key.
DeleteKey(k) ==
    /\ Live(k)
    /\ entry' = [entry EXCEPT ![k] = Gone]
    /\ loose' = loose \ {k}
    /\ del' = [del EXCEPT !.must = @ \ {k}]
    /\ UNCHANGED <<now, stale, index, set, uneven>>

\* By model: SMEMBERS; an empty index ends the call.  It owes the removal of
\* the live entries of the model whose writers are not between two awaits.
ReadIndex(m) ==
    /\ del.stage \in {"idle", "done"}
    /\ del' = [stage |-> IF index[m].keys = {} THEN "done" ELSE "read", model |-> m,
               keys |-> index[m].keys,
               must |-> {k \in LiveKeys : ModelOf[k] = m /\ ~Writing(k, "sadd")}]
    /\ UNCHANGED <<now, stale, set, cache>>

DeleteEntries ==
    /\ del.stage = "read"
    /\ entry' = [k \in Keys |-> IF k \in del.keys THEN Gone ELSE entry[k]]
    /\ loose' = loose \ del.keys
    /\ del' = [del EXCEPT !.stage = "deleted", !.must = @ \ del.keys]
    /\ UNCHANGED <<now, stale, index, set, uneven>>

\* The index goes with whatever was added to it, or written again, since.
DeleteIndex ==
    /\ del.stage = "deleted"
    /\ index' = [index EXCEPT ![del.model] = NoIndex]
    /\ loose' = loose \union {k \in index[del.model].keys : Live(k) /\ k \notin del.must}
    /\ del' = [del EXCEPT !.stage = "done", !.keys = {}]
    /\ UNCHANGED <<now, stale, entry, set, uneven>>

\* Flush: SCAN returns every entry that is there from its start to its end,
\* in batches; each batch is deleted in an await of its own.  The pattern
\* does not match the indexes.
BeginFlush ==
    /\ del.stage \in {"idle", "done"}
    /\ del' = [Quiet EXCEPT !.stage = "scan", !.must = LiveKeys]
    /\ UNCHANGED <<now, stale, set, cache>>

ScanBatch(batch) ==
    /\ del.stage = "scan" /\ batch # {}
    /\ del' = [del EXCEPT !.stage = "scanned", !.keys = batch]
    /\ UNCHANGED <<now, stale, set, cache>>

DeleteBatch ==
    /\ del.stage = "scanned"
    /\ entry' = [k \in Keys |-> IF k \in del.keys THEN Gone ELSE entry[k]]
    /\ loose' = loose \ del.keys
    /\ del' = [del EXCEPT !.stage = "scan", !.must = @ \ del.keys]
    /\ UNCHANGED <<now, stale, index, set, uneven>>

\* Mutant: one batch is taken for the whole (the cursor is not followed).
EndFlushEarly ==
    /\ del.stage = "scan" /\ del.keys # {}
    /\ del' = [del EXCEPT !.stage = "done", !.keys = {}]
    /\ UNCHANGED <<now, stale, set, cache>>

EndFlush ==
    /\ del.stage = "scan" /\ del.must \intersect LiveKeys = {}
    /\ del' = [del EXCEPT !.stage = "done", !.keys = {}]
    /\ UNCHANGED <<now, stale, set, cache>>

\* A Redis call of the invalidation raises: 500, and it is not finished.
DeleteError ==
    /\ del.stage \notin {"idle", "done"}
    /\ del' = Quiet
    /\ UNCHANGED <<now, stale, set, cache>>

-----------------------------------------------------------------------------
(* The memory backend.                                                     *)

Position(k) == {i \in 1..Len(mem) : mem[i].key = k}
\* Mutant: the stamp is put at the beginning of the lifetime that ends now.
ItemBackdated(k, ttl) == [key |-> k, at |-> now - ttl, until |-> now + ttl, stamped |-> TRUE]

Item(k, ttl) == [key |-> k, at |-> now, until |-> now + ttl, stamped |-> TRUE]

\* Mutant: two entries make room for one.
RoomMadeTwice == IF Len(mem) >= MaxSize THEN SubSeq(mem, 3, Len(mem)) ELSE mem

\* A full store drops its first entry, even for one it holds already.
Room == IF Len(mem) >= MaxSize THEN Tail(mem) ELSE mem

UsedOnce == [x \in Keys |-> IF uses[x] < MaxSize THEN uses[x] + 1 ELSE MaxSize]

\* An overwritten entry stays where it is in the order.
MemorySet(k, ttl) ==
    LET put == [i \in 1..Len(Room) |-> IF Room[i].key = k THEN Item(k, ttl) ELSE Room[i]]
        new == \A i \in 1..Len(Room) : Room[i].key # k
    IN  /\ mem' = IF new THEN Append(Room, Item(k, ttl)) ELSE put
        /\ uses' = [UsedOnce EXCEPT ![k] = IF new THEN 0 ELSE @]
        /\ UNCHANGED <<now, stale>>

\* A lookup of an expired entry deletes it; any other moves it to the end.
\* A hit is the cached object itself, and all handlers but the chat stream
\* (pops FALSE) take its _cached_at away before they answer.
MemoryGet(k, maxage, pops) ==
    \E i \in Position(k) :
        LET item == mem[i]
            rest == RemoveAt(mem, i)
            found == Young(item, now, maxage)
        IN  IF now > item.until
            THEN /\ mem' = rest
                 /\ uses' = [uses EXCEPT ![k] = MaxSize]
                 /\ UNCHANGED <<now, stale>>
            ELSE /\ mem' = Append(rest, [item EXCEPT !.stamped = @ /\ ~(found /\ pops)])
                 /\ uses' = [UsedOnce EXCEPT ![k] = 0]
                 /\ stale' = (stale \/ (found /\ TooOld(item.at, item.until, now, maxage)))
                 /\ UNCHANGED now

\* The process restarts with an empty store.
MemoryLost ==
    /\ mem # <<>>
    /\ mem' = <<>>
    /\ uses' = [k \in Keys |-> MaxSize]
    /\ UNCHANGED <<now, stale>>

-----------------------------------------------------------------------------
\* Redis drops what has lapsed; an index that lapses while a writer is about
\* to prolong it, or after an irregular TTL, cuts its live entries off.
Tick ==
    LET lapsed == {m \in Models : index[m].until # 0 /\ index[m].until <= now + 1}
        live == {k \in Keys : entry[k].until > now + 1}
        torn == {m \in Models : m \in uneven \/ \E k \in Keys :
                                    ModelOf[k] = m /\ Writing(k, "expire")}
    IN  /\ now' = now + 1
        /\ entry' = [k \in Keys |-> IF k \in live THEN entry[k] ELSE Gone]
        /\ index' = [m \in Models |-> IF m \in lapsed THEN NoIndex ELSE index[m]]
        /\ loose' = {k \in live : k \in loose \/ ModelOf[k] \in lapsed \intersect torn}
        /\ UNCHANGED <<stale, set, del, uneven>>

RedisNext ==
    \/ \E w \in Handlers :
         \/ \E k \in Keys, wait \in 0..Delay :
              \E ttl \in Overrides \union {TtlOf[ModelOf[k]]} : SetEx(w, k, ttl, wait)
         \/ SAdd(w) \/ ExpireIndex(w) \/ CacheSetError(w)
    \/ \E k \in Keys, maxage \in MaxAges \union {NoAge}, wait \in 0..Delay :
         RedisGet(k, maxage, wait)
    \/ \E k \in Keys : DeleteKey(k)
    \/ \E m \in Models : ReadIndex(m)
    \/ DeleteEntries \/ DeleteIndex \/ DeleteError
    \/ BeginFlush \/ EndFlush \/ DeleteBatch
    \/ \E batch \in SUBSET LiveKeys : ScanBatch(batch)

MemoryNext ==
    \/ \E k \in Keys :
         \/ \E ttl \in Overrides \union {TtlOf[ModelOf[k]]} : MemorySet(k, ttl)
         \/ \E maxage \in MaxAges \union {NoAge}, pops \in BOOLEAN : MemoryGet(k, maxage, pops)
    \/ MemoryLost

Next ==
    \/ backend = "redis" /\ RedisNext /\ UNCHANGED <<backend, memory>>
    \/ backend = "memory" /\ MemoryNext /\ UNCHANGED <<backend, redis>>
    \/ Tick /\ UNCHANGED <<backend, memory>>

Spec == Init /\ [][Next]_vars

-----------------------------------------------------------------------------
(* Properties.                                                             *)

\* The index of a model names every live entry of the model, or the writer
\* of the entry is just about to add it: whatever order writers, lapses and
\* invalidations come in.  Entries are cut off only by a fault between
\* SETEX and SADD, by an invalidation that deletes the index they were added
\* to since it was read, and by an index that lapses after another TTL than
\* the model's, or a fault, or between SADD and EXPIRE.
IndexCovers ==
    \A k \in LiveKeys :
        \/ k \in index[ModelOf[k]].keys
        \/ Writing(k, "sadd")
        \/ k \in loose

\* A finished invalidation (by model or a flush) has removed what it had to:
\* no entry from before it began is left, other than those cut off before.
InvalidationComplete ==
    del.stage = "done" => del.must \intersect LiveKeys \subseteq loose

\* Neither backend finds an entry past its TTL, or returns one that is older
\* than the request's s_maxage by then: not Redis, whose entries were stamped before they were
\* stored and are tested after they were read, and not the memory store,
\* although handlers take the stamps off the cached objects.
HitsAreFresh == ~stale

\* An entry of the memory backend is kept for MaxSize - 1 uses of other
\* entries after it was inserted or read, also when those overwrite.
RecentlyUsedStays ==
    \A k \in Keys : uses[k] < MaxSize => Position(k) # {}
=============================================================================

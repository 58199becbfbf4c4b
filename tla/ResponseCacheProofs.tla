------------------------ MODULE ResponseCacheProofs ------------------------
(***************************************************************************)
(* Proofs about ResponseCache: what index and invalidation guarantee in    *)
(* Redis, and hits and evictions in memory, for any keys, models, TTLs,    *)
(* numbers of writers and sizes of the memory store.                       *)
(***************************************************************************)
EXTENDS ResponseCache, TLAPS

-----------------------------------------------------------------------------
(* The inductive invariant of the Redis backend.                           *)

\* A call under way writes one key, with the TTL of the model unless that has
\* had irregular ones.
WriterOK(w) ==
    set[w].stage # "idle" =>
        /\ set[w].key \in Keys
        /\ ModelOf[set[w].key] \notin uneven => set[w].ttl = TtlOf[ModelOf[set[w].key]]

\* An entry is stamped before it is stored, and none of such a model lives
\* longer than an index that is prolonged now.
EntryOK(k) ==
    /\ entry[k].stamp <= entry[k].born
    /\ ModelOf[k] \notin uneven => entry[k].until <= now + TtlOf[ModelOf[k]]

Covered(k) == Live(k) => k \in index[ModelOf[k]].keys \/ Writing(k, "sadd") \/ k \in loose

\* The index outlives the entries that only it covers, but while a writer is
\* about to prolong it.
Outlived(k) ==
    /\ Live(k) /\ k \in index[ModelOf[k]].keys /\ k \notin loose
    /\ ~Writing(k, "sadd")
    /\ ModelOf[k] \notin uneven
    /\ ~\E w \in Handlers : set[w].stage = "expire" /\ ModelOf[set[w].key] = ModelOf[k]
    => index[ModelOf[k]].until = 0 \/ index[ModelOf[k]].until >= entry[k].until

\* What an invalidation by model has to remove and has not is in what it has
\* read, or cut off, and none of it is being written.
OwedOK(k) ==
    k \in del.must /\ Live(k) =>
        /\ del.stage \in {"read", "deleted", "done"} => ~Writing(k, "sadd")
        /\ del.stage = "read" => k \in del.keys \/ k \in loose
        /\ del.stage \in {"deleted", "done"} => k \in loose

RedisTypes ==
    /\ now \in Nat
    /\ entry \in [Keys -> [until : Nat, stamp : Nat, born : Nat]]
    /\ index \in [Models -> [keys : SUBSET Keys, until : Nat]]
    /\ set \in [Handlers -> [stage : {"idle", "sadd", "expire"},
                             key : Keys \union {NoKey}, ttl : Nat \ {0}]]
    /\ del \in [stage : {"idle", "read", "deleted", "scan", "scanned", "done"},
                model : Models, keys : SUBSET Keys, must : SUBSET Keys]
    /\ loose \in SUBSET Keys
    /\ uneven \in SUBSET Models

RedisOK ==
    /\ RedisTypes
    /\ \A w \in Handlers : WriterOK(w)
    /\ \A k \in Keys : EntryOK(k) /\ Covered(k) /\ Outlived(k) /\ OwedOK(k)

-----------------------------------------------------------------------------
(* The inductive invariant of the memory backend.                          *)

\* A key that was used lately is near the end of the order.
Recent(k) ==
    uses[k] < MaxSize => \E i \in 1..Len(mem) : mem[i].key = k /\ Len(mem) - i <= uses[k]

MemoryTypes ==
    /\ mem \in Seq([key : Keys, at : Nat, until : Nat, stamped : BOOLEAN])
    /\ uses \in [Keys -> 0..MaxSize]

MemoryOK ==
    /\ MemoryTypes
    /\ stale = FALSE
    /\ \A k \in Keys : Recent(k)

IInv == backend \in {"redis", "memory"} /\ RedisOK /\ MemoryOK

-----------------------------------------------------------------------------
(* The steps of a writer.                                                  *)

LEMMA Constants ==
  /\ \A k \in Keys : ModelOf[k] \in Models /\ TtlOf[ModelOf[k]] \in Nat \ {0}
  /\ Idle \in [stage : {"idle", "sadd", "expire"}, key : Keys \union {NoKey}, ttl : Nat \ {0}]
  /\ Idle.stage = "idle"
  /\ Quiet \in [stage : {"idle", "read", "deleted", "scan", "scanned", "done"},
                model : Models, keys : SUBSET Keys, must : SUBSET Keys]
  /\ Quiet.stage = "idle" /\ Quiet.must = {}
  /\ NoIndex \in [keys : SUBSET Keys, until : Nat] /\ NoIndex.keys = {} /\ NoIndex.until = 0
  /\ Gone \in [until : Nat, stamp : Nat, born : Nat]
  /\ Gone.until = 0 /\ Gone.stamp = 0 /\ Gone.born = 0
<1>1. (CHOOSE m \in Models : TRUE) \in Models
  BY CacheAssumption
<1> QED
  BY <1>1, CacheAssumption DEF Idle, Quiet, NoIndex, Gone

LEMMA SetExStep ==
  ASSUME RedisOK, NEW w \in Handlers, NEW k \in Keys,
         NEW ttl \in Overrides \union {TtlOf[ModelOf[k]]}, NEW wait \in 0..Delay,
         SetEx(w, k, ttl, wait)
  PROVE  RedisOK'
<1> DEFINE call == [stage |-> "sadd", key |-> k, ttl |-> ttl]
           stored == [until |-> now + ttl, stamp |-> now - wait, born |-> now]
<1>1. /\ ttl \in Nat \ {0} /\ now \in Nat /\ now + ttl \in Nat
      /\ now - wait \in Nat /\ now - wait <= now
  BY Constants, CacheAssumption DEF RedisOK, RedisTypes, SetEx
<1>2. /\ now' = now /\ index' = index /\ loose' = loose
      /\ entry' = [entry EXCEPT ![k] = stored]
      /\ set' = [set EXCEPT ![w] = call]
      /\ del' = [del EXCEPT !.must = @ \ {k}]
      /\ uneven \subseteq uneven' /\ uneven' \in SUBSET Models
      /\ ttl # TtlOf[ModelOf[k]] => ModelOf[k] \in uneven'
  BY Constants DEF SetEx, RedisOK, RedisTypes
<1>3. /\ call \in [stage : {"idle", "sadd", "expire"}, key : Keys \union {NoKey}, ttl : Nat \ {0}]
      /\ call.stage = "sadd" /\ call.key = k /\ call.ttl = ttl
      /\ stored \in [until : Nat, stamp : Nat, born : Nat]
      /\ stored.until = now + ttl /\ stored.stamp <= stored.born
  BY <1>1
<1> HIDE DEF call, stored
<1>4. /\ entry'[k] = stored /\ \A j \in Keys \ {k} : entry'[j] = entry[j]
      /\ set'[w] = call /\ \A v \in Handlers \ {w} : set'[v] = set[v]
      /\ del'.must = del.must \ {k} /\ del'.stage = del.stage /\ del'.keys = del.keys
  BY <1>2 DEF RedisOK, RedisTypes
<1>5. RedisTypes'
  BY <1>1, <1>2, <1>3 DEF RedisOK, RedisTypes
<1>6. \A v \in Handlers : WriterOK(v)'
  BY <1>2, <1>3, <1>4 DEF RedisOK, WriterOK
<1>7. set[w].stage = "idle" /\ Writing(k, "sadd")'
  BY <1>3, <1>4 DEF SetEx, Writing
<1>8. \A j \in Keys \ {k} : /\ Live(j)' <=> Live(j)
                            /\ \A stage \in {"sadd", "expire"} : Writing(j, stage)' <=> Writing(j, stage)
  BY <1>2, <1>3, <1>4, <1>7 DEF Live, Writing
<1>9. ASSUME NEW j \in Keys
      PROVE  EntryOK(j)' /\ Covered(j)' /\ Outlived(j)' /\ OwedOK(j)'
  <2>1. CASE j = k
    <3>1. EntryOK(j)'
      BY <1>1, <1>2, <1>3, <1>4, <2>1 DEF EntryOK
    <3> QED
      BY <1>4, <1>7, <2>1, <3>1 DEF Covered, Outlived, OwedOK
  <2>2. CASE j # k
    <3>1. EntryOK(j)' /\ Covered(j)' /\ OwedOK(j)'
      BY <1>2, <1>4, <1>8, <2>2 DEF RedisOK, EntryOK, Covered, OwedOK
    <3>2. \A m : (\E v \in Handlers : set[v].stage = "expire" /\ ModelOf[set[v].key] = m)
                 => (\E v \in Handlers : set'[v].stage = "expire" /\ ModelOf[set'[v].key] = m)
      BY <1>4, <1>7
    <3>3. Outlived(j)'
      BY <1>2, <1>4, <1>8, <2>2, <3>2 DEF RedisOK, Outlived
    <3> QED
      BY <3>1, <3>3
  <2> QED
    BY <2>1, <2>2
<1> QED
  BY <1>5, <1>6, <1>9 DEF RedisOK

LEMMA SAddStep ==
  ASSUME RedisOK, NEW w \in Handlers, SAdd(w)
  PROVE  RedisOK'
<1> DEFINE k == set[w].key
           call == [set[w] EXCEPT !.stage = "expire"]
<1>1. set[w].stage = "sadd" /\ k \in Keys /\ ModelOf[k] \in Models /\ Writing(k, "sadd")
  BY Constants DEF SAdd, RedisOK, WriterOK, Writing
<1>2. /\ now' = now /\ entry' = entry /\ del' = del /\ uneven' = uneven
      /\ index' = [index EXCEPT ![ModelOf[k]].keys = @ \union {k}]
      /\ loose' = loose \ {k}
      /\ set' = [set EXCEPT ![w] = call]
  BY DEF SAdd, RedisOK, RedisTypes
<1>3. /\ call \in [stage : {"idle", "sadd", "expire"}, key : Keys \union {NoKey}, ttl : Nat \ {0}]
      /\ call.stage = "expire" /\ call.key = k /\ call.ttl = set[w].ttl
  BY DEF RedisOK, RedisTypes
<1> HIDE DEF call
<1>4. /\ index'[ModelOf[k]].keys = index[ModelOf[k]].keys \union {k}
      /\ \A m \in Models : index'[m].until = index[m].until
      /\ \A m \in Models \ {ModelOf[k]} : index'[m] = index[m]
      /\ set'[w] = call /\ \A v \in Handlers \ {w} : set'[v] = set[v]
  BY <1>1, <1>2 DEF RedisOK, RedisTypes
<1>5. RedisTypes'
  <2>1. index' \in [Models -> [keys : SUBSET Keys, until : Nat]]
    BY <1>1, <1>2 DEF RedisOK, RedisTypes
  <2> QED
    BY <1>2, <1>3, <2>1 DEF RedisOK, RedisTypes
<1>6. \A v \in Handlers : WriterOK(v)'
  BY <1>1, <1>2, <1>3, <1>4 DEF RedisOK, WriterOK
<1>7. \A j \in Keys \ {k} : Writing(j, "sadd")' <=> Writing(j, "sadd")
  BY <1>1, <1>3, <1>4 DEF Writing
<1>8. ASSUME NEW j \in Keys
      PROVE  EntryOK(j)' /\ Covered(j)' /\ Outlived(j)' /\ OwedOK(j)'
  <2>1. EntryOK(j)'
    BY <1>2, <1>8 DEF RedisOK, EntryOK
  <2>2. Covered(j)'
    BY <1>2, <1>4, <1>7, <1>8, Constants DEF RedisOK, Covered, Live
  <2>3. Outlived(j)'
    <3>1. CASE ModelOf[j] = ModelOf[k]
      BY <1>3, <1>4, <3>1 DEF Outlived
    <3>2. CASE ModelOf[j] # ModelOf[k]
      <4>1. index'[ModelOf[j]] = index[ModelOf[j]] /\ j # k
        BY <1>4, <3>2, Constants
      <4>2. (\E v \in Handlers : set[v].stage = "expire" /\ ModelOf[set[v].key] = ModelOf[j])
            => (\E v \in Handlers : set'[v].stage = "expire" /\ ModelOf[set'[v].key] = ModelOf[j])
        BY <1>1, <1>4
      <4> QED
        BY <1>2, <1>7, <1>8, <4>1, <4>2 DEF RedisOK, Outlived, Live
    <3> QED
      BY <3>1, <3>2
  <2>4. OwedOK(j)'
    <3>1. CASE j = k
      BY <1>1, <1>2, <3>1 DEF RedisOK, OwedOK, Live, RedisTypes
    <3>2. CASE j # k
      BY <1>2, <1>7, <1>8, <3>2 DEF RedisOK, OwedOK, Live
    <3> QED
      BY <3>1, <3>2
  <2> QED
    BY <2>1, <2>2, <2>3, <2>4
<1> QED
  BY <1>5, <1>6, <1>8 DEF RedisOK

LEMMA ExpireIndexStep ==
  ASSUME RedisOK, NEW w \in Handlers, ExpireIndex(w)
  PROVE  RedisOK'
<1> DEFINE m == ModelOf[set[w].key]
           until == now + set[w].ttl + Slack
<1>1. set[w].stage = "expire" /\ set[w].key \in Keys /\ m \in Models
  BY Constants DEF ExpireIndex, RedisOK, WriterOK
<1>2. until \in Nat /\ now \in Nat /\ set[w].ttl \in Nat /\ Slack \in Nat
  BY CacheAssumption DEF RedisOK, RedisTypes
<1>3. /\ now' = now /\ entry' = entry /\ del' = del /\ uneven' = uneven /\ loose' = loose
      /\ set' = [set EXCEPT ![w] = Idle]
      /\ \/ index' = index /\ index[m].keys = {}
         \/ index' = [index EXCEPT ![m].until = until]
  BY DEF ExpireIndex
<1> HIDE DEF until
<1>4. /\ index' \in [Models -> [keys : SUBSET Keys, until : Nat]]
      /\ \A n \in Models : index'[n].keys = index[n].keys
      /\ \A n \in Models \ {m} : index'[n] = index[n]
      /\ index[m].keys = {} \/ index'[m].until = until
  <2>1. index \in [Models -> [keys : SUBSET Keys, until : Nat]]
    BY DEF RedisOK, RedisTypes
  <2> QED
    BY <1>1, <1>2, <1>3, <2>1
<1>5. set'[w] = Idle /\ \A v \in Handlers \ {w} : set'[v] = set[v]
  BY <1>3 DEF RedisOK, RedisTypes
<1>6. RedisTypes' /\ \A v \in Handlers : WriterOK(v)'
  BY <1>3, <1>4, <1>5, Constants DEF RedisOK, RedisTypes, WriterOK
<1>7. \A j \in Keys : Writing(j, "sadd")' <=> Writing(j, "sadd")
  BY <1>1, <1>5, Constants DEF Writing
<1>8. ASSUME NEW j \in Keys
      PROVE  EntryOK(j)' /\ Covered(j)' /\ Outlived(j)' /\ OwedOK(j)'
  <2>1. EntryOK(j)' /\ Covered(j)' /\ OwedOK(j)'
    BY <1>3, <1>4, <1>7, <1>8, Constants DEF RedisOK, EntryOK, Covered, OwedOK, Live
  <2>2. CASE ModelOf[j] = m
    <3>1. m \notin uneven => entry[j].until <= now + set[w].ttl
      BY <1>1, <1>8, <2>2 DEF RedisOK, EntryOK, WriterOK
    <3>2. index[m].keys # {} /\ m \notin uneven => index'[m].until >= entry[j].until
      BY <1>2, <1>4, <3>1 DEF until, RedisOK, RedisTypes
    <3> QED
      BY <1>3, <1>4, <2>1, <2>2, <3>2, <1>1 DEF Outlived
  <2>3. CASE ModelOf[j] # m
    <3>1. (\E v \in Handlers : set[v].stage = "expire" /\ ModelOf[set[v].key] = ModelOf[j])
          => (\E v \in Handlers : set'[v].stage = "expire" /\ ModelOf[set'[v].key] = ModelOf[j])
      BY <1>5, <2>3
    <3>2. index'[ModelOf[j]] = index[ModelOf[j]]
      BY <1>4, <2>3, Constants
    <3> QED
      BY <1>3, <1>7, <1>8, <2>1, <3>1, <3>2 DEF RedisOK, Outlived, Live
  <2> QED
    BY <2>1, <2>2, <2>3
<1> QED
  BY <1>6, <1>8 DEF RedisOK

LEMMA CacheSetErrorStep ==
  ASSUME RedisOK, NEW w \in Handlers, CacheSetError(w)
  PROVE  RedisOK'
<1> DEFINE k == set[w].key
<1>1. set[w].stage \in {"sadd", "expire"} /\ k \in Keys /\ ModelOf[k] \in Models
  BY Constants DEF CacheSetError, RedisOK, RedisTypes, WriterOK
<1>2. /\ now' = now /\ entry' = entry /\ del' = del /\ index' = index
      /\ set' = [set EXCEPT ![w] = Idle]
      /\ loose' = IF set[w].stage = "sadd" THEN loose \union {k} ELSE loose
      /\ uneven' = IF set[w].stage = "expire" THEN uneven \union {ModelOf[k]} ELSE uneven
  BY DEF CacheSetError
<1>3. /\ loose \subseteq loose' /\ loose' \in SUBSET Keys
      /\ uneven \subseteq uneven' /\ uneven' \in SUBSET Models
      /\ set[w].stage = "sadd" => k \in loose'
      /\ set[w].stage = "expire" => ModelOf[k] \in uneven'
  BY <1>1, <1>2 DEF RedisOK, RedisTypes
<1>4. set'[w] = Idle /\ \A v \in Handlers \ {w} : set'[v] = set[v]
  BY <1>2 DEF RedisOK, RedisTypes
<1>5. RedisTypes' /\ \A v \in Handlers : WriterOK(v)'
  BY <1>2, <1>3, <1>4, Constants DEF RedisOK, RedisTypes, WriterOK
<1>6. \A j \in Keys : /\ Writing(j, "sadd")' => Writing(j, "sadd")
                      /\ Writing(j, "sadd") => Writing(j, "sadd")' \/ j \in loose'
  BY <1>3, <1>4, Constants DEF Writing
<1>7. ASSUME NEW j \in Keys
      PROVE  EntryOK(j)' /\ Covered(j)' /\ Outlived(j)' /\ OwedOK(j)'
  <2>1. EntryOK(j)' /\ Covered(j)' /\ OwedOK(j)'
    BY <1>2, <1>3, <1>6, <1>7 DEF RedisOK, EntryOK, Covered, OwedOK, Live
  <2>2. ASSUME ModelOf[j] \notin uneven', NEW v \in Handlers,
               set[v].stage = "expire", ModelOf[set[v].key] = ModelOf[j]
        PROVE  set'[v].stage = "expire" /\ ModelOf[set'[v].key] = ModelOf[j]
    BY <1>3, <1>4, <2>2
  <2>3. Outlived(j)'
    BY <1>2, <1>3, <1>6, <1>7, <2>2 DEF RedisOK, Outlived, Live
  <2> QED
    BY <2>1, <2>3
<1> QED
  BY <1>5, <1>7 DEF RedisOK

-----------------------------------------------------------------------------
(* The steps of an invalidation.                                           *)

\* Entries go, and what was owed of them with them; the index and the writers
\* stay.
LEMMA EntriesGo ==
  ASSUME RedisOK, NEW gone \in SUBSET Keys,
         entry' = [k \in Keys |-> IF k \in gone THEN Gone ELSE entry[k]],
         loose' = loose \ gone,
         UNCHANGED <<now, index, set, uneven>>,
         del' \in [stage : {"idle", "read", "deleted", "scan", "scanned", "done"},
                   model : Models, keys : SUBSET Keys, must : SUBSET Keys],
         del'.must = del.must \ gone,
         \/ del'.stage = del.stage /\ del'.keys = del.keys
         \/ del.stage = "read" /\ del'.stage = "deleted" /\ gone = del.keys
         \/ del'.stage \notin {"read", "deleted", "done"}
  PROVE  RedisOK'
<1>1. \A k \in Keys : /\ entry'[k] = IF k \in gone THEN Gone ELSE entry[k]
                      /\ entry[k] \in [until : Nat, stamp : Nat, born : Nat] /\ now \in Nat /\ now' = now
                      /\ TtlOf[ModelOf[k]] \in Nat
  BY Constants DEF RedisOK, RedisTypes
<1>2. RedisTypes' /\ \A w \in Handlers : WriterOK(w)'
  BY Constants DEF RedisOK, RedisTypes, WriterOK
<1>3. \A k \in Keys : Live(k)' => Live(k) /\ k \notin gone /\ entry'[k] = entry[k]
  BY <1>1, Constants DEF Live
<1>4. \A k \in Keys : Writing(k, "sadd")' <=> Writing(k, "sadd")
  BY DEF Writing
<1>5. ASSUME NEW k \in Keys
      PROVE  EntryOK(k)' /\ Covered(k)' /\ Outlived(k)' /\ OwedOK(k)'
  <2>1. EntryOK(k)'
    BY <1>1, <1>5, Constants DEF RedisOK, EntryOK
  <2>2. Covered(k)' /\ Outlived(k)'
    BY <1>3, <1>4, <1>5 DEF RedisOK, Covered, Outlived
  <2>3. OwedOK(k)'
    BY <1>3, <1>4, <1>5 DEF RedisOK, OwedOK
  <2> QED
    BY <2>1, <2>2, <2>3
<1> QED
  BY <1>2, <1>5 DEF RedisOK

\* The invalidation goes on, and what it owes is as it should be.
LEMMA CallGoesOn ==
  ASSUME RedisOK, UNCHANGED <<now, entry, index, set, loose, uneven>>,
         del' \in [stage : {"idle", "read", "deleted", "scan", "scanned", "done"},
                   model : Models, keys : SUBSET Keys, must : SUBSET Keys],
         \A k \in Keys : OwedOK(k)'
  PROVE  RedisOK'
<1>1. RedisTypes' /\ \A w \in Handlers : WriterOK(w)'
  BY DEF RedisOK, RedisTypes, WriterOK
<1>2. \A k \in Keys : EntryOK(k)' /\ Covered(k)' /\ Outlived(k)'
  BY DEF RedisOK, EntryOK, Covered, Outlived, Live, Writing
<1> QED
  BY <1>1, <1>2 DEF RedisOK

LEMMA DeleteKeyStep ==
  ASSUME RedisOK, NEW k \in Keys, DeleteKey(k)
  PROVE  RedisOK'
<1>1. entry' = [j \in Keys |-> IF j \in {k} THEN Gone ELSE entry[j]]
  BY DEF DeleteKey, RedisOK, RedisTypes
<1>2. /\ del' \in [stage : {"idle", "read", "deleted", "scan", "scanned", "done"},
                   model : Models, keys : SUBSET Keys, must : SUBSET Keys]
      /\ del'.must = del.must \ {k} /\ del'.stage = del.stage /\ del'.keys = del.keys
  BY DEF DeleteKey, RedisOK, RedisTypes
<1>3. UNCHANGED <<now, index, set, uneven>> /\ loose' = loose \ {k} /\ {k} \in SUBSET Keys
  BY DEF DeleteKey
<1> QED
  BY <1>1, <1>2, <1>3, EntriesGo

LEMMA DeleteEntriesStep ==
  ASSUME RedisOK, DeleteEntries \/ DeleteBatch
  PROVE  RedisOK'
<1>1. CASE DeleteEntries
  <2>1. /\ del.keys \in SUBSET Keys /\ del.stage = "read"
        /\ del' \in [stage : {"idle", "read", "deleted", "scan", "scanned", "done"},
                     model : Models, keys : SUBSET Keys, must : SUBSET Keys]
        /\ del'.must = del.must \ del.keys /\ del'.stage = "deleted"
    BY <1>1 DEF DeleteEntries, RedisOK, RedisTypes
  <2> QED
    BY <1>1, <2>1, EntriesGo DEF DeleteEntries
<1>2. CASE DeleteBatch
  <2>1. /\ del.keys \in SUBSET Keys
        /\ del' \in [stage : {"idle", "read", "deleted", "scan", "scanned", "done"},
                     model : Models, keys : SUBSET Keys, must : SUBSET Keys]
        /\ del'.must = del.must \ del.keys /\ del'.stage = "scan"
    BY <1>2 DEF DeleteBatch, RedisOK, RedisTypes
  <2> QED
    BY <1>2, <2>1, EntriesGo DEF DeleteBatch
<1> QED
  BY <1>1, <1>2

LEMMA ReadIndexStep ==
  ASSUME RedisOK, NEW m \in Models, ReadIndex(m)
  PROVE  RedisOK'
<1> DEFINE must == {k \in LiveKeys : ModelOf[k] = m /\ ~Writing(k, "sadd")}
<1>1. /\ UNCHANGED <<now, entry, index, set, loose, uneven>>
      /\ del' = [stage |-> IF index[m].keys = {} THEN "done" ELSE "read", model |-> m,
                 keys |-> index[m].keys, must |-> must]
  BY DEF ReadIndex, cache
<1>2. must \in SUBSET Keys
  BY DEF LiveKeys
<1>3. ASSUME NEW k \in must
      PROVE  ~Writing(k, "sadd") /\ (k \in index[m].keys \/ k \in loose)
  BY <1>3 DEF LiveKeys, RedisOK, Covered
<1> HIDE DEF must
<1>4. /\ del' \in [stage : {"idle", "read", "deleted", "scan", "scanned", "done"},
                   model : Models, keys : SUBSET Keys, must : SUBSET Keys]
      /\ del'.must = must /\ del'.keys = index[m].keys
      /\ del'.stage = "read" \/ (del'.stage = "done" /\ index[m].keys = {})
  BY <1>1, <1>2 DEF RedisOK, RedisTypes
<1>5. \A k \in Keys : OwedOK(k)'
  BY <1>1, <1>3, <1>4 DEF OwedOK, Writing, Live
<1> QED
  BY <1>1, <1>4, <1>5, CallGoesOn

LEMMA FlushStep ==
  ASSUME RedisOK,
         \/ BeginFlush \/ EndFlush \/ DeleteError
         \/ \E batch \in SUBSET LiveKeys : ScanBatch(batch)
  PROVE  RedisOK'
<1> DEFINE Calls == [stage : {"idle", "read", "deleted", "scan", "scanned", "done"},
                     model : Models, keys : SUBSET Keys, must : SUBSET Keys]
<1>1. UNCHANGED <<now, entry, index, set, loose, uneven>>
  BY DEF BeginFlush, EndFlush, DeleteError, ScanBatch, cache
<1>2. del \in Calls /\ LiveKeys \in SUBSET Keys /\ Quiet \in Calls
  BY Constants DEF RedisOK, RedisTypes, LiveKeys
<1>3. CASE BeginFlush
  <2>1. del' = [[Quiet EXCEPT !.stage = "scan"] EXCEPT !.must = LiveKeys]
    BY <1>3 DEF BeginFlush
  <2>2. del' \in Calls /\ del'.stage = "scan"
    BY <1>2, <2>1
  <2> QED
    BY <1>1, <2>2, CallGoesOn DEF OwedOK
<1>4. CASE EndFlush
  <2>1. /\ del' = [del EXCEPT !.stage = "done", !.keys = {}]
        /\ del.must \intersect LiveKeys = {}
    BY <1>4 DEF EndFlush
  <2>2. del' \in Calls /\ del'.must = del.must
    BY <1>2, <2>1
  <2>3. \A k \in Keys : ~(k \in del'.must /\ Live(k)')
    BY <1>1, <2>1, <2>2 DEF LiveKeys, Live
  <2> QED
    BY <1>1, <2>2, <2>3, CallGoesOn DEF OwedOK
<1>5. CASE DeleteError
  <2>1. del' = Quiet /\ Quiet.must = {}
    BY <1>5, Constants DEF DeleteError
  <2> QED
    BY <1>1, <1>2, <2>1, CallGoesOn DEF OwedOK
<1>6. ASSUME NEW batch \in SUBSET LiveKeys, ScanBatch(batch) PROVE RedisOK'
  <2>1. del' = [del EXCEPT !.stage = "scanned", !.keys = batch]
    BY <1>6 DEF ScanBatch
  <2>2. del' \in Calls /\ del'.stage = "scanned"
    BY <1>2, <2>1
  <2> QED
    BY <1>1, <2>2, CallGoesOn DEF OwedOK
<1> QED
  BY <1>3, <1>4, <1>5, <1>6

LEMMA DeleteIndexStep ==
  ASSUME RedisOK, DeleteIndex
  PROVE  RedisOK'
<1> DEFINE m == del.model
           cut == {k \in index[m].keys : Live(k) /\ k \notin del.must}
<1>1. /\ now' = now /\ entry' = entry /\ set' = set /\ uneven' = uneven
      /\ index' = [index EXCEPT ![m] = NoIndex]
      /\ loose' = loose \union cut
      /\ del' = [del EXCEPT !.stage = "done", !.keys = {}]
      /\ del.stage = "deleted" /\ m \in Models
  BY DEF DeleteIndex, RedisOK, RedisTypes
<1>2. /\ index'[m].keys = {} /\ index'[m].until = 0
      /\ \A n \in Models \ {m} : index'[n] = index[n]
      /\ del'.must = del.must /\ del'.stage = "done"
  BY <1>1, Constants DEF RedisOK, RedisTypes
<1>3. RedisTypes' /\ \A w \in Handlers : WriterOK(w)'
  <2>1. cut \in SUBSET Keys
    BY <1>1 DEF RedisOK, RedisTypes
  <2> HIDE DEF cut
  <2> QED
    BY <1>1, <2>1, Constants DEF RedisOK, RedisTypes, WriterOK
<1>4. ASSUME NEW k \in Keys
      PROVE  EntryOK(k)' /\ Covered(k)' /\ Outlived(k)' /\ OwedOK(k)'
  <2>1. EntryOK(k)' /\ (Live(k)' <=> Live(k)) /\ (Writing(k, "sadd")' <=> Writing(k, "sadd"))
    BY <1>1, <1>4 DEF RedisOK, EntryOK, Live, Writing
  <2>2. OwedOK(k) /\ Covered(k) /\ Outlived(k)
    BY <1>4 DEF RedisOK
  <2>3. OwedOK(k)'
    BY <1>1, <1>2, <2>1, <2>2 DEF OwedOK
  <2>4. CASE ModelOf[k] = m
    <3>1. Covered(k)'
      BY <1>1, <2>1, <2>2, <2>4 DEF Covered, OwedOK
    <3> QED
      BY <1>2, <2>1, <2>3, <2>4, <3>1 DEF Outlived
  <2>5. CASE ModelOf[k] # m
    <3>1. index'[ModelOf[k]] = index[ModelOf[k]]
      BY <1>2, <2>5, Constants
    <3> QED
      BY <1>1, <2>1, <2>2, <2>3, <3>1 DEF Covered, Outlived
  <2> QED
    BY <2>4, <2>5
<1> QED
  BY <1>3, <1>4 DEF RedisOK

\* A unit of time passes: what is left in Redis has not lapsed.
LEMMA TickStep ==
  ASSUME RedisOK, Tick
  PROVE  RedisOK'
<1> DEFINE lapsed == {m \in Models : index[m].until # 0 /\ index[m].until <= now + 1}
           live == {k \in Keys : entry[k].until > now + 1}
           torn == {m \in Models : m \in uneven \/ \E k \in Keys :
                                    ModelOf[k] = m /\ Writing(k, "expire")}
<1>1. /\ now' = now + 1 /\ set' = set /\ del' = del /\ uneven' = uneven
      /\ entry' = [k \in Keys |-> IF k \in live THEN entry[k] ELSE Gone]
      /\ index' = [m \in Models |-> IF m \in lapsed THEN NoIndex ELSE index[m]]
      /\ loose' = {k \in live : k \in loose \/ ModelOf[k] \in lapsed \intersect torn}
  BY DEF Tick
<1>2. now \in Nat /\ now' \in Nat /\ \A k \in Keys : entry[k].until \in Nat
  BY <1>1 DEF RedisOK, RedisTypes
<1>3. RedisTypes' /\ \A w \in Handlers : WriterOK(w)'
  <2>1. entry' \in [Keys -> [until : Nat, stamp : Nat, born : Nat]]
    BY <1>1, Constants DEF RedisOK, RedisTypes
  <2>2. index' \in [Models -> [keys : SUBSET Keys, until : Nat]]
    BY <1>1, Constants DEF RedisOK, RedisTypes
  <2>3. loose' \in SUBSET Keys
    BY <1>1
  <2> QED
    BY <1>1, <1>2, <2>1, <2>2, <2>3 DEF RedisOK, RedisTypes, WriterOK
<1>4. ASSUME NEW k \in Keys
      PROVE  EntryOK(k)' /\ Covered(k)' /\ Outlived(k)' /\ OwedOK(k)'
  <2> DEFINE m == ModelOf[k]
  <2>1. EntryOK(k) /\ Covered(k) /\ Outlived(k) /\ OwedOK(k) /\ m \in Models
    BY <1>4, Constants DEF RedisOK
  <2>2. EntryOK(k)'
    <3>1. entry'[k] = entry[k] \/ entry'[k] = Gone
      BY <1>1
    <3> QED
      BY <1>1, <1>2, <2>1, <3>1, Constants DEF EntryOK
  <2>3. Live(k)' => /\ Live(k) /\ k \in live /\ entry'[k] = entry[k] /\ entry[k].until > now + 1
                    /\ k \in loose => k \in loose'
    BY <1>1, <1>2, Constants DEF Live
  <2>4. Writing(k, "sadd")' <=> Writing(k, "sadd")
    BY <1>1 DEF Writing
  <2>5. OwedOK(k)'
    BY <1>1, <2>1, <2>3, <2>4 DEF OwedOK
  <2>6. CASE m \in lapsed
    <3>1. index'[m].keys = {} /\ index'[m].until = 0
      BY <1>1, <2>1, <2>6, Constants
    <3>2. index[m].until # 0 /\ index[m].until <= now + 1 /\ index[m].until \in Nat
      BY <2>1, <2>6 DEF RedisOK, RedisTypes
    <3>3. ASSUME Live(k)', k \notin loose', ~Writing(k, "sadd")
          PROVE  FALSE
      <4>1. m \notin torn /\ k \notin loose
        BY <1>1, <2>3, <2>6, <3>3
      <4>2. m \notin uneven
        BY <2>1, <4>1
      <4>3. ~\E w \in Handlers : set[w].stage = "expire" /\ ModelOf[set[w].key] = m
        BY <2>1, <4>1 DEF Writing, RedisOK, WriterOK
      <4>4. k \in index[m].keys
        BY <2>1, <2>3, <3>3, <4>1 DEF Covered
      <4>5. index[m].until >= entry[k].until
        BY <2>1, <2>3, <3>2, <3>3, <4>1, <4>2, <4>3, <4>4 DEF Outlived
      <4> QED
        BY <1>2, <2>3, <3>2, <3>3, <4>5
    <3>4. Covered(k)'
      BY <2>4, <3>3 DEF Covered
    <3>5. Outlived(k)'
      BY <3>1 DEF Outlived
    <3> QED
      BY <2>2, <2>5, <3>4, <3>5
  <2>7. CASE m \notin lapsed
    <3>1. index'[m] = index[m]
      BY <1>1, <2>1, <2>7
    <3>2. Covered(k)'
      BY <2>1, <2>3, <2>4, <3>1 DEF Covered
    <3>3. Outlived(k)'
      BY <1>1, <2>1, <2>3, <2>4, <3>1 DEF Outlived
    <3> QED
      BY <2>2, <2>5, <3>2, <3>3
  <2> QED
    BY <2>6, <2>7
<1> QED
  BY <1>3, <1>4 DEF RedisOK

\* A hit has not lapsed, and it was stamped no later than it was stored.
LEMMA RedisGetStep ==
  ASSUME RedisOK, NEW k \in Keys, NEW maxage \in MaxAges \union {NoAge},
         NEW wait \in 0..Delay, RedisGet(k, maxage, wait), stale = FALSE
  PROVE  stale' = FALSE
<1> DEFINE time == now + wait
           item == [at |-> entry[k].stamp, stamped |-> TRUE]
<1>1. /\ entry[k] \in [until : Nat, stamp : Nat, born : Nat]
      /\ entry[k].stamp <= entry[k].born
      /\ now \in Nat /\ time \in Nat
  BY CacheAssumption DEF RedisOK, RedisTypes, EntryOK
<1>2. maxage # NoAge => maxage \in Nat
  BY CacheAssumption
<1>3. /\ entry[k].until > now
      /\ stale' = (stale \/ (/\ Young(item, time, maxage)
                            /\ TooOld(entry[k].born, entry[k].until, time, maxage)))
  BY DEF RedisGet, Live
<1>4. item.at = entry[k].stamp
  OBVIOUS
<1> HIDE DEF time, item
<1>5. ASSUME maxage # NoAge, Young(item, time, maxage)
      PROVE  ~(time - entry[k].born > maxage)
  BY <1>1, <1>2, <1>4, <1>5 DEF Young
<1>6. ~(/\ Young(item, time, maxage)
        /\ TooOld(entry[k].born, entry[k].until, time, maxage))
  BY <1>1, <1>3, <1>5 DEF TooOld
<1> QED
  BY <1>3, <1>6

-----------------------------------------------------------------------------
(* The steps of the memory backend.                                        *)

Items == [key : Keys, at : Nat, until : Nat, stamped : BOOLEAN]

\* A sequence without one of its elements.
LEMMA WithoutOne ==
  ASSUME NEW S, NEW s \in Seq(S), NEW i \in 1..Len(s)
  PROVE  /\ RemoveAt(s, i) \in Seq(S)
         /\ Len(RemoveAt(s, i)) = Len(s) - 1
         /\ \A j \in 1..Len(s) - 1 : RemoveAt(s, i)[j] = IF j < i THEN s[j] ELSE s[j + 1]
<1> DEFINE front == SubSeq(s, 1, i - 1)
           back == SubSeq(s, i + 1, Len(s))
<1>1. /\ front \in Seq(S) /\ Len(front) = i - 1
      /\ \A j \in 1..i - 1 : front[j] = s[j]
  OBVIOUS
<1>2. /\ back \in Seq(S) /\ Len(back) = Len(s) - i
      /\ \A j \in 1..Len(s) - i : back[j] = s[i + j]
  OBVIOUS
<1>3. RemoveAt(s, i) = front \o back
  BY DEF RemoveAt
<1> HIDE DEF front, back
<1>4. RemoveAt(s, i) \in Seq(S) /\ Len(RemoveAt(s, i)) = Len(s) - 1
  BY <1>1, <1>2, <1>3
<1>5. ASSUME NEW j \in 1..Len(s) - 1
      PROVE  RemoveAt(s, i)[j] = IF j < i THEN s[j] ELSE s[j + 1]
  <2>1. CASE j < i
    BY <1>1, <1>2, <1>3, <2>1
  <2>2. CASE j >= i
    <3>1. (front \o back)[j] = back[j - (i - 1)] /\ j - (i - 1) \in 1..Len(s) - i
      BY <1>1, <1>2, <2>2
    <3> QED
      BY <1>2, <1>3, <2>2, <3>1
  <2> QED
    BY <2>1, <2>2
<1> QED
  BY <1>4, <1>5

\* A use of other entries brings a key at most one place nearer to the front.
LEMMA OneUse ==
  ASSUME MemoryOK, NEW k \in Keys
  PROVE  /\ uses[k] \in 0..MaxSize
         /\ UsedOnce[k] < MaxSize => uses[k] < MaxSize /\ UsedOnce[k] = uses[k] + 1
         /\ UsedOnce[k] \in 0..MaxSize
BY CacheAssumption DEF MemoryOK, MemoryTypes, UsedOnce

\* A full store drops an entry that no recent key has.
LEMMA RoomKeeps ==
  ASSUME MemoryOK
  PROVE  /\ Room \in Seq(Items)
         /\ \A x \in Keys : UsedOnce[x] < MaxSize =>
              \E i \in 1..Len(Room) : Room[i].key = x /\ Len(Room) - i < UsedOnce[x]
<1>1. mem \in Seq(Items) /\ MaxSize \in Nat \ {0}
  BY CacheAssumption DEF MemoryOK, MemoryTypes, Items
<1>2. ASSUME NEW x \in Keys, UsedOnce[x] < MaxSize
      PROVE  \E i \in 1..Len(Room) : Room[i].key = x /\ Len(Room) - i < UsedOnce[x]
  <2>1. uses[x] \in Nat /\ uses[x] + 1 < MaxSize /\ UsedOnce[x] = uses[x] + 1
    BY <1>1, <1>2, OneUse
  <2>2. PICK i \in 1..Len(mem) : mem[i].key = x /\ Len(mem) - i <= uses[x]
    BY <1>1, <2>1 DEF MemoryOK, Recent
  <2>3. CASE Len(mem) >= MaxSize
    <3>1. i - 1 \in 1..Len(mem) - 1
      BY <1>1, <2>1, <2>2, <2>3
    <3>2. Room = Tail(mem) /\ Len(Tail(mem)) = Len(mem) - 1 /\ Tail(mem)[i - 1] = mem[i]
      BY <1>1, <2>3, <3>1 DEF Room
    <3>3. Room[i - 1].key = x /\ Len(Room) = Len(mem) - 1
      BY <2>2, <3>2
    <3>4. Len(Room) - (i - 1) < UsedOnce[x] /\ i - 1 \in 1..Len(Room)
      BY <1>1, <2>1, <2>2, <3>1, <3>3
    <3> QED
      BY <3>3, <3>4
  <2>4. CASE Len(mem) < MaxSize
    BY <1>1, <2>1, <2>2, <2>4 DEF Room
  <2> QED
    BY <1>1, <2>3, <2>4
<1>3. Room \in Seq(Items)
  <2>1. CASE Len(mem) >= MaxSize
    BY <1>1, <2>1 DEF Room
  <2>2. CASE ~(Len(mem) >= MaxSize)
    BY <1>1, <2>2 DEF Room
  <2> QED
    BY <2>1, <2>2
<1> QED
  BY <1>2, <1>3

LEMMA MemorySetStep ==
  ASSUME MemoryOK, now \in Nat, NEW k \in Keys,
         NEW ttl \in Overrides \union {TtlOf[ModelOf[k]]}, MemorySet(k, ttl)
  PROVE  MemoryOK'
<1> DEFINE item == Item(k, ttl)
           put == [i \in 1..Len(Room) |-> IF Room[i].key = k THEN item ELSE Room[i]]
           new == \A i \in 1..Len(Room) : Room[i].key # k
<1>1. item \in Items /\ item.key = k
  <2>1. now + ttl \in Nat
    BY Constants, CacheAssumption
  <2> QED
    BY <2>1 DEF Item, Items
<1>2. Room \in Seq(Items) /\ \A x \in Keys : UsedOnce[x] \in 0..MaxSize
  BY RoomKeeps, OneUse
<1>3. /\ mem' = IF new THEN Append(Room, item) ELSE put
      /\ uses' = [UsedOnce EXCEPT ![k] = IF new THEN 0 ELSE @]
      /\ stale' = stale
  BY DEF MemorySet
<1> HIDE DEF item
<1>4. CASE new
  <2>1. mem' = Append(Room, item) /\ uses' = [UsedOnce EXCEPT ![k] = 0]
    BY <1>3, <1>4
  <2>2. /\ mem' \in Seq(Items) /\ Len(mem') = Len(Room) + 1
        /\ \A i \in 1..Len(Room) : mem'[i] = Room[i]
        /\ mem'[Len(Room) + 1] = item
    BY <1>1, <1>2, <2>1
  <2>3. /\ uses' \in [Keys -> 0..MaxSize] /\ uses'[k] = 0
        /\ \A x \in Keys \ {k} : uses'[x] = UsedOnce[x]
    <3>1. UsedOnce \in [Keys -> 0..MaxSize] /\ 0 \in 0..MaxSize
      BY <1>2, CacheAssumption DEF UsedOnce
    <3> QED
      BY <2>1, <3>1
  <2>4. ASSUME NEW x \in Keys PROVE Recent(x)'
    <3>1. CASE x = k
      BY <1>1, <1>2, <2>2, <2>3, <3>1 DEF Recent
    <3>2. CASE x # k
      <4>1. SUFFICES ASSUME UsedOnce[x] < MaxSize
                     PROVE  \E i \in 1..Len(mem') : mem'[i].key = x /\ Len(mem') - i <= UsedOnce[x]
        BY <2>3, <3>2 DEF Recent
      <4>2. PICK i \in 1..Len(Room) : Room[i].key = x /\ Len(Room) - i < UsedOnce[x]
        BY <4>1, RoomKeeps
      <4> QED
        BY <1>2, <2>2, <4>2
    <3> QED
      BY <3>1, <3>2
  <2> QED
    BY <1>3, <2>2, <2>3, <2>4 DEF MemoryOK, MemoryTypes, Items
<1>5. CASE ~new
  <2>1. mem' = put /\ uses' = UsedOnce
    BY <1>3, <1>5 DEF UsedOnce
  <2>2. /\ mem' \in Seq(Items) /\ Len(mem') = Len(Room)
        /\ \A i \in 1..Len(Room) : mem'[i].key = Room[i].key
    <3>1. \A i \in 1..Len(Room) : put[i] \in Items /\ put[i].key = Room[i].key
      BY <1>1, <1>2
    <3> QED
      BY <1>2, <2>1, <3>1
  <2>3. uses' \in [Keys -> 0..MaxSize]
    BY <1>2, <2>1 DEF UsedOnce
  <2>4. ASSUME NEW x \in Keys PROVE Recent(x)'
    <3>1. SUFFICES ASSUME UsedOnce[x] < MaxSize
                   PROVE  \E i \in 1..Len(mem') : mem'[i].key = x /\ Len(mem') - i <= UsedOnce[x]
      BY <2>1 DEF Recent
    <3>2. PICK i \in 1..Len(Room) : Room[i].key = x /\ Len(Room) - i < UsedOnce[x]
      BY <3>1, RoomKeeps
    <3> QED
      BY <1>2, <2>2, <3>2
  <2> QED
    BY <1>3, <2>2, <2>3, <2>4 DEF MemoryOK, MemoryTypes, Items
<1> QED
  BY <1>4, <1>5

LEMMA MemoryGetStep ==
  ASSUME MemoryOK, now \in Nat, NEW k \in Keys, NEW maxage \in MaxAges \union {NoAge},
         NEW pops \in BOOLEAN, MemoryGet(k, maxage, pops)
  PROVE  MemoryOK'
<1>1. mem \in Seq(Items) /\ MaxSize \in Nat \ {0} /\ uses \in [Keys -> 0..MaxSize] /\ stale = FALSE
  BY CacheAssumption DEF MemoryOK, MemoryTypes, Items
<1>2. PICK i \in Position(k) :
        LET item == mem[i]
            rest == RemoveAt(mem, i)
            found == Young(item, now, maxage)
        IN  IF now > item.until
            THEN /\ mem' = rest
                 /\ uses' = [uses EXCEPT ![k] = MaxSize]
                 /\ UNCHANGED <<now, stale>>
            ELSE /\ mem' = Append(rest, [item EXCEPT !.stamped = @ /\ ~(found /\ pops)])
                 /\ uses' = [UsedOnce EXCEPT ![k] = 0]
                 /\ stale' = (stale \/ (found /\ TooOld(item.at, item.until, now, maxage)))
                 /\ UNCHANGED now
  BY DEF MemoryGet
<1> DEFINE item == mem[i]
           rest == RemoveAt(mem, i)
           found == Young(item, now, maxage)
           unstamped == [item EXCEPT !.stamped = @ /\ ~(found /\ pops)]
<1>3. i \in 1..Len(mem) /\ item \in Items /\ item.key = k
  BY <1>1, <1>2 DEF Position
<1>4. /\ rest \in Seq(Items) /\ Len(rest) = Len(mem) - 1
      /\ \A j \in 1..Len(mem) - 1 : rest[j] = IF j < i THEN mem[j] ELSE mem[j + 1]
  BY <1>1, <1>3, WithoutOne
<1> HIDE DEF rest
\* Every other recent key is in the rest, one place nearer to its end or not.
<1>5. ASSUME NEW x \in Keys \ {k}, uses[x] < MaxSize
      PROVE  \E j \in 1..Len(rest) : rest[j].key = x /\ Len(rest) - j <= uses[x]
  <2>1. PICK j \in 1..Len(mem) : mem[j].key = x /\ Len(mem) - j <= uses[x]
    BY <1>5 DEF MemoryOK, Recent
  <2>2. uses[x] \in Nat /\ j # i
    BY <1>1, <1>3, <2>1, CacheAssumption
  <2>3. CASE j < i
    <3>1. j \in 1..Len(rest) /\ rest[j] = mem[j]
      BY <1>1, <1>3, <1>4, <2>3
    <3>2. rest[j].key = x /\ Len(rest) - j <= uses[x]
      BY <1>1, <1>4, <2>1, <2>2, <3>1
    <3> QED
      BY <3>1, <3>2
  <2>4. CASE j > i
    <3>1. j - 1 \in 1..Len(mem) - 1 /\ rest[j - 1] = mem[j]
      BY <1>1, <1>3, <1>4, <2>4
    <3>2. /\ j - 1 \in 1..Len(rest) /\ rest[j - 1].key = x
          /\ Len(rest) - (j - 1) <= uses[x]
      BY <1>1, <1>4, <2>1, <2>2, <3>1
    <3> QED
      BY <3>2
  <2>5. j < i \/ j > i
    BY <1>3, <2>2
  <2> QED
    BY <2>3, <2>4, <2>5
<1>6. CASE now > item.until
  <2>1. mem' = rest /\ uses' = [uses EXCEPT ![k] = MaxSize] /\ stale' = stale
    BY <1>2, <1>6 DEF rest
  <2>2. \A x \in Keys : Recent(x)'
    BY <1>1, <1>5, <2>1 DEF Recent
  <2> QED
    BY <1>1, <1>4, <2>1, <2>2 DEF MemoryOK, MemoryTypes, Items
<1>7. CASE ~(now > item.until)
  <2>1. /\ mem' = Append(rest, unstamped) /\ uses' = [UsedOnce EXCEPT ![k] = 0]
        /\ stale' = (stale \/ (found /\ TooOld(item.at, item.until, now, maxage)))
    BY <1>2, <1>7 DEF rest
  <2>2. unstamped \in Items /\ unstamped.key = k
    <3>1. (item.stamped /\ ~(found /\ pops)) \in BOOLEAN
      BY <1>3 DEF Items
    <3> QED
      BY <1>3, <3>1 DEF Items
  \* A hit is young enough, and has not lapsed.
  <2>3. stale' = FALSE
    <3>1. maxage # NoAge => maxage \in Nat
      BY CacheAssumption
    <3>2. ~(found /\ TooOld(item.at, item.until, now, maxage))
      BY <1>3, <1>7, <3>1 DEF Young, TooOld, Items
    <3> QED
      BY <1>1, <2>1, <3>2
  <2> HIDE DEF unstamped
  <2>4. /\ mem' \in Seq(Items) /\ Len(mem') = Len(rest) + 1
        /\ \A j \in 1..Len(rest) : mem'[j] = rest[j]
        /\ mem'[Len(rest) + 1] = unstamped
    BY <1>4, <2>1, <2>2
  <2>5. /\ uses' \in [Keys -> 0..MaxSize] /\ uses'[k] = 0
        /\ \A x \in Keys \ {k} : uses'[x] = UsedOnce[x]
    BY <1>1, <2>1, OneUse DEF UsedOnce
  <2>6. ASSUME NEW x \in Keys PROVE Recent(x)'
    <3>1. CASE x = k
      BY <1>4, <2>2, <2>4, <2>5, <3>1 DEF Recent
    <3>2. CASE x # k
      <4>1. SUFFICES ASSUME UsedOnce[x] < MaxSize
                     PROVE  \E j \in 1..Len(mem') : mem'[j].key = x /\ Len(mem') - j <= UsedOnce[x]
        BY <2>5, <3>2 DEF Recent
      <4>2. uses[x] < MaxSize /\ UsedOnce[x] = uses[x] + 1 /\ uses[x] \in Nat
        BY <1>1, <4>1, OneUse
      <4>3. PICK j \in 1..Len(rest) : rest[j].key = x /\ Len(rest) - j <= uses[x]
        BY <1>5, <3>2, <4>2
      <4>4. mem'[j].key = x /\ j \in 1..Len(mem') /\ Len(mem') - j <= UsedOnce[x]
        BY <1>4, <2>4, <4>2, <4>3
      <4> QED
        BY <4>4
    <3> QED
      BY <3>1, <3>2
  <2> QED
    BY <2>3, <2>4, <2>5, <2>6 DEF MemoryOK, MemoryTypes, Items
<1> QED
  BY <1>6, <1>7

LEMMA MemoryLostStep ==
  ASSUME MemoryOK, MemoryLost
  PROVE  MemoryOK'
<1>1. MaxSize \in Nat \ {0}
  BY CacheAssumption
<1> QED
  BY <1>1 DEF MemoryLost, MemoryOK, MemoryTypes, Recent

-----------------------------------------------------------------------------
(* The theorems.                                                           *)

LEMMA IInvHolds == Init => IInv
<1> SUFFICES ASSUME Init PROVE IInv
  OBVIOUS
<1>1. RedisTypes /\ \A w \in Handlers : WriterOK(w)
  BY Constants DEF Init, RedisTypes, WriterOK
<1>2. \A k \in Keys : ~Live(k) /\ EntryOK(k)
  BY Constants DEF Init, Live, EntryOK
<1>3. RedisOK
  BY <1>1, <1>2 DEF RedisOK, Covered, Outlived, OwedOK
<1>4. MemoryOK
  <2>1. MaxSize \in Nat \ {0}
    BY CacheAssumption
  <2> QED
    BY <2>1 DEF Init, MemoryOK, MemoryTypes, Recent
<1> QED
  BY <1>3, <1>4 DEF Init, IInv

\* What is in Redis does not depend on the memory store, nor the other way round.
LEMMA RedisFrame ==
  ASSUME RedisOK, UNCHANGED <<now, redis>>
  PROVE  RedisOK'
BY DEF RedisOK, RedisTypes, WriterOK, EntryOK, Covered, Outlived, OwedOK, Live, Writing, redis

LEMMA MemoryFrame ==
  ASSUME MemoryOK, UNCHANGED memory, stale' = FALSE
  PROVE  MemoryOK'
BY DEF MemoryOK, MemoryTypes, Recent, memory

LEMMA RedisStep ==
  ASSUME RedisOK, RedisNext
  PROVE  RedisOK' /\ (stale = FALSE => stale' = FALSE)
<1>1. ASSUME NEW w \in Handlers, NEW k \in Keys,
             NEW ttl \in Overrides \union {TtlOf[ModelOf[k]]}, NEW wait \in 0..Delay, SetEx(w, k, ttl, wait)
      PROVE  RedisOK' /\ UNCHANGED stale
  BY <1>1, SetExStep DEF SetEx
<1>2. ASSUME NEW w \in Handlers, SAdd(w) \/ ExpireIndex(w) \/ CacheSetError(w)
      PROVE  RedisOK' /\ UNCHANGED stale
  <2>1. UNCHANGED stale
    BY <1>2 DEF SAdd, ExpireIndex, CacheSetError
  <2> QED
    BY <1>2, <2>1, SAddStep, ExpireIndexStep, CacheSetErrorStep
<1>3. ASSUME NEW k \in Keys, DeleteKey(k)
      PROVE  RedisOK' /\ UNCHANGED stale
  BY <1>3, DeleteKeyStep DEF DeleteKey
<1>4. ASSUME NEW m \in Models, ReadIndex(m)
      PROVE  RedisOK' /\ UNCHANGED stale
  BY <1>4, ReadIndexStep DEF ReadIndex
<1>5. ASSUME DeleteEntries \/ DeleteBatch
      PROVE  RedisOK' /\ UNCHANGED stale
  BY <1>5, DeleteEntriesStep DEF DeleteEntries, DeleteBatch
<1>6. ASSUME DeleteIndex
      PROVE  RedisOK' /\ UNCHANGED stale
  BY <1>6, DeleteIndexStep DEF DeleteIndex
<1>7. ASSUME \/ BeginFlush \/ EndFlush \/ DeleteError
             \/ \E batch \in SUBSET LiveKeys : ScanBatch(batch)
      PROVE  RedisOK' /\ UNCHANGED stale
  <2>1. UNCHANGED stale
    BY <1>7 DEF BeginFlush, EndFlush, DeleteError, ScanBatch
  <2> QED
    BY <1>7, <2>1, FlushStep
<1>8. ASSUME NEW k \in Keys, NEW maxage \in MaxAges \union {NoAge}, NEW wait \in 0..Delay,
             RedisGet(k, maxage, wait), stale = FALSE
      PROVE  stale' = FALSE
  BY <1>8, RedisGetStep
<1>9. ASSUME NEW k \in Keys, NEW maxage \in MaxAges \union {NoAge}, NEW wait \in 0..Delay,
             RedisGet(k, maxage, wait)
      PROVE  RedisOK'
  BY <1>9, RedisFrame DEF RedisGet, redis, cache
<1> QED
  BY <1>1, <1>2, <1>3, <1>4, <1>5, <1>6, <1>7, <1>8, <1>9 DEF RedisNext

LEMMA MemoryStep ==
  ASSUME MemoryOK, now \in Nat, MemoryNext
  PROVE  MemoryOK' /\ UNCHANGED now
<1>1. ASSUME NEW k \in Keys, NEW ttl \in Overrides \union {TtlOf[ModelOf[k]]}, MemorySet(k, ttl)
      PROVE  MemoryOK' /\ UNCHANGED now
  BY <1>1, MemorySetStep DEF MemorySet
<1>2. ASSUME NEW k \in Keys, NEW maxage \in MaxAges \union {NoAge}, NEW pops \in BOOLEAN,
             MemoryGet(k, maxage, pops)
      PROVE  MemoryOK' /\ UNCHANGED now
  <2>1. UNCHANGED now
    BY <1>2 DEF MemoryGet
  <2> QED
    BY <1>2, <2>1, MemoryGetStep
<1>3. ASSUME MemoryLost
      PROVE  MemoryOK' /\ UNCHANGED now
  BY <1>3, MemoryLostStep DEF MemoryLost
<1> QED
  BY <1>1, <1>2, <1>3 DEF MemoryNext

LEMMA IInvStep == IInv /\ [Next]_vars => IInv'
<1> SUFFICES ASSUME IInv, [Next]_vars PROVE IInv'
  OBVIOUS
<1>1. RedisOK /\ MemoryOK /\ now \in Nat /\ stale = FALSE
  BY DEF IInv, RedisOK, RedisTypes, MemoryOK
<1>2. CASE backend = "redis" /\ RedisNext /\ UNCHANGED <<backend, memory>>
  BY <1>1, <1>2, RedisStep, MemoryFrame DEF IInv
<1>3. CASE backend = "memory" /\ MemoryNext /\ UNCHANGED <<backend, redis>>
  BY <1>1, <1>3, MemoryStep, RedisFrame DEF IInv
<1>4. CASE Tick /\ UNCHANGED <<backend, memory>>
  <2>1. UNCHANGED stale
    BY <1>4 DEF Tick
  <2> QED
    BY <1>1, <1>4, <2>1, TickStep, MemoryFrame DEF IInv
<1>5. CASE UNCHANGED vars
  BY <1>1, <1>5, RedisFrame, MemoryFrame DEF IInv, vars
<1> QED
  BY <1>2, <1>3, <1>4, <1>5 DEF Next

\* The inductive invariant of both backends: what is in the index, in the hands
\* of a writer or of an invalidation, and in the order of the memory store.
THEOREM IInvAlways == Spec => []IInv
BY IInvHolds, IInvStep, PTL DEF Spec

\* Entries, indexes, calls and the memory store keep their shapes.
THEOREM TypeCorrect == Spec => []TypeOK
<1>1. IInv => TypeOK
  BY DEF IInv, RedisOK, RedisTypes, MemoryOK, MemoryTypes, TypeOK
<1> QED
  BY <1>1, IInvAlways, PTL

\* The index of a model names every live entry, the writer of the entry is
\* about to add it, or it was cut off by a fault or a race that is named.
THEOREM IndexNamesEntries == Spec => []IndexCovers
<1>1. IInv => IndexCovers
  BY DEF IInv, RedisOK, Covered, IndexCovers, LiveKeys
<1> QED
  BY <1>1, IInvAlways, PTL

\* A finished invalidation has removed what it had to.
THEOREM InvalidationRemoves == Spec => []InvalidationComplete
<1>1. IInv => InvalidationComplete
  BY DEF IInv, RedisOK, RedisTypes, OwedOK, InvalidationComplete, LiveKeys
<1> QED
  BY <1>1, IInvAlways, PTL

\* No hit is past its TTL or older than the request's s_maxage.
THEOREM NoStaleHit == Spec => []HitsAreFresh
<1>1. IInv => HitsAreFresh
  BY DEF IInv, MemoryOK, HitsAreFresh
<1> QED
  BY <1>1, IInvAlways, PTL

\* An entry of the memory store stays for MaxSize - 1 uses of other entries.
THEOREM RecentEntryStays == Spec => []RecentlyUsedStays
<1>1. IInv => RecentlyUsedStays
  BY DEF IInv, MemoryOK, Recent, RecentlyUsedStays, Position
<1> QED
  BY <1>1, IInvAlways, PTL
=============================================================================

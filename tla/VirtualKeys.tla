----------------------------- MODULE VirtualKeys -----------------------------
(***************************************************************************)
(* The life of a virtual key: auth/virtual_keys.py under the admin         *)
(* endpoints of routes/keys.py, and validate_key under AuthMiddleware.     *)
(*                                                                         *)
(* Redis holds a record per key id and an index from the hash of a raw key *)
(* to the key id.  Reads and pipelines are steps of their own.  An HSET on *)
(* a key id without a record makes a record with nothing but that field,   *)
(* which validate_key reads as an identity without limits.                 *)
(***************************************************************************)
EXTENDS Integers, FiniteSets

CONSTANTS
    Keys,        \* key ids
    Hashes,      \* raw keys, by their hash
    Requests,    \* concurrently running request handlers (slots, reused)
    Admins,      \* concurrently running admin handlers (slots, reused)
    Operations,  \* the admin operations in use
    None

AllOperations == {"generate", "generate_expiring", "block", "unblock",
                  "delete", "rotate", "update"}

ASSUME KeysAssumption ==
    /\ Operations \subseteq AllOperations
    /\ None \notin Keys \union Hashes

-----------------------------------------------------------------------------
VARIABLES
    record,    \* gateway:vk:<key_id>, the fields the properties need
    index,     \* gateway:vk:hash:<hash>
    expiring,  \* whether the index entry has a TTL
    issued,    \* raw keys handed out so far
    created,   \* key ids handed out so far
    adm,       \* admin handlers between their read and their write
    req,       \* request handlers
    revoked,   \* history: blocked, and not unblocked, deleted or expired since
    removed,   \* history: delete_key has completed
    disorder   \* history: a deletion or rotation of the key overlapped another
               \* admin operation on it, or one of them wrote to no record

vars == <<record, index, expiring, issued, created, adm, req, revoked, removed, disorder>>

\* ttl: the record expires (expires_in).
Record == [present : BOOLEAN, hash : Hashes \union {None}, blocked : BOOLEAN, ttl : BOOLEAN]

Absent == [present |-> FALSE, hash |-> None, blocked |-> FALSE, ttl |-> FALSE]

AdminTask == [op : {"none", "delete", "rotate", "update"}, key : Keys \union {None},
              seen : Hashes \union {None}]

NoTask == [op |-> "none", key |-> None, seen |-> None]

\* late, gone: history, the key was revoked / removed when the handler began.
Handler == [stage : {"idle", "record", "pipeline", "provider"}, key : Keys \union {None},
            late : BOOLEAN, gone : BOOLEAN]

NoRequest == [stage |-> "idle", key |-> None, late |-> FALSE, gone |-> FALSE]

TypeOK ==
    /\ record \in [Keys -> Record]
    /\ index \in [Hashes -> Keys \union {None}]
    /\ expiring \in [Hashes -> BOOLEAN]
    /\ issued \subseteq Hashes
    /\ created \subseteq Keys
    /\ adm \in [Admins -> AdminTask]
    /\ req \in [Requests -> Handler]
    /\ revoked \in [Keys -> BOOLEAN]
    /\ removed \in [Keys -> BOOLEAN]
    /\ disorder \in [Keys -> BOOLEAN]

Init ==
    /\ record = [k \in Keys |-> Absent]
    /\ index = [h \in Hashes |-> None]
    /\ expiring = [h \in Hashes |-> FALSE]
    /\ issued = {}
    /\ created = {}
    /\ adm = [a \in Admins |-> NoTask]
    /\ req = [r \in Requests |-> NoRequest]
    /\ revoked = [k \in Keys |-> FALSE]
    /\ removed = [k \in Keys |-> FALSE]
    /\ disorder = [k \in Keys |-> FALSE]

-----------------------------------------------------------------------------
(* Admin operations.                                                       *)

\* HSET of fields: creates the record when there is none.
HSet(k, fields) ==
    /\ record' = [record EXCEPT ![k] = [fields EXCEPT !.present = TRUE]]
    /\ disorder' = [disorder EXCEPT ![k] = @ \/ ~record[k].present]

\* A fresh key id and a fresh raw key; one pipeline, with expires_in two TTLs.
GenerateKey(k, h, withTTL) ==
    /\ (IF withTTL THEN "generate_expiring" ELSE "generate") \in Operations
    /\ k \notin created /\ h \notin issued
    /\ record' = [record EXCEPT ![k] = [present |-> TRUE, hash |-> h, blocked |-> FALSE,
                                        ttl |-> withTTL]]
    /\ index' = [index EXCEPT ![h] = k]
    /\ expiring' = [expiring EXCEPT ![h] = withTTL]
    /\ issued' = issued \union {h}
    /\ created' = created \union {k}
    /\ UNCHANGED <<adm, req, revoked, removed, disorder>>

\* Mutant: the field is removed.
BlockKeyNoField(k) ==
    /\ "block" \in Operations /\ k \in created
    /\ HSet(k, [record[k] EXCEPT !.blocked = None])
    /\ revoked' = [revoked EXCEPT ![k] = TRUE]
    /\ UNCHANGED <<index, expiring, issued, created, adm, req, removed>>

BlockKey(k) ==
    /\ "block" \in Operations /\ k \in created
    /\ HSet(k, [record[k] EXCEPT !.blocked = TRUE])
    /\ revoked' = [revoked EXCEPT ![k] = TRUE]
    /\ UNCHANGED <<index, expiring, issued, created, adm, req, removed>>

\* history: handlers that began while the key was blocked are let off.
UnblockKey(k) ==
    /\ "unblock" \in Operations /\ k \in created
    /\ HSet(k, [record[k] EXCEPT !.blocked = FALSE])
    /\ revoked' = [revoked EXCEPT ![k] = FALSE]
    /\ req' = [r \in Requests |-> IF req[r].key = k THEN [req[r] EXCEPT !.late = FALSE] ELSE req[r]]
    /\ UNCHANGED <<index, expiring, issued, created, adm, removed>>

\* history: op meets a task on the key, and one of the two deletes or rotates.
Overlaps(op, k) ==
    \E b \in Admins : adm[b].key = k /\ {op, adm[b].op} \cap {"delete", "rotate"} # {}

\* The read each of delete_key, rotate_key and update_key (and a pass of the
\* budget reset loop, whose write has update's form) begins with.
Begin(a, op, k) ==
    /\ op \in Operations /\ adm[a].op = "none" /\ k \in created
    /\ record[k].present
    /\ adm' = [adm EXCEPT ![a] = [op |-> op, key |-> k, seen |-> record[k].hash]]
    /\ disorder' = [disorder EXCEPT ![k] = @ \/ Overlaps(op, k)]
    /\ UNCHANGED <<record, index, expiring, issued, created, req, revoked, removed>>

\* history: with the record gone a block is no longer remembered.
RecordGone(k) ==
    /\ record' = [record EXCEPT ![k] = Absent]
    /\ revoked' = [revoked EXCEPT ![k] = FALSE]
    /\ req' = [r \in Requests |-> IF req[r].key = k THEN [req[r] EXCEPT !.late = FALSE] ELSE req[r]]

\* The pipeline of delete_key: the record and the index entry it has read.
DeleteKey(a) ==
    LET t == adm[a]
    IN  /\ t.op = "delete"
        /\ RecordGone(t.key)
        /\ index' = [h \in Hashes |-> IF h = t.seen THEN None ELSE index[h]]
        /\ expiring' = [h \in Hashes |-> IF h = t.seen THEN FALSE ELSE expiring[h]]
        /\ removed' = [removed EXCEPT ![t.key] = TRUE]
        /\ adm' = [adm EXCEPT ![a] = NoTask]
        /\ UNCHANGED <<issued, created, disorder>>

\* Mutant: the old raw key gets no TTL.
RotateKeyForever(a, h) ==
    LET t == adm[a]
    IN  /\ t.op = "rotate" /\ h \notin issued
        /\ HSet(t.key, [record[t.key] EXCEPT !.hash = h])
        /\ index' = [index EXCEPT ![h] = t.key]
        /\ issued' = issued \union {h}
        /\ adm' = [adm EXCEPT ![a] = NoTask]
        /\ UNCHANGED <<expiring, created, req, revoked, removed>>

\* Mutant: the record is written anew, not blocked.
RotateKeyAnew(a, h) ==
    LET t == adm[a]
    IN  /\ t.op = "rotate" /\ h \notin issued
        /\ HSet(t.key, [record[t.key] EXCEPT !.hash = h, !.blocked = FALSE])
        /\ index' = [index EXCEPT ![h] = t.key]
        /\ expiring' = [g \in Hashes |-> expiring[g] \/ (g = t.seen /\ index[g] # None)]
        /\ issued' = issued \union {h}
        /\ adm' = [adm EXCEPT ![a] = NoTask]
        /\ UNCHANGED <<created, req, revoked, removed>>

\* The pipeline of rotate_key: the new hash without TTL, grace for the old.
RotateKey(a, h) ==
    LET t == adm[a]
    IN  /\ t.op = "rotate" /\ h \notin issued
        /\ HSet(t.key, [record[t.key] EXCEPT !.hash = h])
        /\ index' = [index EXCEPT ![h] = t.key]
        /\ expiring' = [g \in Hashes |-> expiring[g] \/ (g = t.seen /\ index[g] # None)]
        /\ issued' = issued \union {h}
        /\ adm' = [adm EXCEPT ![a] = NoTask]
        /\ UNCHANGED <<created, req, revoked, removed>>

\* The HSET of update_key: limits, none of the fields kept here.
UpdateKey(a) ==
    LET t == adm[a]
    IN  /\ t.op = "update"
        /\ HSet(t.key, record[t.key])
        /\ adm' = [adm EXCEPT ![a] = NoTask]
        /\ UNCHANGED <<index, expiring, issued, created, req, revoked, removed>>

-----------------------------------------------------------------------------
(* Redis TTLs.                                                             *)

IndexExpires(h) ==
    /\ expiring[h]
    /\ index' = [index EXCEPT ![h] = None]
    /\ expiring' = [expiring EXCEPT ![h] = FALSE]
    /\ UNCHANGED <<record, issued, created, adm, req, revoked, removed, disorder>>

RecordExpires(k) ==
    /\ record[k].ttl
    /\ RecordGone(k)
    /\ UNCHANGED <<index, expiring, issued, created, adm, removed, disorder>>

-----------------------------------------------------------------------------
(* A request: validate_key, then the pipeline up to the provider call.     *)

ValidateIndex(r, h) ==
    /\ req[r].stage = "idle" /\ h \in issued
    /\ index[h] # None
    /\ req' = [req EXCEPT ![r] = [stage |-> "record", key |-> index[h],
                                  late |-> revoked[index[h]], gone |-> removed[index[h]]]]
    /\ UNCHANGED <<record, index, expiring, issued, created, adm, revoked, removed, disorder>>

\* Mutants: a missing record, and a block, are not looked at.
AcceptsMissing(rec) == ~rec.blocked
AcceptsBlocked(rec) == rec.present

Accepts(rec) == rec.present /\ ~rec.blocked

ValidateRecord(r) ==
    LET k == req[r].key
    IN  /\ req[r].stage = "record"
        /\ req' = [req EXCEPT ![r] =
                     IF Accepts(record[k])
                     THEN [req[r] EXCEPT !.stage = "pipeline"] ELSE NoRequest]
        /\ UNCHANGED <<record, index, expiring, issued, created, adm, revoked, removed, disorder>>

\* Limits, cache and guardrails passed: the provider is called.
CallProvider(r) ==
    /\ req[r].stage = "pipeline"
    /\ req' = [req EXCEPT ![r].stage = "provider"]
    /\ UNCHANGED <<record, index, expiring, issued, created, adm, revoked, removed, disorder>>

Finish(r) ==
    /\ req[r].stage \in {"pipeline", "provider"}
    /\ req' = [req EXCEPT ![r] = NoRequest]
    /\ UNCHANGED <<record, index, expiring, issued, created, adm, revoked, removed, disorder>>

Next ==
    \/ \E k \in Keys :
         \/ \E h \in Hashes, withTTL \in BOOLEAN : GenerateKey(k, h, withTTL)
         \/ BlockKey(k)
         \/ UnblockKey(k)
         \/ RecordExpires(k)
    \/ \E a \in Admins :
         \/ \E op \in {"delete", "rotate", "update"}, k \in Keys : Begin(a, op, k)
         \/ DeleteKey(a)
         \/ \E h \in Hashes : RotateKey(a, h)
         \/ UpdateKey(a)
    \/ \E h \in Hashes : IndexExpires(h)
    \/ \E r \in Requests :
         \/ \E h \in Hashes : ValidateIndex(r, h)
         \/ ValidateRecord(r)
         \/ CallProvider(r)
         \/ Finish(r)

Spec == Init /\ [][Next]_vars

-----------------------------------------------------------------------------
(* Properties.                                                             *)

\* A request that begins after a block completed is refused, whichever
\* rotations, updates and resets of the key are under way with what they read
\* before the block.
BlockHolds ==
    \A r \in Requests : req[r].stage \in {"pipeline", "provider"} => ~req[r].late

\* delete_key is "permanent removal" (PRD:107): a request that begins after it
\* has completed is refused, with whichever raw key the id ever had, as long
\* as the admin operations on the key come one after the other and none of
\* them writes to a record that is gone.
PermanentRemoval ==
    \A r \in Requests :
        req[r].stage \in {"pipeline", "provider"} /\ req[r].gone => disorder[req[r].key]

\* Under the same condition all raw keys of one key id but the newest are on
\* their way out, so a rotation does retire the old key (PRD:105).
OneLastingKey ==
    \A k \in Keys :
        ~disorder[k] => Cardinality({h \in Hashes : index[h] = k /\ ~expiring[h]}) <= 1

\* PRD:107 "permanent removal", virtual_keys.py:151 "Delete a key permanently":
\* without the condition.
DeletedForGood ==
    \A r \in Requests : req[r].stage \in {"pipeline", "provider"} => ~req[r].gone
=============================================================================

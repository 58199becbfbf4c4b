------------------------ MODULE AdministrationProofs ------------------------
(***************************************************************************)
(* Proofs about Administration.  Virtual keys: type correctness, what a    *)
(* block, a deletion and a rotation leave behind, for every number of      *)
(* keys, admins and requests.  Teams: what becomes of the list of members  *)
(* and of a deleted team, for any number of concurrent admin handlers.     *)
(***************************************************************************)
EXTENDS Administration, FiniteSetTheorems, TLAPS

-----------------------------------------------------------------------------
(* Administration behaves as the key store and as the team.                *)

\* A step of the one leaves the other as it is.
LEMMA BothRun == AdminSpec => Spec /\ T!Spec
<1>1. AdminInit => Init /\ T!Init
  BY DEF AdminInit
<1>2. [AdminNext]_<<onTeam, vars, teams>> => [Next]_vars /\ [T!Next]_T!vars
  BY DEF AdminNext, teams, T!vars
<1> QED
  BY <1>1, <1>2, PTL DEF AdminSpec, Spec, T!Spec

-----------------------------------------------------------------------------
(* Keys: type correctness.                                                 *)

\* A handler that is under way has a key.
Busy(r) == req[r].stage # "idle" => req[r].key \in Keys

Tasked(a) == adm[a].op # "none" => adm[a].key \in Keys

Typed ==
    /\ TypeOK
    /\ \A r \in Requests : Busy(r)
    /\ \A a \in Admins : Tasked(a)

\* Init => Typed, and Typed is kept by every step, one action at a time.
LEMMA TypedAlways == Spec => []Typed
<1>1. Init => Typed
  BY DEF Init, Typed, TypeOK, Busy, Tasked, Record, Absent, AdminTask, NoTask,
         Handler, NoRequest
<1>2. Typed /\ [Next]_vars => Typed'
  <2> SUFFICES ASSUME Typed, [Next]_vars PROVE Typed'
    OBVIOUS
  <2>0. /\ \A k \in Keys : record[k] \in Record
        /\ \A r \in Requests : req[r] \in Handler
        /\ \A a \in Admins : adm[a] \in AdminTask
        /\ Absent \in Record /\ NoTask \in AdminTask /\ NoRequest \in Handler
    BY DEF Typed, TypeOK, Absent, Record, NoTask, AdminTask, NoRequest, Handler
  <2>1. ASSUME NEW k \in Keys, NEW h \in Hashes, NEW withTTL \in BOOLEAN,
               GenerateKey(k, h, withTTL)
        PROVE  Typed'
    <3>1. [present |-> TRUE, hash |-> h, blocked |-> FALSE, ttl |-> withTTL] \in Record
      BY DEF Record
    <3> QED
      BY <2>1, <3>1 DEF GenerateKey, Typed, TypeOK, Busy, Tasked
  <2>2. \A r \in Requests : /\ [req[r] EXCEPT !.late = FALSE] \in Handler
                            /\ [req[r] EXCEPT !.late = FALSE].stage = req[r].stage
                            /\ [req[r] EXCEPT !.late = FALSE].key = req[r].key
    BY <2>0 DEF Handler
  <2>3. ASSUME NEW k \in Keys, BlockKey(k) PROVE Typed'
    <3>1. [[record[k] EXCEPT !.blocked = TRUE] EXCEPT !.present = TRUE] \in Record
      BY <2>0 DEF Record
    <3> QED
      BY <2>3, <3>1 DEF BlockKey, HSet, Typed, TypeOK, Busy, Tasked
  <2>4. ASSUME NEW k \in Keys, UnblockKey(k) PROVE Typed'
    <3>1. [[record[k] EXCEPT !.blocked = FALSE] EXCEPT !.present = TRUE] \in Record
      BY <2>0 DEF Record
    <3> QED
      BY <2>2, <2>4, <3>1 DEF UnblockKey, HSet, Typed, TypeOK, Busy, Tasked
  <2>5. ASSUME NEW k \in Keys, RecordExpires(k) PROVE Typed'
    BY <2>0, <2>2, <2>5 DEF RecordExpires, RecordGone, Typed, TypeOK, Busy, Tasked
  <2>6. ASSUME NEW a \in Admins, NEW op \in {"delete", "rotate", "update"}, NEW k \in Keys,
               Begin(a, op, k)
        PROVE  Typed'
    <3>1. [op |-> op, key |-> k, seen |-> record[k].hash] \in AdminTask
      BY <2>0 DEF AdminTask, Record
    <3> QED
      BY <2>6, <3>1 DEF Begin, Typed, TypeOK, Busy, Tasked
  <2>7. ASSUME NEW a \in Admins, DeleteKey(a) PROVE Typed'
    <3>1. /\ record' \in [Keys -> Record] /\ req' \in [Requests -> Handler]
          /\ revoked' \in [Keys -> BOOLEAN] /\ removed' \in [Keys -> BOOLEAN]
          /\ adm' \in [Admins -> AdminTask]
      BY <2>0, <2>2, <2>7 DEF DeleteKey, RecordGone, Typed, TypeOK
    <3>2. index' \in [Hashes -> Keys \union {None}] /\ expiring' \in [Hashes -> BOOLEAN]
      BY <2>7 DEF DeleteKey, Typed, TypeOK
    <3>3. \A r \in Requests : Busy(r)'
      BY <2>2, <2>7 DEF DeleteKey, RecordGone, Typed, TypeOK, Busy
    <3>4. \A b \in Admins : Tasked(b)'
      BY <2>7 DEF DeleteKey, Typed, TypeOK, Tasked, NoTask
    <3> QED
      BY <2>7, <3>1, <3>2, <3>3, <3>4 DEF DeleteKey, Typed, TypeOK
  <2>8. ASSUME NEW a \in Admins, NEW h \in Hashes, RotateKey(a, h) PROVE Typed'
    <3>1. adm[a].key \in Keys
      BY <2>8 DEF RotateKey, Typed, Tasked
    <3>2. [[record[adm[a].key] EXCEPT !.hash = h] EXCEPT !.present = TRUE] \in Record
      BY <2>0, <3>1 DEF Record
    <3> QED
      BY <2>0, <2>8, <3>1, <3>2 DEF RotateKey, HSet, Typed, TypeOK, Busy, Tasked, NoTask
  <2>9. ASSUME NEW a \in Admins, UpdateKey(a) PROVE Typed'
    <3>1. adm[a].key \in Keys
      BY <2>9 DEF UpdateKey, Typed, Tasked
    <3>2. [record[adm[a].key] EXCEPT !.present = TRUE] \in Record
      BY <2>0, <3>1 DEF Record
    <3> QED
      BY <2>0, <2>9, <3>1, <3>2 DEF UpdateKey, HSet, Typed, TypeOK, Busy, Tasked, NoTask
  <2>10. ASSUME NEW h \in Hashes, IndexExpires(h) PROVE Typed'
    BY <2>10 DEF IndexExpires, Typed, TypeOK, Busy, Tasked
  <2>11. ASSUME NEW r \in Requests, NEW h \in Hashes, ValidateIndex(r, h) PROVE Typed'
    <3>1. index[h] \in Keys
      BY <2>11 DEF ValidateIndex, Typed, TypeOK
    <3>2. [stage |-> "record", key |-> index[h],
           late |-> revoked[index[h]], gone |-> removed[index[h]]] \in Handler
      BY <3>1 DEF Handler, Typed, TypeOK
    <3> QED
      BY <2>11, <3>1, <3>2 DEF ValidateIndex, Typed, TypeOK, Busy, Tasked
  <2>12. ASSUME NEW r \in Requests, ValidateRecord(r) PROVE Typed'
    <3> DEFINE next == [req[r] EXCEPT !.stage = "pipeline"]
    <3>1. next \in Handler /\ next.key = req[r].key
      BY <2>0 DEF Handler
    <3>2. req[r].key \in Keys
      BY <2>12 DEF ValidateRecord, Typed, Busy
    <3>3. /\ req' = [req EXCEPT ![r] = req'[r]]
          /\ req'[r] = next \/ req'[r] = NoRequest
      BY <2>12 DEF ValidateRecord, Typed, TypeOK
    <3> QED
      BY <2>0, <2>12, <3>1, <3>2, <3>3
         DEF ValidateRecord, Typed, TypeOK, Busy, Tasked, NoRequest
  <2>13. ASSUME NEW r \in Requests, CallProvider(r) PROVE Typed'
    <3>1. [req[r] EXCEPT !.stage = "provider"] \in Handler
      BY <2>0 DEF Handler
    <3>2. [req[r] EXCEPT !.stage = "provider"].key = req[r].key /\ req[r].key \in Keys
      BY <2>0, <2>13 DEF CallProvider, Handler, Typed, Busy
    <3> QED
      BY <2>13, <3>1, <3>2 DEF CallProvider, Typed, TypeOK, Busy, Tasked
  <2>14. ASSUME NEW r \in Requests, Finish(r) PROVE Typed'
    BY <2>0, <2>14 DEF Finish, Typed, TypeOK, Busy, Tasked, NoRequest
  <2>15. CASE UNCHANGED vars
    BY <2>15 DEF vars, Typed, TypeOK, Busy, Tasked
  <2> QED
    BY <2>1, <2>3, <2>4, <2>5, <2>6, <2>7, <2>8, <2>9, <2>10, <2>11, <2>12, <2>13,
       <2>14, <2>15 DEF Next
<1> QED
  BY <1>1, <1>2, PTL DEF Spec

\* Every variable of the key store keeps its type, in every reachable state.
THEOREM TypeCorrect == Spec => []TypeOK
<1>1. Typed => TypeOK
  BY DEF Typed
<1> QED
  BY <1>1, TypedAlways, PTL

-----------------------------------------------------------------------------
(* A block holds.                                                          *)

\* The record of a revoked key says so, and only keys handed out are revoked.
RevokedIsStored ==
    \A k \in Keys : revoked[k] => record[k].present /\ record[k].blocked /\ k \in created

\* A handler that began after the block has yet to read the record.
LateIsStopped ==
    \A r \in Requests : req[r].late => req[r].stage = "record" /\ revoked[req[r].key]

Blocks == RevokedIsStored /\ LateIsStopped

\* A block is stored in the record, and only handlers that have still to read
\* the record began after it.
LEMMA BlocksAlways == Spec => []Blocks
<1>1. Init => Blocks
  BY DEF Init, Blocks, RevokedIsStored, LateIsStopped, NoRequest
<1>2. Typed /\ Typed' /\ Blocks /\ [Next]_vars => Blocks'
  <2> SUFFICES ASSUME Typed, Typed', Blocks, [Next]_vars PROVE Blocks'
    OBVIOUS
  <2> USE DEF Blocks, RevokedIsStored, LateIsStopped
  <2>0. /\ \A k \in Keys : record[k] \in Record
        /\ \A r \in Requests : req[r] \in Handler /\ Busy(r)
        /\ \A a \in Admins : adm[a] \in AdminTask /\ Tasked(a)
    BY DEF Typed, TypeOK
  <2>1. ASSUME NEW k \in Keys, NEW h \in Hashes, NEW withTTL \in BOOLEAN,
               GenerateKey(k, h, withTTL)
        PROVE  Blocks'
    BY <2>1 DEF GenerateKey, Typed, TypeOK
  <2>2. \A k \in Keys : [record[k] EXCEPT !.present = TRUE].blocked = record[k].blocked
    BY <2>0 DEF Record
  <2>3. ASSUME NEW k \in Keys, BlockKey(k) PROVE Blocks'
    <3>1. /\ record'[k].present /\ record'[k].blocked
          /\ \A j \in Keys \ {k} : record'[j] = record[j]
      BY <2>0, <2>3 DEF BlockKey, HSet, Record, Typed, TypeOK
    <3> QED
      BY <2>0, <2>3, <3>1 DEF BlockKey, Typed, TypeOK, Busy
  <2>4. ASSUME NEW k \in Keys, UnblockKey(k) PROVE Blocks'
    <3>1. RevokedIsStored'
      BY <2>4 DEF UnblockKey, HSet, Typed, TypeOK
    <3>2. LateIsStopped'
      BY <2>0, <2>4 DEF UnblockKey, Typed, TypeOK, Handler
    <3> QED
      BY <3>1, <3>2
  <2>5. ASSUME NEW k \in Keys, RecordGone(k), created' = created PROVE Blocks'
    <3>1. RevokedIsStored'
      BY <2>5 DEF RecordGone, Typed, TypeOK
    <3>2. LateIsStopped'
      BY <2>0, <2>5 DEF RecordGone, Typed, TypeOK, Handler
    <3> QED
      BY <3>1, <3>2
  <2>6. ASSUME NEW a \in Admins, NEW op \in {"delete", "rotate", "update"}, NEW k \in Keys,
               Begin(a, op, k)
        PROVE  Blocks'
    BY <2>6 DEF Begin
  <2>7. ASSUME NEW a \in Admins, DeleteKey(a) PROVE Blocks'
    BY <2>0, <2>5, <2>7 DEF DeleteKey, Tasked
  <2>8. ASSUME NEW a \in Admins, NEW h \in Hashes, RotateKey(a, h) PROVE Blocks'
    <3> DEFINE k == adm[a].key
    <3>1. k \in Keys
      BY <2>0, <2>8 DEF RotateKey, Tasked
    <3>2. /\ record'[k].present /\ record'[k].blocked = record[k].blocked
          /\ \A j \in Keys \ {k} : record'[j] = record[j]
      BY <2>0, <2>8, <3>1 DEF RotateKey, HSet, Record, Typed, TypeOK
    <3> QED
      BY <2>8, <3>1, <3>2 DEF RotateKey
  <2>9. ASSUME NEW a \in Admins, UpdateKey(a) PROVE Blocks'
    <3> DEFINE k == adm[a].key
    <3>1. k \in Keys
      BY <2>0, <2>9 DEF UpdateKey, Tasked
    <3>2. /\ record'[k].present /\ record'[k].blocked = record[k].blocked
          /\ \A j \in Keys \ {k} : record'[j] = record[j]
      BY <2>0, <2>9, <3>1 DEF UpdateKey, HSet, Record, Typed, TypeOK
    <3> QED
      BY <2>9, <3>1, <3>2 DEF UpdateKey
  <2>10. ASSUME NEW h \in Hashes, IndexExpires(h) PROVE Blocks'
    BY <2>10 DEF IndexExpires
  <2>11. ASSUME NEW r \in Requests, NEW h \in Hashes, ValidateIndex(r, h) PROVE Blocks'
    BY <2>11 DEF ValidateIndex, Typed, TypeOK
  <2>12. ASSUME NEW r \in Requests, ValidateRecord(r) PROVE Blocks'
    <3>1. req[r].late => req'[r] = NoRequest
      BY <2>0, <2>12 DEF ValidateRecord, Accepts, Busy, Typed, TypeOK
    <3>2. req'[r].late => req'[r] # NoRequest
      BY DEF NoRequest
    <3>3. req'[r] # NoRequest => req'[r].late = req[r].late
      BY <2>0, <2>12 DEF ValidateRecord, Typed, TypeOK, Handler
    <3> QED
      BY <2>12, <3>1, <3>2, <3>3 DEF ValidateRecord, Typed, TypeOK
  <2>13. ASSUME NEW r \in Requests, CallProvider(r) PROVE Blocks'
    BY <2>0, <2>13 DEF CallProvider, Typed, TypeOK, Handler
  <2>14. ASSUME NEW r \in Requests, Finish(r) PROVE Blocks'
    BY <2>14 DEF Finish, Typed, TypeOK, NoRequest
  <2>15. CASE UNCHANGED vars
    BY <2>15 DEF vars
  <2> QED
    BY <2>1, <2>3, <2>4, <2>5, <2>6, <2>7, <2>8, <2>9, <2>10, <2>11, <2>12, <2>13,
       <2>14, <2>15 DEF Next, RecordExpires
<1> QED
  BY <1>1, <1>2, TypedAlways, PTL DEF Spec

\* No request that began after block_key completed gets past validate_key,
\* whatever rotations, updates and deletions of the key were under way.
THEOREM BlockAlwaysHolds == Spec => []BlockHolds
<1>1. Blocks => BlockHolds
  BY DEF Blocks, LateIsStopped, BlockHolds
<1> QED
  BY <1>1, BlocksAlways, PTL
-----------------------------------------------------------------------------
(* A deletion is permanent, and a rotation retires the old key, when the    *)
(* deletions and rotations of a key overlap no other operation on it.       *)

Idle(a) == adm[a].op = "none" => adm[a].key = None

\* Tasks, removals and index entries are of keys that were handed out.
HandedOut ==
    /\ \A a \in Admins : Idle(a) /\ (adm[a].op # "none" => adm[a].key \in created)
    /\ \A k \in Keys : removed[k] => k \in created
    /\ \A h \in Hashes : index[h] # None => h \in issued /\ index[h] \in created

\* Two tasks on one key, one of which deletes or rotates it, are a disorder.
OverlapsAreSeen ==
    \A a, b \in Admins :
        /\ a # b
        /\ adm[a].op \in {"delete", "rotate"}
        /\ adm[b].op # "none" /\ adm[b].key = adm[a].key
        => disorder[adm[a].key]

\* What a rotation has read is still the hash of the record.
RotationIsCurrent ==
    \A a \in Admins :
        /\ adm[a].op = "rotate"
        /\ record[adm[a].key].present
        => \/ disorder[adm[a].key]
           \/ adm[a].seen = record[adm[a].key].hash

\* Nothing is left of a removed key, and nobody is about to write to it.
RemovedIsGone ==
    \A k \in Keys :
        removed[k] /\ ~disorder[k] =>
            ~record[k].present /\ \A a \in Admins : adm[a].key # k

\* A lasting raw key is the one of the record, and there is one only.
Lasts(h, k) == index[h] = k /\ ~expiring[h]

OneLasts ==
    \A k \in Keys :
        ~disorder[k] =>
            /\ \A h \in Hashes : Lasts(h, k) /\ record[k].present => record[k].hash = h
            /\ \A g, h \in Hashes : Lasts(g, k) /\ Lasts(h, k) => g = h

\* The handlers that came after the removal: past the record only in disorder.
GoneIsRemoved ==
    \A r \in Requests :
        req[r].gone => /\ req[r].stage # "idle" /\ removed[req[r].key]
                       /\ req[r].stage # "record" => disorder[req[r].key]

Orderly ==
    /\ HandedOut
    /\ OverlapsAreSeen
    /\ RotationIsCurrent
    /\ RemovedIsGone
    /\ OneLasts
    /\ GoneIsRemoved

\* An HSET on a key of which nothing but the hash field may change.
LEMMA HSetRecord ==
    ASSUME Typed, NEW k \in Keys, NEW fields \in Record, HSet(k, fields)
    PROVE  /\ record'[k].present /\ record'[k].hash = fields.hash
           /\ \A j \in Keys \ {k} : record'[j] = record[j] /\ disorder'[j] = disorder[j]
           /\ (disorder[k] => disorder'[k]) /\ (~disorder'[k] => record[k].present)
<1>1. [fields EXCEPT !.present = TRUE].present /\ [fields EXCEPT !.present = TRUE].hash = fields.hash
  BY DEF Record
<1>2. record'[k] = [fields EXCEPT !.present = TRUE] /\ \A j \in Keys \ {k} : record'[j] = record[j]
  BY DEF HSet, Typed, TypeOK
<1>3. \A j \in Keys \ {k} : disorder'[j] = disorder[j]
  BY DEF HSet, Typed, TypeOK
<1>4. (disorder[k] => disorder'[k]) /\ (~disorder'[k] => record[k].present)
  <2>1. disorder' = [disorder EXCEPT ![k] = disorder[k] \/ ~record[k].present]
    BY DEF HSet
  <2>2. disorder \in [Keys -> BOOLEAN] /\ record[k].present \in BOOLEAN
    BY DEF Typed, TypeOK, Record
  <2> QED
    BY <2>1, <2>2
<1> QED
  BY <1>1, <1>2, <1>3, <1>4

\* The invariant of deletion and rotation, one action at a time.
LEMMA OrderlyAlways == Spec => []Orderly
<1> USE DEF Orderly
<1>1. Init => Orderly
  BY KeysAssumption DEF Init, HandedOut, OverlapsAreSeen, RotationIsCurrent, RemovedIsGone, OneLasts,
         GoneIsRemoved, Idle, Lasts, NoTask, NoRequest, Absent
<1>2. Typed /\ Typed' /\ Orderly /\ [Next]_vars => Orderly'
  <2> SUFFICES ASSUME Typed, Typed', Orderly, [Next]_vars PROVE Orderly'
    OBVIOUS
  <2>0. /\ \A k \in Keys : record[k] \in Record
        /\ \A r \in Requests : req[r] \in Handler /\ Busy(r)
        /\ \A a \in Admins : adm[a] \in AdminTask /\ Tasked(a)
        /\ None \notin Keys
    BY KeysAssumption DEF Typed, TypeOK
  <2>1. ASSUME NEW k \in Keys, NEW h \in Hashes, NEW withTTL \in BOOLEAN,
               GenerateKey(k, h, withTTL)
        PROVE  Orderly'
    <3>1. HandedOut' /\ OverlapsAreSeen' /\ GoneIsRemoved'
      BY <2>0, <2>1 DEF GenerateKey, HandedOut, OverlapsAreSeen, GoneIsRemoved, Idle, Typed, TypeOK
    <3>2. \A a \in Admins : adm[a].key # k
      BY <2>0, <2>1 DEF GenerateKey, HandedOut, Idle
    <3>3. RotationIsCurrent' /\ RemovedIsGone'
      BY <2>0, <2>1, <3>2 DEF GenerateKey, HandedOut, RotationIsCurrent, RemovedIsGone, Typed, TypeOK, Tasked
    <3>4. OneLasts'
      BY <2>0, <2>1 DEF GenerateKey, HandedOut, OneLasts, Lasts, Typed, TypeOK
    <3> QED
      BY <3>1, <3>3, <3>4
  <2>2. ASSUME NEW k \in Keys, NEW fields \in Record, HSet(k, fields),
               fields.hash = record[k].hash,
               UNCHANGED <<index, expiring, issued, created, adm, removed>>,
               \A r \in Requests : /\ req'[r].gone = req[r].gone
                                   /\ req'[r].stage = req[r].stage
                                   /\ req'[r].key = req[r].key
        PROVE  Orderly'
    <3>1. HandedOut'
      BY <2>2 DEF HandedOut, Idle
    <3>2. \A j \in Keys : disorder[j] => disorder'[j]
      BY <2>2, HSetRecord
    <3>3. OverlapsAreSeen' /\ GoneIsRemoved'
      BY <2>0, <2>2, <3>2 DEF OverlapsAreSeen, GoneIsRemoved, Tasked, Busy
    <3>4. /\ record'[k].hash = record[k].hash
          /\ \A j \in Keys \ {k} : record'[j] = record[j]
          /\ ~disorder'[k] => record[k].present
      BY <2>2, HSetRecord
    <3>5. RotationIsCurrent'
      BY <2>0, <2>2, <3>2, <3>4 DEF RotationIsCurrent, Tasked
    <3>6. RemovedIsGone'
      BY <2>2, <3>2, <3>4 DEF RemovedIsGone
    <3>7. OneLasts'
      BY <2>2, <3>2, <3>4 DEF OneLasts, Lasts
    <3> QED
      BY <3>1, <3>3, <3>5, <3>6, <3>7
  <2>3. ASSUME NEW k \in Keys, BlockKey(k) PROVE Orderly'
    <3>1. [record[k] EXCEPT !.blocked = TRUE] \in Record
          /\ [record[k] EXCEPT !.blocked = TRUE].hash = record[k].hash
      BY <2>0 DEF Record
    <3> QED
      BY <2>2, <2>3, <3>1 DEF BlockKey
  <2>4. \A r \in Requests : /\ [req[r] EXCEPT !.late = FALSE].gone = req[r].gone
                            /\ [req[r] EXCEPT !.late = FALSE].stage = req[r].stage
                            /\ [req[r] EXCEPT !.late = FALSE].key = req[r].key
    BY <2>0 DEF Handler
  <2>5. ASSUME NEW k \in Keys, UnblockKey(k) PROVE Orderly'
    <3>1. [record[k] EXCEPT !.blocked = FALSE] \in Record
          /\ [record[k] EXCEPT !.blocked = FALSE].hash = record[k].hash
      BY <2>0 DEF Record
    <3>2. \A r \in Requests : /\ req'[r].gone = req[r].gone
                              /\ req'[r].stage = req[r].stage
                              /\ req'[r].key = req[r].key
      BY <2>4, <2>5 DEF UnblockKey
    <3> QED
      BY <2>2, <2>5, <3>1, <3>2 DEF UnblockKey
  <2>6. ASSUME NEW k \in Keys, RecordGone(k),
               UNCHANGED <<issued, created, disorder>>,
               \A j \in Keys : removed'[j] => j = k \/ removed[j],
               \A j \in Keys : (removed'[j] => j \in created) /\ (removed[j] => removed'[j]),
               \A h \in Hashes : /\ index'[h] = index[h] \/ index'[h] = None
                                 /\ expiring[h] => expiring'[h] \/ index'[h] = None,
               \/ adm' = adm /\ removed' = removed
               \/ \E a \in Admins :
                     /\ adm[a].op = "delete" /\ adm[a].key = k
                     /\ adm' = [adm EXCEPT ![a] = NoTask]
        PROVE  Orderly'
    <3>1. /\ record'[k] = Absent /\ \A j \in Keys \ {k} : record'[j] = record[j]
          /\ \A r \in Requests : /\ req'[r].gone = req[r].gone
                                 /\ req'[r].stage = req[r].stage
                                 /\ req'[r].key = req[r].key
      BY <2>4, <2>6 DEF RecordGone, Typed, TypeOK
    <3>2. \A b \in Admins : adm'[b] = adm[b] \/ adm'[b] = NoTask
      BY <2>6 DEF Typed, TypeOK
    <3>3. HandedOut'
      BY <2>0, <2>6, <3>2 DEF HandedOut, Idle, NoTask, Typed, TypeOK
    <3>4. OverlapsAreSeen'
      BY <2>6, <3>2 DEF OverlapsAreSeen, NoTask
    <3>5. RotationIsCurrent'
      BY <2>0, <2>6, <3>1, <3>2 DEF RotationIsCurrent, NoTask, Absent, Tasked
    <3>6. RemovedIsGone'
      <4>1. ASSUME NEW j \in Keys, removed'[j], ~disorder[j], removed[j]
            PROVE  ~record'[j].present /\ \A a \in Admins : adm'[a].key # j
        BY <2>0, <3>1, <3>2, <4>1 DEF RemovedIsGone, NoTask, Absent
      <4>2. ASSUME removed'[k], ~disorder[k], ~removed[k]
            PROVE  ~record'[k].present /\ \A a \in Admins : adm'[a].key # k
        <5>1. PICK a \in Admins : /\ adm[a].op = "delete" /\ adm[a].key = k
                                  /\ adm' = [adm EXCEPT ![a] = NoTask]
          BY <2>6, <4>2
        <5>2. adm'[a].key # k
          BY <2>0, <5>1 DEF NoTask, Typed, TypeOK
        <5>3. \A b \in Admins \ {a} : adm'[b] = adm[b]
          BY <5>1 DEF Typed, TypeOK
        <5>4. \A b \in Admins \ {a} : adm[b].key # k
          BY <2>0, <4>2, <5>1 DEF OverlapsAreSeen, HandedOut, Idle
        <5> QED
          BY <3>1, <5>2, <5>3, <5>4 DEF Absent
      <4> QED
        BY <2>6, <4>1, <4>2 DEF RemovedIsGone
    <3>7. OneLasts'
      BY <2>0, <2>6, <3>1 DEF OneLasts, Lasts, Absent
    <3>8. GoneIsRemoved'
      BY <2>0, <2>6, <3>1 DEF GoneIsRemoved, Busy
    <3> QED
      BY <3>3, <3>4, <3>5, <3>6, <3>7, <3>8
  <2>7. ASSUME NEW k \in Keys, RecordExpires(k) PROVE Orderly'
    BY <2>6, <2>7 DEF RecordExpires, HandedOut
  <2>8. ASSUME NEW a \in Admins, DeleteKey(a) PROVE Orderly'
    <3>1. adm[a].key \in Keys /\ adm[a].key \in created
      BY <2>0, <2>8 DEF DeleteKey, HandedOut, Tasked
    <3>2. \A h \in Hashes : /\ index'[h] = index[h] \/ index'[h] = None
                            /\ expiring[h] => expiring'[h] \/ index'[h] = None
      BY <2>8 DEF DeleteKey, Typed, TypeOK
    <3>3. \A j \in Keys : /\ removed'[j] => j = adm[a].key \/ removed[j]
                          /\ removed'[j] => j \in created
                          /\ removed[j] => removed'[j]
      BY <2>8, <3>1 DEF DeleteKey, HandedOut, Typed, TypeOK
    <3> QED
      BY <2>6, <2>8, <3>1, <3>2, <3>3 DEF DeleteKey
  <2>9. ASSUME NEW a \in Admins, NEW op \in {"delete", "rotate", "update"}, NEW k \in Keys,
               Begin(a, op, k)
        PROVE  Orderly'
    <3>1. /\ adm'[a] = [op |-> op, key |-> k, seen |-> record[k].hash]
          /\ \A b \in Admins \ {a} : adm'[b] = adm[b]
          /\ \A j \in Keys : disorder[j] => disorder'[j]
          /\ Overlaps(op, k) => disorder'[k]
      BY <2>9 DEF Begin, Typed, TypeOK
    <3>2. HandedOut'
      BY <2>9, <3>1 DEF Begin, HandedOut, Idle
    <3>3. OverlapsAreSeen'
      <4>1. ASSUME NEW b \in Admins \ {a}, adm[b].key = k,
                   op \in {"delete", "rotate"} \/ adm[b].op \in {"delete", "rotate"}
            PROVE  disorder'[k]
        BY <3>1, <4>1 DEF Overlaps
      <4> QED
        BY <2>0, <3>1, <4>1 DEF OverlapsAreSeen, Tasked
    <3>4. RotationIsCurrent'
      BY <2>0, <2>9, <3>1 DEF Begin, RotationIsCurrent, Tasked
    <3>5. RemovedIsGone' /\ OneLasts' /\ GoneIsRemoved'
      BY <2>0, <2>9, <3>1 DEF Begin, RemovedIsGone, OneLasts, Lasts, GoneIsRemoved, Busy
    <3> QED
      BY <3>2, <3>3, <3>4, <3>5
  <2>10. ASSUME NEW a \in Admins, NEW h \in Hashes, RotateKey(a, h) PROVE Orderly'
    <3>0. PICK k \in Keys : k = adm[a].key
      BY <2>0, <2>10 DEF RotateKey, Tasked
    <3>1. k = adm[a].key /\ k \in created /\ adm[a].op = "rotate"
      BY <2>0, <2>10, <3>0 DEF RotateKey, HandedOut
    <3>2. [record[k] EXCEPT !.hash = h] \in Record /\ [record[k] EXCEPT !.hash = h].hash = h
      BY <2>0, <3>1 DEF Record
    <3>3. /\ record'[k].present /\ record'[k].hash = h
          /\ \A j \in Keys \ {k} : record'[j] = record[j] /\ disorder'[j] = disorder[j]
          /\ (disorder[k] => disorder'[k]) /\ (~disorder'[k] => record[k].present)
      BY <2>10, <3>1, <3>2, HSetRecord DEF RotateKey
    <3>4. /\ adm'[a] = NoTask /\ \A b \in Admins \ {a} : adm'[b] = adm[b]
          /\ index'[h] = k /\ index[h] = None
          /\ \A g \in Hashes \ {h} : index'[g] = index[g]
          /\ \A g \in Hashes : expiring[g] => expiring'[g]
          /\ \A g \in Hashes : g = adm[a].seen /\ index[g] # None => expiring'[g]
      <4>1. adm'[a] = NoTask /\ \A b \in Admins \ {a} : adm'[b] = adm[b]
        BY <2>10 DEF RotateKey, Typed, TypeOK
      <4>2. /\ index'[h] = k /\ index[h] = None
            /\ \A g \in Hashes \ {h} : index'[g] = index[g]
        BY <2>10, <3>1 DEF RotateKey, HandedOut, Typed, TypeOK
      <4>3. /\ \A g \in Hashes : expiring[g] => expiring'[g]
            /\ \A g \in Hashes : g = adm[a].seen /\ index[g] # None => expiring'[g]
        BY <2>10 DEF RotateKey
      <4> QED
        BY <4>1, <4>2, <4>3
    <3>5. HandedOut'
      BY <2>10, <3>1, <3>4 DEF RotateKey, HandedOut, Idle, NoTask
    <3>6. OverlapsAreSeen'
      BY <2>0, <3>3, <3>4 DEF OverlapsAreSeen, NoTask, Tasked
    <3>7. RotationIsCurrent'
      <4>1. ASSUME NEW b \in Admins \ {a}, adm[b].op = "rotate"
            PROVE  adm[b].key \in Keys /\ (adm[b].key = k => disorder[k])
        BY <2>0, <3>1, <4>1 DEF OverlapsAreSeen, Tasked
      <4> QED
        BY <3>3, <3>4, <4>1 DEF RotationIsCurrent, NoTask
    <3>8. RemovedIsGone'
      BY <2>0, <2>10, <3>1, <3>3, <3>4 DEF RotateKey, RemovedIsGone, NoTask
    <3>9. OneLasts'
      <4>1. ASSUME NEW j \in Keys \ {k}, ~disorder'[j]
            PROVE  /\ \A g \in Hashes : Lasts(g, j)' /\ record'[j].present => record'[j].hash = g
                   /\ \A f, g \in Hashes : Lasts(f, j)' /\ Lasts(g, j)' => f = g
        BY <3>3, <3>4, <4>1 DEF OneLasts, Lasts
      <4>2. ASSUME ~disorder'[k], NEW g \in Hashes, Lasts(g, k)' PROVE g = h
        <5>1. SUFFICES ASSUME g # h PROVE FALSE
          OBVIOUS
        <5>2. record[k].present /\ ~disorder[k]
          BY <3>3, <4>2
        <5>3. adm[a].seen = record[k].hash
          BY <3>1, <5>2 DEF RotationIsCurrent
        <5>4. index[g] = k /\ ~expiring[g] /\ ~expiring'[g]
          BY <3>4, <4>2, <5>1 DEF Lasts
        <5>5. record[k].hash = g
          BY <3>1, <5>2, <5>4 DEF OneLasts, Lasts
        <5> QED
          BY <2>0, <3>1, <3>4, <5>3, <5>4, <5>5
      <4>3. ASSUME ~disorder'[k]
            PROVE  /\ \A g \in Hashes : Lasts(g, k)' /\ record'[k].present => record'[k].hash = g
                   /\ \A f, g \in Hashes : Lasts(f, k)' /\ Lasts(g, k)' => f = g
        BY <3>3, <4>2, <4>3
      <4> QED
        BY <4>1, <4>3 DEF OneLasts
    <3>10. GoneIsRemoved'
      BY <2>0, <2>10, <3>3 DEF RotateKey, GoneIsRemoved, Busy
    <3> QED
      BY <3>5, <3>6, <3>7, <3>8, <3>9, <3>10
  <2>11. ASSUME NEW a \in Admins, UpdateKey(a) PROVE Orderly'
    <3> DEFINE k == adm[a].key
    <3>1. k \in Keys /\ record[k] \in Record
      BY <2>0, <2>11 DEF UpdateKey, Tasked
    <3>2. /\ record'[k].hash = record[k].hash
          /\ \A j \in Keys \ {k} : record'[j] = record[j]
          /\ \A j \in Keys : disorder[j] => disorder'[j]
          /\ ~disorder'[k] => record[k].present
      BY <2>11, <3>1, HSetRecord DEF UpdateKey
    <3>3. adm'[a] = NoTask /\ \A b \in Admins \ {a} : adm'[b] = adm[b]
      BY <2>11 DEF UpdateKey, Typed, TypeOK
    <3>4. HandedOut'
      BY <2>11, <3>3 DEF UpdateKey, HandedOut, Idle, NoTask
    <3>5. OverlapsAreSeen' /\ GoneIsRemoved'
      BY <2>0, <2>11, <3>2, <3>3 DEF UpdateKey, OverlapsAreSeen, GoneIsRemoved, NoTask, Tasked, Busy
    <3>6. RotationIsCurrent'
      BY <2>0, <3>2, <3>3 DEF RotationIsCurrent, NoTask, Tasked
    <3>7. RemovedIsGone' /\ OneLasts'
      BY <2>0, <2>11, <3>2, <3>3 DEF UpdateKey, RemovedIsGone, OneLasts, Lasts, NoTask
    <3> QED
      BY <3>4, <3>5, <3>6, <3>7
  <2>12. ASSUME NEW h \in Hashes, IndexExpires(h) PROVE Orderly'
    BY <2>0, <2>12
       DEF IndexExpires, HandedOut, OverlapsAreSeen, RotationIsCurrent, RemovedIsGone, OneLasts,
           GoneIsRemoved, Idle, Lasts, Typed, TypeOK
  <2>13. ASSUME UNCHANGED <<record, index, expiring, issued, created, adm, removed, disorder>>,
                GoneIsRemoved'
         PROVE  Orderly'
    BY <2>13 DEF HandedOut, OverlapsAreSeen, RotationIsCurrent, RemovedIsGone, OneLasts, Idle, Lasts
  <2>14. ASSUME NEW r \in Requests, NEW h \in Hashes, ValidateIndex(r, h) PROVE Orderly'
    <3>1. GoneIsRemoved'
      BY <2>14 DEF ValidateIndex, GoneIsRemoved, Typed, TypeOK
    <3> QED
      BY <2>13, <2>14, <3>1 DEF ValidateIndex
  <2>15. ASSUME NEW r \in Requests, ValidateRecord(r) PROVE Orderly'
    <3> DEFINE next == [req[r] EXCEPT !.stage = "pipeline"]
    <3>1. next.key = req[r].key /\ next.gone = req[r].gone /\ next.stage = "pipeline"
      BY <2>0 DEF Handler
    <3>2. /\ \A q \in Requests \ {r} : req'[q] = req[q]
          /\ req'[r] = NoRequest \/ (req'[r] = next /\ record[req[r].key].present)
      BY <2>15 DEF ValidateRecord, Accepts, Typed, TypeOK
    <3>3. req[r].key \in Keys
      BY <2>0, <2>15 DEF ValidateRecord, Busy
    <3>4. GoneIsRemoved'
      BY <2>15, <3>1, <3>2, <3>3 DEF ValidateRecord, GoneIsRemoved, RemovedIsGone, NoRequest
    <3> QED
      BY <2>13, <2>15, <3>4 DEF ValidateRecord
  <2>16. ASSUME NEW r \in Requests, CallProvider(r) PROVE Orderly'
    <3>1. GoneIsRemoved'
      BY <2>0, <2>16 DEF CallProvider, GoneIsRemoved, Handler, Typed, TypeOK
    <3> QED
      BY <2>13, <2>16, <3>1 DEF CallProvider
  <2>17. ASSUME NEW r \in Requests, Finish(r) PROVE Orderly'
    <3>1. GoneIsRemoved'
      BY <2>17 DEF Finish, GoneIsRemoved, NoRequest, Typed, TypeOK
    <3> QED
      BY <2>13, <2>17, <3>1 DEF Finish
  <2>18. CASE UNCHANGED vars
    BY <2>13, <2>18 DEF vars, GoneIsRemoved
  <2> QED
    BY <2>1, <2>3, <2>5, <2>7, <2>8, <2>9, <2>10, <2>11, <2>12, <2>14, <2>15, <2>16,
       <2>17, <2>18 DEF Next
<1> QED
  BY <1>1, <1>2, TypedAlways, PTL DEF Spec

\* A request that began after delete_key completed is refused, for any number
\* of admins and requests, unless operations on the key overlapped.
THEOREM RemovalIsPermanent == Spec => []PermanentRemoval
<1>1. Orderly => PermanentRemoval
  BY DEF Orderly, GoneIsRemoved, PermanentRemoval
<1> QED
  BY <1>1, OrderlyAlways, PTL

\* A rotation leaves no second raw key without an end, unless operations on
\* the key overlapped or wrote to a record that was gone.
THEOREM RotationRetires == Spec => []OneLastingKey
<1>1. Orderly => OneLastingKey
  <2> SUFFICES ASSUME Orderly, NEW k \in Keys, ~disorder[k]
               PROVE  Cardinality({h \in Hashes : index[h] = k /\ ~expiring[h]}) <= 1
    BY DEF OneLastingKey
  <2> DEFINE lasting == {h \in Hashes : index[h] = k /\ ~expiring[h]}
  <2>1. CASE lasting = {}
    BY <2>1, FS_EmptySet
  <2>2. ASSUME NEW h \in lasting PROVE Cardinality(lasting) <= 1
    <3>1. lasting = {h}
      BY <2>2 DEF Orderly, OneLasts, Lasts
    <3> QED
      BY <3>1, FS_Singleton
  <2> QED
    BY <2>1, <2>2
<1> QED
  BY <1>1, OrderlyAlways, PTL

-----------------------------------------------------------------------------
(* The team: type correctness.                                             *)

\* A task that ends leaves well-typed tasks, its own slot empty; another one
\* keeps what it has read, and is stale when it was or when its kind became so.
LEMMA EndedTasks ==
  ASSUME T!TypeOK, NEW a \in Admins, NEW ops
  PROVE  /\ T!Ended(a, ops) \in [Admins -> T!Task]
         /\ T!Ended(a, ops)[a].op = "none"
         /\ \A b \in Admins \ {a} :
              /\ T!Ended(a, ops)[b].op = tasks[b].op
              /\ T!Ended(a, ops)[b].members = tasks[b].members
              /\ T!Ended(a, ops)[b].user = tasks[b].user
              /\ T!Ended(a, ops)[b].role = tasks[b].role
              /\ T!Ended(a, ops)[b].stale <=> tasks[b].stale \/ tasks[b].op \in ops
<1>1. T!NoTask \in T!Task /\ T!NoTask.op = "none"
  BY DEF T!NoTask, T!Task, T!Members, T!Nobody
<1>2. ASSUME NEW b \in Admins
      PROVE  /\ [tasks[b] EXCEPT !.stale = @ \/ tasks[b].op \in ops] \in T!Task
             /\ T!Ended(a, ops)[b] = IF b = a THEN T!NoTask
                                   ELSE [tasks[b] EXCEPT !.stale = @ \/ tasks[b].op \in ops]
  BY DEF T!TypeOK, T!Task, T!Ended
<1> QED
  BY <1>1, <1>2 DEF T!TypeOK, T!Task, T!Ended

\* Every operation of the admin endpoints keeps record and tasks well typed.
THEOREM TeamTypeCorrect == T!Spec => []T!TypeOK
<1>1. T!Nobody \in T!Members /\ T!NoTask \in T!Task
  BY DEF T!NoTask, T!Task, T!Members, T!Nobody
<1>2. T!Init => T!TypeOK
  <2>1. [there |-> FALSE, limit |-> None, members |-> T!Nobody]
          \in [there : BOOLEAN, limit : Limits \union {None}, members : T!Members]
    BY <1>1
  <2> QED
    BY <1>1, <2>1 DEF T!Init, T!TypeOK, T!Absent
<1>3. T!TypeOK /\ [T!Next]_T!vars => T!TypeOK'
  <2> SUFFICES ASSUME T!TypeOK, [T!Next]_T!vars PROVE T!TypeOK'
    OBVIOUS
  <2>1. ASSUME NEW a \in Admins, T!CreateTeam(a) PROVE T!TypeOK'
    <3>1. tasks' \in [Admins -> T!Task]
      BY <2>1, EndedTasks DEF T!CreateTeam
    <3>2. PICK l \in Limits \union {None} : team' = [there |-> TRUE, limit |-> l, members |-> T!Nobody]
      BY <2>1 DEF T!CreateTeam
    <3>3. team' \in [there : BOOLEAN, limit : Limits \union {None}, members : T!Members]
      BY <1>1, <3>2
    <3> QED
      BY <1>1, <2>1, <3>1, <3>3 DEF T!CreateTeam, T!TypeOK
  <2>2. ASSUME NEW a \in Admins, T!DeleteTeam(a) PROVE T!TypeOK'
    BY <1>1, <2>2, EndedTasks DEF T!DeleteTeam, T!TypeOK, T!Absent
  <2>3. ASSUME NEW a \in Admins, T!BeginUpdate(a) PROVE T!TypeOK'
    <3>1. PICK l \in Limits :
            tasks' = [tasks EXCEPT ![a] = [T!NoTask EXCEPT !.op = "update", !.limit = l,
                                                     !.members = team.members]]
      BY <2>3 DEF T!BeginUpdate
    <3>2. [T!NoTask EXCEPT !.op = "update", !.limit = l, !.members = team.members] \in T!Task
      BY <1>1 DEF T!Task, T!TypeOK
    <3> QED
      BY <2>3, <3>1, <3>2 DEF T!BeginUpdate, T!TypeOK
  <2>4. ASSUME NEW a \in Admins, T!UpdateTeam(a) PROVE T!TypeOK'
    <3>1. tasks[a].limit \in Limits \union {None}
      BY DEF T!TypeOK, T!Task
    <3> QED
      BY <2>4, <3>1, EndedTasks DEF T!UpdateTeam, T!TypeOK, T!Task
  <2>5. ASSUME NEW a \in Admins, T!ReadMembers(a) PROVE T!TypeOK'
    <3>1. PICK u \in Users, role \in Roles \union {None} :
            tasks' = [tasks EXCEPT ![a] = [T!NoTask EXCEPT
                      !.op = "members", !.user = u, !.role = role,
                      !.members = [team.members EXCEPT ![u] = role]]]
      BY <2>5 DEF T!ReadMembers
    <3>2. [team.members EXCEPT ![u] = role] \in T!Members
      BY DEF T!TypeOK, T!Members
    <3>3. [T!NoTask EXCEPT !.op = "members", !.user = u, !.role = role,
                         !.members = [team.members EXCEPT ![u] = role]] \in T!Task
      BY <1>1, <3>2 DEF T!Task
    <3> QED
      BY <2>5, <3>1, <3>3 DEF T!ReadMembers, T!TypeOK
  <2>6. ASSUME NEW a \in Admins, T!WriteMembers(a) PROVE T!TypeOK'
    <3>1. tasks[a].members \in T!Members /\ tasks[a].role \in Roles \union {None} /\ tasks[a].stale \in BOOLEAN
      BY DEF T!TypeOK, T!Task
    <3>2. [asked EXCEPT ![tasks[a].user] = tasks[a].role] \in T!Members
      BY <3>1 DEF T!TypeOK, T!Members
    <3> QED
      BY <2>6, <3>1, <3>2, EndedTasks DEF T!WriteMembers, T!TypeOK
  <2>7. ASSUME NEW a \in Admins, T!Lost(a) PROVE T!TypeOK'
    BY <1>1, <2>7 DEF T!Lost, T!TypeOK
  <2>8. CASE UNCHANGED T!vars
    BY <2>8 DEF T!vars, T!TypeOK
  <2> QED
    BY <2>1, <2>2, <2>3, <2>4, <2>5, <2>6, <2>7, <2>8 DEF T!Next
<1> QED
  BY <1>2, <1>3, PTL DEF T!Spec

-----------------------------------------------------------------------------
(* Members.                                                                *)

\* A change of members that is not stale would write the list as it is with
\* its own user changed, and the list is what was asked for unless it is torn.
Current(a) ==
    tasks[a].op = "members" /\ ~tasks[a].stale =>
        tasks[a].members = [team.members EXCEPT ![tasks[a].user] = tasks[a].role]

ListOK ==
    /\ ~torn => team.members = asked
    /\ \A a \in Admins : Current(a)

\* The list is what the completed changes ask for unless one of them was
\* written over another; updates, deletions and creations of the team, in
\* whatever order with them, do not matter.
THEOREM MembersAreAsAsked == AdminSpec => []MembersAsAsked
<1>1. T!Init => ListOK
  BY DEF T!Init, ListOK, Current, T!Absent, T!NoTask
<1>2. T!TypeOK /\ ListOK /\ [T!Next]_T!vars => ListOK'
  <2> SUFFICES ASSUME T!TypeOK, ListOK, [T!Next]_T!vars PROVE ListOK'
    OBVIOUS
  <2>0. \A a \in Admins : tasks[a] \in T!Task /\ Current(a)
    BY DEF T!TypeOK, ListOK
  <2>1. ASSUME NEW a \in Admins, NEW ops, tasks' = T!Ended(a, ops),
               "members" \in ops \/ team'.members = team.members
        PROVE  \A b \in Admins : Current(b)'
    <3> SUFFICES ASSUME NEW b \in Admins, tasks'[b].op = "members", ~tasks'[b].stale
                 PROVE  tasks'[b].members = [team'.members EXCEPT ![tasks'[b].user] = tasks'[b].role]
      BY DEF Current
    <3>1. b # a
      BY <2>1, EndedTasks
    <3>2. /\ tasks[b].op = "members" /\ ~tasks[b].stale /\ "members" \notin ops
          /\ tasks'[b].members = tasks[b].members /\ tasks'[b].user = tasks[b].user
          /\ tasks'[b].role = tasks[b].role
      BY <2>1, <3>1, EndedTasks
    <3>3. tasks[b].members = [team.members EXCEPT ![tasks[b].user] = tasks[b].role]
      BY <2>0, <3>2 DEF Current
    <3> QED
      BY <2>1, <3>2, <3>3
  <2>2. ASSUME NEW a \in Admins, T!CreateTeam(a) PROVE ListOK'
    BY <2>1, <2>2 DEF T!CreateTeam, ListOK
  <2>3. ASSUME NEW a \in Admins, T!DeleteTeam(a) PROVE ListOK'
    BY <2>1, <2>3 DEF T!DeleteTeam, ListOK, T!Absent
  <2>4. ASSUME NEW a \in Admins, T!UpdateTeam(a) PROVE ListOK'
    <3>1. team'.members = team.members
      BY <2>4 DEF T!UpdateTeam, T!TypeOK
    <3> QED
      BY <2>1, <2>4, <3>1 DEF T!UpdateTeam, ListOK
  <2>5. ASSUME NEW a \in Admins, T!WriteMembers(a) PROVE ListOK'
    <3>1. team'.members = tasks[a].members
      BY <2>5 DEF T!WriteMembers, T!TypeOK
    <3>2. ~torn' => team'.members = asked'
      BY <2>0, <2>5, <3>1 DEF T!WriteMembers, ListOK, Current
    <3> QED
      BY <2>1, <2>5, <3>2 DEF T!WriteMembers, ListOK
  <2>6. ASSUME NEW a \in Admins, tasks' = [tasks EXCEPT ![a] = tasks'[a]], Current(a)',
               UNCHANGED <<team, asked, torn>>
        PROVE  ListOK'
    BY <2>6 DEF ListOK, Current, T!TypeOK
  <2>7. ASSUME NEW a \in Admins, T!BeginUpdate(a) PROVE ListOK'
    <3>1. tasks' = [tasks EXCEPT ![a] = tasks'[a]] /\ tasks'[a].op = "update"
      BY <2>7 DEF T!BeginUpdate, T!TypeOK, T!NoTask
    <3> QED
      BY <2>6, <2>7, <3>1 DEF T!BeginUpdate, Current
  <2>8. ASSUME NEW a \in Admins, T!ReadMembers(a) PROVE ListOK'
    <3>1. PICK u \in Users, role \in Roles \union {None} :
            tasks' = [tasks EXCEPT ![a] = [T!NoTask EXCEPT
                      !.op = "members", !.user = u, !.role = role,
                      !.members = [team.members EXCEPT ![u] = role]]]
      BY <2>8 DEF T!ReadMembers
    <3>2. /\ tasks' = [tasks EXCEPT ![a] = tasks'[a]]
          /\ tasks'[a].user = u /\ tasks'[a].role = role
          /\ tasks'[a].members = [team.members EXCEPT ![u] = role]
      BY <3>1 DEF T!TypeOK, T!NoTask
    <3> QED
      BY <2>6, <2>8, <3>2 DEF T!ReadMembers, Current
  <2>9. ASSUME NEW a \in Admins, T!Lost(a) PROVE ListOK'
    <3>1. tasks' = [tasks EXCEPT ![a] = tasks'[a]] /\ tasks'[a].op = "none"
      BY <2>9 DEF T!Lost, T!TypeOK, T!NoTask
    <3> QED
      BY <2>6, <2>9, <3>1 DEF T!Lost, Current
  <2>10. CASE UNCHANGED T!vars
    BY <2>10 DEF T!vars, ListOK, Current
  <2> QED
    BY <2>2, <2>3, <2>4, <2>5, <2>7, <2>8, <2>9, <2>10 DEF T!Next
<1>3. ListOK => MembersAsAsked
  BY DEF ListOK, MembersAsAsked, T!MembersAsAsked
<1> QED
  BY <1>1, <1>2, <1>3, BothRun, TeamTypeCorrect, PTL DEF T!Spec

-----------------------------------------------------------------------------
(* Deletion.                                                               *)

\* After a deletion every operation under way had begun before it.
DeletionOK ==
    deleted => /\ ~team.there
               /\ \A a \in Admins : tasks[a].op # "none" => tasks[a].stale

\* A deleted team comes back only by an operation that found it before it was
\* deleted, or by being created.
THEOREM DeletedStaysAway == AdminSpec => []DeletedTeamStaysAway
<1>1. T!Init => DeletionOK
  BY DEF T!Init, DeletionOK
<1>2. T!TypeOK /\ DeletionOK /\ [T!Next]_T!vars => DeletionOK'
  <2> SUFFICES ASSUME T!TypeOK, DeletionOK, [T!Next]_T!vars PROVE DeletionOK'
    OBVIOUS
  <2>1. ASSUME NEW a \in Admins, T!CreateTeam(a) PROVE DeletionOK'
    BY <2>1 DEF T!CreateTeam, DeletionOK
  <2>2. ASSUME NEW a \in Admins, T!DeleteTeam(a) PROVE DeletionOK'
    <3>1. \A b \in Admins : tasks[b].op \in {"none", "members", "update"}
      BY DEF T!TypeOK, T!Task
    <3>2. \A b \in Admins : tasks'[b].op # "none" => tasks'[b].stale
      BY <2>2, <3>1, EndedTasks DEF T!DeleteTeam
    <3> QED
      BY <2>2, <3>2 DEF T!DeleteTeam, DeletionOK, T!Absent
  <2>3. ASSUME NEW a \in Admins, T!UpdateTeam(a) \/ T!WriteMembers(a) PROVE DeletionOK'
    BY <2>3 DEF T!UpdateTeam, T!WriteMembers, DeletionOK
  <2>4. ASSUME NEW a \in Admins, T!BeginUpdate(a) \/ T!ReadMembers(a) PROVE DeletionOK'
    BY <2>4 DEF T!BeginUpdate, T!ReadMembers, DeletionOK
  <2>5. ASSUME NEW a \in Admins, T!Lost(a) PROVE DeletionOK'
    BY <2>5 DEF T!Lost, DeletionOK, T!TypeOK, T!NoTask
  <2>6. CASE UNCHANGED T!vars
    BY <2>6 DEF T!vars, DeletionOK
  <2> QED
    BY <2>1, <2>2, <2>3, <2>4, <2>5, <2>6 DEF T!Next
<1>3. DeletionOK => DeletedTeamStaysAway
  BY DEF DeletionOK, DeletedTeamStaysAway, T!DeletedTeamStaysAway
<1> QED
  BY <1>1, <1>2, <1>3, BothRun, TeamTypeCorrect, PTL DEF T!Spec
=============================================================================

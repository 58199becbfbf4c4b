---------------------------- MODULE RoutingProofs ----------------------------
(***************************************************************************)
(* Proofs about Routing: for any models, deployments, fallback lists and   *)
(* number of handlers, what they read one await at a time keeps a cooled   *)
(* deployment from being selected, no failure count is forgotten at the    *)
(* threshold, the busy counters count the calls in flight, a 503 means     *)
(* that the fallbacks were worked off, and what retries and fallbacks cost *)
(* is bounded where no model is its own fallback and none is listed twice. *)
(***************************************************************************)
EXTENDS Routing, FiniteSetTheorems, WellFoundedInduction, SequenceTheorems, TLAPS

-----------------------------------------------------------------------------
(* One handler.                                                            *)

\* The fields of a handler, with the types the proofs need.
HandlerLike(h) ==
    h \in [stage : Stages, model : {h.model}, stream : BOOLEAN, todo : {h.todo},
           listed : {h.listed}, cur : {h.cur}, unread : SUBSET Deployments,
           healthy : SUBSET Deployments, load : {h.load}, dep : Deployments \union {None},
           attempt : {h.attempt}, caught : BOOLEAN, calls : {h.calls},
           cold : SUBSET Deployments]

\* The stages in which a deployment is selected.
WithDeployment == Calling \union {"call", "sleep", "reset", "count", "activate", "erase"}

\* The standard fallbacks of the requested model are on the list.
Covered(h) ==
    HasFallbacks(h.model) => Range(GetFallbackModels(h.model, "standard")) \subseteq h.listed

\* A handler, where the deployments in `on` are in cooldown.
Sound(h, on) ==
    /\ HandlerLike(h)
    /\ h.stage \in WithDeployment => h.dep \in Deployments
    /\ h.cold \subseteq on /\ h.cold \intersect h.healthy = {} /\ h.dep \notin h.cold
    /\ h.stream => h.stage \notin {"sleep", "count", "activate", "erase", "failed"}
    /\ ~h.stream /\ h.stage # "idle" =>
         \/ Covered(h) /\ (h.stage = "failed" => h.todo = <<>>)
         \/ h.cur = h.model /\ h.stage # "failed"

Cooled == {d \in Deployments : cooled[d]}

\* A handler that has left its deployment: it is through, or selects anew.
Left(h, g) ==
    \/ g = Idle
    \/ /\ HandlerLike(g) /\ g.model = h.model /\ g.healthy = {} /\ g.dep = None
       /\ h.listed \subseteq g.listed
       /\ \/ g.stage = "failed" /\ g.cold = {} /\ g.todo = <<>> /\ ~g.stream
          \/ g.stage = "cooldowns" /\ g.cold \subseteq Cooled /\ g.stream = h.stream

\* The stages, as a set of names.
LEMMA StageNames ==
  Stages = {"cooldowns", "loads", "expire", "answer", "idle", "failed",
            "call", "sleep", "reset", "count", "activate", "erase"}
BY DEF Stages, Selecting, Calling, Ended

LEMMA IdleFields ==
  /\ HandlerLike(Idle) /\ Idle.stage = "idle" /\ Idle.dep = None /\ Idle.healthy = {}
  /\ Idle.cold = {} /\ ~Idle.stream
BY StageNames DEF HandlerLike, Idle

LEMMA IdleSound ==
  ASSUME NEW on
  PROVE  Sound(Idle, on) /\ Idle.stage = "idle" /\ Idle.dep = None
BY IdleFields, RoutingAssumption DEF Sound, WithDeployment, Calling

LEMMA FailedFields ==
  ASSUME NEW h
  PROVE  LET g == Failed(h)
         IN  /\ HandlerLike(g) /\ g.stage = "failed" /\ g.todo = h.todo /\ g.dep = None
             /\ g.healthy = {} /\ g.cold = {} /\ g.listed = h.listed /\ g.model = h.model
             /\ ~g.stream
BY IdleFields, StageNames DEF HandlerLike, Failed

LEMMA SelectionFields ==
  ASSUME NEW h, HandlerLike(h), NEW m
  PROVE  LET g == Selection(h, m)
         IN  /\ HandlerLike(g) /\ g.stage = "cooldowns" /\ g.dep = None /\ g.healthy = {}
             /\ g.cold \subseteq Cooled /\ g.listed = h.listed /\ g.model = h.model
             /\ g.stream = h.stream /\ g.cur = m
<1> DEFINE found == IF m \in Allowed THEN DeploymentsOf[m] ELSE {}
           cold == {d \in found : cooled[d]}
<1>1. found \subseteq Deployments
  BY RoutingAssumption
<1>2. cold \subseteq Cooled /\ cold \subseteq Deployments
  BY <1>1 DEF Cooled
<1>3. Selection(h, m) = [h EXCEPT !.stage = "cooldowns", !.cur = m, !.unread = found, !.healthy = {},
                                  !.load = 0, !.attempt = 0, !.caught = FALSE, !.dep = None,
                                  !.cold = cold]
  BY DEF Selection
<1>4. "cooldowns" \in Stages
  BY StageNames
<1> HIDE DEF found, cold
<1> QED
  BY <1>1, <1>2, <1>3, <1>4 DEF HandlerLike

LEMMA ListFields ==
  ASSUME NEW h, HandlerLike(h), NEW more
  PROVE  /\ LET g == Extended(h, more)
            IN  /\ HandlerLike(g) /\ g.listed = h.listed \union Range(more)
                /\ g.model = h.model /\ g.stream = h.stream /\ g.cur = h.cur /\ g.cold = h.cold
         /\ LET g == ExtendedWithNew(h, more)
            IN  /\ HandlerLike(g) /\ g.listed = h.listed \union Range(more)
                /\ g.model = h.model /\ g.stream = h.stream /\ g.cur = h.cur /\ g.cold = h.cold
<1> DEFINE new == NewAfter(more, h.listed)[Len(more)]
<1>1. ExtendedWithNew(h, more) = [h EXCEPT !.todo = @ \o new, !.listed = @ \union Range(more)]
  BY DEF ExtendedWithNew
<1> HIDE DEF new
<1> QED
  BY <1>1 DEF HandlerLike, Extended

LEMMA NextFields ==
  ASSUME NEW h, HandlerLike(h)
  PROVE  /\ Left(h, NextModel(h)) /\ NextModel(h).listed = h.listed
         /\ NextModel(h).model = h.model
<1>1. CASE h.todo = <<>>
  <2>1. NextModel(h) = Failed(h)
    BY <1>1 DEF NextModel
  <2> QED
    BY <1>1, <2>1, FailedFields DEF Left
<1>2. CASE h.todo # <<>>
  <2> DEFINE rest == [h EXCEPT !.todo = Tail(@)]
  <2>1. /\ HandlerLike(rest) /\ rest.listed = h.listed /\ rest.model = h.model
        /\ rest.stream = h.stream
    BY DEF HandlerLike
  <2>2. NextModel(h) = Selection(rest, Head(h.todo))
    BY <1>2 DEF NextModel
  <2> HIDE DEF rest
  <2> QED
    BY <2>1, <2>2, SelectionFields DEF Left
<1> QED
  BY <1>1, <1>2

\* Where a model is given up the standard fallbacks of the first are listed.
LEMMA GivenUp ==
  ASSUME NEW h, HandlerLike(h), NEW g, g \in {ModelFailed(h), NoneSelected(h)}
  PROVE  /\ Left(h, g)
         /\ h.stream => g = Idle
         /\ ~h.stream /\ (Covered(h) \/ h.cur = h.model) => Covered(g)
<1> DEFINE more == GetFallbackModels(h.model, "standard")
<1>1. CASE h.stream
  <2>1. g = Idle
    BY <1>1 DEF ModelFailed, NoneSelected
  <2> QED
    BY <1>1, <2>1 DEF Left
<1>2. CASE ~h.stream /\ h.cur = h.model /\ HasFallbacks(h.model)
  <2>1. PICK e \in {Extended(h, more), ExtendedWithNew(h, more)} : g = NextModel(e)
    BY <1>2 DEF ModelFailed, NoneSelected
  <2> HIDE DEF more
  <2>2. /\ HandlerLike(e) /\ e.listed = h.listed \union Range(more)
        /\ e.model = h.model /\ e.stream = h.stream /\ e.cold = h.cold
    BY ListFields
  <2>3. Left(e, g) /\ g.listed = e.listed /\ g.model = e.model
    BY <2>1, <2>2, NextFields
  <2> QED
    BY <1>2, <2>2, <2>3 DEF Left, Covered, more
<1>3. CASE ~h.stream /\ ~(h.cur = h.model /\ HasFallbacks(h.model))
  <2>1. g = NextModel(h)
    BY <1>3 DEF ModelFailed, NoneSelected
  <2> QED
    BY <1>3, <2>1, NextFields DEF Left, Covered
<1> QED
  BY <1>1, <1>2, <1>3

LEMMA LeftIsSound ==
  ASSUME NEW h, NEW g, Left(h, g), g = Idle \/ Covered(g)
  PROVE  Sound(g, Cooled) /\ g.stage \notin WithDeployment
<1>1. CASE g = Idle
  BY <1>1, IdleSound DEF WithDeployment, Calling
<1>2. CASE g # Idle
  <2>1. /\ HandlerLike(g) /\ g.healthy = {} /\ g.dep = None /\ None \notin Deployments
        /\ \/ g.stage = "failed" /\ g.cold = {} /\ g.todo = <<>> /\ ~g.stream
           \/ g.stage = "cooldowns" /\ g.cold \subseteq Cooled /\ g.stream = h.stream
    BY <1>2, RoutingAssumption DEF Left
  <2>2. g.cold \subseteq Deployments
    BY <2>1 DEF HandlerLike
  <2>3. Covered(g)
    BY <1>2
  <2> QED
    BY <2>1, <2>2, <2>3 DEF Sound, WithDeployment, Calling
<1> QED
  BY <1>1, <1>2

LEMMA LeftSound ==
  ASSUME NEW h, Sound(h, Cooled), h.stage \notin Ended,
         NEW g, g \in {ModelFailed(h), NoneSelected(h)}
  PROVE  Sound(g, Cooled) /\ Left(h, g) /\ g.stage \notin WithDeployment
<1>1. HandlerLike(h) /\ (~h.stream => Covered(h) \/ h.cur = h.model)
  BY DEF Sound, Ended
<1>2. Left(h, g) /\ (g = Idle \/ Covered(g))
  BY <1>1, GivenUp
<1> QED
  BY <1>2, LeftIsSound

-----------------------------------------------------------------------------
(* The invariant, and the steps as the proofs see them.                    *)

Typed ==
    /\ failures \in [Deployments -> Nat]
    /\ cooled \in [Deployments -> BOOLEAN]
    /\ busy \in [Deployments -> Int]
    /\ drifted \in [Deployments -> BOOLEAN]
    /\ slipped \in [Deployments -> BOOLEAN]
    /\ req = [r \in Requests |-> req[r]]

IInv == Typed /\ \A r \in Requests : Sound(req[r], Cooled)

\* The busy counter of the deployment of a handler follows it into the call and
\* out of it, or the loss of the handler is noted.
Counted(h, g) ==
    \/ /\ h.stage \notin Calling /\ g.stage \notin Calling
       /\ UNCHANGED <<busy, drifted>>
    \/ /\ h.stage = "call" /\ g.stage = "expire" /\ g.dep = h.dep
       /\ busy' = [busy EXCEPT ![h.dep] = @ + 1] /\ UNCHANGED drifted
    \/ /\ h.stage = "expire" /\ g.stage = "answer" /\ g.dep = h.dep
       /\ UNCHANGED <<busy, drifted>>
    \/ /\ h.stage = "answer" /\ g.stage \notin Calling
       /\ busy' = [busy EXCEPT ![h.dep] = @ - 1] /\ UNCHANGED drifted
    \/ /\ h.stage \in WithDeployment /\ g.stage \notin Calling
       /\ drifted' = [drifted EXCEPT ![h.dep] = TRUE]
       /\ \A d \in Deployments \ {h.dep} : busy'[d] = busy[d]

\* A failure is counted towards the cooldown, or the count is taken back, or an
\* error of Redis is noted that leaves the count at the threshold.
Noted(h, g) ==
    \/ /\ UNCHANGED <<failures, slipped>>
       /\ h.stage \notin {"activate", "erase"}
            \/ (g.stage = "erase" /\ g.dep = h.dep)
    \/ /\ h.stage \in {"reset", "erase"} /\ failures' = [failures EXCEPT ![h.dep] = 0]
       /\ slipped' = [slipped EXCEPT ![h.dep] = FALSE]
    \/ /\ h.stage = "count" /\ failures' = [failures EXCEPT ![h.dep] = @ + 1] /\ UNCHANGED slipped
       /\ failures[h.dep] + 1 >= AllowedFails => g.stage = "activate" /\ g.dep = h.dep
    \/ /\ h.stage \in {"reset", "count", "activate", "erase"}
       /\ \A d \in Deployments \ {h.dep} : failures'[d] = failures[d] /\ slipped'[d] = slipped[d]
       /\ failures'[h.dep] >= AllowedFails =>
            \/ slipped'[h.dep]
            \/ /\ h.stage = "reset" /\ failures'[h.dep] = failures[h.dep]
               /\ slipped'[h.dep] = slipped[h.dep]

\* Handler r takes a step.
Moves(r) ==
    /\ Step(r, req'[r]) /\ Typed'
    /\ Cooled \subseteq Cooled'
    /\ Sound(req'[r], Cooled')
    /\ Counted(req[r], req'[r]) /\ Noted(req[r], req'[r])

Acts(r) ==
    \/ \E m \in Models, stream \in Streams : Arrive(r, m, stream)
    \/ Handle(r)
    \/ Disconnect(r)
    \/ RedisRaises(r)

LEMMA MoreCooled ==
  ASSUME NEW h, NEW on, NEW more, on \subseteq more, Sound(h, on)
  PROVE  Sound(h, more)
BY DEF Sound

\* A step that touches no key of Redis but reads them.
LEMMA ReadOnly ==
  ASSUME IInv, NEW r \in Requests, NEW g, Step(r, g), Sound(g, Cooled),
         UNCHANGED <<failures, cooled, busy, drifted, slipped>>,
         req[r].stage \notin Calling \union {"activate", "erase"}, g.stage \notin Calling
  PROVE  Moves(r)
<1>1. req'[r] = g /\ Typed'
  BY DEF IInv, Typed, Step
<1>2. Cooled' = Cooled
  BY DEF Cooled
<1> QED
  BY <1>1, <1>2 DEF Moves, Counted, Noted, Step

LEMMA ArriveMoves ==
  ASSUME IInv, NEW r \in Requests, NEW m \in Models, NEW stream \in Streams, Arrive(r, m, stream)
  PROVE  Moves(r)
<1> DEFINE h == [Idle EXCEPT !.model = m, !.stream = stream, !.listed = {m}]
           g == Selection(h, m)
<1>1. /\ HandlerLike(h) /\ h.model = m /\ h.stream = stream
  <2>1. "idle" \in Stages /\ stream \in BOOLEAN
    BY StageNames, RoutingAssumption
  <2> QED
    BY <2>1 DEF HandlerLike, Idle
<1>2. /\ Step(r, g) /\ req[r].stage \in Ended
      /\ UNCHANGED <<failures, cooled, busy, drifted, slipped>>
  BY DEF Arrive
<1> HIDE DEF h
<1>3. /\ HandlerLike(g) /\ g.stage = "cooldowns" /\ g.dep = None /\ g.healthy = {}
      /\ g.cold \subseteq Cooled /\ g.model = m /\ g.cur = m
  BY <1>1, SelectionFields
<1> HIDE DEF g
<1>4. Sound(g, Cooled)
  BY <1>3, RoutingAssumption DEF Sound, WithDeployment, Calling, HandlerLike
<1> QED
  BY <1>2, <1>3, <1>4, ReadOnly DEF Ended, Calling

\* The steps of a selection.
LEMMA SelectionMoves ==
  ASSUME IInv, NEW r \in Requests,
         \/ \E d \in Deployments : IsCooledDown(r, d) \/ ReadBusy(r, d)
         \/ FilterHealthy(r)
         \/ SelectDeployment(r)
  PROVE  Moves(r)
<1> DEFINE h == req[r]
<1>1. Sound(h, Cooled) /\ HandlerLike(h)
  BY DEF IInv, Sound
<1>2. ASSUME NEW d \in Deployments, IsCooledDown(r, d)
      PROVE  Moves(r)
  <2> DEFINE healthy == IF cooled[d] THEN h.healthy ELSE h.healthy \union {d}
             g == [h EXCEPT !.unread = @ \ {d}, !.healthy = healthy]
  <2>1. /\ h.stage = "cooldowns" /\ Step(r, g)
        /\ UNCHANGED <<failures, cooled, busy, drifted, slipped>>
    BY <1>2 DEF IsCooledDown
  <2>2. healthy \subseteq Deployments /\ h.cold \intersect healthy = {}
    BY <1>1 DEF Sound, Cooled, HandlerLike
  <2> HIDE DEF healthy
  <2>3. /\ HandlerLike(g) /\ g.stage = "cooldowns" /\ g.healthy = healthy /\ g.cold = h.cold
        /\ g.dep = h.dep /\ g.stream = h.stream /\ g.cur = h.cur /\ g.model = h.model
        /\ g.listed = h.listed
    BY <1>1, <2>1, <2>2 DEF HandlerLike
  <2> HIDE DEF g
  <2>4. Sound(g, Cooled)
    BY <1>1, <2>1, <2>2, <2>3 DEF Sound, WithDeployment, Calling, Covered
  <2> QED
    BY <2>1, <2>3, <2>4, ReadOnly DEF Calling
<1>3. ASSUME NEW d \in Deployments, ReadBusy(r, d)
      PROVE  Moves(r)
  <2> DEFINE g == [h EXCEPT !.unread = @ \ {d}, !.load = @ + busy[d]]
  <2>1. /\ h.stage = "loads" /\ Step(r, g)
        /\ UNCHANGED <<failures, cooled, busy, drifted, slipped>>
    BY <1>3 DEF ReadBusy
  <2>2. /\ HandlerLike(g) /\ g.stage = "loads" /\ g.healthy = h.healthy /\ g.cold = h.cold
        /\ g.dep = h.dep /\ g.stream = h.stream /\ g.cur = h.cur /\ g.model = h.model
        /\ g.listed = h.listed
    BY <1>1, <2>1 DEF HandlerLike
  <2> HIDE DEF g
  <2>3. Sound(g, Cooled)
    BY <1>1, <2>1, <2>2 DEF Sound, WithDeployment, Calling, Covered
  <2> QED
    BY <2>1, <2>2, <2>3, ReadOnly DEF Calling
<1>4. ASSUME h.stage \in {"cooldowns", "loads"}, NEW g, g = NoneSelected(h), Step(r, g),
             UNCHANGED <<failures, cooled, busy, drifted, slipped>>
      PROVE  Moves(r)
  <2>1. Sound(g, Cooled) /\ g.stage \notin WithDeployment
    BY <1>1, <1>4, LeftSound DEF Ended
  <2> QED
    BY <1>4, <2>1, ReadOnly DEF WithDeployment, Calling
<1>5. CASE FilterHealthy(r)
  <2>1. /\ h.stage = "cooldowns"
        /\ UNCHANGED <<failures, cooled, busy, drifted, slipped>>
    BY <1>5 DEF FilterHealthy
  <2>2. CASE h.healthy = {}
    BY <1>4, <1>5, <2>1, <2>2 DEF FilterHealthy
  <2>3. CASE h.healthy # {}
    <3> DEFINE unread == IF MaxParallel = 0 THEN {} ELSE h.healthy
               g == [h EXCEPT !.stage = "loads", !.unread = unread]
    <3>1. Step(r, g)
      BY <1>5, <2>3 DEF FilterHealthy
    <3>2. "loads" \in Stages /\ unread \subseteq Deployments
      BY <1>1, StageNames DEF HandlerLike
    <3> HIDE DEF unread
    <3>3. /\ HandlerLike(g) /\ g.stage = "loads" /\ g.healthy = h.healthy /\ g.cold = h.cold
          /\ g.dep = h.dep /\ g.stream = h.stream /\ g.cur = h.cur /\ g.model = h.model
          /\ g.listed = h.listed
      BY <1>1, <3>2 DEF HandlerLike
    <3> HIDE DEF g
    <3>4. Sound(g, Cooled)
      BY <1>1, <2>1, <3>3 DEF Sound, WithDeployment, Calling, Covered
    <3> QED
      BY <2>1, <3>1, <3>3, <3>4, ReadOnly DEF Calling
  <2> QED
    BY <2>2, <2>3
<1>6. CASE SelectDeployment(r)
  <2>1. /\ h.stage = "loads"
        /\ UNCHANGED <<failures, cooled, busy, drifted, slipped>>
    BY <1>6 DEF SelectDeployment
  <2>2. CASE MaxParallel # 0 /\ h.load >= MaxParallel
    BY <1>4, <1>6, <2>1, <2>2 DEF SelectDeployment
  <2>3. CASE ~(MaxParallel # 0 /\ h.load >= MaxParallel)
    <3>1. PICK d \in h.healthy :
            Step(r, [h EXCEPT !.stage = "call", !.dep = d, !.healthy = {}, !.load = 0])
      BY <1>6, <2>3 DEF SelectDeployment
    <3> DEFINE g == [h EXCEPT !.stage = "call", !.dep = d, !.healthy = {}, !.load = 0]
    <3>2. "call" \in Stages /\ d \in Deployments /\ d \notin h.cold
      BY <1>1, StageNames DEF HandlerLike, Sound
    <3>3. /\ HandlerLike(g) /\ g.stage = "call" /\ g.healthy = {} /\ g.cold = h.cold
          /\ g.dep = d /\ g.stream = h.stream /\ g.cur = h.cur /\ g.model = h.model
          /\ g.listed = h.listed
      BY <1>1, <3>2 DEF HandlerLike
    <3>4. Step(r, g)
      BY <3>1
    <3> HIDE DEF g
    <3>5. Sound(g, Cooled)
      BY <1>1, <2>1, <3>2, <3>3 DEF Sound, WithDeployment, Calling, Covered
    <3> QED
      BY <2>1, <3>3, <3>4, <3>5, ReadOnly DEF Calling
  <2> QED
    BY <2>2, <2>3
<1> QED
  BY <1>2, <1>3, <1>5, <1>6

\* A handler goes on with the same deployment.
Onward(h, g) ==
    /\ HandlerLike(g) /\ g.stage \in WithDeployment
    /\ g.healthy = h.healthy /\ g.cold = h.cold /\ g.dep = h.dep /\ g.stream = h.stream
    /\ g.cur = h.cur /\ g.model = h.model /\ g.listed = h.listed

LEMMA OnwardSound ==
  ASSUME NEW h, NEW on, Sound(h, on), h.stage \in WithDeployment, NEW g, Onward(h, g),
         h.stream => g.stage \notin {"sleep", "count", "activate", "erase"}
  PROVE  Sound(g, on) /\ g.dep \in Deployments
BY DEF Sound, Onward, WithDeployment, Calling, Covered

\* Only the stage changes.
LEMMA StageOnward ==
  ASSUME NEW h, HandlerLike(h), NEW stage \in WithDeployment
  PROVE  Onward(h, [h EXCEPT !.stage = stage]) /\ [h EXCEPT !.stage = stage].stage = stage
<1>1. stage \in Stages
  BY StageNames DEF WithDeployment, Calling
<1> QED
  BY <1>1 DEF Onward, HandlerLike

\* An exception in an attempt: the handler goes on or is through.
LEMMA RaisedSound ==
  ASSUME NEW h, Sound(h, Cooled), h.stage \in WithDeployment
  PROVE  Sound(Raised(h), Cooled) /\ Raised(h).stage \notin Calling
<1>1. HandlerLike(h) /\ Sound(Idle, Cooled) /\ Idle.stage = "idle"
  BY IdleSound DEF Sound
<1>2. CASE h.stream \/ h.caught
  <2>1. Raised(h) = Idle
    BY <1>2 DEF Raised
  <2> QED
    BY <1>1, <2>1 DEF Calling
<1>3. CASE ~h.stream /\ ~h.caught /\ h.attempt < NumRetries
  <2> DEFINE g == [h EXCEPT !.stage = "sleep"]
  <2>1. Raised(h) = g
    BY <1>3 DEF Raised
  <2>2. Onward(h, g) /\ g.stage = "sleep"
    BY <1>1, StageOnward DEF WithDeployment
  <2> HIDE DEF g
  <2> QED
    BY <1>3, <2>1, <2>2, OnwardSound DEF Calling
<1>4. CASE ~h.stream /\ ~h.caught /\ ~(h.attempt < NumRetries)
  <2> DEFINE g == [h EXCEPT !.stage = "count", !.caught = TRUE]
  <2>1. Raised(h) = g
    BY <1>4 DEF Raised
  <2>2. Onward(h, g) /\ g.stage = "count"
    <3>1. "count" \in Stages /\ "count" \in WithDeployment
      BY StageNames DEF WithDeployment
    <3> QED
      BY <1>1, <3>1 DEF Onward, HandlerLike
  <2> HIDE DEF g
  <2> QED
    BY <1>4, <2>1, <2>2, OnwardSound DEF Calling
<1> QED
  BY <1>2, <1>3, <1>4

LEMMA Stepped ==
  ASSUME IInv, NEW r \in Requests, NEW g, Step(r, g)
  PROVE  /\ req'[r] = g /\ \A s \in Requests \ {r} : req'[s] = req[s]
         /\ req' = [s \in Requests |-> req'[s]]
BY DEF IInv, Typed, Step

\* The call, its answer, and the end of a backoff.
LEMMA CallMoves ==
  ASSUME IInv, NEW r \in Requests,
         \/ IncrBusy(r) \/ ExpireBusy(r) \/ Retry(r)
         \/ \E outcome \in Outcomes : Answer(r, outcome)
  PROVE  Moves(r)
<1> DEFINE h == req[r]
<1>1. Sound(h, Cooled) /\ HandlerLike(h) /\ Typed /\ AllowedFails \in Nat \ {0}
  BY RoutingAssumption DEF IInv, Sound
<1>2. UNCHANGED cooled => Cooled' = Cooled
  BY DEF Cooled
<1>3. CASE IncrBusy(r)
  <2> DEFINE g == [h EXCEPT !.stage = "expire"]
  <2>1. /\ h.stage = "call" /\ busy' = [busy EXCEPT ![h.dep] = @ + 1] /\ Step(r, g)
        /\ UNCHANGED <<failures, cooled, drifted, slipped>>
    BY <1>3 DEF IncrBusy
  <2>2. Onward(h, g) /\ g.stage = "expire"
    BY <1>1, StageOnward DEF WithDeployment, Calling
  <2> HIDE DEF g
  <2>3. Sound(g, Cooled) /\ h.dep \in Deployments /\ g.dep = h.dep
    BY <1>1, <2>1, <2>2, OnwardSound DEF WithDeployment, Onward
  <2>4. req'[r] = g /\ Step(r, req'[r]) /\ Typed'
    BY <1>1, <2>1, <2>3, Stepped DEF Typed
  <2>5. Counted(h, g)
    BY <2>1, <2>2, <2>3 DEF Counted
  <2>6. Noted(h, g)
    BY <2>1 DEF Noted
  <2> QED
    BY <1>2, <2>1, <2>3, <2>4, <2>5, <2>6 DEF Moves
<1>4. CASE ExpireBusy(r)
  <2> DEFINE calls == IF h.calls > MaxCalls THEN h.calls ELSE h.calls + 1
             g == [h EXCEPT !.stage = "answer", !.attempt = h.attempt, !.calls = calls]
  <2>1. /\ h.stage = "expire" /\ Step(r, g)
        /\ UNCHANGED <<failures, cooled, busy, drifted, slipped>>
    BY <1>1, <1>4 DEF ExpireBusy, HandlerLike
  <2>2. Onward(h, g) /\ g.stage = "answer"
    <3>1. "answer" \in WithDeployment /\ "answer" \in Stages
      BY StageNames DEF WithDeployment, Calling
    <3> HIDE DEF calls
    <3> QED
      BY <1>1, <3>1 DEF Onward, HandlerLike
  <2> HIDE DEF g
  <2>3. Sound(g, Cooled) /\ h.dep \in Deployments /\ g.dep = h.dep
    BY <1>1, <2>1, <2>2, OnwardSound DEF WithDeployment, Calling, Onward
  <2>4. req'[r] = g /\ Step(r, req'[r]) /\ Typed'
    BY <1>1, <2>1, <2>3, Stepped DEF Typed
  <2>5. Counted(h, g) /\ Noted(h, g)
    BY <2>1, <2>2, <2>3 DEF Counted, Noted
  <2> QED
    BY <1>2, <2>1, <2>3, <2>4, <2>5 DEF Moves
<1>5. CASE Retry(r)
  <2> DEFINE g == [h EXCEPT !.stage = "call", !.attempt = h.attempt + 1, !.calls = h.calls]
  <2>1. /\ h.stage = "sleep" /\ Step(r, g)
        /\ UNCHANGED <<failures, cooled, busy, drifted, slipped>>
    BY <1>1, <1>5 DEF Retry, HandlerLike
  <2>2. Onward(h, g) /\ g.stage = "call"
    <3>1. "call" \in WithDeployment /\ "call" \in Stages
      BY StageNames DEF WithDeployment
    <3> QED
      BY <1>1, <3>1 DEF Onward, HandlerLike
  <2> HIDE DEF g
  <2>3. Sound(g, Cooled)
    BY <1>1, <2>1, <2>2, OnwardSound DEF WithDeployment
  <2> QED
    BY <2>1, <2>2, <2>3, ReadOnly DEF Calling
<1>6. ASSUME NEW outcome \in Outcomes, Answer(r, outcome)
      PROVE  Moves(r)
  <2>1. /\ h.stage = "answer" /\ busy' = [busy EXCEPT ![h.dep] = @ - 1]
        /\ UNCHANGED <<failures, cooled, drifted, slipped>>
    BY <1>6 DEF Answer
  <2>2. h.dep \in Deployments
    BY <1>1, <2>1 DEF Sound, WithDeployment, Calling
  <2>3. ASSUME NEW g, Step(r, g), Sound(g, Cooled), g.stage \notin Calling
        PROVE  Moves(r)
    <3>1. req'[r] = g /\ Step(r, req'[r]) /\ Typed'
      BY <1>1, <2>1, <2>2, <2>3, Stepped DEF Typed
    <3>2. Counted(h, g) /\ Noted(h, g)
      BY <2>1, <2>3 DEF Counted, Noted
    <3> QED
      BY <1>2, <2>1, <2>3, <3>1, <3>2 DEF Moves
  <2>4. CASE outcome = "ok"
    <3> DEFINE g == [h EXCEPT !.stage = "reset"]
    <3>1. Step(r, g)
      BY <1>6, <2>4 DEF Answer
    <3>2. Onward(h, g) /\ g.stage = "reset"
      BY <1>1, StageOnward DEF WithDeployment
    <3> HIDE DEF g
    <3>3. Sound(g, Cooled)
      BY <1>1, <2>1, <3>2, OnwardSound DEF WithDeployment, Calling
    <3> QED
      BY <2>3, <3>1, <3>2, <3>3 DEF Calling
  <2>5. CASE outcome # "ok" /\ h.stream
    <3>1. Step(r, Idle)
      BY <1>6, <2>5 DEF Answer
    <3> QED
      BY <2>3, <3>1, IdleSound DEF Calling
  <2>6. CASE outcome = "context" /\ ~h.stream
    <3> DEFINE e == ExtendedWithNew(h, GetFallbackModels(h.model, "context_window"))
               g == ModelFailed(e)
    <3>1. Step(r, g)
      BY <1>6, <2>6 DEF Answer
    <3>2. /\ HandlerLike(e) /\ e.model = h.model /\ e.stream = h.stream /\ e.cur = h.cur
          /\ e.cold = h.cold /\ h.listed \subseteq e.listed
      BY <1>1, ListFields
    <3>3. Covered(h) \/ h.cur = h.model
      BY <1>1, <2>1, <2>6 DEF Sound
    <3> HIDE DEF e
    <3>4. Left(e, g) /\ Covered(g)
      <4>1. Covered(e) \/ e.cur = e.model
        BY <3>2, <3>3 DEF Covered
      <4> QED
        BY <2>6, <3>2, <4>1, GivenUp
    <3> HIDE DEF g
    <3>5. Sound(g, Cooled)
      BY <3>4, LeftIsSound
    <3> QED
      BY <2>3, <3>1, <3>4, <3>5, IdleSound DEF Left, Calling
  <2>7. CASE outcome = "broken" /\ ~h.stream
    <3>1. Step(r, Raised(h))
      BY <1>6, <2>7 DEF Answer
    <3>2. Sound(Raised(h), Cooled) /\ Raised(h).stage \notin Calling
      BY <1>1, <2>1, RaisedSound DEF WithDeployment, Calling
    <3> QED
      BY <2>3, <3>1, <3>2
  <2>8. CASE outcome \in {"retryable", "fatal"} /\ ~h.stream
    <3> DEFINE stage == IF ShouldRetry(h.attempt, outcome) THEN "sleep" ELSE "count"
               g == [h EXCEPT !.stage = stage]
    <3>1. Step(r, g)
      BY <1>6, <2>8 DEF Answer
    <3>2. stage \in {"sleep", "count"} /\ stage \in WithDeployment
      BY DEF WithDeployment
    <3> HIDE DEF stage
    <3>3. Onward(h, g) /\ g.stage = stage
      BY <1>1, <3>2, StageOnward
    <3> HIDE DEF g
    <3>4. Sound(g, Cooled)
      BY <1>1, <2>1, <2>8, <3>3, OnwardSound DEF WithDeployment, Calling
    <3> QED
      BY <2>3, <3>1, <3>2, <3>3, <3>4 DEF Calling
  <2> QED
    BY <2>4, <2>5, <2>6, <2>7, <2>8 DEF Outcomes
<1> QED
  BY <1>3, <1>4, <1>5, <1>6

\* What follows the answer, on the failure count and the cooldown.
LEMMA CooldownMoves ==
  ASSUME IInv, NEW r \in Requests,
         \/ ResetCooldown(r) \/ IncrementFailure(r) \/ ActivateCooldown(r) \/ EraseFailures(r)
  PROVE  Moves(r)
<1> DEFINE h == req[r]
<1>1. Sound(h, Cooled) /\ HandlerLike(h) /\ Typed /\ AllowedFails \in Nat \ {0}
  BY RoutingAssumption DEF IInv, Sound
<1>2. UNCHANGED cooled => Cooled' = Cooled
  BY DEF Cooled
<1>3. ASSUME h.stage \in {"reset", "count", "erase"}, NEW g, Step(r, g), Sound(g, Cooled),
             g.stage \notin Calling, failures' \in [Deployments -> Nat], Noted(h, g),
             slipped' \in [Deployments -> BOOLEAN],
             UNCHANGED <<cooled, busy, drifted>>
      PROVE  Moves(r)
  <2>1. req'[r] = g /\ Step(r, req'[r]) /\ Typed'
    BY <1>1, <1>3, Stepped DEF Typed
  <2>2. Counted(h, g)
    BY <1>3 DEF Counted, Calling
  <2> QED
    BY <1>2, <1>3, <2>1, <2>2 DEF Moves
<1>4. h.stage \in WithDeployment => h.dep \in Deployments
  BY <1>1 DEF Sound
<1>5. CASE ResetCooldown(r)
  <2>1. /\ h.stage = "reset" /\ failures' = [failures EXCEPT ![h.dep] = 0] /\ Step(r, Idle)
        /\ slipped' = [slipped EXCEPT ![h.dep] = FALSE] /\ UNCHANGED <<cooled, busy, drifted>>
    BY <1>5 DEF ResetCooldown
  <2>2. failures' \in [Deployments -> Nat] /\ slipped' \in [Deployments -> BOOLEAN]
    BY <1>1, <2>1 DEF Typed
  <2>3. Noted(h, Idle)
    BY <2>1 DEF Noted
  <2> QED
    BY <1>3, <2>1, <2>2, <2>3, IdleSound DEF Calling
<1>6. CASE IncrementFailure(r)
  <2>1. /\ h.stage = "count" /\ failures' = [failures EXCEPT ![h.dep] = @ + 1]
        /\ UNCHANGED <<cooled, busy, drifted, slipped>>
    BY <1>6 DEF IncrementFailure
  <2>2. /\ failures' \in [Deployments -> Nat] /\ ~h.stream
        /\ slipped' \in [Deployments -> BOOLEAN]
    BY <1>1, <1>4, <2>1 DEF Typed, Sound, WithDeployment
  <2>3. CASE failures[h.dep] + 1 >= AllowedFails
    <3> DEFINE g == [h EXCEPT !.stage = "activate"]
    <3>1. Step(r, g)
      BY <1>6, <2>3 DEF IncrementFailure, AtThreshold
    <3>2. Onward(h, g) /\ g.stage = "activate"
      BY <1>1, StageOnward DEF WithDeployment
    <3> HIDE DEF g
    <3>3. Sound(g, Cooled)
      BY <1>1, <2>1, <2>2, <3>2, OnwardSound DEF WithDeployment
    <3>4. Noted(h, g)
      BY <2>1, <3>2 DEF Noted, Onward
    <3> QED
      BY <1>3, <2>1, <2>2, <3>1, <3>2, <3>3, <3>4 DEF Calling
  <2>4. CASE ~(failures[h.dep] + 1 >= AllowedFails)
    <3> DEFINE g == ModelFailed(h)
    <3>1. Step(r, g)
      BY <1>6, <2>4 DEF IncrementFailure, AtThreshold
    <3>2. Sound(g, Cooled) /\ Left(h, g)
      BY <1>1, <2>1, LeftSound DEF Ended
    <3> HIDE DEF g
    <3>3. Noted(h, g)
      BY <2>1, <2>4 DEF Noted
    <3> QED
      BY <1>3, <2>1, <2>2, <3>1, <3>2, <3>3, IdleSound DEF Left, Calling
  <2> QED
    BY <2>3, <2>4
<1>7. CASE ActivateCooldown(r)
  <2> DEFINE g == [h EXCEPT !.stage = "erase"]
  <2>1. /\ h.stage = "activate" /\ cooled' = [cooled EXCEPT ![h.dep] = TRUE] /\ Step(r, g)
        /\ UNCHANGED <<failures, busy, drifted, slipped>>
    BY <1>7 DEF ActivateCooldown
  <2>2. Onward(h, g) /\ g.stage = "erase"
    BY <1>1, StageOnward DEF WithDeployment
  <2> HIDE DEF g
  <2>3. Sound(g, Cooled) /\ g.dep = h.dep
    <3>1. ~h.stream
      BY <1>1, <2>1 DEF Sound
    <3> QED
      BY <1>1, <2>1, <2>2, <3>1, OnwardSound DEF WithDeployment, Onward
  <2>4. cooled' \in [Deployments -> BOOLEAN]
    BY <1>1, <2>1 DEF Typed
  <2>5. Cooled \subseteq Cooled'
    BY <1>1, <2>1 DEF Cooled, Typed
  <2>6. Sound(g, Cooled')
    BY <2>3, <2>5, MoreCooled
  <2>7. req'[r] = g /\ Step(r, req'[r]) /\ Typed'
    BY <1>1, <2>1, <2>4, Stepped DEF Typed
  <2>8. Counted(h, g) /\ Noted(h, g)
    BY <2>1, <2>2, <2>3 DEF Counted, Noted, Calling
  <2> QED
    BY <2>1, <2>5, <2>6, <2>7, <2>8 DEF Moves
<1>8. CASE EraseFailures(r)
  <2> DEFINE g == ModelFailed(h)
  <2>1. /\ h.stage = "erase" /\ failures' = [failures EXCEPT ![h.dep] = 0] /\ Step(r, g)
        /\ slipped' = [slipped EXCEPT ![h.dep] = FALSE] /\ UNCHANGED <<cooled, busy, drifted>>
    BY <1>8 DEF EraseFailures
  <2>2. Sound(g, Cooled) /\ Left(h, g)
    BY <1>1, <2>1, LeftSound DEF Ended
  <2> HIDE DEF g
  <2>3. failures' \in [Deployments -> Nat] /\ slipped' \in [Deployments -> BOOLEAN]
    BY <1>1, <2>1 DEF Typed
  <2>4. Noted(h, g)
    BY <2>1 DEF Noted
  <2> QED
    BY <1>3, <2>1, <2>2, <2>3, <2>4, IdleSound DEF Left, Calling
<1> QED
  BY <1>5, <1>6, <1>7, <1>8

LEMMA DisconnectMoves ==
  ASSUME IInv, NEW r \in Requests, Disconnect(r)
  PROVE  Moves(r)
<1> DEFINE h == req[r]
<1>1. Sound(h, Cooled) /\ HandlerLike(h) /\ Typed
  BY DEF IInv, Sound
<1>2. /\ h.stream /\ h.stage \notin Ended /\ Step(r, Idle)
      /\ busy' = IF h.stage = "answer" THEN [busy EXCEPT ![h.dep] = @ - 1] ELSE busy
      /\ drifted' = IF h.stage = "expire" THEN [drifted EXCEPT ![h.dep] = TRUE] ELSE drifted
      /\ UNCHANGED <<failures, cooled, slipped>>
  BY DEF Disconnect
<1>3. Sound(Idle, Cooled) /\ Idle.stage \notin Calling
  BY IdleSound DEF Calling
<1>5. busy' \in [Deployments -> Int]
  <2>1. CASE h.stage = "answer"
    <3>1. h.dep \in Deployments
      BY <1>1, <2>1 DEF Sound, WithDeployment, Calling
    <3> QED
      BY <1>1, <1>2, <2>1, <3>1 DEF Typed
  <2> QED
    BY <1>1, <1>2, <2>1 DEF Typed
<1>6. drifted' \in [Deployments -> BOOLEAN]
  BY <1>1, <1>2 DEF Typed
<1>7. req'[r] = Idle /\ Step(r, req'[r]) /\ Typed'
  BY <1>1, <1>2, <1>5, <1>6, Stepped DEF Typed
<1>8. Cooled' = Cooled
  BY <1>2 DEF Cooled
<1>9. Counted(h, Idle)
  BY <1>2, <1>3 DEF Counted, Calling, WithDeployment
<1>10. Noted(h, Idle)
  BY <1>1, <1>2 DEF Noted, Sound
<1> QED
  BY <1>3, <1>7, <1>8, <1>9, <1>10 DEF Moves

\* A command of Redis raises in the hands of a handler.
LEMMA RaisesMoves ==
  ASSUME IInv, NEW r \in Requests, RedisRaises(r)
  PROVE  Moves(r)
<1> DEFINE h == req[r]
           d == h.dep
<1>1. Sound(h, Cooled) /\ HandlerLike(h) /\ Typed /\ AllowedFails \in Nat \ {0}
  BY RoutingAssumption DEF IInv, Sound
<1>2. UNCHANGED cooled => Cooled' = Cooled
  BY DEF Cooled
<1>3. h.stage \in WithDeployment =>
        d \in Deployments /\ Sound(Raised(h), Cooled) /\ Raised(h).stage \notin Calling
  BY <1>1, RaisedSound DEF Sound
<1>4. CASE SelectionRaises(r)
  <2>1. /\ h.stage \in Selecting /\ Step(r, Idle)
        /\ UNCHANGED <<failures, cooled, busy, drifted, slipped>>
    BY <1>4 DEF SelectionRaises
  <2> QED
    BY <2>1, IdleSound, ReadOnly DEF Selecting, Calling
<1>5. ASSUME NEW applied \in BOOLEAN, BusyRaises(r, applied)
      PROVE  Moves(r)
  <2> DEFINE g == Raised(h)
  <2>1. /\ h.stage \in Calling \union {"call"} /\ Step(r, g)
        /\ busy' = IF ~applied \/ h.stage = "expire" THEN busy
                   ELSE [busy EXCEPT ![d] = IF h.stage = "call" THEN @ + 1 ELSE @ - 1]
        /\ drifted' = [drifted EXCEPT ![d] = @ \/ h.stage = "expire"
                                                \/ applied = (h.stage = "call")]
        /\ UNCHANGED <<failures, cooled, slipped>>
    BY <1>5 DEF BusyRaises
  <2>2. d \in Deployments /\ Sound(g, Cooled) /\ g.stage \notin Calling
        /\ h.stage \in WithDeployment
    BY <1>3, <2>1 DEF WithDeployment
  <2> HIDE DEF g, d
  <2>3. busy' \in [Deployments -> Int] /\ drifted' \in [Deployments -> BOOLEAN]
        /\ \A e \in Deployments \ {d} : busy'[e] = busy[e]
    BY <1>1, <2>1, <2>2 DEF Typed
  <2>4. Counted(h, g)
    <3>1. CASE h.stage = "expire" \/ applied = (h.stage = "call")
      <4>1. drifted' = [drifted EXCEPT ![d] = TRUE]
        BY <1>1, <2>1, <3>1 DEF Typed
      <4> QED
        BY <2>2, <2>3, <4>1 DEF Counted, d
    <3>2. CASE ~(h.stage = "expire" \/ applied = (h.stage = "call"))
      <4>1. drifted' = drifted
        BY <1>1, <2>1, <2>2, <3>2 DEF Typed
      <4>2. CASE h.stage = "call"
        BY <2>1, <2>2, <3>2, <4>1, <4>2 DEF Counted, Calling
      <4>3. CASE h.stage = "answer"
        BY <2>1, <2>2, <3>2, <4>1, <4>3 DEF Counted, d
      <4> QED
        BY <2>1, <3>2, <4>2, <4>3 DEF Calling
    <3> QED
      BY <3>1, <3>2
  <2>5. Noted(h, g)
    BY <2>1 DEF Noted, Calling
  <2>6. req'[r] = g /\ Step(r, req'[r]) /\ Typed'
    BY <1>1, <2>1, <2>3, Stepped DEF Typed
  <2> QED
    BY <1>2, <2>1, <2>2, <2>4, <2>5, <2>6 DEF Moves
<1>6. ASSUME NEW applied \in BOOLEAN, CooldownRaises(r, applied)
      PROVE  Moves(r)
  <2> DEFINE g == Raised(h)
             high == failures'[d] >= AllowedFails /\ (slipped[d] \/ h.stage # "reset")
  <2>1. /\ h.stage \in {"reset", "count", "activate", "erase"} /\ Step(r, g)
        /\ failures' = IF ~applied \/ h.stage = "activate" THEN failures
                       ELSE [failures EXCEPT ![d] = IF h.stage = "count" THEN @ + 1 ELSE 0]
        /\ cooled' = [cooled EXCEPT ![d] = @ \/ (applied /\ h.stage = "activate")]
        /\ slipped' = [slipped EXCEPT ![d] = high]
        /\ UNCHANGED <<busy, drifted>>
    BY <1>6 DEF CooldownRaises
  <2>2. d \in Deployments /\ Sound(g, Cooled) /\ g.stage \notin Calling
    BY <1>3, <2>1 DEF WithDeployment
  <2> HIDE DEF g, d
  <2>3. failures' \in [Deployments -> Nat]
    BY <1>1, <2>1, <2>2 DEF Typed
  <2>4. cooled' \in [Deployments -> BOOLEAN] /\ Cooled \subseteq Cooled'
    BY <1>1, <2>1, <2>2 DEF Typed, Cooled
  <2>5. slipped' \in [Deployments -> BOOLEAN] /\ slipped'[d] = high
        /\ \A e \in Deployments \ {d} : slipped'[e] = slipped[e]
    <3>1. high \in BOOLEAN
      OBVIOUS
    <3> HIDE DEF high
    <3> QED
      BY <1>1, <2>1, <2>2, <3>1 DEF Typed
  <2>6. Noted(h, g)
    <3>1. \A e \in Deployments \ {d} : failures'[e] = failures[e]
      BY <1>1, <2>1, <2>2 DEF Typed
    <3>2. ASSUME failures'[d] >= AllowedFails, ~slipped'[d]
          PROVE  h.stage = "reset" /\ failures'[d] = failures[d] /\ slipped'[d] = slipped[d]
      <4>1. h.stage = "reset" /\ ~slipped[d]
        BY <2>5, <3>2
      <4>2. failures' = failures
        BY <1>1, <2>1, <2>2, <3>2, <4>1 DEF Typed
      <4> QED
        BY <1>1, <2>2, <2>5, <3>2, <4>1, <4>2 DEF Typed
    <3> QED
      BY <2>1, <2>5, <3>1, <3>2 DEF Noted, d
  <2>7. Counted(h, g)
    BY <2>1, <2>2 DEF Counted, Calling
  <2>8. req'[r] = g /\ Step(r, req'[r]) /\ Typed'
    BY <1>1, <2>1, <2>3, <2>4, <2>5, Stepped DEF Typed
  <2>9. Sound(g, Cooled')
    BY <2>2, <2>4, MoreCooled
  <2> QED
    BY <2>4, <2>6, <2>7, <2>8, <2>9 DEF Moves
<1> QED
  BY <1>4, <1>5, <1>6 DEF RedisRaises

LEMMA ActsMoves ==
  ASSUME IInv, NEW r \in Requests, Acts(r)
  PROVE  Moves(r)
BY ArriveMoves, SelectionMoves, CallMoves, CooldownMoves, DisconnectMoves, RaisesMoves
   DEF Acts, Handle

-----------------------------------------------------------------------------
(* The steps that no handler takes.                                        *)

LEMMA NextActs ==
  ASSUME Next
  PROVE  \/ \E r \in Requests : Acts(r)
         \/ \E d \in Deployments : CooldownEnds(d) \/ FailuresExpire(d) \/ BusyExpires(d)
         \/ Crash
BY DEF Next, Run, Lose, Acts

LEMMA InitInv == Init => IInv
<1> SUFFICES ASSUME Init PROVE IInv
  OBVIOUS
<1>1. Typed
  <2>1. req = [r \in Requests |-> Idle]
    BY DEF Init
  <2>2. req = [r \in Requests |-> req[r]]
    BY <2>1
  <2>3. /\ failures \in [Deployments -> Nat] /\ busy \in [Deployments -> Int]
        /\ cooled \in [Deployments -> BOOLEAN] /\ drifted \in [Deployments -> BOOLEAN]
        /\ slipped \in [Deployments -> BOOLEAN]
    BY DEF Init
  <2> QED
    BY <2>1, <2>2, <2>3 DEF Typed
<1>2. \A r \in Requests : req[r] = Idle
  BY DEF Init
<1> QED
  BY <1>1, <1>2, IdleSound DEF IInv

LEMMA StepInv ==
  ASSUME IInv, [Next]_vars
  PROVE  IInv'
<1>1. CASE UNCHANGED vars
  BY <1>1 DEF vars, IInv, Typed, Cooled
<1>2. ASSUME NEW r \in Requests, Acts(r)
      PROVE  IInv'
  <2>1. Moves(r)
    BY <1>2, ActsMoves
  <2>2. Typed' /\ Cooled \subseteq Cooled' /\ Sound(req'[r], Cooled')
    BY <2>1 DEF Moves
  <2>3. \A s \in Requests \ {r} : req'[s] = req[s]
    BY <2>1, Stepped DEF Moves
  <2>4. ASSUME NEW s \in Requests PROVE Sound(req'[s], Cooled')
    BY <2>2, <2>3, MoreCooled DEF IInv
  <2> QED
    BY <2>2, <2>4 DEF IInv
<1>3. ASSUME NEW d \in Deployments, CooldownEnds(d)
      PROVE  IInv'
  <2>1. /\ cooled' = [cooled EXCEPT ![d] = FALSE]
        /\ req' = [r \in Requests |-> [req[r] EXCEPT !.cold = @ \ {d}]]
        /\ UNCHANGED <<failures, busy, drifted, slipped>>
    BY <1>3 DEF CooldownEnds
  <2>2. Typed'
    BY <2>1 DEF IInv, Typed
  <2>3. Cooled' = Cooled \ {d}
    BY <2>1 DEF IInv, Typed, Cooled
  <2>4. ASSUME NEW r \in Requests PROVE Sound(req'[r], Cooled')
    <3> DEFINE h == req[r]
               g == [h EXCEPT !.cold = @ \ {d}]
    <3>1. req'[r] = g
      BY <2>1
    <3>2. Sound(h, Cooled) /\ HandlerLike(h)
      BY DEF IInv, Sound
    <3>3. /\ HandlerLike(g) /\ g.cold = h.cold \ {d} /\ g.stage = h.stage /\ g.dep = h.dep
          /\ g.healthy = h.healthy /\ g.stream = h.stream /\ g.cur = h.cur /\ g.model = h.model
          /\ g.listed = h.listed /\ g.todo = h.todo
      BY <3>2 DEF HandlerLike
    <3> HIDE DEF g
    <3>4. Sound(g, Cooled \ {d})
      BY <3>2, <3>3 DEF Sound, Covered
    <3> QED
      BY <2>3, <3>1, <3>4
  <2> QED
    BY <2>2, <2>4 DEF IInv
<1>4. ASSUME NEW d \in Deployments, FailuresExpire(d) \/ BusyExpires(d)
      PROVE  IInv'
  <2>1. UNCHANGED <<cooled, req>>
    BY <1>4 DEF FailuresExpire, BusyExpires
  <2>2. failures' \in [Deployments -> Nat] /\ busy' \in [Deployments -> Int]
    BY <1>4 DEF FailuresExpire, BusyExpires, IInv, Typed
  <2>3. drifted' \in [Deployments -> BOOLEAN] /\ slipped' \in [Deployments -> BOOLEAN]
    BY <1>4 DEF FailuresExpire, BusyExpires, IInv, Typed
  <2> QED
    BY <2>1, <2>2, <2>3 DEF IInv, Typed, Cooled
<1>5. CASE Crash
  <2>1. /\ req' = [r \in Requests |-> Idle] /\ UNCHANGED <<failures, cooled, busy>>
        /\ slipped' = [d \in Deployments |-> failures[d] >= AllowedFails]
        /\ drifted' = [d \in Deployments |-> drifted[d] \/ InFlight(d) # {}]
    BY <1>5 DEF Crash
  <2>2. Typed'
    BY <2>1 DEF IInv, Typed
  <2> QED
    BY <2>1, <2>2, IdleSound DEF IInv, Cooled
<1> QED
  BY <1>1, <1>2, <1>3, <1>4, <1>5, NextActs

\* In every state each handler is sound: what it has selected and may select is
\* not in the cooldown it has read, and what it tries next is on its list.
THEOREM HandlersSound == Spec => []IInv
<1>1. IInv /\ [Next]_vars => IInv'
  BY StepInv
<1> QED
  BY InitInv, <1>1, PTL DEF Spec

\* A deployment in cooldown since before a selection began is not selected,
\* although select_deployment reads the cooldowns one await at a time.
THEOREM CooledNotSelected == Spec => []CooledDeploymentNotSelected
<1>1. IInv => CooledDeploymentNotSelected
  BY DEF IInv, Sound, CooledDeploymentNotSelected
<1> QED
  BY <1>1, HandlersSound, PTL

\* A request is answered 503 only when its standard fallbacks were listed and
\* worked off, on whichever path the primary failed.
THEOREM ChainIsExhausted == Spec => []ChainExhaustedBeforeFailure
<1>1. IInv => ChainExhaustedBeforeFailure
  BY DEF IInv, Sound, Covered, ChainExhaustedBeforeFailure
<1> QED
  BY <1>1, HandlersSound, PTL

-----------------------------------------------------------------------------
(* The failure counts.                                                     *)

LEMMA ThresholdStep ==
  ASSUME IInv, ThresholdLeadsToCooldown, [Next]_vars
  PROVE  ThresholdLeadsToCooldown'
<1> DEFINE Turns(h, d) == h.dep = d /\ h.stage \in {"activate", "erase"}
<1> SUFFICES ASSUME NEW d \in Deployments, failures'[d] >= AllowedFails, ~slipped'[d]
             PROVE  \E r \in Requests : Turns(req'[r], d)
  BY DEF ThresholdLeadsToCooldown
<1>0. failures \in [Deployments -> Nat] /\ slipped \in [Deployments -> BOOLEAN]
  BY DEF IInv, Typed
<1>1. ASSUME failures'[d] = failures[d], slipped'[d] = slipped[d]
      PROVE  \E r \in Requests : Turns(req[r], d)
  BY <1>1 DEF ThresholdLeadsToCooldown
<1>2. CASE UNCHANGED vars
  BY <1>1, <1>2 DEF vars
<1>3. ASSUME NEW r \in Requests, Acts(r)
      PROVE  \E s \in Requests : Turns(req'[s], d)
  <2> DEFINE h == req[r]
             g == req'[r]
  <2>1. /\ Noted(h, g) /\ Typed /\ AllowedFails \in Nat \ {0}
        /\ \A s \in Requests \ {r} : req'[s] = req[s]
    <3>1. Moves(r)
      BY <1>3, ActsMoves
    <3> QED
      BY <3>1, Stepped, RoutingAssumption DEF Moves, IInv
  <2>2. ASSUME failures'[d] = failures[d], slipped'[d] = slipped[d], ~Turns(h, d)
        PROVE  \E s \in Requests : Turns(req'[s], d)
    <3>1. PICK s \in Requests : Turns(req[s], d)
      BY <1>1, <2>2
    <3> QED
      BY <2>1, <2>2, <3>1
  <2>3. CASE /\ UNCHANGED <<failures, slipped>>
             /\ h.stage \notin {"activate", "erase"} \/ (g.stage = "erase" /\ g.dep = h.dep)
    <3>1. CASE Turns(h, d)
      BY <2>3, <3>1
    <3>2. CASE ~Turns(h, d)
      BY <2>2, <2>3, <3>2
    <3> QED
      BY <3>1, <3>2
  <2>4. CASE /\ h.stage \in {"reset", "erase"} /\ failures' = [failures EXCEPT ![h.dep] = 0]
             /\ slipped' = [slipped EXCEPT ![h.dep] = FALSE]
    <3>1. d # h.dep
      <4>1. d = h.dep => failures'[d] = 0
        BY <2>4, <1>0
      <4> QED
        BY <2>1, <4>1
    <3>2. failures'[d] = failures[d] /\ slipped'[d] = slipped[d]
      BY <2>4, <3>1, <1>0
    <3> QED
      BY <2>2, <3>1, <3>2
  <2>5. CASE /\ h.stage = "count" /\ failures' = [failures EXCEPT ![h.dep] = @ + 1]
             /\ UNCHANGED slipped
             /\ failures[h.dep] + 1 >= AllowedFails => g.stage = "activate" /\ g.dep = h.dep
    <3>1. CASE d = h.dep
      BY <2>1, <2>5, <3>1 DEF Typed
    <3>2. CASE d # h.dep
      <4>1. failures'[d] = failures[d] /\ slipped'[d] = slipped[d]
        BY <2>1, <2>5, <3>2 DEF Typed
      <4> QED
        BY <2>2, <3>2, <4>1
    <3> QED
      BY <3>1, <3>2
  <2>6. CASE /\ h.stage \in {"reset", "count", "activate", "erase"}
             /\ \A e \in Deployments \ {h.dep} : /\ failures'[e] = failures[e]
                                                /\ slipped'[e] = slipped[e]
             /\ failures'[h.dep] >= AllowedFails =>
                  \/ slipped'[h.dep]
                  \/ /\ h.stage = "reset" /\ failures'[h.dep] = failures[h.dep]
                     /\ slipped'[h.dep] = slipped[h.dep]
    <3>1. failures'[d] = failures[d] /\ slipped'[d] = slipped[d]
      BY <2>6
    <3>2. CASE d # h.dep \/ h.stage = "reset"
      BY <2>2, <3>1, <3>2
    <3>3. CASE d = h.dep /\ h.stage # "reset"
      BY <2>6, <3>3
    <3> QED
      BY <3>2, <3>3
  <2> HIDE DEF Turns, h, g
  <2> QED
    BY <2>1, <2>3, <2>4, <2>5, <2>6 DEF Noted
<1>4. ASSUME NEW e \in Deployments, CooldownEnds(e)
      PROVE  \E s \in Requests : Turns(req'[s], d)
  <2>1. /\ req' = [r \in Requests |-> [req[r] EXCEPT !.cold = @ \ {e}]]
        /\ UNCHANGED <<failures, slipped>>
    BY <1>4 DEF CooldownEnds
  <2>2. PICK s \in Requests : Turns(req[s], d)
    BY <1>1, <2>1
  <2>3. HandlerLike(req[s])
    BY DEF IInv, Sound
  <2>4. req'[s].dep = req[s].dep /\ req'[s].stage = req[s].stage
    BY <2>1, <2>3 DEF HandlerLike
  <2> QED
    BY <2>2, <2>4
<1>5. ASSUME NEW e \in Deployments, FailuresExpire(e)
      PROVE  \E s \in Requests : Turns(req'[s], d)
  <2>1. /\ UNCHANGED req /\ failures' = [failures EXCEPT ![e] = 0]
        /\ slipped' = [slipped EXCEPT ![e] = FALSE]
    BY <1>5 DEF FailuresExpire
  <2>2. d # e
    <3>1. d = e => failures'[d] = 0
      BY <2>1, <1>0
    <3> QED
      BY <3>1, RoutingAssumption
  <2>3. failures'[d] = failures[d] /\ slipped'[d] = slipped[d]
    BY <2>1, <2>2, <1>0
  <2> QED
    BY <1>1, <2>1, <2>3
<1>6. ASSUME NEW e \in Deployments, BusyExpires(e)
      PROVE  \E s \in Requests : Turns(req'[s], d)
  BY <1>1, <1>6 DEF BusyExpires
<1>7. CASE Crash
  BY <1>7 DEF Crash
<1> HIDE DEF Turns
<1> QED
  BY <1>2, <1>3, <1>4, <1>5, <1>6, <1>7, NextActs

\* A failure count that has reached the threshold has a handler on its way to
\* the cooldown, unless a crash or an error of Redis took the handler from it.
THEOREM ThresholdIsHeeded == Spec => []ThresholdLeadsToCooldown
<1>1. Init => ThresholdLeadsToCooldown
  BY RoutingAssumption DEF Init, ThresholdLeadsToCooldown
<1>2. IInv /\ ThresholdLeadsToCooldown /\ [Next]_vars => ThresholdLeadsToCooldown'
  BY ThresholdStep
<1> QED
  BY <1>1, <1>2, HandlersSound, PTL DEF Spec

-----------------------------------------------------------------------------
(* The busy counters.                                                      *)

LEMMA InFlightFinite ==
  ASSUME NEW d
  PROVE  InFlight(d) \subseteq Requests /\ IsFiniteSet(InFlight(d)) /\ Cardinality(InFlight(d)) \in Nat
<1>1. InFlight(d) \subseteq Requests
  BY DEF InFlight
<1> QED
  BY <1>1, RoutingAssumption, FS_Subset, FS_CardinalityType

LEMMA BusyStep ==
  ASSUME IInv, BusyCountsCalls, [Next]_vars
  PROVE  BusyCountsCalls'
<1> SUFFICES ASSUME NEW d \in Deployments, ~drifted'[d]
             PROVE  busy'[d] = Cardinality(InFlight(d)')
  BY DEF BusyCountsCalls
<1>1. CASE UNCHANGED vars
  BY <1>1 DEF vars, BusyCountsCalls, InFlight
<1>2. ASSUME NEW r \in Requests, Acts(r)
      PROVE  busy'[d] = Cardinality(InFlight(d)')
  <2> DEFINE h == req[r]
             g == req'[r]
  <2>1. Counted(h, g) /\ Typed /\ \A s \in Requests \ {r} : req'[s] = req[s]
    <3>1. Moves(r)
      BY <1>2, ActsMoves
    <3> QED
      BY <3>1, Stepped DEF Moves, IInv
  <2>2. \A s \in Requests \ {r} : s \in InFlight(d)' <=> s \in InFlight(d)
    BY <2>1 DEF InFlight
  <2>3. h.stage \in WithDeployment => h.dep \in Deployments
    BY DEF IInv, Sound
  <2>4. IsFiniteSet(InFlight(d)) /\ InFlight(d) \subseteq Requests /\ InFlight(d)' \subseteq Requests
    BY InFlightFinite DEF InFlight
  <2>5. CASE h.stage \notin Calling /\ g.stage \notin Calling /\ UNCHANGED <<busy, drifted>>
    <3>1. InFlight(d)' = InFlight(d)
      BY <2>2, <2>5 DEF InFlight
    <3> QED
      BY <2>5, <3>1 DEF BusyCountsCalls
  <2>6. CASE /\ h.stage = "call" /\ g.stage = "expire" /\ g.dep = h.dep
             /\ busy' = [busy EXCEPT ![h.dep] = @ + 1] /\ UNCHANGED drifted
    <3>1. CASE d = h.dep
      <4>1. InFlight(d)' = InFlight(d) \union {r} /\ r \notin InFlight(d)
        BY <2>2, <2>4, <2>6, <3>1 DEF InFlight, Calling
      <4>2. Cardinality(InFlight(d)') = Cardinality(InFlight(d)) + 1
        BY <2>4, <4>1, FS_AddElement
      <4> QED
        BY <2>1, <2>6, <3>1, <4>2 DEF BusyCountsCalls, Typed
    <3>2. CASE d # h.dep
      <4>1. InFlight(d)' = InFlight(d)
        BY <2>2, <2>6, <3>2 DEF InFlight, Calling
      <4> QED
        BY <2>1, <2>6, <3>2, <4>1 DEF BusyCountsCalls, Typed
    <3> QED
      BY <3>1, <3>2
  <2>7. CASE /\ h.stage = "expire" /\ g.stage = "answer" /\ g.dep = h.dep
             /\ UNCHANGED <<busy, drifted>>
    <3>1. InFlight(d)' = InFlight(d)
      BY <2>2, <2>7 DEF InFlight, Calling
    <3> QED
      BY <2>7, <3>1 DEF BusyCountsCalls
  <2>8. CASE /\ h.stage = "answer" /\ g.stage \notin Calling
             /\ busy' = [busy EXCEPT ![h.dep] = @ - 1] /\ UNCHANGED drifted
    <3>1. CASE d = h.dep
      <4>1. InFlight(d)' = InFlight(d) \ {r} /\ r \in InFlight(d)
        BY <2>2, <2>4, <2>8, <3>1 DEF InFlight, Calling
      <4>2. Cardinality(InFlight(d)') = Cardinality(InFlight(d)) - 1
        BY <2>4, <4>1, FS_RemoveElement
      <4> QED
        BY <2>1, <2>8, <3>1, <4>2 DEF BusyCountsCalls, Typed
    <3>2. CASE d # h.dep
      <4>1. InFlight(d)' = InFlight(d)
        BY <2>2, <2>8, <3>2 DEF InFlight
      <4> QED
        BY <2>1, <2>8, <3>2, <4>1 DEF BusyCountsCalls, Typed
    <3> QED
      BY <3>1, <3>2
  <2>9. CASE /\ h.stage \in WithDeployment /\ g.stage \notin Calling
             /\ drifted' = [drifted EXCEPT ![h.dep] = TRUE]
             /\ \A e \in Deployments \ {h.dep} : busy'[e] = busy[e]
    <3>1. h.dep \in Deployments
      BY <2>3, <2>9
    <3>2. d # h.dep /\ ~drifted[d] /\ busy'[d] = busy[d]
      BY <2>1, <2>9, <3>1 DEF Typed
    <3>3. InFlight(d)' = InFlight(d)
      BY <2>2, <2>9, <3>2 DEF InFlight
    <3> QED
      BY <3>2, <3>3 DEF BusyCountsCalls
  <2> QED
    BY <2>1, <2>5, <2>6, <2>7, <2>8, <2>9 DEF Counted
<1>3. ASSUME NEW e \in Deployments, CooldownEnds(e)
      PROVE  busy'[d] = Cardinality(InFlight(d)')
  <2>1. /\ req' = [r \in Requests |-> [req[r] EXCEPT !.cold = @ \ {e}]]
        /\ UNCHANGED <<busy, drifted>>
    BY <1>3 DEF CooldownEnds
  <2>2. \A r \in Requests : req'[r].dep = req[r].dep /\ req'[r].stage = req[r].stage
    <3> SUFFICES ASSUME NEW r \in Requests
                 PROVE  req'[r].dep = req[r].dep /\ req'[r].stage = req[r].stage
      OBVIOUS
    <3>1. HandlerLike(req[r])
      BY DEF IInv, Sound
    <3> QED
      BY <2>1, <3>1 DEF HandlerLike
  <2>3. InFlight(d)' = InFlight(d)
    BY <2>2 DEF InFlight
  <2> QED
    BY <2>1, <2>3 DEF BusyCountsCalls
<1>4. ASSUME NEW e \in Deployments, FailuresExpire(e)
      PROVE  busy'[d] = Cardinality(InFlight(d)')
  BY <1>4 DEF FailuresExpire, BusyCountsCalls, InFlight
<1>5. ASSUME NEW e \in Deployments, BusyExpires(e)
      PROVE  busy'[d] = Cardinality(InFlight(d)')
  <2>1. /\ busy' = [busy EXCEPT ![e] = 0] /\ req' = req
        /\ drifted' = [drifted EXCEPT ![e] = TRUE]
    BY <1>5 DEF BusyExpires
  <2>2. ~drifted[d] /\ d # e /\ busy'[d] = busy[d]
    BY <2>1 DEF IInv, Typed
  <2>3. InFlight(d)' = InFlight(d)
    BY <2>1 DEF InFlight
  <2> QED
    BY <2>2, <2>3 DEF BusyCountsCalls
<1>6. CASE Crash
  <2>1. /\ req' = [r \in Requests |-> Idle] /\ busy' = busy
        /\ drifted' = [e \in Deployments |-> drifted[e] \/ InFlight(e) # {}]
    BY <1>6 DEF Crash
  <2>2. ~drifted[d] /\ InFlight(d) = {}
    BY <2>1
  <2>3. InFlight(d)' = {}
    BY <2>1, IdleSound DEF InFlight, Calling
  <2>4. busy[d] = Cardinality(InFlight(d))
    BY <2>2 DEF BusyCountsCalls
  <2> QED
    BY <2>1, <2>2, <2>3, <2>4
<1> QED
  BY <1>1, <1>2, <1>3, <1>4, <1>5, <1>6, NextActs

\* The busy counter of a deployment is the number of calls in flight, unless
\* its key lapsed under a stream, a handler was lost on its way in, or a command
\* on it raised.
THEOREM BusyIsCounted == Spec => []BusyCountsCalls
<1>1. Init => BusyCountsCalls
  <2> SUFFICES ASSUME Init, NEW d \in Deployments PROVE busy[d] = Cardinality(InFlight(d))
    BY DEF BusyCountsCalls
  <2>1. InFlight(d) = {}
    BY IdleSound DEF Init, InFlight, Calling
  <2> QED
    BY <2>1, FS_EmptySet DEF Init
<1>2. IInv /\ BusyCountsCalls /\ [Next]_vars => BusyCountsCalls'
  BY BusyStep
<1> QED
  BY <1>1, <1>2, HandlersSound, PTL DEF Spec

-----------------------------------------------------------------------------
(* Induction over the turns of a loop.                                     *)

\* Induction up to n, for a set in place of a predicate.
LEMMA UpTo ==
  ASSUME NEW n \in Nat, NEW S, 0 \in S, \A i \in 0..(n - 1) : i \in S => i + 1 \in S
  PROVE  \A i \in 0..n : i \in S
<1> DEFINE Bad == {i \in 0..n : i \notin S}
           Below == {ss \in Nat \X Nat : ss[1] < ss[2]}
<1>1. SUFFICES ASSUME Bad # {} PROVE FALSE
  OBVIOUS
<1>2. IsWellFoundedOn(Below, Nat)
  BY NatLessThanWellFounded, Zenon DEF OpToRel
<1>3. Bad \subseteq Nat
  OBVIOUS
<1>4. PICK i \in Bad : \A j \in Bad : <<j, i>> \notin Below
  <2> HIDE DEF Bad, Below
  <2> QED
    BY <1>1, <1>2, <1>3, WFMin, Zenon
<1>5. i # 0 /\ i - 1 \in 0..(n - 1) /\ i - 1 \in 0..n
  BY <1>4
<1>6. i - 1 \notin Bad
  <2>1. <<i - 1, i>> \in Below
    BY <1>5
  <2> QED
    BY <1>4, <2>1
<1>7. i - 1 \in S
  BY <1>5, <1>6
<1> QED
  BY <1>4, <1>5, <1>7

-----------------------------------------------------------------------------
(* Lists of models without repetition.                                     *)

Lists == {s \in Seq(Models) : IsInjective(s)}

LEMMA Joined ==
  ASSUME NEW s \in Lists, NEW t \in Lists, Range(s) \intersect Range(t) = {}
  PROVE  s \o t \in Lists /\ Range(s \o t) = Range(s) \union Range(t)
<1>1. /\ s \o t \in Seq(Models)
      /\ Len(s \o t) = Len(s) + Len(t)
      /\ \A i \in 1 .. Len(s) + Len(t) :
           (s \o t)[i] = IF i <= Len(s) THEN s[i] ELSE t[i - Len(s)]
  BY ConcatProperties DEF Lists
<1>2. Range(s \o t) = Range(s) \union Range(t)
  BY RangeConcatenation DEF Lists
<1>3. \A i \in 1..Len(s), j \in 1..Len(t) : s[i] # t[j]
  BY DEF Lists, Range
<1>4. IsInjective(s \o t)
  <2> SUFFICES ASSUME NEW i \in 1..(Len(s) + Len(t)), NEW j \in 1..(Len(s) + Len(t)),
                      (s \o t)[i] = (s \o t)[j]
               PROVE  i = j
    BY <1>1 DEF IsInjective
  <2>1. CASE i <= Len(s) /\ j <= Len(s)
    BY <1>1, <2>1 DEF Lists, IsInjective
  <2>2. CASE i > Len(s) /\ j > Len(s)
    BY <1>1, <2>2 DEF Lists, IsInjective
  <2>3. CASE i <= Len(s) /\ j > Len(s)
    BY <1>1, <1>3, <2>3 DEF Lists
  <2>4. CASE i > Len(s) /\ j <= Len(s)
    BY <1>1, <1>3, <2>4 DEF Lists
  <2> QED
    BY <2>1, <2>2, <2>3, <2>4 DEF Lists
<1> QED
  BY <1>1, <1>2, <1>4 DEF Lists

LEMMA Taken ==
  ASSUME NEW s \in Lists, s # <<>>
  PROVE  /\ Tail(s) \in Lists
         /\ Head(s) \in Range(s) /\ Range(Tail(s)) = Range(s) \ {Head(s)}
<1>1. /\ Tail(s) \in Seq(Models) /\ Len(Tail(s)) = Len(s) - 1
      /\ \A i \in 1..Len(Tail(s)) : Tail(s)[i] = s[i + 1]
      /\ Len(s) \in Nat \ {0} /\ Head(s) = s[1]
  BY HeadTailProperties DEF Lists
<1>2. IsInjective(Tail(s))
  BY <1>1 DEF Lists, IsInjective
<1>3. Head(s) \in Range(s)
  BY <1>1 DEF Lists, Range
<1>4. Range(Tail(s)) \subseteq Range(s) \ {Head(s)}
  BY <1>1 DEF Lists, Range, IsInjective
<1>5. ASSUME NEW m \in Range(s), m # Head(s) PROVE m \in Range(Tail(s))
  <2>1. PICK i \in 2..Len(s) : m = s[i]
    BY <1>1, <1>5 DEF Lists, Range
  <2>2. i - 1 \in 1..Len(Tail(s)) /\ Tail(s)[i - 1] = m
    BY <1>1, <2>1
  <2>3. DOMAIN Tail(s) = 1..Len(Tail(s))
    BY <1>1
  <2> QED
    BY <2>2, <2>3 DEF Range
<1> QED
  BY <1>1, <1>2, <1>3, <1>4, <1>5 DEF Lists

LEMMA Appended ==
  ASSUME NEW s \in Lists, NEW m \in Models \ Range(s)
  PROVE  Append(s, m) \in Lists /\ Range(Append(s, m)) = Range(s) \union {m}
<1> DEFINE t == Append(s, m)
<1>1. /\ t \in Seq(Models) /\ Len(t) = Len(s) + 1 /\ Len(s) \in Nat
      /\ \A i \in 1..Len(s) : t[i] = s[i] /\ s[i] # m
      /\ t[Len(s) + 1] = m
  BY AppendProperties DEF Lists, Range
<1> HIDE DEF t
<1>2. IsInjective(t)
  BY <1>1 DEF Lists, IsInjective
<1>3. Range(t) = Range(s) \union {m}
  <2>1. Range(t) = {t[i] : i \in 1..(Len(s) + 1)} /\ Range(s) = {s[i] : i \in 1..Len(s)}
    BY <1>1 DEF Range, Lists
  <2> QED
    BY <1>1, <2>1
<1> QED
  BY <1>1, <1>2, <1>3 DEF Lists, t

\* The equation of the loop over the fallbacks, for its first n turns.
TurnOf(more, listed, new, i) ==
    IF i = 0 THEN <<>>
    ELSE IF more[i] \in listed \union Range(new[i - 1]) THEN new[i - 1]
    ELSE Append(new[i - 1], more[i])

Turns(more, listed, n) ==
    {new \in [0..n -> Seq(Models)] : \A i \in 0..n : new[i] = TurnOf(more, listed, new, i)}

LEMMA TurnsExist ==
  ASSUME NEW more \in Seq(Models), NEW listed
  PROVE  Turns(more, listed, Len(more)) # {}
<1> DEFINE n == Len(more)
           S == {i \in 0..n : Turns(more, listed, i) # {}}
<1>0. n \in Nat
  OBVIOUS
<1>1. 0 \in S
  <2> DEFINE new == [i \in 0..0 |-> <<>>]
  <2>1. new \in [0..0 -> Seq(Models)] /\ new[0] = <<>>
    OBVIOUS
  <2>2. new \in Turns(more, listed, 0)
    BY <2>1 DEF Turns, TurnOf
  <2> QED
    BY <1>0, <2>2
<1>2. ASSUME NEW i \in 0..(n - 1), i \in S PROVE i + 1 \in S
  <2>1. PICK old : old \in Turns(more, listed, i)
    BY <1>2
  <2>2. /\ old \in [0..i -> Seq(Models)] /\ more[i + 1] \in Models
        /\ \A j \in 0..i : old[j] = TurnOf(more, listed, old, j)
    BY <1>0, <2>1 DEF Turns
  <2> DEFINE last == IF more[i + 1] \in listed \union Range(old[i]) THEN old[i]
                     ELSE Append(old[i], more[i + 1])
             new == [j \in 0..(i + 1) |-> IF j <= i THEN old[j] ELSE last]
  <2>3. last \in Seq(Models)
    BY <2>2
  <2>4. new \in [0..(i + 1) -> Seq(Models)] /\ new[i + 1] = last
        /\ \A j \in 0..i : new[j] = old[j]
    <3> HIDE DEF last
    <3> QED
      BY <2>2, <2>3
  <2>5. ASSUME NEW j \in 0..(i + 1) PROVE new[j] = TurnOf(more, listed, new, j)
    <3>1. CASE j = i + 1
      <4>1. new[j] = last /\ new[j - 1] = old[i] /\ j # 0
        BY <2>4, <3>1
      <4> QED
        BY <3>1, <4>1 DEF TurnOf
    <3>2. CASE j = 0
      BY <2>2, <2>4, <3>2 DEF TurnOf
    <3>3. CASE j \in 1..i
      <4>1. new[j] = old[j] /\ new[j - 1] = old[j - 1] /\ old[j] = TurnOf(more, listed, old, j)
        BY <2>2, <2>4, <3>3
      <4> QED
        BY <4>1 DEF TurnOf
    <3> QED
      BY <3>1, <3>2, <3>3
  <2>6. new \in Turns(more, listed, i + 1)
    BY <2>4, <2>5 DEF Turns
  <2> QED
    BY <1>0, <2>6
<1> QED
  <2>1. \A i \in 0..n : i \in S
    <3> HIDE DEF S, n
    <3> QED
      BY <1>0, <1>1, <1>2, UpTo
  <2> QED
    BY <1>0, <2>1

\* What the loop appends: each of the fallbacks that is not listed, once.
LEMMA NewOnes ==
  ASSUME NEW more \in Seq(Models), NEW listed
  PROVE  LET new == NewAfter(more, listed)[Len(more)]
         IN  new \in Lists /\ Range(new) = Range(more) \ listed
<1> DEFINE n == Len(more)
           Eq(f) == f = [i \in 0..n |-> TurnOf(more, listed, f, i)]
           new == NewAfter(more, listed)
<1>0. n \in Nat
  OBVIOUS
<1>1. \E f : Eq(f)
  <2>1. PICK f : f \in Turns(more, listed, n)
    BY TurnsExist
  <2> QED
    BY <2>1 DEF Turns
<1>2. Eq(new)
  <2>1. new = CHOOSE f : Eq(f)
    BY DEF NewAfter, TurnOf
  <2> HIDE DEF new, Eq
  <2> QED
    BY <1>1, <2>1
<1>3. \A i \in 0..n : new[i] = TurnOf(more, listed, new, i)
  <2> HIDE DEF new
  <2> QED
    BY <1>2
<1> DEFINE S == {i \in 0..n : new[i] \in Lists
                               /\ Range(new[i]) = {more[j] : j \in 1..i} \ listed}
<1> HIDE DEF new
<1>4. 0 \in S
  <2>1. new[0] = <<>>
    BY <1>0, <1>3 DEF TurnOf
  <2>2. <<>> \in Lists /\ Range(<<>>) = {}
    BY DEF Lists, IsInjective, Range
  <2> QED
    BY <1>0, <2>1, <2>2
<1>5. ASSUME NEW i \in 0..(n - 1), i \in S PROVE i + 1 \in S
  <2> DEFINE m == more[i + 1]
             before == {more[j] : j \in 1..i}
  <2>1. new[i] \in Lists /\ Range(new[i]) = before \ listed /\ m \in Models
    BY <1>0, <1>5
  <2>2. new[i + 1] = IF m \in listed \union Range(new[i]) THEN new[i] ELSE Append(new[i], m)
    BY <1>0, <1>3 DEF TurnOf
  <2>3. {more[j] : j \in 1..(i + 1)} = before \union {m}
    BY <1>0
  <2> HIDE DEF m, before
  <2>4. /\ new[i + 1] \in Lists
        /\ Range(new[i + 1]) = (before \union {m}) \ listed
    BY <2>1, <2>2, Appended
  <2> QED
    BY <1>0, <2>3, <2>4
<1>6. n \in S
  <2> HIDE DEF S, n
  <2>1. \A i \in 0..n : i \in S
    BY <1>0, <1>4, <1>5, UpTo
  <2>2. n \in 0..n
    BY <1>0
  <2> QED
    BY <2>1, <2>2
<1>7. Range(more) = {more[j] : j \in 1..n}
  BY RangeEquality
<1> QED
  BY <1>6, <1>7 DEF new

LEMMA Chains ==
  ASSUME NEW m \in Models
  PROVE  /\ \A kind : GetFallbackModels(m, kind) \in Seq(Models)
         /\ IsInjective(StandardFallbacks[m]) => GetFallbackModels(m, "standard") \in Lists
<1>1. ASSUME NEW models \in Seq(Models)
      PROVE  WithDefault(models) \in Seq(Models) /\ (models \in Lists => WithDefault(models) \in Lists)
  BY Appended, RoutingAssumption DEF WithDefault
<1>2. StandardFallbacks[m] \in Seq(Models) /\ ContextFallbacks[m] \in Seq(Models)
  BY RoutingAssumption
<1>3. ASSUME NEW kind PROVE GetFallbackModels(m, kind) \in Seq(Models)
  <2> DEFINE all == IF kind = "context_window" /\ ContextFallbacks[m] # <<>>
                    THEN ContextFallbacks[m] ELSE StandardFallbacks[m]
  <2>1. all \in Seq(Models) /\ GetFallbackModels(m, kind) = WithDefault(all)
    BY <1>2 DEF GetFallbackModels
  <2> HIDE DEF all
  <2> QED
    BY <1>1, <2>1
<1>4. GetFallbackModels(m, "standard") = WithDefault(StandardFallbacks[m])
  BY DEF GetFallbackModels
<1> QED
  BY <1>1, <1>2, <1>3, <1>4 DEF Lists

-----------------------------------------------------------------------------
(* What a request may cost: the models taken from its list, with all their *)
(* attempts.                                                               *)

NoOwnFallback == \A m \in Models : m \notin Range(GetFallbackModels(m, "standard"))

\* No list of standard fallbacks names a model twice.
NoRepetition == \A m \in Models : IsInjective(StandardFallbacks[m])

\* The models that were or are being tried.
Started(h) == h.listed \ Range(h.todo)

\* The calls that the current model may have cost so far.
Due(h) == IF h.stage \in Selecting \union {"call", "expire"} THEN h.attempt ELSE h.attempt + 1

Turn == NumRetries + 1

Paying(h) ==
    /\ h \in Handler /\ h.calls <= MaxCalls
    /\ h.stage \notin Ended =>
         /\ h.todo \in Lists /\ Range(h.todo) \subseteq h.listed
         /\ h.model \in Started(h)
         /\ h.cur = h.model /\ h.stage \in Selecting => h.listed = {h.model}
         /\ h.stage = "sleep" => h.attempt < NumRetries
         /\ h.calls <= (Cardinality(Started(h)) - 1) * Turn + Due(h)

\* The same where a model is given up.
Leaving(h) ==
    /\ h \in Handler /\ h.calls <= MaxCalls
    /\ h.todo \in Lists /\ Range(h.todo) \subseteq h.listed
    /\ h.model \in Started(h)
    /\ h.calls <= Cardinality(Started(h)) * Turn

LEMMA Numbers ==
  ASSUME IsFiniteSet(Models), NEW S \in SUBSET Models
  PROVE  /\ Cardinality(S) \in Nat /\ Cardinality(S) <= Cardinality(Models)
         /\ Turn \in Nat \ {0}
         /\ Cardinality(S) * Turn <= MaxCalls
         /\ (Cardinality(S) - 1) * Turn + Turn = Cardinality(S) * Turn
<1>1. Turn \in Nat \ {0}
  BY RoutingAssumption DEF Turn
<1>2. /\ IsFiniteSet(S) /\ Cardinality(S) \in Nat /\ Cardinality(Models) \in Nat
      /\ Cardinality(S) <= Cardinality(Models)
  BY FS_Subset, FS_CardinalityType
<1>3. MaxCalls = Cardinality(Models) * Turn
  BY DEF MaxCalls, Turn
<1>4. ASSUME NEW a \in Nat, NEW b \in Nat, NEW c \in Nat, a <= b PROVE a * c <= b * c
  BY <1>4
<1>5. ASSUME NEW a \in Nat, NEW c \in Nat PROVE (a - 1) * c + c = a * c
  OBVIOUS
<1> HIDE DEF Turn, MaxCalls
<1> QED
  BY <1>1, <1>2, <1>3, <1>4, <1>5

LEMMA LeavingNow ==
  ASSUME IsFiniteSet(Models), NEW h, Paying(h), h.stage \notin Ended
  PROVE  Leaving(h)
<1>1. Started(h) \in SUBSET Models /\ h \in Handler
  BY DEF Paying, Handler, Started
<1>2. Due(h) <= Turn /\ Due(h) \in Int /\ h.calls \in Nat
  BY <1>1, RoutingAssumption DEF Due, Turn, Handler
<1> DEFINE k == Cardinality(Started(h))
<1>3. k \in Nat /\ (k - 1) * Turn + Turn = k * Turn /\ Turn \in Nat
  BY <1>1, Numbers
<1>4. (k - 1) * Turn \in Int /\ k * Turn \in Int
  BY <1>3
<1>5. h.calls <= (k - 1) * Turn + Due(h)
  BY DEF Paying
<1> HIDE DEF k, Turn, Due
<1>6. h.calls <= k * Turn
  BY <1>2, <1>3, <1>4, <1>5
<1> QED
  BY <1>6 DEF Paying, Leaving, k

\* A step within one model.
LEMMA Carries ==
  ASSUME IsFiniteSet(Models), NEW h, Paying(h), h.stage \notin Ended,
         NEW g \in Handler, g.stage \notin Ended,
         g.todo = h.todo, g.listed = h.listed, g.model = h.model, g.cur = h.cur,
         g.stage \in Selecting => h.stage \in Selecting,
         g.stage = "sleep" => g.attempt < NumRetries,
         g.calls - Due(g) <= h.calls - Due(h)
  PROVE  Paying(g)
<1>1. Started(h) \in SUBSET Models /\ h \in Handler /\ Started(g) = Started(h)
  BY DEF Paying, Handler, Started
<1>2. /\ Due(g) <= Turn /\ Due(g) \in Int /\ Due(h) \in Int
      /\ h.calls \in Nat /\ g.calls \in Nat
  BY <1>1, RoutingAssumption DEF Due, Turn, Handler
<1> DEFINE k == Cardinality(Started(h))
<1>3. /\ k \in Nat /\ Turn \in Nat /\ MaxCalls \in Int
      /\ (k - 1) * Turn + Turn = k * Turn /\ k * Turn <= MaxCalls
  BY <1>1, Numbers, FS_CardinalityType, RoutingAssumption DEF MaxCalls
<1>4. (k - 1) * Turn \in Int /\ k * Turn \in Int
  BY <1>3
<1>5. h.calls <= (k - 1) * Turn + Due(h)
  BY DEF Paying
<1> HIDE DEF k, Turn, Due, MaxCalls
<1>6. g.calls <= (k - 1) * Turn + Due(g) /\ g.calls <= MaxCalls
  BY <1>2, <1>3, <1>4, <1>5
<1> QED
  BY <1>1, <1>6 DEF Paying, k

\* The fields that HandlerLike leaves open.
LEMMA Composed ==
  ASSUME NEW h, HandlerLike(h), h.model \in Models, h.todo \in Seq(Models),
         h.listed \in SUBSET Models, h.cur \in Models, h.load \in Int,
         h.attempt \in 0..NumRetries, h.calls \in Nat
  PROVE  h \in Handler
BY DEF HandlerLike, Handler

LEMMA HandlerFields ==
  ASSUME NEW h \in Handler
  PROVE  /\ HandlerLike(h) /\ h.model \in Models /\ h.todo \in Seq(Models)
         /\ h.listed \in SUBSET Models /\ h.cur \in Models /\ h.load \in Int
         /\ h.attempt \in 0..NumRetries /\ h.calls \in Nat
BY DEF HandlerLike, Handler

LEMMA StillHandler ==
  ASSUME NEW h \in Handler, NEW g, HandlerLike(g), g.todo = h.todo, g.listed = h.listed,
         g.model = h.model, g.cur = h.cur, g.load \in Int,
         g.attempt \in 0..NumRetries, g.calls \in Nat
  PROVE  g \in Handler
BY HandlerFields, Composed, Zenon

\* A handler that ends.
LEMMA IdlePays ==
  ASSUME IsFiniteSet(Models), Models # {}
  PROVE  Paying(Idle)
<1> DEFINE any == CHOOSE m \in Models : TRUE
<1>1. any \in Models
  OBVIOUS
<1>2. Idle = [stage |-> "idle", model |-> any, stream |-> FALSE, todo |-> <<>>,
              listed |-> {}, cur |-> any, unread |-> {}, healthy |-> {}, load |-> 0,
              dep |-> None, attempt |-> 0, caught |-> FALSE, calls |-> 0, cold |-> {}]
  BY DEF Idle
<1> HIDE DEF any
<1>3. /\ Idle.stage = "idle" /\ Idle.model = any /\ Idle.cur = any /\ Idle.todo = <<>>
      /\ Idle.listed = {} /\ Idle.load = 0 /\ Idle.attempt = 0 /\ Idle.calls = 0
  BY <1>2
<1>4. HandlerLike(Idle)
  BY IdleSound DEF Sound
<1>5. /\ Idle.model \in Models /\ Idle.todo \in Seq(Models) /\ Idle.listed \in SUBSET Models
      /\ Idle.cur \in Models
  BY <1>1, <1>3
<1>6. Idle.load \in Int /\ Idle.attempt \in 0..NumRetries /\ Idle.calls \in Nat
  BY <1>3, RoutingAssumption
<1>7. Idle \in Handler
  BY <1>4, <1>5, <1>6, Composed, Zenon
<1>8. 0 <= MaxCalls
  BY FS_CardinalityType, RoutingAssumption DEF MaxCalls
<1> QED
  BY <1>3, <1>7, <1>8 DEF Paying, Ended

LEMMA EndPays ==
  ASSUME IsFiniteSet(Models), NEW h \in Handler
  PROVE  Paying(Failed(h))
<1> DEFINE g == Failed(h)
<1>1. /\ h.model \in Models /\ h.todo \in Seq(Models) /\ h.listed \in SUBSET Models
  BY HandlerFields
<1>2. Paying(Idle)
  BY <1>1, IdlePays
<1>3. /\ Idle.cur \in Models /\ Idle.load \in Int /\ Idle.attempt \in 0..NumRetries
      /\ Idle.calls \in Nat /\ Idle.calls <= MaxCalls /\ HandlerLike(Idle)
  BY <1>2, HandlerFields DEF Paying
<1>4. /\ HandlerLike(g) /\ g.stage = "failed" /\ g.todo = h.todo /\ g.listed = h.listed
      /\ g.model = h.model
  BY FailedFields
<1>5. g.cur = Idle.cur /\ g.load = Idle.load /\ g.attempt = Idle.attempt /\ g.calls = Idle.calls
  BY <1>3 DEF Failed, HandlerLike
<1> HIDE DEF g
<1>6. g \in Handler
  <2>1. g.model \in Models /\ g.todo \in Seq(Models) /\ g.listed \in SUBSET Models
    BY <1>1, <1>4
  <2>2. g.cur \in Models /\ g.load \in Int /\ g.attempt \in 0..NumRetries /\ g.calls \in Nat
    BY <1>3, <1>5
  <2> QED
    BY <1>4, <2>1, <2>2, Composed, Zenon
<1> QED
  BY <1>3, <1>4, <1>5, <1>6 DEF Paying, Ended, g

LEMMA NextPays ==
  ASSUME IsFiniteSet(Models), NEW h, Leaving(h)
  PROVE  Paying(NextModel(h))
<1>1. CASE h.todo = <<>>
  BY <1>1, EndPays DEF NextModel, Leaving
<1>2. CASE h.todo # <<>>
  <2> DEFINE rest == [h EXCEPT !.todo = Tail(@)]
             next == Head(h.todo)
             g == NextModel(h)
             found == IF next \in Allowed THEN DeploymentsOf[next] ELSE {}
             cold == {d \in found : cooled[d]}
  <2>1. /\ h.todo \in Lists /\ Tail(h.todo) \in Lists
        /\ next \in Range(h.todo) /\ Range(Tail(h.todo)) = Range(h.todo) \ {next}
        /\ h \in Handler /\ h.model \in h.listed \ Range(h.todo)
        /\ Range(h.todo) \subseteq h.listed
    BY <1>2, Taken DEF Leaving, Started
  <2>2. next \in Models /\ next # h.model /\ h.listed \subseteq Models
    BY <2>1 DEF Handler
  <2>3. found \subseteq Deployments
    BY RoutingAssumption
  <2>4. g = [rest EXCEPT !.stage = "cooldowns", !.cur = next, !.unread = found, !.healthy = {},
                         !.load = 0, !.attempt = 0, !.caught = FALSE, !.dep = None, !.cold = cold]
    BY <1>2 DEF NextModel, Selection
  <2>5. cold \subseteq Deployments
    BY <2>3
  <2>6. "cooldowns" \in Stages /\ 0 \in 0..NumRetries
    BY RoutingAssumption DEF Stages, Selecting
  <2> HIDE DEF found, cold, next, g
  <2>7. /\ g \in Handler /\ g.stage = "cooldowns" /\ g.cur = next /\ g.model = h.model
        /\ g.listed = h.listed /\ g.todo = Tail(h.todo) /\ g.calls = h.calls /\ g.attempt = 0
    <3>1. /\ HandlerLike(h) /\ h.calls \in Nat
          /\ Tail(h.todo) \in Seq(Models) /\ h.listed \in SUBSET Models
      BY <2>1, HandlerFields DEF Lists
    <3>2. g = [h EXCEPT !.todo = Tail(@), !.stage = "cooldowns", !.cur = next,
                        !.unread = found, !.healthy = {}, !.load = 0, !.attempt = 0,
                        !.caught = FALSE, !.dep = None, !.cold = cold]
      BY <2>4, <3>1 DEF HandlerLike
    <3>3. /\ HandlerLike(g) /\ g.stage = "cooldowns" /\ g.cur = next /\ g.model = h.model
          /\ g.listed = h.listed /\ g.todo = Tail(h.todo) /\ g.calls = h.calls
          /\ g.attempt = 0 /\ g.load = 0
      BY <2>3, <2>5, <2>6, <3>1, <3>2 DEF HandlerLike
    <3>4. g.model \in Models /\ g.cur \in Models /\ g.load \in Int /\ g.calls \in Nat
      BY <2>1, <2>2, <3>1, <3>3 DEF Handler
    <3>5. g.todo \in Seq(Models) /\ g.listed \in SUBSET Models
      BY <3>1, <3>3
    <3>6. g.attempt \in 0..NumRetries
      BY <2>6, <3>3
    <3> QED
      BY <3>3, <3>4, <3>5, <3>6, Composed, Zenon
  <2>8. /\ Started(g) = Started(h) \union {next} /\ next \notin Started(h)
        /\ Started(h) \subseteq Models
    BY <2>1, <2>2, <2>7 DEF Started
  <2>9. IsFiniteSet(Started(h)) /\ Cardinality(Started(g)) = Cardinality(Started(h)) + 1
        /\ Cardinality(Started(h)) \in Nat
    BY <2>8, FS_Subset, FS_AddElement, FS_CardinalityType
  <2>10. h.calls <= Cardinality(Started(h)) * Turn /\ h.calls <= MaxCalls
    BY DEF Leaving
  <2>11. g.calls <= (Cardinality(Started(g)) - 1) * Turn + Due(g)
    <3>1. Cardinality(Started(g)) - 1 = Cardinality(Started(h))
      BY <2>9
    <3>2. Due(g) = 0
      BY <2>7 DEF Due, Selecting
    <3>3. Cardinality(Started(h)) * Turn \in Int
      BY <2>9, RoutingAssumption DEF Turn
    <3> QED
      BY <3>1, <3>2, <3>3, <2>7, <2>10
  <2> QED
    BY <2>1, <2>2, <2>7, <2>8, <2>10, <2>11 DEF Paying, Started, g
<1> QED
  BY <1>1, <1>2

LEMMA NewOnesPay ==
  ASSUME NEW h, Leaving(h), NEW more \in Seq(Models)
  PROVE  /\ Leaving(ExtendedWithNew(h, more))
         /\ h.stage = ExtendedWithNew(h, more).stage
         /\ h.stream = ExtendedWithNew(h, more).stream
<1> DEFINE new == NewAfter(more, h.listed)[Len(more)]
           g == ExtendedWithNew(h, more)
<1>1. new \in Lists /\ Range(new) = Range(more) \ h.listed
  BY NewOnes
<1>2. g = [h EXCEPT !.todo = @ \o new, !.listed = @ \union Range(more)]
  BY DEF ExtendedWithNew
<1>3. /\ h \in Handler /\ h.todo \in Lists /\ Range(h.todo) \subseteq h.listed
      /\ Range(more) \subseteq Models
  BY RangeOfSeq DEF Leaving
<1> HIDE DEF new, g
<1>4. h.todo \o new \in Lists /\ Range(h.todo \o new) = Range(h.todo) \union Range(new)
  BY <1>1, <1>3, Joined
<1>5. /\ g \in Handler /\ g.todo = h.todo \o new /\ g.listed = h.listed \union Range(more)
      /\ g.model = h.model /\ g.calls = h.calls /\ g.stage = h.stage /\ g.stream = h.stream
  BY <1>2, <1>3, <1>4 DEF Handler, Lists
<1>6. Started(g) = Started(h)
  BY <1>1, <1>3, <1>4, <1>5 DEF Started
<1> QED
  BY <1>1, <1>3, <1>4, <1>5, <1>6 DEF Leaving, g

LEMMA UnseenPay ==
  ASSUME NEW h, Leaving(h), h.listed = {h.model}, NEW more \in Lists, h.model \notin Range(more)
  PROVE  Leaving(Extended(h, more))
<1> DEFINE g == Extended(h, more)
<1>1. g = [h EXCEPT !.todo = @ \o more, !.listed = @ \union Range(more)]
  BY DEF Extended
<1>2. /\ h \in Handler /\ h.todo \in Lists /\ Range(h.todo) = {}
      /\ Range(more) \subseteq Models
  BY RangeOfSeq DEF Leaving, Lists, Started
<1> HIDE DEF g
<1>3. h.todo \o more \in Lists /\ Range(h.todo \o more) = Range(more)
  BY <1>2, Joined
<1>4. /\ g \in Handler /\ g.todo = h.todo \o more /\ g.listed = h.listed \union Range(more)
      /\ g.model = h.model /\ g.calls = h.calls
  BY <1>1, <1>2, <1>3 DEF Handler, Lists
<1>5. Started(g) = Started(h)
  BY <1>2, <1>3, <1>4 DEF Started
<1> QED
  BY <1>3, <1>4, <1>5 DEF Leaving, g

LEMMA FailedPays ==
  ASSUME IsFiniteSet(Models), NEW h, Leaving(h)
  PROVE  Paying(ModelFailed(h))
<1>1. h \in Handler /\ h.calls <= MaxCalls /\ h.model \in Models
  BY DEF Leaving, Handler
<1>2. CASE h.stream
  BY <1>1, <1>2, IdlePays DEF ModelFailed
<1>3. CASE ~h.stream /\ h.cur = h.model /\ HasFallbacks(h.model)
  BY <1>1, <1>3, Chains, NewOnesPay, NextPays DEF ModelFailed
<1>4. CASE ~h.stream /\ ~(h.cur = h.model /\ HasFallbacks(h.model))
  BY <1>4, NextPays DEF ModelFailed
<1> QED
  BY <1>2, <1>3, <1>4

LEMMA NonePays ==
  ASSUME IsFiniteSet(Models), NoOwnFallback, NoRepetition, NEW h, Paying(h), h.stage \in Selecting
  PROVE  Paying(NoneSelected(h))
<1>1. h \in Handler /\ h.calls <= MaxCalls /\ h.model \in Models /\ h.stage \notin Ended
  BY DEF Paying, Handler, Selecting, Ended
<1>2. Leaving(h)
  BY <1>1, LeavingNow
<1>3. CASE h.stream
  BY <1>1, <1>3, IdlePays DEF NoneSelected
<1>4. CASE ~h.stream /\ h.cur = h.model /\ HasFallbacks(h.model)
  <2>1. h.listed = {h.model}
    BY <1>1, <1>4 DEF Paying
  <2> QED
    BY <1>1, <1>2, <1>4, <2>1, Chains, UnseenPay, NextPays
      DEF NoneSelected, NoOwnFallback, NoRepetition
<1>5. CASE ~h.stream /\ ~(h.cur = h.model /\ HasFallbacks(h.model))
  BY <1>2, <1>5, NextPays DEF NoneSelected
<1> QED
  BY <1>3, <1>4, <1>5

\* An exception ends the attempt: another one, the failure is counted, or the
\* handler is left.
LEMMA RaisedPays ==
  ASSUME IsFiniteSet(Models), NEW h, Paying(h), h.stage \notin Ended \union Selecting
  PROVE  Paying(Raised(h))
<1> DEFINE s == [h EXCEPT !.stage = "sleep"]
           c == [h EXCEPT !.stage = "count", !.caught = TRUE]
<1>1. h \in Handler /\ h.model \in Models
  BY DEF Paying, Handler
<1>2. Paying(Idle)
  BY <1>1, IdlePays
<1>3. "sleep" \in Stages /\ "count" \in Stages
  BY StageNames
<1>4. /\ s \in Handler /\ s.stage = "sleep" /\ s.todo = h.todo /\ s.listed = h.listed
      /\ s.model = h.model /\ s.cur = h.cur /\ s.calls = h.calls /\ s.attempt = h.attempt
  BY <1>1, <1>3 DEF Handler
<1>5. /\ c \in Handler /\ c.stage = "count" /\ c.todo = h.todo /\ c.listed = h.listed
      /\ c.model = h.model /\ c.cur = h.cur /\ c.calls = h.calls /\ c.attempt = h.attempt
  BY <1>1, <1>3 DEF Handler
<1>6. Raised(h) \in {Idle, c} \/ (Raised(h) = s /\ h.attempt < NumRetries)
  BY DEF Raised
<1> HIDE DEF s, c
<1>7. s.calls - Due(s) <= h.calls - Due(h) /\ c.calls - Due(c) <= h.calls - Due(h)
  BY <1>1, <1>4, <1>5 DEF Due, Handler, Selecting
<1>8. h.attempt < NumRetries => Paying(s)
  BY <1>4, <1>7, Carries DEF Ended, Selecting
<1>9. Paying(c)
  BY <1>5, <1>7, Carries DEF Ended, Selecting
<1> QED
  BY <1>2, <1>6, <1>8, <1>9

Pays == \A r \in Requests : Paying(req[r])

\* What a handler does next costs no more than it may.
LEMMA HandlePays ==
  ASSUME IsFiniteSet(Models), NoOwnFallback, NoRepetition, IInv, Pays, NEW r \in Requests, Handle(r)
  PROVE  \E g : Paying(g) /\ Step(r, g)
<1> DEFINE h == req[r]
<1>1. Paying(h) /\ h \in Handler /\ h.calls <= MaxCalls
  BY DEF Pays, Paying
<1>0. /\ HandlerLike(h) /\ h.load \in Int /\ h.attempt \in 0..NumRetries /\ h.calls \in Nat
      /\ h.healthy \subseteq Deployments
  BY <1>1, HandlerFields DEF HandlerLike
<1>2. \A d \in Deployments : busy[d] \in Int /\ cooled[d] \in BOOLEAN
  BY DEF IInv, Typed
<1>3. ASSUME NEW d \in Deployments, IsCooledDown(r, d) PROVE \E g : Paying(g) /\ Step(r, g)
  <2> DEFINE g == [h EXCEPT !.unread = @ \ {d},
                            !.healthy = IF cooled[d] THEN @ ELSE @ \union {d}]
  <2>1. h.stage = "cooldowns" /\ Step(r, g)
    BY <1>3 DEF IsCooledDown
  <2>2. /\ g \in Handler /\ g.stage = h.stage /\ g.todo = h.todo /\ g.listed = h.listed
        /\ g.model = h.model /\ g.cur = h.cur /\ g.calls = h.calls /\ g.attempt = h.attempt
    BY <1>1, <1>2 DEF Handler
  <2> HIDE DEF g
  <2>3. g.calls - Due(g) <= h.calls - Due(h)
    BY <1>1, <2>1, <2>2 DEF Due, Handler
  <2>4. Paying(g)
    BY <1>1, <2>1, <2>2, <2>3, Carries DEF Ended, Selecting
  <2> QED
    BY <2>1, <2>4
<1>4. ASSUME NEW d \in Deployments, ReadBusy(r, d) PROVE \E g : Paying(g) /\ Step(r, g)
  <2> DEFINE g == [h EXCEPT !.unread = @ \ {d}, !.load = @ + busy[d]]
  <2>1. h.stage = "loads" /\ Step(r, g)
    BY <1>4 DEF ReadBusy
  <2>2. /\ g \in Handler /\ g.stage = h.stage /\ g.todo = h.todo /\ g.listed = h.listed
        /\ g.model = h.model /\ g.cur = h.cur /\ g.calls = h.calls /\ g.attempt = h.attempt
    <3>1. /\ HandlerLike(g) /\ g.stage = h.stage /\ g.todo = h.todo /\ g.listed = h.listed
          /\ g.model = h.model /\ g.cur = h.cur /\ g.calls = h.calls
          /\ g.attempt = h.attempt /\ g.load = h.load + busy[d]
      BY <1>0 DEF HandlerLike
    <3>2. g.load \in Int /\ g.attempt \in 0..NumRetries /\ g.calls \in Nat
      BY <1>0, <1>2, <3>1
    <3> QED
      BY <1>1, <3>1, <3>2, StillHandler
  <2> HIDE DEF g
  <2>3. g.calls - Due(g) <= h.calls - Due(h)
    BY <1>1, <2>1, <2>2 DEF Due, Handler
  <2>4. Paying(g)
    BY <1>1, <2>1, <2>2, <2>3, Carries DEF Ended, Selecting
  <2> QED
    BY <2>1, <2>4
<1>5. CASE FilterHealthy(r)
  <2> DEFINE g == [h EXCEPT !.stage = "loads",
                            !.unread = IF MaxParallel = 0 THEN {} ELSE h.healthy]
  <2>1. h.stage = "cooldowns" /\ (Step(r, g) \/ Step(r, NoneSelected(h)))
    BY <1>5 DEF FilterHealthy
  <2>2. "loads" \in Stages
    BY StageNames
  <2>3. /\ g \in Handler /\ g.stage = "loads" /\ g.todo = h.todo /\ g.listed = h.listed
        /\ g.model = h.model /\ g.cur = h.cur /\ g.calls = h.calls /\ g.attempt = h.attempt
    BY <1>1, <2>2 DEF Handler
  <2> HIDE DEF g
  <2>4. g.calls - Due(g) <= h.calls - Due(h)
    BY <1>1, <2>1, <2>3 DEF Due, Handler, Selecting
  <2>5. Paying(g)
    BY <1>1, <2>1, <2>3, <2>4, Carries DEF Ended, Selecting
  <2>6. Paying(NoneSelected(h))
    BY <1>1, <2>1, NonePays DEF Selecting
  <2> QED
    BY <2>1, <2>5, <2>6
<1>6. CASE SelectDeployment(r)
  <2>1. h.stage = "loads"
    BY <1>6 DEF SelectDeployment
  <2>2. Paying(NoneSelected(h))
    BY <1>1, <2>1, NonePays DEF Selecting
  <2>3. ASSUME NEW d \in h.healthy
        PROVE  Paying([h EXCEPT !.stage = "call", !.dep = d, !.healthy = {}, !.load = 0])
    <3> DEFINE g == [h EXCEPT !.stage = "call", !.dep = d, !.healthy = {}, !.load = 0]
    <3>1. "call" \in Stages /\ d \in Deployments
      BY <1>1, StageNames DEF Handler
    <3>2. /\ g \in Handler /\ g.stage = "call" /\ g.todo = h.todo /\ g.listed = h.listed
          /\ g.model = h.model /\ g.cur = h.cur /\ g.calls = h.calls /\ g.attempt = h.attempt
      <4>1. /\ HandlerLike(g) /\ g.stage = "call" /\ g.todo = h.todo /\ g.listed = h.listed
            /\ g.model = h.model /\ g.cur = h.cur /\ g.calls = h.calls
            /\ g.attempt = h.attempt /\ g.load = 0
        BY <1>0, <3>1 DEF HandlerLike
      <4>2. g.load \in Int /\ g.attempt \in 0..NumRetries /\ g.calls \in Nat
        BY <1>0, <4>1
      <4> QED
        BY <1>1, <4>1, <4>2, StillHandler
    <3> HIDE DEF g
    <3>3. g.calls - Due(g) <= h.calls - Due(h)
      BY <1>1, <2>1, <3>2 DEF Due, Handler, Selecting
    <3>4. Paying(g)
      BY <1>1, <2>1, <3>2, <3>3, Carries DEF Ended, Selecting
    <3> QED
      BY <3>4 DEF g
  <2> QED
    BY <1>6, <2>2, <2>3 DEF SelectDeployment
<1>7. CASE IncrBusy(r)
  <2> DEFINE g == [h EXCEPT !.stage = "expire"]
  <2>1. h.stage = "call" /\ Step(r, g)
    BY <1>7 DEF IncrBusy
  <2>2. "expire" \in Stages
    BY StageNames
  <2>3. /\ g \in Handler /\ g.stage = "expire" /\ g.todo = h.todo /\ g.listed = h.listed
        /\ g.model = h.model /\ g.cur = h.cur /\ g.calls = h.calls /\ g.attempt = h.attempt
    BY <1>1, <2>2 DEF Handler
  <2> HIDE DEF g
  <2>4. g.calls - Due(g) <= h.calls - Due(h)
    BY <1>1, <2>1, <2>3 DEF Due, Handler
  <2>5. Paying(g)
    BY <1>1, <2>1, <2>3, <2>4, Carries DEF Ended, Selecting
  <2> QED
    BY <2>1, <2>5
<1>8. CASE ExpireBusy(r)
  <2> DEFINE g == [h EXCEPT !.stage = "answer", !.calls = @ + 1]
  <2>0. MaxCalls \in Int /\ h.calls \in Nat
    BY <1>1, FS_CardinalityType, RoutingAssumption DEF MaxCalls, Handler
  <2>1. h.stage = "expire" /\ Step(r, g)
    <3>1. ~(h.calls > MaxCalls)
      BY <1>1, <2>0
    <3> QED
      BY <1>8, <3>1 DEF ExpireBusy
  <2>2. "answer" \in Stages
    BY StageNames
  <2>3. /\ g \in Handler /\ g.stage = "answer" /\ g.todo = h.todo /\ g.listed = h.listed
        /\ g.model = h.model /\ g.cur = h.cur /\ g.calls = h.calls + 1 /\ g.attempt = h.attempt
    <3>1. /\ HandlerLike(g) /\ g.stage = "answer" /\ g.todo = h.todo /\ g.listed = h.listed
          /\ g.model = h.model /\ g.cur = h.cur /\ g.calls = h.calls + 1
          /\ g.attempt = h.attempt /\ g.load = h.load
      BY <1>0, <2>2 DEF HandlerLike
    <3>2. g.load \in Int /\ g.attempt \in 0..NumRetries /\ g.calls \in Nat
      BY <1>0, <3>1
    <3> QED
      BY <1>1, <3>1, <3>2, StillHandler
  <2> HIDE DEF g
  <2>4. g.calls - Due(g) <= h.calls - Due(h)
    BY <1>1, <2>1, <2>3 DEF Due, Handler, Selecting
  <2>5. Paying(g)
    BY <1>1, <2>1, <2>3, <2>4, Carries DEF Ended, Selecting
  <2> QED
    BY <2>1, <2>5
<1>9. ASSUME NEW outcome, Answer(r, outcome) PROVE \E g : Paying(g) /\ Step(r, g)
  <2> DEFINE after == IF ShouldRetry(h.attempt, outcome) THEN "sleep" ELSE "count"
             more == GetFallbackModels(h.model, "context_window")
             g == [h EXCEPT !.stage = after]
             w == [h EXCEPT !.stage = "reset"]
  <2>1. /\ h.stage = "answer"
        /\ \/ Step(r, w) \/ Step(r, g) \/ Step(r, Idle) \/ Step(r, Raised(h))
           \/ Step(r, ModelFailed(ExtendedWithNew(h, more)))
    BY <1>9 DEF Answer
  <2>2. after \in Stages /\ "reset" \in Stages /\ after \in {"sleep", "count"}
        /\ (after = "sleep" => h.attempt < NumRetries)
    BY StageNames DEF ShouldRetry
  <2> HIDE DEF after
  <2>3. /\ g \in Handler /\ g.stage = after /\ g.todo = h.todo /\ g.listed = h.listed
        /\ g.model = h.model /\ g.cur = h.cur /\ g.calls = h.calls /\ g.attempt = h.attempt
    BY <1>1, <2>2 DEF Handler
  <2>4. /\ w \in Handler /\ w.stage = "reset" /\ w.todo = h.todo /\ w.listed = h.listed
        /\ w.model = h.model /\ w.cur = h.cur /\ w.calls = h.calls /\ w.attempt = h.attempt
    BY <1>1, <2>2 DEF Handler
  <2> HIDE DEF g, w
  <2>5. g.calls - Due(g) <= h.calls - Due(h) /\ w.calls - Due(w) <= h.calls - Due(h)
    BY <1>1, <2>1, <2>2, <2>3, <2>4 DEF Due, Handler, Selecting
  <2>6. Paying(g)
    BY <1>1, <2>1, <2>2, <2>3, <2>5, Carries DEF Ended, Selecting
  <2>7. Paying(w)
    BY <1>1, <2>1, <2>4, <2>5, Carries DEF Ended, Selecting
  <2>8. Leaving(h) /\ h.model \in Models
    BY <1>1, <2>1, LeavingNow DEF Ended, Handler
  <2>9. Paying(ModelFailed(ExtendedWithNew(h, more)))
    BY <2>8, Chains, NewOnesPay, FailedPays
  <2>10. Paying(Idle) /\ Paying(Raised(h))
    BY <1>1, <2>1, <2>8, IdlePays, RaisedPays DEF Ended, Selecting
  <2> QED
    BY <2>1, <2>6, <2>7, <2>9, <2>10
<1>10. CASE Retry(r)
  <2> DEFINE g == [h EXCEPT !.stage = "call", !.attempt = @ + 1]
  <2>1. h.stage = "sleep" /\ Step(r, g)
    BY <1>10 DEF Retry
  <2>2. "call" \in Stages /\ h.attempt < NumRetries /\ h.attempt + 1 \in 0..NumRetries
    <3>1. h.attempt < NumRetries
      BY <1>1, <2>1 DEF Paying, Ended
    <3>2. h.attempt \in 0..NumRetries /\ NumRetries \in Nat
      BY <1>0, RoutingAssumption
    <3> QED
      BY <3>1, <3>2, StageNames
  <2>3. /\ g \in Handler /\ g.stage = "call" /\ g.todo = h.todo /\ g.listed = h.listed
        /\ g.model = h.model /\ g.cur = h.cur /\ g.calls = h.calls /\ g.attempt = h.attempt + 1
    BY <1>1, <2>2 DEF Handler
  <2> HIDE DEF g
  <2>4. g.calls - Due(g) <= h.calls - Due(h)
    BY <1>1, <2>1, <2>3 DEF Due, Handler, Selecting
  <2>5. Paying(g)
    BY <1>1, <2>1, <2>3, <2>4, Carries DEF Ended, Selecting
  <2> QED
    BY <2>1, <2>5
<1>11. CASE ResetCooldown(r)
  BY <1>1, <1>11, IdlePays DEF ResetCooldown, Handler
<1>12. CASE IncrementFailure(r)
  <2> DEFINE g == [h EXCEPT !.stage = "activate"]
  <2>1. h.stage = "count" /\ (Step(r, g) \/ Step(r, ModelFailed(h)))
    BY <1>12 DEF IncrementFailure
  <2>2. "activate" \in Stages
    BY StageNames
  <2>3. /\ g \in Handler /\ g.stage = "activate" /\ g.todo = h.todo /\ g.listed = h.listed
        /\ g.model = h.model /\ g.cur = h.cur /\ g.calls = h.calls /\ g.attempt = h.attempt
    BY <1>1, <2>2 DEF Handler
  <2> HIDE DEF g
  <2>4. g.calls - Due(g) <= h.calls - Due(h)
    BY <1>1, <2>1, <2>3 DEF Due, Handler, Selecting
  <2>5. Paying(g)
    BY <1>1, <2>1, <2>3, <2>4, Carries DEF Ended, Selecting
  <2>6. Paying(ModelFailed(h))
    BY <1>1, <2>1, LeavingNow, FailedPays DEF Ended
  <2> QED
    BY <2>1, <2>5, <2>6
<1>13. CASE ActivateCooldown(r)
  <2> DEFINE g == [h EXCEPT !.stage = "erase"]
  <2>1. h.stage = "activate" /\ Step(r, g)
    BY <1>13 DEF ActivateCooldown
  <2>2. "erase" \in Stages
    BY StageNames
  <2>3. /\ g \in Handler /\ g.stage = "erase" /\ g.todo = h.todo /\ g.listed = h.listed
        /\ g.model = h.model /\ g.cur = h.cur /\ g.calls = h.calls /\ g.attempt = h.attempt
    BY <1>1, <2>2 DEF Handler
  <2> HIDE DEF g
  <2>4. g.calls - Due(g) <= h.calls - Due(h)
    BY <1>1, <2>1, <2>3 DEF Due, Handler, Selecting
  <2>5. Paying(g)
    BY <1>1, <2>1, <2>3, <2>4, Carries DEF Ended, Selecting
  <2> QED
    BY <2>1, <2>5
<1>14. CASE EraseFailures(r)
  BY <1>1, <1>14, LeavingNow, FailedPays DEF EraseFailures, Ended
<1> QED
  BY <1>3, <1>4, <1>5, <1>6, <1>7, <1>8, <1>9, <1>10, <1>11, <1>12, <1>13, <1>14 DEF Handle

LEMMA PaysStep ==
  ASSUME IsFiniteSet(Models), Models # {}, NoOwnFallback, NoRepetition, IInv, Pays, [Next]_vars
  PROVE  Pays'
<1>1. ASSUME NEW r \in Requests, NEW g, Paying(g), Step(r, g) PROVE Pays'
  <2>1. req' = [req EXCEPT ![r] = g] /\ req = [i \in Requests |-> req[i]]
    BY <1>1 DEF Step, IInv, Typed
  <2>2. \A i \in Requests : req'[i] = IF i = r THEN g ELSE req[i]
    BY <2>1
  <2> QED
    BY <1>1, <2>2 DEF Pays
<1>2. CASE UNCHANGED vars
  BY <1>2 DEF Pays, vars
<1>3. ASSUME NEW r \in Requests, Acts(r) PROVE Pays'
  <2>1. CASE Handle(r)
    BY <1>1, <2>1, HandlePays
  <2>2. ASSUME NEW m \in Models, NEW stream \in Streams, Arrive(r, m, stream) PROVE Pays'
    <3> DEFINE h == [Idle EXCEPT !.model = m, !.stream = stream, !.listed = {m}]
               g == Selection(h, m)
    <3>1. Step(r, g)
      BY <2>2 DEF Arrive
    <3>2. /\ HandlerLike(h) /\ h.model = m /\ h.listed = {m} /\ h.todo = <<>> /\ h.calls = 0
      <4>1. stream \in BOOLEAN
        BY RoutingAssumption
      <4>2. HandlerLike(Idle)
        BY IdleSound DEF Sound
      <4> QED
        BY <4>1, <4>2 DEF HandlerLike, Idle
    <3> HIDE DEF h
    <3>3. /\ HandlerLike(g) /\ g.stage = "cooldowns" /\ g.model = m /\ g.listed = {m}
          /\ g.cur = m
      BY <3>2, SelectionFields
    <3>4. g.todo = <<>> /\ g.calls = 0 /\ g.load = 0 /\ g.attempt = 0
      BY <3>2 DEF HandlerLike, Selection
    <3> HIDE DEF g
    <3>5. g \in Handler
      <4>1. /\ g.model \in Models /\ g.todo \in Seq(Models) /\ g.listed \in SUBSET Models
            /\ g.cur \in Models
        BY <3>3, <3>4
      <4>2. g.load \in Int /\ g.attempt \in 0..NumRetries /\ g.calls \in Nat
        BY <3>4, RoutingAssumption
      <4> QED
        BY <3>3, <4>1, <4>2, Composed, Zenon
    <3>6. <<>> \in Lists /\ Range(<<>>) = {}
      BY DEF Lists, IsInjective, Range
    <3>7. Started(g) = {m} /\ Cardinality({m}) = 1
      BY <3>3, <3>4, <3>6, FS_Singleton DEF Started
    <3>8. /\ g.calls <= MaxCalls
          /\ g.calls <= (Cardinality(Started(g)) - 1) * Turn + Due(g)
      <4>1. MaxCalls \in Nat
        BY FS_CardinalityType, RoutingAssumption DEF MaxCalls
      <4>2. Due(g) = 0
        BY <3>3, <3>4 DEF Due, Selecting
      <4>3. (1 - 1) * Turn = 0
        BY RoutingAssumption DEF Turn
      <4> QED
        BY <3>4, <3>7, <4>1, <4>2, <4>3
    <3>9. Paying(g)
      BY <3>3, <3>4, <3>5, <3>6, <3>7, <3>8 DEF Paying
    <3> QED
      BY <1>1, <3>1, <3>9
  <2>3. CASE Disconnect(r)
    BY <1>1, <2>3, IdlePays DEF Disconnect
  <2>4. CASE RedisRaises(r)
    <3>1. \/ Step(r, Idle)
          \/ Step(r, Raised(req[r])) /\ req[r].stage \notin Ended \union Selecting
      BY <2>4 DEF RedisRaises, SelectionRaises, BusyRaises, CooldownRaises, Calling, Ended, Selecting
    <3>2. req[r].stage \notin Ended \union Selecting => Paying(Raised(req[r]))
      BY RaisedPays DEF Pays
    <3> QED
      BY <1>1, <3>1, <3>2, IdlePays
  <2> QED
    BY <1>3, <2>1, <2>2, <2>3, <2>4 DEF Acts
<1>4. ASSUME NEW d \in Deployments, CooldownEnds(d) PROVE Pays'
  <2> SUFFICES ASSUME NEW r \in Requests PROVE Paying(req'[r])
    BY DEF Pays
  <2> DEFINE h == req[r]
             g == [h EXCEPT !.cold = @ \ {d}]
  <2>1. req'[r] = g /\ Paying(h) /\ h \in Handler /\ h.calls <= MaxCalls
    BY <1>4 DEF CooldownEnds, Pays, Paying
  <2>2. /\ g \in Handler /\ g.stage = h.stage /\ g.todo = h.todo /\ g.listed = h.listed
        /\ g.model = h.model /\ g.cur = h.cur /\ g.calls = h.calls /\ g.attempt = h.attempt
    BY <2>1 DEF Handler
  <2>3. Started(g) = Started(h) /\ Due(g) = Due(h)
    BY <2>2 DEF Started, Due
  <2> HIDE DEF g, h
  <2> QED
    BY <2>1, <2>2, <2>3 DEF Paying
<1>5. ASSUME NEW d \in Deployments, FailuresExpire(d) \/ BusyExpires(d) PROVE Pays'
  BY <1>5 DEF FailuresExpire, BusyExpires, Pays
<1>6. CASE Crash
  <2>1. \A r \in Requests : req'[r] = Idle
    BY <1>6 DEF Crash
  <2> QED
    BY <2>1, IdlePays DEF Pays
<1> QED
  BY <1>2, <1>3, <1>4, <1>5, <1>6, NextActs

\* Where no model is its own fallback and no list of standard fallbacks names a
\* model twice, the retries and fallbacks of a request cost at most
\* NumRetries + 1 calls per model.  The configuration ensures neither
\* (config.py:74-75), and chat.py:334 puts the fallbacks on the list unseen:
\* RoutingLoop shows what a model that is its own fallback costs.
THEOREM CallsAreBounded ==
  ASSUME IsFiniteSet(Models), Models # {}, NoOwnFallback, NoRepetition
  PROVE  Spec => []CallsBounded
<1>1. Init => Pays
  <2> SUFFICES ASSUME Init, NEW r \in Requests PROVE Paying(req[r])
    BY DEF Pays
  <2>1. req[r] = Idle
    BY DEF Init
  <2> QED
    BY <2>1, IdlePays
<1>2. IInv /\ Pays /\ [Next]_vars => Pays'
  BY PaysStep
<1>3. Pays => CallsBounded
  BY DEF Pays, Paying, CallsBounded
<1> QED
  BY <1>1, <1>2, <1>3, HandlersSound, PTL DEF Spec
=============================================================================

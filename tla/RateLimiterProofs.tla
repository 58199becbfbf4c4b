------------------------- MODULE RateLimiterProofs -------------------------
(***************************************************************************)
(* Proofs about RateLimiter: for any requests, chains, limits, windows and *)
(* delays, a request limit holds in real time, refuses nobody it has room  *)
(* for, and a quota is overrun by no more than the requests in the chain.  *)
(***************************************************************************)
EXTENDS RateLimiter, FiniteSetTheorems, FunctionTheorems, TLAPS

-----------------------------------------------------------------------------
(* Types, and the clocks of the requests.                                  *)

Typed ==
    /\ clock \in Nat
    /\ window \in [Limiters -> SUBSET (Requests \X Nat)]
    /\ \A d \in Limiters : IsFiniteSet(window[d])
    /\ quota \in [Limiters -> Nat]
    /\ deadline \in [Limiters -> Nat]
    /\ req \in [Requests -> Handler]
    /\ \A r \in Requests : req[r].pos \in 1..Len(Chain[r])
    /\ took \in [Requests -> [Limiters -> Nat \union {NotTaken}]]

\* A request in the chain came in at most MaxDelay ago; one that writes does
\* so for the limiter it has read.
OnTime(r) ==
    /\ req[r].now <= clock /\ req[r].at <= clock
    /\ req[r].stage \in Active => clock <= req[r].now + MaxDelay
    /\ req[r].stage # "idle" => req[r].tokens \in TokenCounts
    /\ req[r].stage = "write" => Kind[Current(r)] \in {"tokens", "quota"}
    /\ req[r].stage = "expire" => Kind[Current(r)] = "tokens"

Base == Typed /\ \A r \in Requests : OnTime(r)

\* The limiter a request stands before is one.
LEMMA Standing ==
  ASSUME Typed, NEW r \in Requests
  PROVE  /\ Current(r) \in Limiters /\ Len(Chain[r]) \in Nat \ {0}
         /\ Chain[r] \in Seq(Limiters) /\ DOMAIN Chain[r] = 1..Len(Chain[r])
         /\ req[r] \in Handler /\ req[r].pos \in 1..Len(Chain[r])
<1>1. Chain[r] \in Seq(Limiters) /\ req[r] \in Handler /\ req[r].pos \in 1..Len(Chain[r])
  BY RateLimiterAssumption DEF Typed
<1>2. Len(Chain[r]) \in Nat /\ req[r].pos >= 1 /\ req[r].pos <= Len(Chain[r])
  BY <1>1
<1>3. Len(Chain[r]) \in Nat \ {0}
  BY <1>1, <1>2
<1>4. DOMAIN Chain[r] = 1..Len(Chain[r]) /\ Chain[r][req[r].pos] \in Limiters
  BY <1>1
<1> QED
  BY <1>1, <1>3, <1>4 DEF Current

\* What a step makes of the request that takes it.
Comes(r, h) ==
    /\ req[r].stage = "idle" /\ h.stage = "check" /\ h.now = clock /\ h.at = req[r].at
    /\ h.tokens \in TokenCounts /\ h.pos = req[r].pos

Goes(r, h) ==
    /\ req[r].stage \in Active /\ h.stage # "idle" /\ h.now = req[r].now
    /\ h.tokens = req[r].tokens
    /\ \/ h.stage = "rejected" /\ req[r].stage = "check" /\ h.at = clock /\ h.pos = req[r].pos
       \/ /\ h.at = req[r].at
          /\ \/ h.stage = "error" /\ h.pos = req[r].pos
             \/ /\ h.stage = "write" /\ h.pos = req[r].pos
                /\ req[r].stage = "check" /\ Kind[Current(r)] \in {"tokens", "quota"}
             \/ /\ h.stage = "expire" /\ h.pos = req[r].pos
                /\ req[r].stage = "write" /\ Kind[Current(r)] = "tokens"
             \/ h.stage = "admitted" /\ h.pos = req[r].pos
             \/ h.stage = "check" /\ h.pos = req[r].pos + 1

\* How a request leaves a limiter.
LEMMA Leaving ==
  ASSUME Typed, NEW r \in Requests, req[r].stage \in Active
  PROVE  /\ Pass(r, req[r]) \in Handler /\ Goes(r, Pass(r, req[r]))
         /\ Pass(r, req[r]).stage \in {"check", "admitted"}
         /\ Pass(r, req[r]).pos \in 1..Len(Chain[r])
         /\ req[r].stage = "check" => Refuse(req[r]) \in Handler /\ Goes(r, Refuse(req[r]))
         /\ Refuse(req[r]).stage = "rejected" /\ Refuse(req[r]).pos = req[r].pos
<1>1. /\ req[r] \in Handler /\ req[r].pos \in 1..Len(Chain[r]) /\ Len(Chain[r]) \in Nat
      /\ clock \in Nat
  BY Standing DEF Typed
<1>2. {"check", "admitted", "rejected"} \subseteq Stages
  BY DEF Stages, Active
<1>3. /\ Refuse(req[r]) \in Handler /\ Refuse(req[r]).stage = "rejected"
      /\ Refuse(req[r]).pos = req[r].pos
      /\ req[r].stage = "check" => Goes(r, Refuse(req[r]))
  BY <1>1, <1>2 DEF Handler, Refuse, Goes
<1>4. CASE req[r].pos = Len(Chain[r])
  <2>1. Pass(r, req[r]) = [req[r] EXCEPT !.stage = "admitted"]
    BY <1>4 DEF Pass
  <2> DEFINE h == Pass(r, req[r])
  <2>2. /\ h \in Handler /\ h.pos = req[r].pos /\ h.stage = "admitted" /\ h.now = req[r].now
        /\ h.tokens = req[r].tokens /\ h.at = req[r].at
    BY <1>1, <1>2, <2>1 DEF Handler
  <2> HIDE DEF h
  <2>3. Goes(r, h)
    BY <2>2 DEF Goes
  <2> QED
    BY <1>1, <1>3, <2>2, <2>3 DEF h
<1>5. CASE req[r].pos # Len(Chain[r])
  <2>1. Pass(r, req[r]) = [[req[r] EXCEPT !.stage = "check"] EXCEPT !.pos = req[r].pos + 1]
    BY <1>1, <1>5 DEF Pass, Handler
  <2>2. req[r].pos + 1 \in 1..Len(Chain[r]) /\ req[r].pos + 1 \in Nat
    BY <1>1, <1>5
  <2> DEFINE h == Pass(r, req[r])
  <2>3. /\ h \in Handler /\ h.pos = req[r].pos + 1 /\ h.stage = "check" /\ h.now = req[r].now
        /\ h.tokens = req[r].tokens /\ h.at = req[r].at
    BY <1>1, <1>2, <2>1, <2>2 DEF Handler
  <2> HIDE DEF h
  <2>4. Goes(r, h)
    BY <2>3 DEF Goes
  <2> QED
    BY <1>3, <2>2, <2>3, <2>4 DEF h
<1> QED
  BY <1>3, <1>4, <1>5

-----------------------------------------------------------------------------
(* The steps, as the proofs see them.                                      *)

\* The parts of the state that belong to the limiter d.
Same(d) ==
    /\ window'[d] = window[d] /\ quota'[d] = quota[d]
    /\ Kind[d] = "window" => deadline'[d] = deadline[d]
    /\ \A s \in Requests : took'[s][d] = took[s][d]

\* Request r moves and nothing of limiter d is written.
Elsewhere(r) == \A d \in Limiters : Same(d)

\* The window script lets r pass, or refuses it.
Admits(r) ==
    LET d == Current(r)
        left == Pruned(Alive(d, window[d]), req[r].now)
    IN  /\ Kind[d] = "window" /\ Limit[d] \in Nat /\ req[r].stage = "check"
        /\ Cardinality(left) < Limit[d]
        /\ window'[d] = left \union {<<r, req[r].now>>}
        /\ deadline'[d] = clock + Window
        /\ quota'[d] = quota[d]
        /\ took'[r][d] = clock
        /\ \A s \in Requests \ {r} : took'[s][d] = took[s][d]
        /\ \A e \in Limiters \ {d} : Same(e)
        /\ req'[r].stage \in {"check", "admitted"}

Refuses(r) ==
    LET d == Current(r)
        left == Pruned(Alive(d, window[d]), req[r].now)
    IN  /\ Kind[d] = "window" /\ req[r].stage = "check"
        /\ Cardinality(left) >= Limit[d]
        /\ window'[d] = left
        /\ deadline'[d] = deadline[d] /\ quota'[d] = quota[d]
        /\ \A s \in Requests : took'[s][d] = took[s][d]
        /\ \A e \in Limiters \ {d} : Same(e)
        /\ req'[r] = Refuse(req[r])

\* A limiter of another kind writes.
Writes(r) ==
    LET d == Current(r)
    IN  /\ Kind[d] # "window" /\ req[r].stage = "write"
        /\ window'[d] = window[d]
        /\ took'[r][d] = clock
        /\ \A s \in Requests \ {r} : took'[s][d] = took[s][d]
        /\ \A e \in Limiters \ {d} : Same(e)
        /\ \/ Kind[d] = "quota" /\ quota'[d] = quota[d] + req[r].tokens
           \/ Kind[d] = "tokens" /\ quota'[d] = quota[d]

\* The kinds of steps of a request.
Kinds(r) ==
    \/ /\ Elsewhere(r)
       /\ \/ Comes(r, req'[r])
          \/ Goes(r, req'[r]) /\ ~(req'[r].stage = "rejected" /\ Kind[Current(r)] = "window")
       /\ \/ req'[r].stage # "write"
          \/ /\ Kind[Current(r)] = "quota" =>
                   OverQuota(quota[Current(r)], req[r].tokens, Limit[Current(r)]) = FALSE
             /\ req[r].stage = "check"
    \/ Admits(r) /\ Goes(r, req'[r])
    \/ Refuses(r) /\ Goes(r, req'[r])
    \/ Writes(r) /\ Goes(r, req'[r])

Step(r) ==
    \/ \E tokens \in TokenCounts : Arrive(r, tokens)
    \/ Skip(r) \/ ParseBlank(r) \/ SlidingWindow(r) \/ ReadTokens(r) \/ WriteTokens(r)
    \/ ExpireTokens(r) \/ ReadQuota(r) \/ WriteQuota(r)

\* The others wait; the request moves on.
Others(r) == clock' = clock /\ \A s \in Requests \ {r} : req'[s] = req[s]

\* PEXPIRE, or what the lapse of a sorted set leaves of it, is a write to one key.
LEMMA DeadlineWritten ==
  ASSUME deadline \in [Limiters -> Nat], NEW d \in Limiters, NEW until \in Nat,
         deadline' = [deadline EXCEPT ![d] = until]
  PROVE  /\ deadline' \in [Limiters -> Nat]
         /\ \A e \in Limiters \ {d} : deadline'[e] = deadline[e]
OBVIOUS

LEMMA StepKinds ==
  ASSUME Base, NEW r \in Requests, Step(r)
  PROVE  Kinds(r) /\ Others(r) /\ Typed'
<1>1. /\ req[r] \in Handler /\ Current(r) \in Limiters /\ req[r].pos \in 1..Len(Chain[r])
      /\ clock \in Nat /\ Typed
  BY Standing DEF Base, Typed
<1>2. ASSUME NEW h \in Handler, h.pos \in 1..Len(Chain[r]), req' = [req EXCEPT ![r] = h],
             UNCHANGED clock
      PROVE  /\ req' \in [Requests -> Handler] /\ req'[r] = h /\ Others(r)
             /\ \A s \in Requests : req'[s].pos \in 1..Len(Chain[s])
  BY <1>1, <1>2 DEF Typed, Others
<1>3. ASSUME NEW h \in Handler, req' = [req EXCEPT ![r] = h], h.pos \in 1..Len(Chain[r]),
             UNCHANGED <<clock, window, quota, took>>,
             \/ UNCHANGED deadline
             \/ /\ deadline' \in [Limiters -> Nat] /\ Kind[Current(r)] # "window"
                /\ \A e \in Limiters \ {Current(r)} : deadline'[e] = deadline[e]
      PROVE  Elsewhere(r) /\ req'[r] = h /\ Others(r) /\ Typed'
  <2>1. Typed'
    BY <1>1, <1>2, <1>3 DEF Typed
  <2>2. Elsewhere(r)
    BY <1>1, <1>3 DEF Elsewhere, Same
  <2> QED
    BY <1>2, <1>3, <2>1, <2>2
<1>4. CASE \E tokens \in TokenCounts : Arrive(r, tokens)
  <2>1. PICK tokens \in TokenCounts : Arrive(r, tokens)
    BY <1>4
  <2> DEFINE h == [[[req[r] EXCEPT !.stage = "check"] EXCEPT !.now = clock] EXCEPT !.tokens = tokens]
  <2>2. req[r].stage = "idle" /\ req' = [req EXCEPT ![r] = h]
        /\ UNCHANGED <<clock, window, quota, deadline, took>>
    BY <2>1 DEF Arrive
  <2>3. tokens \in Nat /\ "check" \in Stages
    BY RateLimiterAssumption DEF Stages, Active
  <2>4. /\ h \in Handler /\ h.pos = req[r].pos /\ h.stage = "check" /\ h.now = clock
        /\ h.tokens = tokens /\ h.at = req[r].at
    BY <1>1, <2>3 DEF Handler
  <2> HIDE DEF h
  <2>5. Elsewhere(r) /\ req'[r] = h /\ Others(r) /\ Typed'
    BY <1>1, <1>3, <2>2, <2>4
  <2>6. Comes(r, h)
    BY <2>2, <2>4 DEF Comes
  <2> QED
    BY <2>4, <2>5, <2>6 DEF Kinds
<1>5. CASE Skip(r)
  <2>1. /\ req[r].stage = "check" /\ req' = [req EXCEPT ![r] = Pass(r, req[r])]
        /\ UNCHANGED <<clock, window, quota, deadline, took>>
    BY <1>5 DEF Skip
  <2>2. /\ Pass(r, req[r]) \in Handler /\ Goes(r, Pass(r, req[r]))
        /\ Pass(r, req[r]).stage \in {"check", "admitted"}
        /\ Pass(r, req[r]).pos \in 1..Len(Chain[r])
    BY <1>1, <2>1, Leaving DEF Active
  <2>3. Elsewhere(r) /\ req'[r] = Pass(r, req[r]) /\ Others(r) /\ Typed'
    BY <1>3, <2>1, <2>2
  <2> QED
    BY <2>2, <2>3 DEF Kinds
<1>6. CASE ParseBlank(r)
  <2> DEFINE h == [req[r] EXCEPT !.stage = "error"]
  <2>1. /\ req[r].stage = "check" /\ req' = [req EXCEPT ![r] = h]
        /\ UNCHANGED <<clock, window, quota, deadline, took>>
    BY <1>6 DEF ParseBlank
  <2>2. "error" \in Stages
    BY DEF Stages
  <2>3. /\ h \in Handler /\ h.pos = req[r].pos /\ h.stage = "error" /\ h.now = req[r].now
        /\ h.tokens = req[r].tokens /\ h.at = req[r].at
    BY <1>1, <2>2 DEF Handler
  <2> HIDE DEF h
  <2>4. Elsewhere(r) /\ req'[r] = h /\ Others(r) /\ Typed'
    BY <1>1, <1>3, <2>1, <2>3
  <2>5. Goes(r, h)
    BY <2>1, <2>3 DEF Goes, Active
  <2> QED
    BY <2>3, <2>4, <2>5 DEF Kinds
<1>7. CASE SlidingWindow(r)
  <2> DEFINE d == Current(r)
             left == Pruned(Alive(d, window[d]), req[r].now)
  <2>1. /\ req[r].stage = "check" /\ Kind[d] = "window" /\ Limit[d] \in Nat
        /\ UNCHANGED <<clock, quota>>
    BY <1>1, <1>7, RateLimiterAssumption DEF SlidingWindow, Before
  <2>2. left \subseteq Requests \X Nat /\ IsFiniteSet(left) /\ Cardinality(left) \in Nat
    <3>1. left \subseteq window[d]
      BY DEF Pruned, Alive
    <3>2. window[d] \subseteq Requests \X Nat /\ IsFiniteSet(window[d])
      BY <1>1 DEF Typed
    <3> HIDE DEF left
    <3>3. left \in SUBSET window[d]
      BY <3>1
    <3> QED
      BY <3>2, <3>3, FS_Subset, FS_CardinalityType
  <2>3. /\ Pass(r, req[r]) \in Handler /\ Goes(r, Pass(r, req[r]))
        /\ Pass(r, req[r]).stage \in {"check", "admitted"}
        /\ Pass(r, req[r]).pos \in 1..Len(Chain[r])
        /\ Refuse(req[r]) \in Handler /\ Goes(r, Refuse(req[r])) /\ Refuse(req[r]).pos = req[r].pos
    BY <1>1, <2>1, Leaving DEF Active
  <2>4. CASE Cardinality(left) >= Limit[d]
    <3>1. /\ window' = [window EXCEPT ![d] = left] /\ req' = [req EXCEPT ![r] = Refuse(req[r])]
          /\ UNCHANGED <<deadline, took>>
      BY <1>7, <2>4 DEF SlidingWindow
    <3> HIDE DEF left
    <3>2. /\ req' \in [Requests -> Handler] /\ req'[r] = Refuse(req[r]) /\ Others(r)
          /\ \A s \in Requests : req'[s].pos \in 1..Len(Chain[s])
      BY <1>1, <1>2, <2>1, <2>3, <3>1
    <3>3. /\ window' \in [Limiters -> SUBSET (Requests \X Nat)] /\ window'[d] = left
          /\ \A e \in Limiters \ {d} : window'[e] = window[e]
          /\ \A e \in Limiters : IsFiniteSet(window'[e])
      BY <1>1, <2>2, <3>1 DEF Typed
    <3>4. Typed'
      BY <1>1, <2>1, <3>1, <3>2, <3>3 DEF Typed
    <3>5. \A e \in Limiters \ {d} : Same(e)
      BY <2>1, <3>1, <3>3 DEF Same
    <3>6. Refuses(r)
      BY <2>1, <2>4, <3>1, <3>2, <3>3, <3>5 DEF Refuses, left
    <3> QED
      BY <2>3, <3>2, <3>4, <3>6 DEF Kinds
  <2>5. CASE ~(Cardinality(left) >= Limit[d])
    <3> DEFINE more == left \union {<<r, req[r].now>>}
    <3>1. /\ window' = [window EXCEPT ![d] = more]
          /\ deadline' = [deadline EXCEPT ![d] = clock + Window]
          /\ took' = [took EXCEPT ![r][d] = clock] /\ req' = [req EXCEPT ![r] = Pass(r, req[r])]
      BY <1>7, <2>5 DEF SlidingWindow
    <3>2. more \subseteq Requests \X Nat /\ IsFiniteSet(more)
      <4> HIDE DEF left
      <4>1. IsFiniteSet(more)
        BY <2>2, FS_AddElement
      <4> QED
        BY <1>1, <2>2, <4>1 DEF Handler
    <3>3. Cardinality(left) < Limit[d]
      <4> HIDE DEF left
      <4> QED
        BY <2>1, <2>2, <2>5
    <3> HIDE DEF more
    <3>4. /\ req' \in [Requests -> Handler] /\ req'[r] = Pass(r, req[r]) /\ Others(r)
          /\ \A s \in Requests : req'[s].pos \in 1..Len(Chain[s])
      BY <1>1, <1>2, <2>1, <2>3, <3>1
    <3>5. /\ window' \in [Limiters -> SUBSET (Requests \X Nat)] /\ window'[d] = more
          /\ \A e \in Limiters \ {d} : window'[e] = window[e]
          /\ \A e \in Limiters : IsFiniteSet(window'[e])
      BY <1>1, <3>1, <3>2 DEF Typed
    <3>6. /\ deadline' \in [Limiters -> Nat] /\ deadline'[d] = clock + Window
          /\ \A e \in Limiters \ {d} : deadline'[e] = deadline[e]
      BY <1>1, <3>1, RateLimiterAssumption DEF Typed
    <3>7. /\ took' \in [Requests -> [Limiters -> Nat \union {NotTaken}]] /\ took'[r][d] = clock
          /\ \A s \in Requests, e \in Limiters : s # r \/ e # d => took'[s][e] = took[s][e]
      BY <1>1, <3>1 DEF Typed
    <3>8. Typed'
      BY <1>1, <2>1, <3>4, <3>5, <3>6, <3>7 DEF Typed
    <3>9. \A e \in Limiters \ {d} : Same(e)
      BY <2>1, <3>5, <3>6, <3>7 DEF Same
    <3>10. Admits(r)
      <4>1. /\ \A s \in Requests \ {r} : took'[s][d] = took[s][d]
            /\ req'[r].stage \in {"check", "admitted"} /\ quota'[d] = quota[d]
        BY <1>1, <2>1, <2>3, <3>4, <3>7
      <4> QED
        BY <2>1, <3>3, <3>5, <3>6, <3>7, <3>9, <4>1 DEF Admits, left, more
    <3> QED
      BY <2>3, <3>4, <3>8, <3>10 DEF Kinds
  <2> QED
    BY <2>4, <2>5
<1>8. ASSUME NEW stage \in {"write", "expire"}, req' = [req EXCEPT ![r] = [req[r] EXCEPT !.stage = stage]]
      PROVE  LET h == [req[r] EXCEPT !.stage = stage]
             IN  /\ h \in Handler /\ h.pos = req[r].pos /\ h.stage = stage /\ h.now = req[r].now
                 /\ h.tokens = req[r].tokens /\ h.at = req[r].at
  <2>1. stage \in Stages
    BY DEF Stages, Active
  <2> QED
    BY <1>1, <2>1 DEF Handler
<1>9. CASE ReadTokens(r) \/ ReadQuota(r)
  <2> DEFINE d == Current(r)
             h == [req[r] EXCEPT !.stage = "write"]
  <2>1. /\ req[r].stage = "check" /\ Kind[d] \in {"tokens", "quota"}
        /\ UNCHANGED <<clock, window, quota, deadline, took>>
        /\ req' \in {[req EXCEPT ![r] = Refuse(req[r])], [req EXCEPT ![r] = h]}
        /\ Kind[d] = "quota" /\ req' # [req EXCEPT ![r] = Refuse(req[r])]
             => ~OverQuota(quota[d], req[r].tokens, Limit[d])
    BY <1>9 DEF ReadTokens, ReadQuota, Before
  <2>2. /\ Refuse(req[r]) \in Handler /\ Goes(r, Refuse(req[r])) /\ Refuse(req[r]).pos = req[r].pos
        /\ Refuse(req[r]).stage = "rejected"
    BY <1>1, <2>1, Leaving DEF Active
  <2>3. CASE req' = [req EXCEPT ![r] = Refuse(req[r])]
    <3>1. Elsewhere(r) /\ req'[r] = Refuse(req[r]) /\ Others(r) /\ Typed'
      BY <1>1, <1>3, <2>1, <2>2, <2>3
    <3> QED
      BY <2>1, <2>2, <3>1 DEF Kinds
  <2>4. CASE req' # [req EXCEPT ![r] = Refuse(req[r])]
    <3>1. req' = [req EXCEPT ![r] = h]
      BY <2>1, <2>4
    <3>2. /\ h \in Handler /\ h.pos = req[r].pos /\ h.stage = "write" /\ h.now = req[r].now
          /\ h.tokens = req[r].tokens /\ h.at = req[r].at
      BY <1>8, <3>1
    <3> HIDE DEF h
    <3>3. Elsewhere(r) /\ req'[r] = h /\ Others(r) /\ Typed'
      BY <1>1, <1>3, <2>1, <3>1, <3>2
    <3>4. Goes(r, h)
      BY <2>1, <3>2 DEF Goes, Active
    <3>5. Kind[d] = "quota" => OverQuota(quota[d], req[r].tokens, Limit[d]) = FALSE
      BY <2>1, <2>4
    <3> QED
      BY <2>1, <3>2, <3>3, <3>4, <3>5 DEF Kinds
  <2> QED
    BY <2>3, <2>4
<1>10. CASE ExpireTokens(r)
  <2> DEFINE d == Current(r)
  <2>1. /\ req[r].stage = "expire" /\ req' = [req EXCEPT ![r] = Pass(r, req[r])]
        /\ UNCHANGED <<clock, window, quota, took>>
        /\ deadline' = [deadline EXCEPT ![d] = IF ledger[d] = {} THEN @ ELSE clock + Window]
    BY <1>10 DEF ExpireTokens
  <2>2. /\ Pass(r, req[r]) \in Handler /\ Goes(r, Pass(r, req[r]))
        /\ Pass(r, req[r]).stage \in {"check", "admitted"}
        /\ Pass(r, req[r]).pos \in 1..Len(Chain[r])
    BY <1>1, <2>1, Leaving DEF Active
  <2>3. Kind[d] = "tokens"
    BY <2>1 DEF Base, OnTime
  <2>4. /\ deadline' \in [Limiters -> Nat]
        /\ \A e \in Limiters \ {d} : deadline'[e] = deadline[e]
    <3>1. deadline \in [Limiters -> Nat] /\ d \in Limiters
      BY <1>1 DEF Typed
    <3> DEFINE until == IF ledger[d] = {} THEN deadline[d] ELSE clock + Window
    <3>2. deadline' = [deadline EXCEPT ![d] = until]
      BY <2>1
    <3>3. clock + Window \in Nat /\ deadline[d] \in Nat
      BY <1>1, <3>1, RateLimiterAssumption
    <3>4. until \in Nat
      BY <3>3
    <3> HIDE DEF d, until
    <3> QED
      BY <3>1, <3>2, <3>4, DeadlineWritten
  <2>5. Elsewhere(r) /\ req'[r] = Pass(r, req[r]) /\ Others(r) /\ Typed'
    BY <1>3, <2>1, <2>2, <2>3, <2>4
  <2> QED
    BY <2>2, <2>5 DEF Kinds
<1>11. ASSUME NEW h \in Handler, h.pos \in 1..Len(Chain[r]), req' = [req EXCEPT ![r] = h],
              Goes(r, h), req[r].stage = "write", Kind[Current(r)] # "window",
              UNCHANGED <<clock, window>>,
              took' = [took EXCEPT ![r][Current(r)] = clock],
              deadline' \in [Limiters -> Nat],
              \A e \in Limiters \ {Current(r)} : deadline'[e] = deadline[e],
              \/ Kind[Current(r)] = "tokens" /\ UNCHANGED quota
              \/ /\ Kind[Current(r)] = "quota"
                 /\ quota' = [quota EXCEPT ![Current(r)] = @ + req[r].tokens]
       PROVE  Kinds(r) /\ Others(r) /\ Typed'
  <2> DEFINE d == Current(r)
  <2>1. /\ took' \in [Requests -> [Limiters -> Nat \union {NotTaken}]] /\ took'[r][d] = clock
        /\ \A s \in Requests, e \in Limiters : s # r \/ e # d => took'[s][e] = took[s][e]
    BY <1>1, <1>11 DEF Typed
  <2>2. /\ quota' \in [Limiters -> Nat]
        /\ \A e \in Limiters \ {d} : quota'[e] = quota[e]
        /\ \/ Kind[d] = "quota" /\ quota'[d] = quota[d] + req[r].tokens
           \/ Kind[d] = "tokens" /\ quota'[d] = quota[d]
    <3>1. req[r].tokens \in Nat /\ quota \in [Limiters -> Nat] /\ d \in Limiters
      BY <1>1 DEF Typed, Handler
    <3>2. CASE Kind[d] = "tokens" /\ UNCHANGED quota
      BY <3>1, <3>2
    <3>3. CASE Kind[d] = "quota" /\ quota' = [quota EXCEPT ![d] = @ + req[r].tokens]
      <4> HIDE DEF d
      <4>1. quota'[d] = quota[d] + req[r].tokens /\ quota[d] + req[r].tokens \in Nat
        BY <3>1, <3>3
      <4>2. \A e \in Limiters \ {d} : quota'[e] = quota[e]
        BY <3>1, <3>3
      <4>3. quota' \in [Limiters -> Nat]
        BY <3>1, <3>3, <4>1
      <4> QED
        BY <3>3, <4>1, <4>2, <4>3
    <3> QED
      BY <1>11, <3>2, <3>3
  <2>3. /\ req' \in [Requests -> Handler] /\ req'[r] = h /\ Others(r)
        /\ \A s \in Requests : req'[s].pos \in 1..Len(Chain[s])
    BY <1>2, <1>11
  <2>4. Typed'
    BY <1>1, <1>11, <2>1, <2>2, <2>3 DEF Typed
  <2>5. \A e \in Limiters \ {d} : Same(e)
    BY <1>11, <2>1, <2>2 DEF Same
  <2>6. \A s \in Requests \ {r} : took'[s][d] = took[s][d]
    BY <1>1, <2>1
  <2>7. Writes(r)
    BY <1>11, <2>1, <2>2, <2>5, <2>6 DEF Writes
  <2> QED
    BY <1>11, <2>3, <2>4, <2>7 DEF Kinds
<1>12. CASE WriteTokens(r)
  <2> DEFINE d == Current(r)
             h == [req[r] EXCEPT !.stage = "expire"]
  <2>1. /\ req[r].stage = "write" /\ Kind[d] = "tokens"
        /\ UNCHANGED <<clock, window, quota>> /\ took' = [took EXCEPT ![r][d] = clock]
        /\ deadline' = [deadline EXCEPT ![d] = IF Alive(d, ledger[d]) = {} THEN MaxTime + 1 ELSE @]
        /\ req' = [req EXCEPT ![r] = h]
    BY <1>12 DEF WriteTokens
  <2>2. /\ h \in Handler /\ h.pos = req[r].pos /\ h.stage = "expire" /\ h.now = req[r].now
        /\ h.tokens = req[r].tokens /\ h.at = req[r].at
    BY <1>8, <2>1
  <2> HIDE DEF h
  <2>3. Goes(r, h)
    BY <2>1, <2>2 DEF Goes, Active
  <2>4. /\ deadline' \in [Limiters -> Nat]
        /\ \A e \in Limiters \ {d} : deadline'[e] = deadline[e]
    <3>1. deadline \in [Limiters -> Nat] /\ d \in Limiters
      BY <1>1 DEF Typed
    <3> DEFINE until == IF Alive(d, ledger[d]) = {} THEN MaxTime + 1 ELSE deadline[d]
    <3>2. deadline' = [deadline EXCEPT ![d] = until]
      BY <2>1
    <3>3. MaxTime + 1 \in Nat /\ deadline[d] \in Nat
      BY <3>1, RateLimiterAssumption
    <3>4. until \in Nat
      BY <3>3
    <3> HIDE DEF d, until
    <3> QED
      BY <3>1, <3>2, <3>4, DeadlineWritten
  <2> QED
    BY <1>1, <1>11, <2>1, <2>2, <2>3, <2>4
<1>13. CASE WriteQuota(r)
  <2> DEFINE d == Current(r)
  <2>1. /\ req[r].stage = "write" /\ Kind[d] = "quota"
        /\ UNCHANGED <<clock, window, deadline>> /\ took' = [took EXCEPT ![r][d] = clock]
        /\ quota' = [quota EXCEPT ![d] = @ + req[r].tokens]
        /\ req' = [req EXCEPT ![r] = Pass(r, req[r])]
    BY <1>13 DEF WriteQuota
  <2>2. /\ Pass(r, req[r]) \in Handler /\ Goes(r, Pass(r, req[r]))
        /\ Pass(r, req[r]).pos \in 1..Len(Chain[r])
    BY <1>1, <2>1, Leaving DEF Active
  <2>3. deadline' \in [Limiters -> Nat] /\ \A e \in Limiters \ {d} : deadline'[e] = deadline[e]
    BY <1>1, <2>1 DEF Typed
  <2> QED
    BY <1>11, <2>1, <2>2, <2>3
<1> QED
  BY <1>4, <1>5, <1>6, <1>7, <1>9, <1>10, <1>12, <1>13 DEF Step

-----------------------------------------------------------------------------
(* The invariants.                                                         *)

\* What limiter d let pass has left it, at most MaxDelay after it came in, and
\* the sorted set lives on for a window.
PassedBy(s) ==
    \A d \in Limiters : took[s][d] # NotTaken =>
        /\ req[s].stage # "idle"
        /\ \E i \in 1..Len(Chain[s]) :
              /\ Chain[s][i] = d /\ i <= req[s].pos
              /\ i = req[s].pos => req[s].stage \notin {"check", "write"}
        /\ req[s].now <= took[s][d] /\ took[s][d] <= req[s].now + MaxDelay
        /\ took[s][d] <= clock
        /\ Kind[d] = "window" => took[s][d] + Window <= deadline[d]

Score(s) == <<s, req[s].now>>

\* The sorted set of a request limit holds requests it let pass, and all of them
\* that are not older than the window less the delay.
Scored(d) ==
    Kind[d] = "window" =>
        /\ \A e \in window[d] : e = Score(e[1]) /\ took[e[1]][d] # NotTaken
        /\ \A s \in Requests :
              took[s][d] # NotTaken /\ took[s][d] > clock - (Window - MaxDelay)
                => Score(s) \in window[d]

IInv ==
    /\ Base
    /\ \A s \in Requests : PassedBy(s)
    /\ \A d \in Limiters : Scored(d)

\* What the step of another request leaves of a request, and its own.
LEMMA Lives ==
  ASSUME Base, NEW r \in Requests, Kinds(r), Others(r), Typed', NEW s \in Requests,
         req[s].stage # "idle"
  PROVE  req'[s] = req[s] \/ (s = r /\ Goes(r, req'[r]))
BY DEF Kinds, Others, Comes

LEMMA BaseStep ==
  ASSUME Base, NEW r \in Requests, Kinds(r), Others(r), Typed'
  PROVE  Base'
<1>1. Typed /\ clock' = clock /\ clock \in Nat
  BY DEF Base, Typed, Others
<1>2. ASSUME NEW s \in Requests
      PROVE  OnTime(s)'
  <2>1. CASE req'[s] = req[s]
    BY <1>1, <2>1 DEF Base, OnTime, Current
  <2>2. CASE s = r /\ Comes(r, req'[r])
    BY <1>1, <2>2, RateLimiterAssumption DEF Base, OnTime, Comes, Current, Typed, Handler
  <2>3. CASE s = r /\ Goes(r, req'[r])
    <3>1. /\ req'[r].now = req[r].now /\ req'[r].at \in {req[r].at, clock}
          /\ req'[r].tokens = req[r].tokens /\ req[r].stage \in Active
      BY <2>3 DEF Goes
    <3>2. /\ req'[r].stage = "write" => Kind[Current(r)'] \in {"tokens", "quota"}
          /\ req'[r].stage = "expire" => Kind[Current(r)'] = "tokens"
      BY <2>3 DEF Goes, Current
    <3>3. req[r].tokens \in TokenCounts /\ req[r].now <= clock /\ req[r].at <= clock
          /\ clock <= req[r].now + MaxDelay
      BY <3>1 DEF Base, OnTime, Active
    <3> QED
      BY <1>1, <2>3, <3>1, <3>2, <3>3 DEF OnTime
  <2> QED
    BY <2>1, <2>2, <2>3 DEF Others, Kinds
<1> QED
  BY <1>2 DEF Base

LEMMA PassedStep ==
  ASSUME Base, \A s \in Requests : PassedBy(s), NEW r \in Requests, Kinds(r), Others(r), Typed'
  PROVE  \A s \in Requests : PassedBy(s)'
<1> SUFFICES ASSUME NEW s \in Requests, NEW d \in Limiters, took'[s][d] # NotTaken
             PROVE  /\ req'[s].stage # "idle"
                    /\ \E i \in 1..Len(Chain[s]) :
                          /\ Chain[s][i] = d /\ i <= req'[s].pos
                          /\ i = req'[s].pos => req'[s].stage \notin {"check", "write"}
                    /\ req'[s].now <= took'[s][d] /\ took'[s][d] <= req'[s].now + MaxDelay
                    /\ took'[s][d] <= clock'
                    /\ Kind[d] = "window" => took'[s][d] + Window <= deadline'[d]
  BY DEF PassedBy
<1>1. /\ Typed /\ clock' = clock /\ clock \in Nat /\ Current(r) \in Limiters /\ deadline[d] \in Nat
      /\ Window \in Nat
  BY Standing, RateLimiterAssumption DEF Base, Typed, Others
<1>2. /\ req[s].pos \in 1..Len(Chain[s]) /\ Len(Chain[s]) \in Nat /\ req'[s].pos \in Nat
      /\ req[r].pos \in 1..Len(Chain[r]) /\ Len(Chain[r]) \in Nat
  BY <1>1, Standing DEF Typed, Handler
<1>3. CASE took'[s][d] = took[s][d]
  <2>1. /\ req[s].stage # "idle"
        /\ req[s].now <= took[s][d] /\ took[s][d] <= req[s].now + MaxDelay
        /\ took[s][d] <= clock
        /\ Kind[d] = "window" => took[s][d] + Window <= deadline[d]
    BY <1>3 DEF PassedBy
  <2>2. PICK i \in 1..Len(Chain[s]) :
              /\ Chain[s][i] = d /\ i <= req[s].pos
              /\ i = req[s].pos => req[s].stage \notin {"check", "write"}
    BY <1>3 DEF PassedBy
  <2>3. req'[s] = req[s] \/ (s = r /\ Goes(r, req'[r]))
    BY <2>1, Lives
  <2>4. req'[s].stage # "idle" /\ req'[s].now = req[s].now
    BY <2>1, <2>3 DEF Goes
  <2>5. i <= req'[s].pos /\ (i = req'[s].pos => req'[s].stage \notin {"check", "write"})
    <3>1. CASE req'[s] = req[s]
      BY <2>2, <3>1
    <3>2. CASE s = r /\ Goes(r, req'[r])
      <4>1. \/ req'[r].pos = req[r].pos + 1
            \/ /\ req'[r].pos = req[r].pos /\ req'[r].stage # "check"
               /\ req'[r].stage = "write" => req[r].stage = "check"
        BY <3>2 DEF Goes
      <4>2. i \in Nat /\ req[r].pos \in Nat
        BY <1>2
      <4>3. CASE req'[r].pos = req[r].pos + 1
        BY <2>2, <3>2, <4>2, <4>3
      <4>4. CASE req'[r].pos = req[r].pos
        BY <2>2, <3>2, <4>1, <4>2, <4>4
      <4> QED
        BY <4>1, <4>3, <4>4
    <3> QED
      BY <2>3, <3>1, <3>2
  <2>6. Kind[d] = "window" => deadline'[d] = deadline[d] \/ deadline'[d] = clock + Window
    BY DEF Kinds, Elsewhere, Same, Admits, Refuses, Writes
  <2>7. Kind[d] = "window" => took[s][d] + Window <= deadline'[d]
    <3>1. took[s][d] \in Nat
      BY <1>1, <1>3 DEF Typed
    <3> QED
      BY <1>1, <2>1, <2>6, <3>1
  <2> QED
    BY <1>1, <1>3, <2>1, <2>2, <2>4, <2>5, <2>7
<1>4. CASE took'[s][d] # took[s][d]
  <2>1. s = r /\ d = Current(r) /\ (Admits(r) \/ Writes(r)) /\ Goes(r, req'[r])
    BY <1>4 DEF Kinds, Elsewhere, Same, Admits, Refuses, Writes
  <2>2. /\ took'[s][d] = clock /\ req[r].stage \in {"check", "write"}
        /\ req[r].stage = "check" => req'[r].stage \in {"check", "admitted"}
        /\ Kind[d] = "window" => deadline'[d] = clock + Window
    BY <2>1 DEF Admits, Writes
  <2>3. req'[r].now = req[r].now /\ req'[r].stage # "idle"
    BY <2>1 DEF Goes
  <2>4. req[r].now <= clock /\ clock <= req[r].now + MaxDelay
    BY <2>2 DEF Base, OnTime, Active
  <2>5. \/ req'[r].pos = req[r].pos + 1
        \/ req'[r].pos = req[r].pos /\ req'[r].stage \notin {"check", "write"}
    BY <2>1, <2>2 DEF Goes
  <2>6. /\ Chain[s][req[r].pos] = d /\ req[r].pos \in 1..Len(Chain[s]) /\ req[r].pos <= req'[r].pos
        /\ req[r].pos = req'[r].pos => req'[r].stage \notin {"check", "write"}
    BY <1>2, <2>1, <2>5 DEF Current
  <2> QED
    BY <1>1, <2>1, <2>2, <2>3, <2>4, <2>6
<1> QED
  BY <1>3, <1>4

\* What is left of the sorted set of a request limit when it is counted.
LEMMA Left ==
  ASSUME IInv, NEW r \in Requests, req[r].stage = "check", Kind[Current(r)] = "window"
  PROVE  LET d == Current(r)
             left == Pruned(Alive(d, window[d]), req[r].now)
         IN  /\ left \subseteq window[d] /\ IsFiniteSet(left)
             /\ \A s \in Requests :
                   took[s][d] # NotTaken /\ took[s][d] > clock - (Window - MaxDelay)
                     => Score(s) \in left
             /\ \A e \in left : /\ e[1] \in Requests /\ e = Score(e[1])
                                /\ e[1] \in Passed(d, clock - Window - MaxDelay, clock)
<1> DEFINE d == Current(r)
           left == Pruned(Alive(d, window[d]), req[r].now)
<1>1. /\ Base /\ Typed /\ Scored(d) /\ d \in Limiters /\ clock \in Nat /\ deadline[d] \in Nat
      /\ req[r].now \in Nat /\ req[r].now <= clock /\ clock <= req[r].now + MaxDelay
      /\ Window \in Nat /\ MaxDelay \in Nat /\ MaxDelay < Window
  BY Standing, RateLimiterAssumption DEF IInv, Base, OnTime, Active, Typed, Handler
<1>2. left \subseteq window[d]
  BY DEF Pruned, Alive
<1>3. IsFiniteSet(left)
  <2>1. IsFiniteSet(window[d])
    BY <1>1 DEF Typed
  <2> HIDE DEF left
  <2> QED
    BY <1>2, <2>1, FS_Subset
<1>4. ASSUME NEW s \in Requests, took[s][d] # NotTaken
      PROVE  /\ took[s][d] \in Nat /\ req[s].now \in Nat
             /\ req[s].now <= took[s][d] /\ took[s][d] <= req[s].now + MaxDelay
             /\ took[s][d] <= clock /\ took[s][d] + Window <= deadline[d]
  BY <1>1, <1>4 DEF IInv, PassedBy, Typed, Handler
<1>5. ASSUME NEW s \in Requests, took[s][d] # NotTaken, took[s][d] > clock - (Window - MaxDelay)
      PROVE  Score(s) \in left
  <2>1. Score(s) \in window[d]
    BY <1>1, <1>5 DEF Scored
  <2>2. clock < deadline[d] /\ req[s].now > req[r].now - Window
    BY <1>1, <1>4, <1>5
  <2> QED
    BY <2>1, <2>2 DEF Pruned, Alive, Edge, Score
<1>6. ASSUME NEW e \in left
      PROVE  /\ e[1] \in Requests /\ e = Score(e[1])
             /\ e[1] \in Passed(d, clock - Window - MaxDelay, clock)
  <2>1. e \in window[d] /\ e[2] > req[r].now - Window
    BY DEF Pruned, Alive, Edge
  <2>2. e[1] \in Requests
    BY <1>1, <2>1 DEF Typed
  <2>3. e = Score(e[1]) /\ took[e[1]][d] # NotTaken
    BY <1>1, <2>1 DEF Scored
  <2>4. e[2] = req[e[1]].now
    BY <2>3 DEF Score
  <2>5. clock - Window - MaxDelay < took[e[1]][d] /\ took[e[1]][d] <= clock
    BY <1>1, <1>4, <2>1, <2>2, <2>3, <2>4
  <2> QED
    BY <2>2, <2>3, <2>5 DEF Passed
<1> HIDE DEF left
<1> QED
  BY <1>2, <1>3, <1>5, <1>6 DEF left

\* A request that a limiter let pass keeps the time it came in.
LEMMA ScoreKept ==
  ASSUME IInv, NEW r \in Requests, Kinds(r), Others(r), Typed',
         NEW s \in Requests, NEW d \in Limiters, took[s][d] # NotTaken
  PROVE  req'[s].now = req[s].now /\ Score(s)' = Score(s)
<1>1. req[s].stage # "idle" /\ Base
  BY DEF IInv, PassedBy
<1>2. req'[s] = req[s] \/ (s = r /\ Goes(r, req'[r]))
  BY <1>1, Lives
<1> QED
  BY <1>2 DEF Goes, Score

\* No limiter lets a request pass twice.
LEMMA PassesOnce ==
  ASSUME IInv, NEW r \in Requests, req[r].stage \in {"check", "write"}
  PROVE  took[r][Current(r)] = NotTaken
<1>1. Typed /\ Current(r) \in Limiters /\ req[r].pos \in 1..Len(Chain[r]) /\ Chain[r] \in Seq(Limiters)
  BY Standing DEF IInv, Base
<1> SUFFICES ASSUME took[r][Current(r)] # NotTaken PROVE FALSE
  OBVIOUS
<1>2. PICK i \in 1..Len(Chain[r]) :
            /\ Chain[r][i] = Current(r) /\ i <= req[r].pos
            /\ i = req[r].pos => req[r].stage \notin {"check", "write"}
  BY <1>1 DEF IInv, PassedBy
<1>3. DOMAIN Chain[r] = 1..Len(Chain[r])
  BY <1>1
<1>4. i = req[r].pos
  BY <1>1, <1>2, <1>3, RateLimiterAssumption DEF Current
<1> QED
  BY <1>2, <1>4

LEMMA ScoredStep ==
  ASSUME IInv, NEW r \in Requests, Kinds(r), Others(r), Typed'
  PROVE  \A d \in Limiters : Scored(d)'
<1> SUFFICES ASSUME NEW d \in Limiters, Kind[d] = "window"
             PROVE  /\ \A e \in window'[d] : e = Score(e[1])' /\ took'[e[1]][d] # NotTaken
                    /\ \A s \in Requests :
                          took'[s][d] # NotTaken /\ took'[s][d] > clock' - (Window - MaxDelay)
                            => Score(s)' \in window'[d]
  BY DEF Scored
<1>1. /\ Scored(d) /\ Typed /\ clock' = clock /\ clock \in Nat
      /\ \A e \in window[d] : e[1] \in Requests
  BY DEF IInv, Base, Typed, Others
<1>2. CASE Same(d)
  BY <1>1, <1>2, ScoreKept DEF Same, Scored
<1>3. CASE d = Current(r) /\ Refuses(r)
  <2> DEFINE left == Pruned(Alive(d, window[d]), req[r].now)
  <2>1. window'[d] = left /\ (\A s \in Requests : took'[s][d] = took[s][d]) /\ req[r].stage = "check"
    BY <1>3 DEF Refuses
  <2>2. /\ \A s \in Requests : took[s][d] # NotTaken /\ took[s][d] > clock - (Window - MaxDelay)
                                 => Score(s) \in left
        /\ left \subseteq window[d]
    BY <1>3, <2>1, Left
  <2> HIDE DEF left
  <2> QED
    BY <1>1, <2>1, <2>2, ScoreKept DEF Scored
<1>4. CASE d = Current(r) /\ Admits(r)
  <2> DEFINE left == Pruned(Alive(d, window[d]), req[r].now)
  <2>1. /\ window'[d] = left \union {Score(r)} /\ req[r].stage = "check"
        /\ took'[r][d] = clock /\ \A s \in Requests \ {r} : took'[s][d] = took[s][d]
    BY <1>4 DEF Admits, Score
  <2>2. /\ \A s \in Requests : took[s][d] # NotTaken /\ took[s][d] > clock - (Window - MaxDelay)
                                 => Score(s) \in left
        /\ left \subseteq window[d]
    BY <1>4, <2>1, Left
  <2>3. Score(r)' = Score(r) /\ took[r][d] = NotTaken /\ clock # NotTaken
    <3>1. req'[r].now = req[r].now
      BY <1>4, <2>1 DEF Kinds, Admits, Elsewhere, Comes, Goes
    <3> QED
      BY <1>1, <1>4, <2>1, <3>1, PassesOnce DEF Score, NotTaken
  <2> HIDE DEF left
  <2>4. ASSUME NEW e \in window'[d]
        PROVE  e = Score(e[1])' /\ took'[e[1]][d] # NotTaken
    <3>1. CASE e = Score(r)
      BY <2>1, <2>3, <3>1 DEF Score
    <3>2. CASE e \in left
      <4>1. e = Score(e[1]) /\ took[e[1]][d] # NotTaken /\ e[1] \in Requests
        BY <1>1, <2>2, <3>2 DEF Scored
      <4> QED
        BY <2>1, <2>3, <4>1, ScoreKept
    <3> QED
      BY <2>1, <3>1, <3>2
  <2>5. ASSUME NEW s \in Requests, took'[s][d] # NotTaken, took'[s][d] > clock' - (Window - MaxDelay)
        PROVE  Score(s)' \in window'[d]
    <3>1. CASE s = r
      BY <2>1, <2>3, <3>1
    <3>2. CASE s # r
      BY <1>1, <2>1, <2>2, <2>5, <3>2, ScoreKept
    <3> QED
      BY <3>1, <3>2
  <2> QED
    BY <2>4, <2>5
<1> QED
  BY <1>2, <1>3, <1>4 DEF Kinds, Elsewhere, Admits, Refuses, Writes

LEMMA TickStep ==
  ASSUME IInv, Tick
  PROVE  IInv'
<1>1. /\ clock' = clock + 1 /\ clock \in Nat /\ UNCHANGED <<window, quota, deadline, req, took>>
      /\ \A r \in Requests : req[r].stage \in Active => clock + 1 - req[r].now <= MaxDelay
      /\ Typed /\ Window \in Nat /\ MaxDelay \in Nat
  BY RateLimiterAssumption DEF Tick, IInv, Base, Typed
<1>2. Typed'
  BY <1>1 DEF Typed
<1>3. \A r \in Requests : req[r].now \in Nat /\ req[r].at \in Nat
  BY <1>1 DEF Typed, Handler
<1>4. \A r \in Requests : OnTime(r)'
  BY <1>1, <1>3 DEF IInv, Base, OnTime, Current
<1>5. \A r \in Requests, d \in Limiters : took[r][d] # NotTaken => took[r][d] \in Nat
  BY <1>1 DEF Typed
<1>6. \A s \in Requests : PassedBy(s)'
  <2> SUFFICES ASSUME NEW s \in Requests, NEW d \in Limiters, took[s][d] # NotTaken
               PROVE  took[s][d] <= clock'
    BY <1>1 DEF IInv, PassedBy
  <2>1. took[s][d] <= clock
    BY DEF IInv, PassedBy
  <2> QED
    BY <1>1, <1>5, <2>1
<1>7. \A d \in Limiters : Scored(d)'
  <2> SUFFICES ASSUME NEW d \in Limiters, Kind[d] = "window", NEW s \in Requests,
                      took[s][d] # NotTaken, took[s][d] > clock' - (Window - MaxDelay)
               PROVE  took[s][d] > clock - (Window - MaxDelay)
    BY <1>1 DEF IInv, Scored, Score
  <2> QED
    BY <1>1, <1>5
<1> QED
  BY <1>2, <1>4, <1>6, <1>7 DEF IInv, Base

LEMMA InitInv == Init => IInv
<1> SUFFICES ASSUME Init PROVE IInv
  OBVIOUS
<1>1. \A r \in Requests : req[r] = [stage |-> "idle", now |-> 0, tokens |-> 0, pos |-> 1, at |-> 0]
  BY DEF Init
<1>2. "idle" \in Stages
  BY DEF Stages
<1>3. \A r \in Requests : 1 \in 1..Len(Chain[r])
  <2> SUFFICES ASSUME NEW r \in Requests PROVE 1 \in 1..Len(Chain[r])
    OBVIOUS
  <2>1. Chain[r] \in Seq(Limiters) /\ Chain[r] # <<>>
    BY RateLimiterAssumption
  <2> QED
    BY <2>1
<1>4. Typed
  <2>1. req \in [Requests -> Handler]
    BY <1>2 DEF Init, Handler
  <2>2. \A d \in Limiters : window[d] = {} /\ IsFiniteSet(window[d])
    BY FS_EmptySet DEF Init
  <2> QED
    BY <1>1, <1>3, <2>1, <2>2 DEF Init, Typed
<1>5. \A r \in Requests : OnTime(r)
  BY <1>1 DEF OnTime, Init, Active
<1>6. (\A s \in Requests : PassedBy(s)) /\ \A d \in Limiters : Scored(d)
  BY DEF Init, PassedBy, Scored
<1> QED
  BY <1>4, <1>5, <1>6 DEF IInv, Base

\* The steps of the specification are those of the requests, and the clock.
LEMMA NextSteps ==
  ASSUME Next
  PROVE  Tick \/ \E r \in Requests : Step(r)
BY DEF Next, Step

LEMMA StepInv ==
  ASSUME IInv, [Next]_vars
  PROVE  IInv'
<1>1. CASE UNCHANGED vars
  BY <1>1 DEF vars, IInv, Base, Typed, OnTime, PassedBy, Scored, Score, Current
<1>2. CASE Tick
  BY <1>2, TickStep
<1>3. ASSUME NEW r \in Requests, Step(r)
      PROVE  IInv'
  <2>1. Base /\ Kinds(r) /\ Others(r) /\ Typed'
    BY <1>3, StepKinds DEF IInv
  <2>2. Base'
    BY <2>1, BaseStep
  <2>3. \A s \in Requests : PassedBy(s)'
    BY <2>1, PassedStep DEF IInv
  <2>4. \A d \in Limiters : Scored(d)'
    BY <2>1, ScoredStep
  <2> QED
    BY <2>2, <2>3, <2>4 DEF IInv
<1> QED
  BY <1>1, <1>2, <1>3, NextSteps

\* In every state the sorted sets agree with what the limiters let pass: the
\* invariant on which the theorems of this module rest.
THEOREM SetsAgree == Spec => []IInv
<1>1. IInv /\ [Next]_vars => IInv'
  BY StepInv
<1> QED
  BY InitInv, <1>1, PTL DEF Spec

-----------------------------------------------------------------------------
(* The request limits.                                                     *)

\* Whom a limiter let pass is finite.
LEMMA PassedFinite ==
  ASSUME NEW d, NEW since, NEW until
  PROVE  /\ Passed(d, since, until) \subseteq Requests
         /\ IsFiniteSet(Passed(d, since, until)) /\ Cardinality(Passed(d, since, until)) \in Nat
<1>1. Passed(d, since, until) \subseteq Requests
  BY DEF Passed
<1> QED
  BY <1>1, RateLimiterAssumption, FS_Subset, FS_CardinalityType

\* The request that is admitted still fits: those of the window before it are
\* in its sorted set.
LEMMA AdmittedFits ==
  ASSUME IInv, NEW r \in Requests, Admits(r), Others(r), Typed', NEW d, d = Current(r)
  PROVE  Cardinality(Passed(d, clock - (Window - MaxDelay), clock)') <= Limit[d]
<1> DEFINE left == Pruned(Alive(d, window[d]), req[r].now)
           now == Passed(d, clock - (Window - MaxDelay), clock)'
           before == now \ {r}
           f == [s \in before |-> Score(s)]
<1>1. /\ Cardinality(left) < Limit[d] /\ Limit[d] \in Nat
      /\ \A s \in Requests \ {r} : took'[s][d] = took[s][d]
      /\ clock' = clock
  BY DEF Admits, Others
<1>2. /\ IsFiniteSet(left)
      /\ \A s \in Requests :
            took[s][d] # NotTaken /\ took[s][d] > clock - (Window - MaxDelay) => Score(s) \in left
  BY Left DEF Admits
<1>3. now \subseteq Requests /\ \A s \in now : /\ took'[s][d] # NotTaken
                                              /\ clock - (Window - MaxDelay) < took'[s][d]
  BY <1>1 DEF Passed
<1>4. IsFiniteSet(now) /\ IsFiniteSet(before) /\ Cardinality(now) <= Cardinality(before) + 1
      /\ Cardinality(before) \in Nat /\ Cardinality(now) \in Nat
  <2>1. IsFiniteSet(now)
    BY <1>3, RateLimiterAssumption, FS_Subset
  <2> HIDE DEF now
  <2>2. /\ IsFiniteSet(now \ {r})
        /\ Cardinality(now \ {r}) = IF r \in now THEN Cardinality(now) - 1 ELSE Cardinality(now)
    BY <2>1, FS_RemoveElement
  <2> QED
    BY <2>1, <2>2, FS_CardinalityType
<1>5. \A s \in before : Score(s) \in left
  <2> SUFFICES ASSUME NEW s \in before PROVE Score(s) \in left
    OBVIOUS
  <2>1. s \in Requests \ {r} /\ took[s][d] # NotTaken /\ clock - (Window - MaxDelay) < took[s][d]
    BY <1>1, <1>3
  <2> HIDE DEF left, before, now
  <2>2. Typed /\ d \in Limiters
    BY Standing DEF IInv, Base
  <2>3. clock \in Nat /\ took[s][d] \in Nat /\ Window \in Nat /\ MaxDelay \in Nat
    BY <2>1, <2>2, RateLimiterAssumption DEF Typed
  <2>4. took[s][d] > clock - (Window - MaxDelay)
    BY <2>1, <2>3
  <2> QED
    BY <1>2, <2>1, <2>4
<1> HIDE DEF left, before
<1>6. f \in Injection(before, left)
  <2>1. f \in [before -> left]
    BY <1>5
  <2>2. \A s, t \in before : f[s] = f[t] => s = t
    BY DEF Score
  <2> QED
    BY <2>1, <2>2, Fun_IsInj
<1> HIDE DEF f
<1>7. Cardinality(before) <= Cardinality(left) /\ Cardinality(left) \in Nat
  BY <1>2, <1>6, FS_Injection, FS_CardinalityType
<1> QED
  BY <1>1, <1>4, <1>7

LEMMA RateStep ==
  ASSUME IInv, RequestRateHeld, NEW r \in Requests, Step(r)
  PROVE  RequestRateHeld'
<1>1. Base /\ Kinds(r) /\ Others(r) /\ Typed' /\ IInv' /\ Typed
  BY StepKinds, StepInv DEF IInv, Base, Next, Step
<1> SUFFICES ASSUME NEW d \in Windows, NEW s \in Requests, took'[s][d] # NotTaken
             PROVE  Cardinality(Passed(d, took[s][d] - (Window - MaxDelay), took[s][d])') <= Limit[d]
  BY DEF RequestRateHeld, Windows
<1>2. /\ d \in Limiters /\ Limit[d] \in Nat /\ Kind[d] = "window" /\ Window \in Nat /\ MaxDelay \in Nat
      /\ clock' = clock /\ clock \in Nat
  BY <1>1, RateLimiterAssumption DEF Windows, Typed, Others
<1>3. CASE \A q \in Requests : took'[q][d] = took[q][d]
  <2>1. Passed(d, took[s][d] - (Window - MaxDelay), took[s][d])'
          = Passed(d, took[s][d] - (Window - MaxDelay), took[s][d])
    BY <1>3 DEF Passed
  <2> QED
    BY <1>3, <2>1 DEF RequestRateHeld
<1>4. CASE ~\A q \in Requests : took'[q][d] = took[q][d]
  <2>1. d = Current(r) /\ Admits(r)
    BY <1>1, <1>2, <1>4 DEF Kinds, Elsewhere, Same, Admits, Refuses, Writes
  <2>2. took'[r][d] = clock /\ \A q \in Requests \ {r} : took'[q][d] = took[q][d]
    BY <2>1 DEF Admits
  <2>3. CASE took'[s][d] = clock
    <3>1. Passed(d, took[s][d] - (Window - MaxDelay), took[s][d])'
            = Passed(d, clock - (Window - MaxDelay), clock)'
      BY <1>2, <2>3 DEF Passed
    <3> QED
      BY <1>1, <2>1, <3>1, AdmittedFits
  <2>4. CASE took'[s][d] # clock
    <3>1. took'[s][d] = took[s][d] /\ s # r
      BY <2>2, <2>4
    <3>2. took[s][d] <= clock /\ took[s][d] \in Nat
      BY <1>1, <1>2, <3>1 DEF IInv, PassedBy, Typed
    <3>3. Passed(d, took[s][d] - (Window - MaxDelay), took[s][d])'
            \subseteq Passed(d, took[s][d] - (Window - MaxDelay), took[s][d])
      <4> SUFFICES ASSUME NEW q \in Requests, took'[q][d] # NotTaken,
                          took[s][d] - (Window - MaxDelay) < took'[q][d], took'[q][d] <= took[s][d]
                   PROVE  took'[q][d] = took[q][d]
        BY <3>1 DEF Passed
      <4>1. q # r
        BY <1>2, <2>2, <2>4, <3>1, <3>2
      <4> QED
        BY <2>2, <4>1
    <3> DEFINE old == Passed(d, took[s][d] - (Window - MaxDelay), took[s][d])
               new == Passed(d, took[s][d] - (Window - MaxDelay), took[s][d])'
    <3>4. IsFiniteSet(old) /\ Cardinality(old) \in Nat /\ Cardinality(old) <= Limit[d]
      BY <3>1, PassedFinite DEF RequestRateHeld
    <3>5. new \in SUBSET old
      BY <3>3
    <3> HIDE DEF old, new
    <3>6. Cardinality(new) <= Cardinality(old) /\ Cardinality(new) \in Nat
      BY <3>4, <3>5, FS_Subset, FS_CardinalityType
    <3>7. Cardinality(new) <= Limit[d]
      BY <1>2, <3>4, <3>6
    <3> QED
      BY <3>7 DEF new
  <2> QED
    BY <2>3, <2>4
<1> QED
  BY <1>3, <1>4

\* A request limit holds in real time, whatever the delays between the arrival
\* of a request and its turn at the limit: over any span shorter than the
\* window by the longest delay no more than `Limit` requests pass it.
THEOREM RateIsHeld == Spec => []RequestRateHeld
<1>1. Init => RequestRateHeld
  BY DEF Init, RequestRateHeld, Windows
<1>2. IInv /\ RequestRateHeld /\ [Next]_vars => RequestRateHeld'
  <2> SUFFICES ASSUME IInv, RequestRateHeld, [Next]_vars PROVE RequestRateHeld'
    OBVIOUS
  <2>1. CASE UNCHANGED vars
    BY <2>1 DEF vars, RequestRateHeld, Windows, Passed
  <2>2. CASE Tick
    BY <2>2 DEF Tick, RequestRateHeld, Windows, Passed
  <2> QED
    BY <2>1, <2>2, NextSteps, RateStep
<1> QED
  BY <1>1, <1>2, SetsAgree, PTL DEF Spec

\* The request that is refused has found as many before it.
LEMMA RefusedIsFull ==
  ASSUME IInv, NEW r \in Requests, Refuses(r), Others(r), Limit[Current(r)] \in Nat
  PROVE  Cardinality(Passed(Current(r), clock - Window - MaxDelay, clock)) >= Limit[Current(r)]
<1> DEFINE d == Current(r)
           left == Pruned(Alive(d, window[d]), req[r].now)
           passed == Passed(d, clock - Window - MaxDelay, clock)
           f == [e \in left |-> e[1]]
<1>1. Cardinality(left) >= Limit[d]
  BY DEF Refuses
<1>2. /\ IsFiniteSet(left)
      /\ \A e \in left : e = Score(e[1]) /\ e[1] \in passed
  BY Left DEF Refuses
<1>3. IsFiniteSet(passed) /\ Cardinality(passed) \in Nat
  BY PassedFinite
<1> HIDE DEF left, passed
<1>4. f \in Injection(left, passed)
  <2>1. f \in [left -> passed]
    BY <1>2
  <2>2. \A e, g \in left : f[e] = f[g] => e = g
    BY <1>2
  <2> QED
    BY <2>1, <2>2, Fun_IsInj
<1> HIDE DEF f
<1>5. Cardinality(left) <= Cardinality(passed) /\ Cardinality(left) \in Nat
  BY <1>2, <1>3, <1>4, FS_Injection, FS_CardinalityType
<1>6. Cardinality(passed) >= Limit[d]
  BY <1>1, <1>3, <1>5
<1> QED
  BY <1>6 DEF passed

LEMMA RefusedStep ==
  ASSUME IInv, RefusedOnlyWhenFull, NEW r \in Requests, Step(r)
  PROVE  RefusedOnlyWhenFull'
<1>1. Base /\ Kinds(r) /\ Others(r) /\ Typed' /\ Typed
  BY StepKinds DEF IInv, Base
<1> SUFFICES ASSUME NEW s \in Requests, req'[s].stage = "rejected", Current(s)' \in Windows,
                    NEW d, d = Current(s)'
             PROVE  Cardinality(Passed(d, req[s].at - Window - MaxDelay, req[s].at)') >= Limit[d]
  BY DEF RefusedOnlyWhenFull, Windows, Passed
<1>2. d \in Windows /\ d \in Limiters /\ Limit[d] \in Nat /\ Kind[d] = "window" /\ clock' = clock
  BY <1>1, RateLimiterAssumption DEF Windows, Others
<1>3. CASE req'[s] = req[s]
  <2> DEFINE old == Passed(d, req[s].at - Window - MaxDelay, req[s].at)
             new == Passed(d, req[s].at - Window - MaxDelay, req[s].at)'
  <2>1. Current(s) = d /\ req[s].stage = "rejected"
    BY <1>3 DEF Current
  <2>2. Cardinality(old) >= Limit[d]
    BY <1>2, <2>1 DEF RefusedOnlyWhenFull
  <2>3. \A q \in Requests : took[q][d] # NotTaken => took'[q][d] = took[q][d]
    <3>1. CASE \A q \in Requests : took'[q][d] = took[q][d]
      BY <3>1
    <3>2. CASE ~\A q \in Requests : took'[q][d] = took[q][d]
      <4>1. d = Current(r) /\ Admits(r)
        BY <1>1, <1>2, <3>2 DEF Kinds, Elsewhere, Same, Admits, Refuses, Writes
      <4>2. took[r][d] = NotTaken /\ \A q \in Requests \ {r} : took'[q][d] = took[q][d]
        BY <4>1, PassesOnce DEF Admits
      <4> QED
        BY <4>2
    <3> QED
      BY <3>1, <3>2
  <2>4. old \subseteq new
    <3> SUFFICES ASSUME NEW q \in Requests, took[q][d] # NotTaken,
                        req[s].at - Window - MaxDelay < took[q][d], took[q][d] <= req[s].at
                 PROVE  q \in new
      BY DEF Passed
    <3> QED
      BY <1>3, <2>3 DEF Passed
  <2>5. new \subseteq Requests
    BY DEF Passed
  <2> HIDE DEF old, new
  <2>6. IsFiniteSet(new) /\ Cardinality(new) \in Nat
    BY <2>5, RateLimiterAssumption, FS_Subset, FS_CardinalityType
  <2>7. IsFiniteSet(old) /\ Cardinality(old) \in Nat /\ Cardinality(old) <= Cardinality(new)
    BY <2>4, <2>6, FS_Subset, FS_CardinalityType
  <2>8. Cardinality(new) >= Limit[d]
    BY <1>2, <2>2, <2>6, <2>7
  <2> QED
    BY <2>8 DEF new
<1>4. CASE req'[s] # req[s]
  <2>1. s = r
    BY <1>1, <1>4 DEF Others
  <2>2. req'[r].pos = req[r].pos /\ Goes(r, req'[r]) /\ req[r].stage = "check" /\ req'[r].at = clock
    BY <1>1, <2>1 DEF Kinds, Comes, Goes, Admits, Refuses, Writes
  <2>3. Current(r) = d
    BY <2>1, <2>2 DEF Current
  <2>4. Refuses(r)
    BY <1>1, <1>2, <2>1, <2>2, <2>3 DEF Kinds, Comes, Admits, Writes
  <2>5. \A q \in Requests : took'[q][d] = took[q][d]
    BY <2>3, <2>4 DEF Refuses
  <2>6. Passed(d, req[s].at - Window - MaxDelay, req[s].at)'
          = Passed(d, clock - Window - MaxDelay, clock)
    BY <2>1, <2>2, <2>5 DEF Passed
  <2> QED
    BY <1>1, <1>2, <2>3, <2>4, <2>6, RefusedIsFull
<1> QED
  BY <1>3, <1>4

\* A request limit refuses nobody it has room for: as many requests as the limit
\* allows did pass it within the window, longer by the delay.  What it refused
\* does not count against later requests.
THEOREM RefusedWhenFull == Spec => []RefusedOnlyWhenFull
<1>1. Init => RefusedOnlyWhenFull
  BY DEF Init, RefusedOnlyWhenFull
<1>2. IInv /\ RefusedOnlyWhenFull /\ [Next]_vars => RefusedOnlyWhenFull'
  <2> SUFFICES ASSUME IInv, RefusedOnlyWhenFull, [Next]_vars PROVE RefusedOnlyWhenFull'
    OBVIOUS
  <2>1. CASE UNCHANGED vars
    BY <2>1 DEF vars, RefusedOnlyWhenFull, Windows, Passed, Current
  <2>2. CASE Tick
    BY <2>2 DEF Tick, RefusedOnlyWhenFull, Windows, Passed, Current
  <2> QED
    BY <2>1, <2>2, NextSteps, RefusedStep
<1> QED
  BY <1>1, <1>2, SetsAgree, PTL DEF Spec

-----------------------------------------------------------------------------
(* The quotas.                                                             *)

Most == Max(TokenCounts)

LEMMA MostTokens == Most \in Nat /\ \A tokens \in TokenCounts : tokens \in Nat /\ tokens <= Most
BY RateLimiterAssumption DEF Most, Max

InChain == {s \in Requests : req[s].stage \in Active}

\* Those that have read the quota d and have not written it.
Writers(d) == {s \in Requests : req[s].stage = "write" /\ Current(s) = d}

Quotas == {d \in Limiters : Kind[d] = "quota" /\ Limit[d] \notin {0, Blank}}

Bound(d) == Limit[d] + (MaxActive - 1) * Most

\* Every other writer may add the most tokens; one of them has read the quota
\* after all that was written before.
Overshoot(d) ==
    LET n == Cardinality(Writers(d))
    IN  IF Writers(d) = {} THEN quota[d] <= Bound(d)
        ELSE \E s \in Writers(d) : quota[d] + req[s].tokens + (n - 1) * Most <= Bound(d)

QInv == Cardinality(InChain) <= MaxActive /\ \A d \in Quotas : Overshoot(d)

LEMMA Products ==
  ASSUME NEW m \in Nat, NEW n \in Nat, NEW k \in Nat
  PROVE  /\ m * k \in Nat /\ (m + 1) * k = m * k + k
         /\ m <= n => m * k <= n * k
<1>1. m * k \in Nat /\ (m + 1) * k = m * k + k
  OBVIOUS
<1>2. ASSUME m <= n PROVE m * k <= n * k
  <2>1. n - m \in Nat /\ (n - m) * k \in Nat
    BY <1>2
  <2>2. n * k = m * k + (n - m) * k
    OBVIOUS
  <2> QED
    BY <1>1, <2>1, <2>2
<1> QED
  BY <1>1, <1>2

LEMMA ChainStep ==
  ASSUME IInv, Cardinality(InChain) <= MaxActive, NEW r \in Requests, Step(r)
  PROVE  Cardinality(InChain') <= MaxActive
<1>1. Kinds(r) /\ Others(r)
  BY StepKinds DEF IInv
<1>2. /\ InChain \subseteq Requests /\ InChain' \subseteq Requests
      /\ IsFiniteSet(InChain) /\ Cardinality(InChain) \in Nat
      /\ IsFiniteSet(InChain') /\ Cardinality(InChain') \in Nat /\ MaxActive \in Nat
  <2>1. InChain \subseteq Requests /\ InChain' \subseteq Requests
    BY DEF InChain
  <2> QED
    BY <2>1, RateLimiterAssumption, FS_Subset, FS_CardinalityType
<1>3. CASE req[r].stage = "idle"
  <2>1. PICK tokens \in TokenCounts : Arrive(r, tokens)
    BY <1>3 DEF Step, Skip, ParseBlank, SlidingWindow, ReadTokens, WriteTokens, ExpireTokens,
                ReadQuota, WriteQuota, Before
  <2>2. Cardinality(InChain) < MaxActive
    BY <2>1 DEF Arrive, InChain
  <2>3. InChain' \subseteq InChain \union {r}
    BY <1>1 DEF InChain, Others
  <2>4. /\ IsFiniteSet(InChain \union {r}) /\ Cardinality(InChain \union {r}) <= Cardinality(InChain) + 1
        /\ Cardinality(InChain \union {r}) \in Nat
    <3>1. /\ IsFiniteSet(InChain \union {r})
          /\ Cardinality(InChain \union {r})
               = IF r \in InChain THEN Cardinality(InChain) ELSE Cardinality(InChain) + 1
      BY <1>2, FS_AddElement
    <3> QED
      BY <1>2, <3>1
  <2>5. Cardinality(InChain') <= Cardinality(InChain \union {r})
    BY <2>3, <2>4, FS_Subset
  <2> QED
    BY <1>2, <2>2, <2>4, <2>5
<1>4. CASE req[r].stage # "idle"
  <2>1. Goes(r, req'[r])
    BY <1>1, <1>4 DEF Kinds, Comes
  <2>2. InChain' \subseteq InChain
    BY <1>1, <2>1 DEF InChain, Others, Goes
  <2>3. Cardinality(InChain') <= Cardinality(InChain)
    BY <1>2, <2>2, FS_Subset
  <2> QED
    BY <1>2, <2>3
<1> QED
  BY <1>3, <1>4

LEMMA WritersFinite ==
  ASSUME Cardinality(InChain) <= MaxActive, NEW d
  PROVE  /\ Writers(d) \subseteq InChain /\ IsFiniteSet(Writers(d))
         /\ Cardinality(Writers(d)) \in Nat /\ Cardinality(Writers(d)) <= MaxActive
         /\ Writers(d) # {} => Cardinality(Writers(d)) >= 1
<1>1. Writers(d) \subseteq InChain /\ InChain \subseteq Requests
  BY DEF Writers, InChain, Active
<1>2. IsFiniteSet(InChain) /\ Cardinality(InChain) \in Nat
  BY <1>1, RateLimiterAssumption, FS_Subset, FS_CardinalityType
<1>3. /\ IsFiniteSet(Writers(d)) /\ Cardinality(Writers(d)) \in Nat
      /\ Cardinality(Writers(d)) <= Cardinality(InChain)
  BY <1>1, <1>2, FS_Subset, FS_CardinalityType
<1>4. Writers(d) # {} => Cardinality(Writers(d)) >= 1
  BY <1>3, FS_EmptySet
<1> QED
  BY <1>1, <1>2, <1>3, <1>4, RateLimiterAssumption

LEMMA OvershootStep ==
  ASSUME IInv, QInv, NEW r \in Requests, Step(r), NEW d \in Quotas
  PROVE  Overshoot(d)'
<1>1. Base /\ Kinds(r) /\ Others(r) /\ Typed' /\ Typed
  BY StepKinds DEF IInv, Base
<1>2. /\ d \in Limiters /\ Kind[d] = "quota" /\ Limit[d] \in Nat /\ MaxActive \in Nat \ {0}
      /\ quota[d] \in Nat /\ Most \in Nat /\ (MaxActive - 1) * Most \in Nat
      /\ Bound(d) = Limit[d] + (MaxActive - 1) * Most /\ Bound(d) \in Nat
  <2>1. (MaxActive - 1) * Most \in Nat
    <3>1. MaxActive - 1 \in Nat /\ Most \in Nat
      BY RateLimiterAssumption, MostTokens
    <3> QED
      BY <3>1, Products
  <2>2. d \in Limiters /\ Kind[d] = "quota" /\ Limit[d] \in Nat
    BY RateLimiterAssumption DEF Quotas
  <2>3. quota[d] \in Nat /\ Most \in Nat /\ MaxActive \in Nat \ {0}
    BY <1>1, <2>2, MostTokens, RateLimiterAssumption DEF Typed
  <2>4. Bound(d) = Limit[d] + (MaxActive - 1) * Most
    BY DEF Bound
  <2> QED
    BY <2>1, <2>2, <2>3, <2>4
<1>3. /\ IsFiniteSet(Writers(d)) /\ Cardinality(Writers(d)) \in Nat
      /\ Writers(d) # {} => Cardinality(Writers(d)) >= 1
  BY WritersFinite DEF QInv
<1>4. /\ IsFiniteSet(Writers(d)') /\ Cardinality(Writers(d)') \in Nat
      /\ Cardinality(Writers(d)') <= MaxActive
      /\ Writers(d)' # {} => Cardinality(Writers(d)') >= 1
  <2>1. Cardinality(InChain') <= MaxActive
    BY ChainStep DEF QInv
  <2>2. Writers(d)' \subseteq InChain' /\ InChain' \subseteq Requests
    BY DEF Writers, InChain, Active
  <2>3. IsFiniteSet(InChain') /\ Cardinality(InChain') \in Nat
    BY <2>2, RateLimiterAssumption, FS_Subset, FS_CardinalityType
  <2>4. /\ IsFiniteSet(Writers(d)') /\ Cardinality(Writers(d)') \in Nat
        /\ Cardinality(Writers(d)') <= Cardinality(InChain')
    BY <2>2, <2>3, FS_Subset, FS_CardinalityType
  <2> QED
    BY <1>2, <2>1, <2>3, <2>4, FS_EmptySet
<1>5. \A s \in Requests : req[s].stage # "idle" => req[s].tokens \in TokenCounts /\ req[s].tokens \in Nat
                                                   /\ req[s].tokens <= Most
  BY <1>1, MostTokens DEF Base, OnTime
<1>6. \A s \in Requests \ {r} : req'[s] = req[s] /\ (s \in Writers(d)' <=> s \in Writers(d))
  BY <1>1 DEF Others, Writers, Current
<1>7. CASE r \notin Writers(d) /\ r \notin Writers(d)'
  <2>1. Writers(d)' = Writers(d)
    BY <1>6, <1>7 DEF Writers
  <2>2. quota'[d] = quota[d]
    BY <1>1, <1>2, <1>7 DEF Kinds, Elsewhere, Same, Admits, Refuses, Writes, Writers
  <2>3. \A s \in Writers(d) : req'[s].tokens = req[s].tokens
    BY <1>6, <1>7 DEF Writers
  <2> QED
    BY <2>1, <2>2, <2>3 DEF QInv, Overshoot, Bound
<1>8. CASE r \in Writers(d)'
  <2>1. /\ req'[r].stage = "write" /\ req'[r].pos = req[r].pos /\ Current(r) = d
        /\ req'[r].tokens = req[r].tokens
        /\ req[r].stage = "check" /\ Elsewhere(r)
    BY <1>1, <1>8 DEF Writers, Kinds, Comes, Goes, Admits, Refuses, Writes, Current, Refuse
  <2>2. OverQuota(quota[d], req[r].tokens, Limit[d]) = FALSE /\ quota'[d] = quota[d]
    BY <1>1, <1>2, <2>1 DEF Kinds, Elsewhere, Same, Admits, Refuses, Writes
  <2>3. req[r].tokens \in Nat /\ quota[d] + req[r].tokens <= Limit[d]
    BY <1>2, <1>5, <2>1, <2>2 DEF OverQuota
  <2> DEFINE n == Cardinality(Writers(d)')
  <2>4. n \in Nat /\ n >= 1 /\ n <= MaxActive
    BY <1>4, <1>8
  <2> HIDE DEF n
  <2>5. (n - 1) * Most <= (MaxActive - 1) * Most /\ (n - 1) * Most \in Nat
    BY <1>2, <2>4, Products
  <2>6. quota'[d] + req'[r].tokens + (n - 1) * Most <= Bound(d)
    BY <1>2, <2>1, <2>2, <2>3, <2>5
  <2> QED
    BY <1>8, <2>6 DEF Overshoot, n, Bound
<1>9. CASE r \in Writers(d) /\ r \notin Writers(d)'
  <2>1. req[r].stage = "write" /\ Current(r) = d /\ Writes(r) /\ quota'[d] = quota[d] + req[r].tokens
    <3>1. req[r].stage = "write" /\ Current(r) = d
      BY <1>9 DEF Writers
    <3>2. Writes(r)
      <4>1. \/ \E tokens \in TokenCounts : Arrive(r, tokens)
            \/ Skip(r) \/ ParseBlank(r) \/ SlidingWindow(r) \/ ReadTokens(r) \/ WriteTokens(r)
            \/ ExpireTokens(r) \/ ReadQuota(r) \/ WriteQuota(r)
        BY DEF Step
      <4>2. WriteQuota(r)
        BY <1>2, <3>1, <4>1 DEF Arrive, Skip, ParseBlank, SlidingWindow, ReadTokens, WriteTokens,
                               ExpireTokens, ReadQuota, Before
      <4>3. quota'[d] = quota[d] + req[r].tokens /\ took'[r][d] = clock
        BY <1>1, <1>2, <3>1, <4>2 DEF WriteQuota, Typed
      <4> QED
        BY <1>1, <1>2, <3>1, <4>3, PassesOnce
        DEF Kinds, Elsewhere, Same, Admits, Refuses, IInv, Typed, NotTaken
    <3> QED
      BY <1>2, <3>1, <3>2 DEF Writes
  <2> DEFINE n == Cardinality(Writers(d))
  <2>2. /\ Writers(d)' = Writers(d) \ {r} /\ Cardinality(Writers(d)') = n - 1
        /\ n \in Nat /\ n >= 1
    <3>1. Writers(d)' = Writers(d) \ {r}
      BY <1>6, <1>9 DEF Writers
    <3> QED
      BY <1>3, <1>9, <3>1, FS_RemoveElement
  <2>3. PICK s \in Writers(d) : quota[d] + req[s].tokens + (n - 1) * Most <= Bound(d)
    BY <1>9 DEF QInv, Overshoot
  <2>4. s \in Requests /\ req[s].tokens \in Nat /\ req[r].tokens \in Nat /\ req[r].tokens <= Most
        /\ (n - 1) * Most \in Nat
    <3>1. s \in Requests /\ req[s].stage = "write"
      BY DEF Writers
    <3> QED
      BY <1>2, <1>5, <2>1, <2>2, <3>1, Products
  <2>5. CASE Writers(d)' = {}
    <3>1. Writers(d) = {r} /\ s = r
      BY <1>9, <2>2, <2>5
    <3>2. quota'[d] <= Bound(d)
      <4> HIDE DEF n
      <4> QED
        BY <1>2, <2>1, <2>3, <2>4, <3>1
    <3> QED
      BY <2>5, <3>2 DEF Overshoot, Bound
  <2>6. CASE Writers(d)' # {}
    <3>1. Cardinality(Writers(d)') >= 1 /\ n >= 2
      BY <1>4, <2>2, <2>6
    <3> HIDE DEF n
    <3>2. (n - 2) * Most \in Nat /\ (n - 1) * Most = (n - 2) * Most + Most
      <4>1. n - 2 \in Nat /\ n - 1 = (n - 2) + 1
        BY <2>2, <3>1
      <4> QED
        BY <1>2, <4>1, Products
    <3>3. CASE s = r
      <4>1. PICK q \in Writers(d)' : TRUE
        BY <2>6
      <4>2. q \in Requests /\ q # r /\ req'[q] = req[q] /\ req[q].stage = "write"
        BY <1>6, <2>2, <4>1 DEF Writers
      <4>3. req[q].tokens \in Nat /\ req[q].tokens <= Most
        BY <1>5, <4>2
      <4>4. quota'[d] + req'[q].tokens + (n - 2) * Most <= Bound(d)
        BY <1>2, <2>1, <2>3, <2>4, <3>2, <3>3, <4>2, <4>3
      <4>5. (n - 1) - 1 = n - 2
        BY <2>2
      <4> QED
        BY <2>2, <2>6, <4>1, <4>4, <4>5 DEF Overshoot, Bound
    <3>4. CASE s # r
      <4>1. s \in Writers(d)' /\ req'[s] = req[s]
        BY <1>6, <2>2, <2>4, <3>4
      <4>2. quota'[d] + req'[s].tokens + (n - 2) * Most <= Bound(d)
        BY <1>2, <2>1, <2>3, <2>4, <3>2, <4>1
      <4>3. (n - 1) - 1 = n - 2
        BY <2>2
      <4> QED
        BY <2>2, <2>6, <4>1, <4>2, <4>3 DEF Overshoot, Bound
    <3> QED
      BY <3>3, <3>4
  <2> QED
    BY <2>5, <2>6
<1> QED
  BY <1>7, <1>8, <1>9

LEMMA BoundHolds == IInv /\ QInv => QuotaOvershootBounded
<1> SUFFICES ASSUME IInv, QInv, NEW d \in Quotas
             PROVE  quota[d] <= Limit[d] + (MaxActive - 1) * Max(TokenCounts)
  BY DEF QuotaOvershootBounded, Quotas
<1>1. quota[d] \in Nat /\ Limit[d] \in Nat /\ Most \in Nat /\ (MaxActive - 1) * Most \in Nat
      /\ Bound(d) = Limit[d] + (MaxActive - 1) * Most /\ MaxActive \in Nat
  <2>1. MaxActive - 1 \in Nat /\ Most \in Nat
    BY RateLimiterAssumption, MostTokens
  <2>2. (MaxActive - 1) * Most \in Nat
    BY <2>1, Products
  <2> QED
    BY <2>1, <2>2, RateLimiterAssumption DEF IInv, Base, Typed, Quotas, Bound
<1>2. quota[d] <= Bound(d)
  <2>1. CASE Writers(d) = {}
    BY <2>1 DEF QInv, Overshoot
  <2>2. CASE Writers(d) # {}
    <3> DEFINE n == Cardinality(Writers(d))
    <3>1. n \in Nat /\ n >= 1
      BY <2>2, WritersFinite DEF QInv
    <3>2. PICK s \in Writers(d) : quota[d] + req[s].tokens + (n - 1) * Most <= Bound(d)
      BY <2>2 DEF QInv, Overshoot
    <3>3. req[s].tokens \in Nat
      BY DEF Writers, IInv, Base, Typed, Handler
    <3> HIDE DEF n
    <3>4. (n - 1) * Most \in Nat
      BY <1>1, <3>1, Products
    <3> QED
      BY <1>1, <3>2, <3>3, <3>4
  <2> QED
    BY <2>1, <2>2
<1> QED
  BY <1>1, <1>2 DEF Most

\* A quota is overrun by no more than the tokens of the other requests that are
\* in the chain at once: each may have read it before the others wrote.
THEOREM QuotaIsBounded == Spec => []QuotaOvershootBounded
<1>1. Init => QInv
  <2> SUFFICES ASSUME Init PROVE QInv
    OBVIOUS
  <2>1. \A s \in Requests : req[s].stage = "idle"
    BY DEF Init
  <2>2. InChain = {} /\ \A d : Writers(d) = {}
    BY <2>1 DEF InChain, Writers, Active
  <2>3. ASSUME NEW d \in Quotas PROVE quota[d] <= Bound(d)
    <3>1. MaxActive - 1 \in Nat /\ Most \in Nat /\ quota[d] = 0 /\ Limit[d] \in Nat
      BY RateLimiterAssumption, MostTokens DEF Init, Quotas
    <3>2. (MaxActive - 1) * Most \in Nat
      BY <3>1, Products
    <3> QED
      BY <3>1, <3>2 DEF Bound
  <2>4. Cardinality(InChain) <= MaxActive
    BY <2>2, FS_EmptySet, RateLimiterAssumption
  <2> QED
    BY <2>2, <2>3, <2>4 DEF QInv, Overshoot
<1>2. IInv /\ QInv /\ [Next]_vars => QInv'
  <2> SUFFICES ASSUME IInv, QInv, [Next]_vars PROVE QInv'
    OBVIOUS
  <2>1. CASE UNCHANGED vars
    BY <2>1 DEF vars, QInv, InChain, Overshoot, Writers, Current, Bound
  <2>2. CASE Tick
    BY <2>2 DEF Tick, QInv, InChain, Overshoot, Writers, Current, Bound
  <2>3. ASSUME NEW r \in Requests, Step(r) PROVE QInv'
    BY <2>3, ChainStep, OvershootStep DEF QInv
  <2> QED
    BY <2>1, <2>2, <2>3, NextSteps
<1> QED
  BY <1>1, <1>2, SetsAgree, BoundHolds, PTL DEF Spec
=============================================================================

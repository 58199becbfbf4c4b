----------------------------- MODULE RateLimiter -----------------------------
(***************************************************************************)
(* check_and_increment_rate_limit of middleware/rate_limiter.py: a chain   *)
(* of limits in a fixed order, each an own key in Redis.                   *)
(*                                                                         *)
(* A request reads the clock once, before the first limit, and carries     *)
(* that time through all of them while the clock goes on.  Request limits  *)
(* are one Lua script each; token limits and quotas read, decide, and      *)
(* write in later steps.  A refusal leaves what earlier limits recorded.   *)
(***************************************************************************)
EXTENDS Integers, FiniteSets, Sequences, FiniteSetsExt

CONSTANTS
    Requests,       \* each passes the limiter once
    Limiters,       \* the limits of the identity
    Chain,          \* [Requests -> Seq(Limiters)]: those of its identity, in
                    \* the order of the code; keys of one user share some
    Kind,           \* [Limiters -> {"window", "tokens", "quota"}]
    Limit,          \* [Limiters -> Nat \union {Blank}], 0 for none
    Blank,          \* a team or org record whose limit field is ""
    TokenCounts,    \* tokens a request may carry
    Window,         \* window_ms
    MaxDelay,       \* bound: longest time one request spends in the chain
    MaxTime,        \* bound: the clock stops here
    MaxActive       \* bound: requests in the chain at once

ASSUME RateLimiterAssumption ==
    /\ IsFiniteSet(Requests)
    /\ Chain \in [Requests -> Seq(Limiters) \ {<<>>}]
    /\ \A r \in Requests : \A i, j \in DOMAIN Chain[r] : Chain[r][i] = Chain[r][j] => i = j
    /\ Kind \in [Limiters -> {"window", "tokens", "quota"}]
    /\ \A d \in Limiters : Limit[d] = Blank \/ Limit[d] \in Nat
    /\ Blank \notin Nat
    /\ TokenCounts \subseteq Nat
    /\ \E most \in TokenCounts : \A tokens \in TokenCounts : most >= tokens
    /\ Window \in Nat /\ MaxDelay \in Nat /\ MaxDelay < Window
    /\ MaxTime \in Nat /\ MaxActive \in Nat \ {0}

-----------------------------------------------------------------------------
VARIABLES
    clock,
    window,    \* sorted set of a "window" limiter: <<request id, score>>
    ledger,    \* sorted set of a "tokens" limiter: members <<tokens, score>>
    quota,     \* counter of a "quota" limiter
    deadline,  \* when the limiter's sorted set expires (pexpire)
    req,       \* the requests
    took       \* history: when a limiter let a request pass, or NotTaken

vars == <<clock, window, ledger, quota, deadline, req, took>>

NotTaken == -1
Active == {"check", "write", "expire"}
Stages == Active \union {"idle", "admitted", "rejected", "error"}

\* now: now_ms; pos: place in the chain; at: history, time of the refusal.
Handler == [stage : Stages, now : Nat, tokens : Nat, pos : Nat, at : Nat]

TypeOK ==
    /\ clock \in 0..MaxTime
    /\ window \in [Limiters -> SUBSET (Requests \X Nat)]
    /\ ledger \in [Limiters -> SUBSET (Nat \X Nat)]
    /\ quota \in [Limiters -> Nat]
    /\ deadline \in [Limiters -> Nat]
    /\ req \in [Requests -> Handler]
    /\ \A r \in Requests : req[r].pos \in 1..Len(Chain[r])
    /\ took \in [Requests -> [Limiters -> Nat \union {NotTaken}]]

Init ==
    /\ clock = 0
    /\ window = [d \in Limiters |-> {}]
    /\ ledger = [d \in Limiters |-> {}]
    /\ quota = [d \in Limiters |-> 0]
    /\ deadline = [d \in Limiters |-> 0]
    /\ req = [r \in Requests |-> [stage |-> "idle", now |-> 0, tokens |-> 0, pos |-> 1,
                                  at |-> 0]]
    /\ took = [r \in Requests |-> [d \in Limiters |-> NotTaken]]

-----------------------------------------------------------------------------
Current(r) == Chain[r][req[r].pos]

\* The handler stands before a limiter of this kind.
Before(r, kind) ==
    /\ req[r].stage = "check"
    /\ Limit[Current(r)] \notin {0, Blank}
    /\ Kind[Current(r)] = kind

Pass(r, h) ==
    IF h.pos = Len(Chain[r]) THEN [h EXCEPT !.stage = "admitted"]
    ELSE [h EXCEPT !.stage = "check", !.pos = @ + 1]

Refuse(h) == [h EXCEPT !.stage = "rejected", !.at = clock]

\* An expired key reads as empty.
Alive(d, members) == IF clock < deadline[d] THEN members ELSE {}

\* Mutants: nothing is removed; everything up to now is removed.
EdgeNever(now) == -1
EdgeAtNow(now) == now

\* What is not younger is outside of the window.
Edge(now) == now - Window

\* zremrangebyscore 0 .. now - window
Pruned(members, now) == {e \in members : e[2] > Edge(now)}

Arrive(r, tokens) ==
    /\ req[r].stage = "idle"
    /\ Cardinality({s \in Requests : req[s].stage \in Active}) < MaxActive
    /\ req' = [req EXCEPT ![r] = [@ EXCEPT !.stage = "check", !.now = clock, !.tokens = tokens]]
    /\ UNCHANGED <<clock, window, ledger, quota, deadline, took>>

\* A limit that is not set, or counts tokens of a request with none.  No
\* handler passes cache_hit, which would skip token limits and quotas as well:
\* the limiter runs before the cache is asked.
Skip(r) ==
    /\ req[r].stage = "check"
    /\ \/ Limit[Current(r)] = 0
       \/ /\ Limit[Current(r)] # Blank
          /\ Kind[Current(r)] = "tokens" /\ req[r].tokens = 0
    /\ req' = [req EXCEPT ![r] = Pass(r, @)]
    /\ UNCHANGED <<clock, window, ledger, quota, deadline, took>>

\* int("") of a team or org record without the limit: the request fails.
ParseBlank(r) ==
    /\ req[r].stage = "check"
    /\ Limit[Current(r)] = Blank
    /\ req' = [req EXCEPT ![r].stage = "error"]
    /\ UNCHANGED <<clock, window, ledger, quota, deadline, took>>

\* The sliding window script, one atomic step.
SlidingWindow(r) ==
    LET h == req[r]
        d == Current(r)
        left == Pruned(Alive(d, window[d]), h.now)
    IN  /\ Before(r, "window")
        /\ IF Cardinality(left) >= Limit[d]
           THEN /\ window' = [window EXCEPT ![d] = left]
                /\ req' = [req EXCEPT ![r] = Refuse(h)]
                /\ UNCHANGED <<deadline, took>>
           ELSE /\ window' = [window EXCEPT ![d] = left \union {<<r, h.now>>}]
                /\ deadline' = [deadline EXCEPT ![d] = clock + Window]
                /\ took' = [took EXCEPT ![r][d] = clock]
                /\ req' = [req EXCEPT ![r] = Pass(r, h)]
        /\ UNCHANGED <<clock, ledger, quota>>

\* _check_tpm, first await: prune and read in one transaction, then decide.
ReadTokens(r) ==
    LET h == req[r]
        d == Current(r)
        left == Pruned(Alive(d, ledger[d]), h.now)
    IN  /\ Before(r, "tokens") /\ h.tokens > 0
        /\ ledger' = [ledger EXCEPT ![d] = left]
        /\ req' = [req EXCEPT ![r] =
                     IF MapThenSumSet(LAMBDA e : e[1], left) + h.tokens > Limit[d]
                     THEN Refuse(h) ELSE [h EXCEPT !.stage = "write"]]
        /\ UNCHANGED <<clock, window, quota, deadline, took>>

\* zadd: the member is the text "now:tokens", so equal ones are one entry.
WriteTokens(r) ==
    LET h == req[r]
        d == Current(r)
    IN  /\ h.stage = "write" /\ Kind[d] = "tokens"
        /\ ledger' = [ledger EXCEPT ![d] = Alive(d, @) \union {<<h.tokens, h.now>>}]
        /\ deadline' = [deadline EXCEPT ![d] = IF Alive(d, ledger[d]) = {} THEN MaxTime + 1 ELSE @]
        /\ took' = [took EXCEPT ![r][d] = clock]
        /\ req' = [req EXCEPT ![r].stage = "expire"]
        /\ UNCHANGED <<clock, window, quota>>

ExpireTokens(r) ==
    LET d == Current(r)
    IN  /\ req[r].stage = "expire"
        /\ deadline' = [deadline EXCEPT ![d] = IF ledger[d] = {} THEN @ ELSE clock + Window]
        /\ req' = [req EXCEPT ![r] = Pass(r, @)]
        /\ UNCHANGED <<clock, window, ledger, quota, took>>

\* Mutant: the increment of the check is left at its default.
OverQuotaByOne(used, tokens, max) == used + 1 > max

OverQuota(used, tokens, max) == used + tokens > max

\* _check_quota: get and decide, then incrby.
ReadQuota(r) ==
    LET h == req[r]
        d == Current(r)
    IN  /\ Before(r, "quota")
        /\ req' = [req EXCEPT ![r] =
                     IF OverQuota(quota[d], h.tokens, Limit[d]) THEN Refuse(h) ELSE [h EXCEPT !.stage = "write"]]
        /\ UNCHANGED <<clock, window, ledger, quota, deadline, took>>

WriteQuota(r) ==
    LET h == req[r]
        d == Current(r)
    IN  /\ h.stage = "write" /\ Kind[d] = "quota"
        /\ quota' = [quota EXCEPT ![d] = @ + h.tokens]
        /\ took' = [took EXCEPT ![r][d] = clock]
        /\ req' = [req EXCEPT ![r] = Pass(r, h)]
        /\ UNCHANGED <<clock, window, ledger, deadline>>

Tick ==
    /\ clock < MaxTime
    /\ \A r \in Requests : req[r].stage \in Active => clock + 1 - req[r].now <= MaxDelay
    /\ clock' = clock + 1
    /\ UNCHANGED <<window, ledger, quota, deadline, req, took>>

Next ==
    \/ \E r \in Requests :
         \/ \E tokens \in TokenCounts : Arrive(r, tokens)
         \/ Skip(r)
         \/ ParseBlank(r)
         \/ SlidingWindow(r)
         \/ ReadTokens(r)
         \/ WriteTokens(r)
         \/ ExpireTokens(r)
         \/ ReadQuota(r)
         \/ WriteQuota(r)
    \/ Tick

Spec == Init /\ [][Next]_vars

-----------------------------------------------------------------------------
(* Properties.                                                             *)

Windows == {d \in Limiters : Kind[d] = "window" /\ Limit[d] \notin {0, Blank}}

\* Requests limiter d let pass after `since`, up to `until`.
Passed(d, since, until) ==
    {r \in Requests : took[r][d] # NotTaken /\ since < took[r][d] /\ took[r][d] <= until}

\* The scores are the times the requests came in, not the times they passed:
\* with delays of up to MaxDelay in the chain a request limit still holds in
\* real time, over any span shorter than the window by that delay.
RequestRateHeld ==
    \A d \in Windows, r \in Requests :
        took[r][d] # NotTaken =>
            Cardinality(Passed(d, took[r][d] - (Window - MaxDelay), took[r][d])) <= Limit[d]

\* No request is refused by a request limit that is not used up: so many
\* requests did pass within the window, longer by the delay.  Requests that
\* were refused by this limiter do not count against later ones.
RefusedOnlyWhenFull ==
    \A r \in Requests :
        req[r].stage = "rejected" /\ Current(r) \in Windows =>
            Cardinality(Passed(Current(r), req[r].at - Window - MaxDelay, req[r].at))
                >= Limit[Current(r)]

\* The quota is read and incremented in two steps: every other request in the
\* chain can add its tokens in between, and nothing beyond that.
QuotaOvershootBounded ==
    \A d \in Limiters :
        Kind[d] = "quota" /\ Limit[d] \notin {0, Blank} =>
            quota[d] <= Limit[d] + (MaxActive - 1) * Max(TokenCounts)
=============================================================================

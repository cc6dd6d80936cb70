----------------------------- MODULE RateLimiter -----------------------------
(***************************************************************************)
(* The gateway's sliding-window limiter (services/gateway/app/rate_limit.py)*)
(* for one bucket: a Redis sorted set per identity whose members are named *)
(* and scored by the clock reading of a request.  Two requests with one    *)
(* reading are one member, so that what is limited is readings.  Members   *)
(* carry their age instead of their time, so that time may pass without    *)
(* bound; the four commands of the pipeline are one step of Redis.         *)
(***************************************************************************)
EXTENDS Integers, Sequences

CONSTANTS
    Identities,    \* _client_identity of the callers
    Limit,         \* settings.write_rate_limit_requests
    Window         \* settings.rate_limit_window_seconds

ASSUME LimiterBounds == Limit \in Nat \ {0} /\ Window \in Nat \ {0}

VARIABLES
    hits,          \* ages of the members of each sorted set, newest first
    granted        \* ages of the readings it let requests pass at, newest first

limiterVars == <<hits, granted>>

LimiterInit == hits = [i \in Identities |-> <<>>] /\ granted = [i \in Identities |-> <<>>]

Young(age) == age < Window

\* The young ones of a sequence come first.
YoungOnes(ages) == [n \in {m \in DOMAIN ages : Young(ages[m])} |-> ages[n]]

\* Mutant of Prune: a fixed window, started again once its first hit is too old.
PruneFixed(ages) == IF ages # <<>> /\ ~Young(ages[Len(ages)]) THEN <<>> ELSE ages

\* ZREMRANGEBYSCORE key 0 now-window.
Prune(ages) == YoungOnes(ages)

\* f"{now}:{id(self)}" may be a member already, which ZADD then only scores anew.
SameReading(i) == hits[i] # <<>> /\ hits[i][1] = 0

\* ZADD: the request is a member also when it is refused.
Members(i, same) == IF same THEN Prune(hits[i]) ELSE <<0>> \o Prune(hits[i])

\* ZCARD
Used(i, same) == Len(Members(i, same))

Hit(i, same) == hits' = [hits EXCEPT ![i] = Members(i, same)]

\* check: within the limit, beyond it, or Redis does not answer and everybody
\* passes (fails open).
Pass(i) ==
    \E same \in {FALSE, SameReading(i)} :
        /\ Used(i, same) <= Limit
        /\ Hit(i, same)
        /\ granted' = IF same THEN granted ELSE [granted EXCEPT ![i] = <<0>> \o @]
Refuse(i) ==
    \E same \in {FALSE, SameReading(i)} :
        Used(i, same) > Limit /\ Hit(i, same) /\ UNCHANGED granted
FailOpen  == UNCHANGED limiterVars

\* One unit of time; what is older than the window need not be told apart.
Older(ages) == [n \in DOMAIN ages |-> IF Young(ages[n]) THEN ages[n] + 1 ELSE ages[n]]

Tick ==
    /\ hits' = [i \in Identities |-> Older(hits[i])]
    /\ granted' = [i \in Identities |-> YoungOnes(Older(granted[i]))]

-----------------------------------------------------------------------------

\* No caller gets requests through at more than Limit clock readings in any span
\* of Window, also across the boundary that a fixed window would have, as long
\* as Redis answers.
WindowRespected == \A i \in Identities : Len(granted[i]) <= Limit
=============================================================================

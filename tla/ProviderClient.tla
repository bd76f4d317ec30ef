---------------------------- MODULE ProviderClient ----------------------------
(***************************************************************************)
(* ProviderClient.request of apps/api/src/providers with the circuit       *)
(* breaker and the quota counter it stands on, for one external provider.  *)
(*                                                                         *)
(* The breaker lives in the memory of an API replica, the counter in the   *)
(* Redis that the replicas share.  A search of the provider is a sequence  *)
(* of `Requests` calls of request(): one for ASF and Planetary Computer,   *)
(* two for CDSE, which asks for its access token first.  Only the last one *)
(* carries a quota key.                                                    *)
(***************************************************************************)
EXTENDS Integers, FiniteSets

CONSTANTS
  Replicas,     \* processes of the API
  Searches,     \* searches that may be in flight at once
  Requests,     \* calls of request() in one search
  Retries,      \* retries of one request
  Threshold,    \* consecutive failures that open the breaker
  Cost,         \* quota units of the last request: 0 for ASF
  Limit,        \* quota units of a window
  MaxSearches,  \* bound: searches of a behaviour
  MaxWindow,    \* bound: quota windows of a behaviour
  MaxOutages,   \* bound: outages of Redis
  MaxRestarts   \* bound: restarts of a replica

ASSUME ProviderClientAssumption ==
  /\ IsFiniteSet(Searches)
  /\ Requests \in Nat \ {0}
  /\ Threshold \in Nat \ {0}
  /\ {Retries, Cost, Limit, MaxSearches, MaxWindow, MaxOutages, MaxRestarts}
       \subseteq Nat

VARIABLES
  breaker,  \* per replica: the fields of its CircuitBreaker
  search,   \* per search: where it is in its requests
  used,     \* per window: the counter in Redis
  late,     \* per window: counter commands still queued in the Redis client
  window,   \* the current quota window
  redis,    \* whether Redis answers
  left,     \* what remains of the bounds
  granted,  \* history, per window: units admitted on the counter's answer
  charged,  \* history, per window: units of admitted requests that were counted
  streak    \* history, per replica: searches failed since one succeeded

vars == <<breaker, search, used, late, window, redis, left, granted, charged, streak>>

-----------------------------------------------------------------------------
Windows == 0..MaxWindow
Gate    == {"closed", "open", "elapsed"}
Pc      == {"idle", "ask", "consume", "refund", "attempt"}
Breaker == [failures : Nat, gate : Gate, probing : BOOLEAN]
Search  == [pc : Pc, at : Replicas, phase : 1..Requests, tries : 0..Retries,
            window : Windows, probe : BOOLEAN]
Late    == [add : Nat, sub : Nat]

\* CLOSED is openedAt = null, OPEN within resetMs of openedAt, HALF_OPEN after it.
NewBreaker == [failures |-> 0, gate |-> "closed", probing |-> FALSE]

\* recordSuccess and recordFailure
TrippedLate(failures) == failures > Threshold
Tripped(failures) == failures >= Threshold
Succeeded(b) == NewBreaker
FailedKeepsProbe(b) ==
  [failures |-> b.failures + 1, probing |-> b.probing,
   gate |-> IF Tripped(b.failures + 1) THEN "open" ELSE b.gate]
Failed(b) ==
  [failures |-> b.failures + 1, probing |-> FALSE,
   gate |-> IF Tripped(b.failures + 1) THEN "open" ELSE b.gate]

\* used > cfg.limit
OverLimitLate(units) == units > Limit + 1
OverLimitEarly(units) == units >= Limit
OverLimit(units) == units > Limit

InFlight(s) == search[s].pc # "idle"
OnReplica(r) == {s \in Searches : InFlight(s) /\ search[s].at = r}
Replica(s) == search[s].at

Become(s, state) == search' = [search EXCEPT ![s] = state]
Goto(s, p) == Become(s, [search[s] EXCEPT !.pc = p])
Ended(state) == [state EXCEPT !.pc = "idle", !.probe = FALSE]
End(s)     == Become(s, Ended(search[s]))
\* The last request of a search has a quota key, the token request has none.
Charged(s) == search[s].phase = Requests
Guarded(s) == IF Charged(s) THEN "consume" ELSE "attempt"
Spend(b)   == left[b] > 0 /\ left' = [left EXCEPT ![b] = @ - 1]

Init ==
  /\ breaker = [r \in Replicas |-> NewBreaker]
  /\ search \in [Searches ->
       {[pc |-> "idle", at |-> r, phase |-> 1, tries |-> 0, window |-> 0,
         probe |-> FALSE] : r \in Replicas}]
  /\ used = [w \in Windows |-> 0]
  /\ late = [w \in Windows |-> [add |-> 0, sub |-> 0]]
  /\ window = 0
  /\ redis = TRUE
  /\ left = [searches |-> MaxSearches, outages |-> MaxOutages, restarts |-> MaxRestarts]
  /\ granted = [w \in Windows |-> 0]
  /\ charged = [w \in Windows |-> 0]
  /\ streak = [r \in Replicas |-> 0]

-----------------------------------------------------------------------------
(* ProviderClient.request *)

Start(s) ==
  /\ ~InFlight(s)
  /\ Spend("searches")
  /\ Become(s, [search[s] EXCEPT !.pc = "ask", !.phase = 1, !.tries = 0])
  /\ UNCHANGED <<breaker, used, late, window, redis, granted, charged, streak>>

\* breaker.isOpen(): CLOSED admits, HALF_OPEN admits the request that finds no
\* probe and makes it the probe, and everything else is refused.
Admit(s) ==
  /\ search[s].pc = "ask"
  /\ breaker[Replica(s)].gate = "closed"
  /\ Goto(s, Guarded(s))
  /\ UNCHANGED <<breaker, used, late, window, redis, left, granted, charged, streak>>

AdmitProbe(s) ==
  LET r == Replica(s) IN
  /\ search[s].pc = "ask"
  /\ breaker[r].gate = "elapsed"
  /\ ~breaker[r].probing
  /\ breaker' = [breaker EXCEPT ![r].probing = TRUE]
  /\ Become(s, [search[s] EXCEPT !.pc = Guarded(s), !.probe = TRUE])
  /\ UNCHANGED <<used, late, window, redis, left, granted, charged, streak>>

\* throw ProviderUnavailable(CIRCUIT_OPEN)
Refuse(s) ==
  LET b == breaker[Replica(s)] IN
  /\ search[s].pc = "ask"
  /\ b.gate = "open" \/ (b.gate = "elapsed" /\ b.probing)
  /\ End(s)
  /\ UNCHANGED <<breaker, used, late, window, redis, left, granted, charged, streak>>

\* quotaTracker.consume: INCRBY answered within the deadline.
Consume(s) ==
  LET units == used[window] + Cost IN
  /\ search[s].pc = "consume"
  /\ redis
  /\ used' = [used EXCEPT ![window] = units]
  /\ Become(s, [search[s] EXCEPT !.window = window,
                   !.pc = IF OverLimit(units) THEN "refund" ELSE "attempt"])
  /\ IF OverLimit(units)
       THEN UNCHANGED <<granted, charged>>
       ELSE /\ granted' = [granted EXCEPT ![window] = @ + Cost]
            /\ charged' = [charged EXCEPT ![window] = @ + Cost]
  /\ UNCHANGED <<breaker, late, window, redis, left, streak>>

\* The deadline passes first: the request goes on without accounting, and the
\* INCRBY stays queued in the client.
NoDeadline(s) == FALSE /\ UNCHANGED vars
ConsumeLate(s) ==
  /\ search[s].pc = "consume"
  /\ late' = [late EXCEPT ![window].add = @ + Cost]
  /\ Goto(s, "attempt")
  /\ UNCHANGED <<breaker, used, window, redis, left, granted, charged, streak>>

\* DECRBY, in time or after its own deadline; throw QUOTA_EXHAUSTED either way.
Refund(s) ==
  LET w == search[s].window IN
  /\ search[s].pc = "refund"
  /\ End(s)
  /\ \/ redis /\ used' = [used EXCEPT ![w] = @ - Cost] /\ UNCHANGED late
     \/ late' = [late EXCEPT ![w].sub = @ + Cost] /\ UNCHANGED used
  /\ UNCHANGED <<breaker, window, redis, left, granted, charged, streak>>

\* The provider answers a request.  The token of CDSE is read from Redis and
\* written back to it, with no deadline.
Answering(s) == search[s].pc = "attempt" /\ (Charged(s) \/ redis)

Answered(s) ==
  LET r == Replica(s) IN
  /\ Answering(s)
  /\ breaker' = [breaker EXCEPT ![r] = Succeeded(@)]
  /\ IF Charged(s)
       THEN End(s) /\ streak' = [streak EXCEPT ![r] = 0]
       ELSE /\ Become(s, [search[s] EXCEPT !.pc = "ask", !.phase = @ + 1, !.tries = 0,
                                           !.probe = FALSE])
            /\ UNCHANGED streak
  /\ UNCHANGED <<used, late, window, redis, left, granted, charged>>

\* A transient failure with retries left: back off and call again.
RetryForever(s) ==
  /\ Answering(s)
  /\ Become(s, [search[s] EXCEPT !.tries = @ + 1])
  /\ UNCHANGED <<breaker, used, late, window, redis, left, granted, charged, streak>>
Retry(s) ==
  /\ Answering(s)
  /\ search[s].tries < Retries
  /\ Become(s, [search[s] EXCEPT !.tries = @ + 1])
  /\ UNCHANGED <<breaker, used, late, window, redis, left, granted, charged, streak>>

\* A failure that is not transient, or the last retry: throw ProviderUnavailable.
GiveUp(s) ==
  LET r == Replica(s) IN
  /\ Answering(s)
  /\ breaker' = [breaker EXCEPT ![r] = Failed(@)]
  /\ streak' = [streak EXCEPT ![r] = @ + 1]
  /\ End(s)
  /\ UNCHANGED <<used, late, window, redis, left, granted, charged>>

-----------------------------------------------------------------------------
(* Time, Redis and the processes *)

\* resetMs have passed since openedAt.
Elapse(r) ==
  /\ breaker[r].gate = "open"
  /\ breaker' = [breaker EXCEPT ![r].gate = "elapsed"]
  /\ UNCHANGED <<search, used, late, window, redis, left, granted, charged, streak>>

NextWindow ==
  /\ window < MaxWindow
  /\ window' = window + 1
  /\ UNCHANGED <<breaker, search, used, late, redis, left, granted, charged, streak>>

LoseRedis ==
  /\ redis
  /\ Spend("outages")
  /\ redis' = FALSE
  /\ UNCHANGED <<breaker, search, used, late, window, granted, charged, streak>>

RegainRedis ==
  /\ ~redis
  /\ redis' = TRUE
  /\ UNCHANGED <<breaker, search, used, late, window, left, granted, charged, streak>>

\* The queued commands of a window reach Redis, INCRBYs before DECRBYs.
Land(w) ==
  /\ redis
  /\ late[w].add + late[w].sub > 0
  /\ used' = [used EXCEPT ![w] = @ + late[w].add - late[w].sub]
  /\ charged' = [charged EXCEPT ![w] = @ + late[w].add]
  /\ late' = [late EXCEPT ![w] = [add |-> 0, sub |-> 0]]
  /\ UNCHANGED <<breaker, search, window, redis, left, granted, streak>>

Restart(r) ==
  /\ Spend("restarts")
  /\ breaker' = [breaker EXCEPT ![r] = NewBreaker]
  /\ search' = [s \in Searches |->
       IF search[s].at = r THEN Ended(search[s]) ELSE search[s]]
  /\ streak' = [streak EXCEPT ![r] = 0]
  /\ UNCHANGED <<used, late, window, redis, granted, charged>>

-----------------------------------------------------------------------------
SearchStep(s) ==
  \/ Admit(s) \/ AdmitProbe(s) \/ Refuse(s)
  \/ Consume(s) \/ ConsumeLate(s) \/ Refund(s)
  \/ Answered(s) \/ Retry(s) \/ GiveUp(s)

Next ==
  \/ \E s \in Searches : Start(s) \/ SearchStep(s)
  \/ \E r \in Replicas : Elapse(r) \/ Restart(r)
  \/ NextWindow
  \/ LoseRedis \/ RegainRedis
  \/ \E w \in Windows : Land(w)

Spec == Init /\ [][Next]_vars

\* A request in flight goes on: its timers fire and the provider's socket
\* answers or times out.  Redis need never come back.
Fairness == \A s \in Searches : WF_vars(SearchStep(s))

FairSpec == Spec /\ Fairness

-----------------------------------------------------------------------------
(* Properties *)

TypeOK ==
  /\ breaker \in [Replicas -> Breaker]
  /\ search \in [Searches -> Search]
  /\ used \in [Windows -> Int]
  /\ late \in [Windows -> Late]
  /\ window \in Windows
  /\ redis \in BOOLEAN
  /\ left \in [{"searches", "outages", "restarts"} -> Nat]
  /\ granted \in [Windows -> Nat]
  /\ charged \in [Windows -> Nat]
  /\ streak \in [Replicas -> Nat]

\* Whatever the replicas interleave, the requests admitted on the counter's
\* answer in one window never add up to more than the limit: only requests
\* admitted without accounting can exceed it.
QuotaRespected == \A w \in Windows : granted[w] <= Limit

\* A request is refused for quota only in a window whose admitted requests have
\* used the whole limit: the units of requests that are refused at the same
\* moment, and not yet refunded, push nobody out.
RefusalJustified ==
  [][\A s \in Searches :
       (search[s].pc = "consume" /\ search'[s].pc = "refund")
         => charged[window] + Cost > Limit]_search

\* The mark of a probe in flight belongs to the current half-open period: it is
\* never carried into the next open period, where it would turn away the probe
\* that is due when that one elapses.
ProbeMarkIsCurrent ==
  \A r \in Replicas : breaker[r].probing => breaker[r].gate = "elapsed"

\* circuitBreaker.ts, "a probe is already in flight": the mark is never set with
\* no probe to clear it.
ProbeMarkHasOwner ==
  \A r \in Replicas : breaker[r].probing => \E s \in OnReplica(r) : search[s].probe

\* Threshold consecutive failed searches open the breaker, and it is not closed
\* again before a search succeeds.
OpensAfterFailures ==
  \A r \in Replicas : streak[r] >= Threshold => breaker[r].gate # "closed"

\* Every search comes to an end, also while Redis does not answer.
SearchSettles == \A s \in Searches : InFlight(s) ~> ~InFlight(s)

=============================================================================

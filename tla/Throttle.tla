------------------------------ MODULE Throttle ------------------------------
(***************************************************************************)
(* ThrottlingMiddleware: a token bucket per user with a shadowban, and the *)
(* periodic eviction of idle entries.  __call__ does not await before it   *)
(* has decided, so one update is one step.                                 *)
(*                                                                         *)
(* Time is counted in ticks, and tokens in the ticks it takes to refill    *)
(* them, so that refill_rate is 1; one action costs Cost of them.          *)
(* `since` and `spent` observe the middleware from an arbitrary moment on. *)
(***************************************************************************)
EXTENDS Integers

CONSTANTS
    Users,
    Cost,           \* one token, 0.5 s of refill
    Burst,          \* burst tokens
    SpamStrikes,    \* spam_strikes
    BanTime,        \* ban_seconds
    IdleTime,       \* the 60 s after which _maybe_cleanup forgets a user
    CleanupEvery,   \* cleanup_every
    MaxTime         \* bound: ticks

\* What the numbers of __init__ and _maybe_cleanup have in common: a bucket
\* that is forgotten would have been full again.
ASSUME ThrottleAssumption ==
    /\ Cost \in Nat \ {0} /\ Burst \in Nat /\ SpamStrikes \in Nat \ {0}
    /\ BanTime \in Nat /\ IdleTime \in Nat /\ CleanupEvery \in Nat \ {0}
    /\ MaxTime \in Nat
    /\ Cost <= Burst
    /\ Burst <= IdleTime
    /\ IdleTime <= BanTime

VARIABLES
    now,           \* time.monotonic()
    tokens,        \* _tokens, Absent when the user has no entry
    last,          \* _last
    strikes,       \* _strikes, where no entry counts as 0
    bannedUntil,   \* _banned_until
    calls,         \* _calls_since_cleanup
    since,         \* observer: when it began to count ...
    spent,         \* ... and what each user's handled actions cost since then
    lastBan,       \* observer: when the user was last banned
    offences       \* observer: over-budget actions since then

maps == <<tokens, last, strikes, bannedUntil>>
observer == <<since, spent, lastBan, offences>>
vars == <<now, maps, calls, observer>>

Absent == -1

-----------------------------------------------------------------------------
\* _maybe_cleanup: is it this call's turn, and what each map holds after it.
Sweeping == calls + 1 >= CleanupEvery

\* Mutant: eviction after a cutoff shorter than a refill.
ForgottenEarly(u) == Sweeping /\ last[u] < now

Forgotten(u) == Sweeping /\ last[u] <= now - IdleTime

Last(u)  == IF Forgotten(u) THEN Absent ELSE last[u]
Evicted(u) == Sweeping /\ Last(u) = Absent

Tokens(u)  == IF Evicted(u) THEN Absent ELSE tokens[u]
Strikes(u) == IF Evicted(u) THEN 0 ELSE strikes[u]

\* Mutant: the cleanup of the bans uses the cutoff of the other maps.
BannedCutoff(u) == IF Sweeping /\ bannedUntil[u] - BanTime <= now - IdleTime
                   THEN Absent ELSE bannedUntil[u]
Banned(u)  == IF Sweeping /\ bannedUntil[u] <= now THEN Absent ELSE bannedUntil[u]

Swept == calls' = IF Sweeping THEN 0 ELSE calls + 1

\* The ban of u has ended without a cleanup noticing: u starts afresh.
Released(u) == Banned(u) # Absent /\ now >= Banned(u)
Shadowed(u) == Banned(u) # Absent /\ now < Banned(u)

\* Mutant: the strikes survive the ban.
StrikesKept(u) == Strikes(u)

\* The strikes of u when this update is judged.
StrikesNow(u) == IF Released(u) THEN 0 ELSE Strikes(u)

\* Mutant: the refill is not capped at the burst.
BucketUncapped(u) ==
    LET kept == IF Released(u) \/ Tokens(u) = Absent THEN Burst ELSE Tokens(u)
        seen == IF Released(u) THEN Absent ELSE Last(u)
    IN IF seen = Absent THEN kept ELSE kept + (now - seen)

\* The bucket of u, refilled.
Bucket(u) ==
    LET kept == IF Released(u) \/ Tokens(u) = Absent THEN Burst ELSE Tokens(u)
        seen == IF Released(u) THEN Absent ELSE Last(u)
        full == IF seen = Absent THEN kept ELSE kept + (now - seen)
    IN IF full > Burst THEN Burst ELSE full

-----------------------------------------------------------------------------
Init ==
    /\ now = 0
    /\ tokens = [u \in Users |-> Absent]
    /\ last = [u \in Users |-> Absent]
    /\ strikes = [u \in Users |-> 0]
    /\ bannedUntil = [u \in Users |-> Absent]
    /\ calls = 0
    /\ since = 0
    /\ spent = [u \in Users |-> 0]
    /\ lastBan = [u \in Users |-> Absent]
    /\ offences = [u \in Users |-> 0]

Tick ==
    /\ now < MaxTime
    /\ now' = now + 1
    /\ UNCHANGED <<maps, calls, observer>>

\* The observer starts to count anew.
Observe ==
    /\ since < now
    /\ since' = now
    /\ spent' = [u \in Users |-> 0]
    /\ UNCHANGED <<now, maps, calls, lastBan, offences>>

\* The maps after an update of u, left at t tokens and n strikes, and banned
\* until b.
Settle(u, t, n, b) ==
    /\ tokens' = [v \in Users |-> IF v = u THEN t ELSE Tokens(v)]
    /\ last' = [v \in Users |-> IF v = u THEN now ELSE Last(v)]
    /\ strikes' = [v \in Users |-> IF v = u THEN n ELSE Strikes(v)]
    /\ bannedUntil' = [v \in Users |-> IF v = u THEN b ELSE Banned(v)]
    /\ Swept
    /\ UNCHANGED <<now, since>>

\* An update of a banned user is dropped; only the cleanup happens.
DropShadowed(u) ==
    /\ Shadowed(u)
    /\ tokens' = [v \in Users |-> Tokens(v)]
    /\ last' = [v \in Users |-> Last(v)]
    /\ strikes' = [v \in Users |-> Strikes(v)]
    /\ bannedUntil' = [v \in Users |-> Banned(v)]
    /\ Swept
    /\ UNCHANGED <<now, observer>>

\* Within budget: the handler runs, a strike is forgiven.
Handle(u) ==
    /\ ~Shadowed(u)
    /\ Bucket(u) >= Cost
    /\ Settle(u, Bucket(u) - Cost,
              IF StrikesNow(u) > 0 THEN StrikesNow(u) - 1 ELSE 0, Absent)
    /\ spent' = [spent EXCEPT ![u] = @ + Cost]
    /\ UNCHANGED <<lastBan, offences>>

\* Over budget: the update is dropped and counts as a strike, the last strike
\* bans.
DropOverBudget(u) ==
    /\ ~Shadowed(u)
    /\ Bucket(u) < Cost
    /\ LET n == StrikesNow(u) + 1
           ban == n >= SpamStrikes
       IN /\ Settle(u, Bucket(u), n, IF ban THEN now + BanTime ELSE Absent)
          /\ lastBan' = IF ban THEN [lastBan EXCEPT ![u] = now] ELSE lastBan
          /\ offences' = [offences EXCEPT ![u] = IF ban THEN 0 ELSE @ + 1]
    /\ UNCHANGED spent

Next ==
    \/ Tick \/ Observe
    \/ \E u \in Users : DropShadowed(u) \/ Handle(u) \/ DropOverBudget(u)

Spec == Init /\ [][Next]_vars
-----------------------------------------------------------------------------
\* Properties

TypeOK ==
    /\ now \in Nat /\ since \in 0 .. now
    /\ calls \in 0 .. CleanupEvery - 1
    /\ tokens \in [Users -> {Absent} \cup 0 .. Burst]
    /\ last \in [Users -> {Absent} \cup 0 .. now]
    /\ strikes \in [Users -> Nat]
    /\ bannedUntil \in [Users -> {Absent} \cup Nat]
    /\ spent \in [Users -> Nat]
    /\ lastBan \in [Users -> {Absent} \cup 0 .. now]
    /\ offences \in [Users -> Nat]

\* In every span of time a user gets no more handled than a full bucket and
\* what was refilled meanwhile: neither the eviction of idle entries nor the
\* end of a ban hands out tokens twice.
RateLimited == \A u \in Users : spent[u] <= Burst + (now - since)

\* A banned user gets nothing handled before the ban is over, however many
\* cleanups other users trigger meanwhile.
BanServed ==
    [][\A u \in Users :
          spent'[u] > spent[u] => lastBan[u] = Absent \/ now >= lastBan[u] + BanTime]_vars

\* A ban is earned: it takes spam_strikes over-budget actions since the last
\* one, those before it do not count again.
BanEarned ==
    [][\A u \in Users : lastBan'[u] # lastBan[u] => offences[u] + 1 >= SpamStrikes]_vars
=============================================================================

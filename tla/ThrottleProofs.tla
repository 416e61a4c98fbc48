---------------------------- MODULE ThrottleProofs ----------------------------
(***************************************************************************)
(* Proofs about Throttle: the rate limit and the bans hold for             *)
(* every number of users and every setting in which a forgotten bucket     *)
(* would have been full and a ban outlasts the eviction of idle entries.   *)
(***************************************************************************)
EXTENDS Throttle, TLAPS

\* What a user's entries t, l, n, b in the four maps say about what the
\* observer saw: tokens that were spent are not in the bucket, a ban in force
\* is the last one, and the strikes are offences since then.
Entries(u, t, l, n, b) ==
    /\ t \in {Absent} \cup 0 .. Burst
    /\ l \in {Absent} \cup 0 .. now
    /\ n \in Nat
    /\ b \in {Absent} \cup Nat
    /\ (t = Absent) <=> (l = Absent)
    /\ l = Absent => n = 0 /\ spent[u] <= now - since
    /\ l # Absent /\ since <= l => spent[u] + t <= Burst + (l - since)
    /\ l # Absent /\ l < since => spent[u] = 0
    /\ b # Absent => lastBan[u] # Absent /\ b = lastBan[u] + BanTime
    /\ b # Absent /\ l # Absent => l = lastBan[u]
    /\ lastBan[u] # Absent /\ now < lastBan[u] + BanTime => b # Absent
    /\ b = Absent => n <= offences[u]

ObserverType ==
    /\ now \in Nat /\ since \in 0 .. now
    /\ calls \in 0 .. CleanupEvery - 1
    /\ spent \in [Users -> Nat]
    /\ lastBan \in [Users -> {Absent} \cup 0 .. now]
    /\ offences \in [Users -> Nat]

MapsType ==
    /\ tokens \in [Users -> {Absent} \cup 0 .. Burst]
    /\ last \in [Users -> {Absent} \cup 0 .. now]
    /\ strikes \in [Users -> Nat]
    /\ bannedUntil \in [Users -> {Absent} \cup Nat]

UserInv(u) == Entries(u, tokens[u], last[u], strikes[u], bannedUntil[u])

ThrottleInv == ObserverType /\ MapsType /\ \A u \in Users : UserInv(u)

-----------------------------------------------------------------------------
\* The cleanup keeps the relation: a bucket it forgets would have been full,
\* and a ban it forgets is over.
LEMMA SweptEntries ==
    ASSUME ThrottleInv, NEW u \in Users
    PROVE  Entries(u, Tokens(u), Last(u), Strikes(u), Banned(u))
<1>1. /\ now \in Nat /\ since \in 0 .. now
      /\ spent[u] \in Nat /\ lastBan[u] \in {Absent} \cup 0 .. now /\ offences[u] \in Nat
      /\ UserInv(u)
    BY DEF ThrottleInv, ObserverType
<1> QED
    BY <1>1, ThrottleAssumption
       DEF UserInv, Entries, Tokens, Last, Strikes, Banned, Evicted, Forgotten, Absent

LEMMA SweptCalls == ThrottleInv /\ Swept => calls' \in 0 .. CleanupEvery - 1
BY ThrottleAssumption DEF ThrottleInv, ObserverType, Swept, Sweeping

\* The bucket an update of u finds: never more than was not spent.
LEMMA BucketBound ==
    ASSUME ThrottleInv, NEW u \in Users, ~Shadowed(u)
    PROVE  /\ Bucket(u) \in 0 .. Burst
           /\ spent[u] + Bucket(u) <= Burst + (now - since)
           /\ StrikesNow(u) \in Nat
           /\ StrikesNow(u) <= offences[u]
           /\ lastBan[u] # Absent => now >= lastBan[u] + BanTime
<1>1. /\ now \in Nat /\ since \in 0 .. now
      /\ spent[u] \in Nat /\ lastBan[u] \in {Absent} \cup 0 .. now /\ offences[u] \in Nat
    BY DEF ThrottleInv, ObserverType
<1>2. Entries(u, Tokens(u), Last(u), Strikes(u), Banned(u))
    BY SweptEntries
<1>3. CASE Released(u)
    BY <1>1, <1>2, <1>3, ThrottleAssumption
       DEF Entries, Bucket, StrikesNow, Released, Shadowed, Absent
<1>4. CASE ~Released(u)
    BY <1>1, <1>2, <1>4, ThrottleAssumption
       DEF Entries, Bucket, StrikesNow, Released, Shadowed, Absent
<1> QED BY <1>3, <1>4

-----------------------------------------------------------------------------
LEMMA ThrottleStart == Init => ThrottleInv
<1> SUFFICES ASSUME Init PROVE ThrottleInv
    OBVIOUS
<1>1. ObserverType /\ MapsType
    BY ThrottleAssumption DEF Init, ObserverType, MapsType, Absent
<1>2. ASSUME NEW u \in Users PROVE UserInv(u)
    BY DEF Init, UserInv, Entries, Absent
<1> QED BY <1>1, <1>2 DEF ThrottleInv

\* Time passes, or the observer starts anew: the maps stay.
LEMMA TickKeeps == ThrottleInv /\ (Tick \/ Observe \/ UNCHANGED vars) => ThrottleInv'
<1> SUFFICES ASSUME ThrottleInv, Tick \/ Observe \/ UNCHANGED vars PROVE ThrottleInv'
    OBVIOUS
<1>0. UNCHANGED <<maps, calls, lastBan, offences>> /\ now' \in {now, now + 1}
    BY DEF Tick, Observe, vars, maps, observer
<1>1. ObserverType'
    BY <1>0 DEF ThrottleInv, ObserverType, Tick, Observe, vars, observer
<1>2. MapsType'
    BY <1>0 DEF ThrottleInv, ObserverType, MapsType, maps
<1>3. ASSUME NEW u \in Users PROVE UserInv(u)'
  <2>1. /\ now \in Nat /\ since \in 0 .. now /\ spent[u] \in Nat
        /\ lastBan[u] \in {Absent} \cup 0 .. now /\ UserInv(u)
      BY DEF ThrottleInv, ObserverType
  <2>2. UNCHANGED <<tokens[u], last[u], strikes[u], bannedUntil[u], lastBan[u], offences[u]>>
      BY <1>0 DEF maps
  <2>3. CASE Observe
    <3>1. since' = now /\ now' = now /\ spent'[u] = 0
        BY <2>3 DEF Observe
    <3> QED BY <2>1, <2>2, <3>1, ThrottleAssumption DEF UserInv, Entries, Absent
  <2>4. CASE Tick \/ UNCHANGED vars
    <3>1. since' = since /\ spent'[u] = spent[u]
        BY <2>4 DEF Tick, observer, vars
    <3> QED BY <1>0, <2>1, <2>2, <3>1, ThrottleAssumption DEF UserInv, Entries, Absent
  <2> QED BY <2>3, <2>4
<1> QED BY <1>1, <1>2, <1>3 DEF ThrottleInv

\* The users other than the one whose update it is see only the cleanup.
LEMMA OthersSwept ==
    ASSUME ThrottleInv, NEW v \in Users, UNCHANGED <<now, since>>,
           tokens'[v] = Tokens(v), last'[v] = Last(v),
           strikes'[v] = Strikes(v), bannedUntil'[v] = Banned(v),
           spent'[v] = spent[v], lastBan'[v] = lastBan[v], offences'[v] = offences[v]
    PROVE  UserInv(v)'
BY SweptEntries DEF UserInv, Entries

LEMMA SweptType ==
    ASSUME ThrottleInv, NEW v \in Users
    PROVE  /\ Tokens(v) \in {Absent} \cup 0 .. Burst /\ Last(v) \in {Absent} \cup 0 .. now
           /\ Strikes(v) \in Nat /\ Banned(v) \in {Absent} \cup Nat
BY SweptEntries DEF Entries

LEMMA DropShadowedKeeps ==
    ASSUME ThrottleInv, NEW u \in Users, DropShadowed(u)
    PROVE  ThrottleInv'
<1>1. ObserverType'
    BY SweptCalls DEF ThrottleInv, ObserverType, DropShadowed, observer
<1>2. MapsType'
    BY SweptType DEF MapsType, DropShadowed
<1>3. ASSUME NEW v \in Users PROVE UserInv(v)'
    BY OthersSwept DEF DropShadowed, observer
<1> QED BY <1>1, <1>2, <1>3 DEF ThrottleInv

LEMMA SettleType ==
    ASSUME ThrottleInv, NEW u \in Users, NEW t \in 0 .. Burst, NEW n \in Nat,
           NEW b \in {Absent} \cup Nat, Settle(u, t, n, b)
    PROVE  MapsType'
<1>1. now \in Nat
    BY DEF ThrottleInv, ObserverType
<1> QED BY <1>1, SweptType DEF Settle, MapsType

LEMMA HandleKeeps ==
    ASSUME ThrottleInv, NEW u \in Users, Handle(u)
    PROVE  ThrottleInv'
<1> DEFINE n == IF StrikesNow(u) > 0 THEN StrikesNow(u) - 1 ELSE 0
<1>0. /\ now \in Nat /\ since \in 0 .. now
      /\ spent \in [Users -> Nat] /\ lastBan[u] \in {Absent} \cup 0 .. now
      /\ offences[u] \in Nat /\ Cost \in Nat /\ Burst \in Nat
    BY ThrottleAssumption DEF ThrottleInv, ObserverType
<1>1. /\ Bucket(u) \in 0 .. Burst /\ Bucket(u) >= Cost
      /\ spent[u] + Bucket(u) <= Burst + (now - since)
      /\ StrikesNow(u) \in Nat /\ StrikesNow(u) <= offences[u]
      /\ lastBan[u] # Absent => now >= lastBan[u] + BanTime
    BY BucketBound DEF Handle
<1>2. Settle(u, Bucket(u) - Cost, n, Absent)
    BY DEF Handle
<1>3. n \in Nat /\ n <= offences[u] /\ Bucket(u) - Cost \in 0 .. Burst
    BY <1>0, <1>1
<1> HIDE DEF n
<1>4. MapsType'
    BY <1>2, <1>3, SettleType
<1>5. ObserverType'
    BY <1>0, <1>2, SweptCalls DEF ThrottleInv, ObserverType, Handle, Settle
<1>6. ASSUME NEW v \in Users PROVE UserInv(v)'
  <2>1. CASE v = u
    <3>1. /\ tokens'[u] = Bucket(u) - Cost /\ last'[u] = now /\ strikes'[u] = n
          /\ bannedUntil'[u] = Absent /\ now' = now /\ since' = since
          /\ spent'[u] = spent[u] + Cost /\ lastBan' = lastBan /\ offences' = offences
        BY <1>0, <1>2 DEF Settle, Handle
    <3> QED BY <2>1, <3>1, <1>0, <1>1, <1>3, ThrottleAssumption DEF UserInv, Entries, Absent
  <2>2. CASE v # u
      BY <1>0, <1>2, <2>2, OthersSwept DEF Settle, Handle
  <2> QED BY <2>1, <2>2
<1> QED BY <1>4, <1>5, <1>6 DEF ThrottleInv

LEMMA DropOverBudgetKeeps ==
    ASSUME ThrottleInv, NEW u \in Users, DropOverBudget(u)
    PROVE  ThrottleInv'
<1> DEFINE n == StrikesNow(u) + 1
           ban == n >= SpamStrikes
           b == IF ban THEN now + BanTime ELSE Absent
<1>0. /\ now \in Nat /\ since \in 0 .. now
      /\ spent[u] \in Nat
      /\ lastBan \in [Users -> {Absent} \cup 0 .. now] /\ offences \in [Users -> Nat]
      /\ BanTime \in Nat /\ Burst \in Nat
    BY ThrottleAssumption DEF ThrottleInv, ObserverType
<1>1. /\ Bucket(u) \in 0 .. Burst
      /\ spent[u] + Bucket(u) <= Burst + (now - since)
      /\ StrikesNow(u) \in Nat /\ StrikesNow(u) <= offences[u]
      /\ lastBan[u] # Absent => now >= lastBan[u] + BanTime
    BY BucketBound DEF DropOverBudget
<1>2. /\ Settle(u, Bucket(u), n, b)
      /\ lastBan' = IF ban THEN [lastBan EXCEPT ![u] = now] ELSE lastBan
      /\ offences' = [offences EXCEPT ![u] = IF ban THEN 0 ELSE @ + 1]
      /\ UNCHANGED spent
    BY DEF DropOverBudget
<1>3. n \in Nat /\ n <= offences[u] + 1 /\ b \in {Absent} \cup Nat
    BY <1>0, <1>1
<1> HIDE DEF n
<1>4. MapsType'
    BY <1>1, <1>2, <1>3, SettleType
<1>5. ObserverType'
  <2>1. now' = now /\ since' = since /\ Swept
      BY <1>2 DEF Settle
  <2>2. calls' \in 0 .. CleanupEvery - 1
      BY <2>1, SweptCalls
  <2> QED BY <1>0, <1>2, <2>1, <2>2 DEF ThrottleInv, ObserverType
<1>6. ASSUME NEW v \in Users PROVE UserInv(v)'
  <2>1. CASE v = u
    <3>1. /\ tokens'[u] = Bucket(u) /\ last'[u] = now /\ strikes'[u] = n
          /\ bannedUntil'[u] = b /\ now' = now /\ since' = since
          /\ spent' = spent
        BY <1>2 DEF Settle
    <3>2. CASE ban
      <4>1. lastBan'[u] = now /\ b = now + BanTime
          BY <1>0, <1>2, <3>2
      <4>2. offences'[u] \in Nat
          BY <1>5 DEF ObserverType
      <4> QED BY <2>1, <3>1, <4>1, <4>2, <1>0, <1>1, <1>3 DEF UserInv, Entries, Absent
    <3>3. CASE ~ban
      <4>1. lastBan'[u] = lastBan[u] /\ offences'[u] = offences[u] + 1 /\ b = Absent
          BY <1>0, <1>2, <3>3
      <4> QED BY <2>1, <3>1, <4>1, <1>0, <1>1, <1>3 DEF UserInv, Entries, Absent
    <3> QED BY <3>2, <3>3
  <2>2. CASE v # u
      BY <1>0, <1>2, <2>2, OthersSwept DEF Settle
  <2> QED BY <2>1, <2>2
<1> QED BY <1>4, <1>5, <1>6 DEF ThrottleInv

LEMMA ThrottleStep == ThrottleInv /\ [Next]_vars => ThrottleInv'
<1> SUFFICES ASSUME ThrottleInv, [Next]_vars PROVE ThrottleInv'
    OBVIOUS
<1>1. CASE Tick \/ Observe \/ UNCHANGED vars
    BY <1>1, TickKeeps
<1>2. ASSUME NEW u \in Users, DropShadowed(u) \/ Handle(u) \/ DropOverBudget(u)
      PROVE  ThrottleInv'
    BY <1>2, DropShadowedKeeps, HandleKeeps, DropOverBudgetKeeps
<1> QED BY <1>1, <1>2 DEF Next

LEMMA ThrottleAlways == Spec => []ThrottleInv
<1>1. Init => ThrottleInv
    BY ThrottleStart
<1>2. ThrottleInv /\ [Next]_vars => ThrottleInv'
    BY ThrottleStep
<1> QED BY <1>1, <1>2, PTL DEF Spec

-----------------------------------------------------------------------------
\* No user gets more handled, in any span of time, than a full bucket and its
\* refill.
THEOREM NeverOverLimit == Spec => []RateLimited
<1>1. ThrottleInv => RateLimited
  <2> SUFFICES ASSUME ThrottleInv, NEW u \in Users
               PROVE  spent[u] <= Burst + (now - since)
      BY DEF RateLimited
  <2>1. now \in Nat /\ since \in 0 .. now /\ spent[u] \in Nat /\ UserInv(u)
      BY DEF ThrottleInv, ObserverType
  <2> QED BY <2>1, ThrottleAssumption DEF UserInv, Entries, Absent
<1> QED BY <1>1, ThrottleAlways, PTL

\* A ban is served in full.
THEOREM BansAreServed == Spec => BanServed
<1>1. ThrottleInv /\ [Next]_vars =>
      [\A u \in Users : spent'[u] > spent[u]
          => lastBan[u] = Absent \/ now >= lastBan[u] + BanTime]_vars
  <2> SUFFICES ASSUME ThrottleInv, Next, NEW u \in Users, spent'[u] > spent[u],
                      lastBan[u] # Absent
               PROVE  now >= lastBan[u] + BanTime
      OBVIOUS
  <2>0. spent \in [Users -> Nat]
      BY DEF ThrottleInv, ObserverType
  <2>1. Handle(u)
    <3>1. ASSUME NEW v \in Users, v # u PROVE ~Handle(v)
        BY <3>1, <2>0 DEF Handle
    <3>2. ASSUME NEW v \in Users PROVE ~DropShadowed(v) /\ ~DropOverBudget(v)
        BY <2>0 DEF DropShadowed, DropOverBudget, observer
    <3>3. ~Tick /\ ~Observe
        BY <2>0 DEF Tick, Observe, observer
    <3> QED BY <3>1, <3>2, <3>3 DEF Next
  <2> QED BY <2>1, BucketBound DEF Handle
<1> QED BY <1>1, ThrottleAlways, PTL DEF Spec, BanServed

\* A ban takes spam_strikes new offences.
THEOREM BansAreEarned == Spec => BanEarned
<1>1. ThrottleInv /\ [Next]_vars =>
      [\A u \in Users : lastBan'[u] # lastBan[u]
          => offences[u] + 1 >= SpamStrikes]_vars
  <2> SUFFICES ASSUME ThrottleInv, Next, NEW u \in Users, lastBan'[u] # lastBan[u]
               PROVE  offences[u] + 1 >= SpamStrikes
      OBVIOUS
  <2>0. lastBan \in [Users -> {Absent} \cup 0 .. now] /\ offences[u] \in Nat
      BY DEF ThrottleInv, ObserverType
  <2>1. DropOverBudget(u) /\ StrikesNow(u) + 1 >= SpamStrikes
    <3>1. PICK v \in Users : DropOverBudget(v)
        BY DEF Next, Tick, Observe, DropShadowed, Handle, observer
    <3>2. v = u
        BY <3>1, <2>0 DEF DropOverBudget
    <3> QED BY <3>1, <3>2, <2>0 DEF DropOverBudget
  <2>2. StrikesNow(u) \in Nat /\ StrikesNow(u) <= offences[u]
      BY <2>1, BucketBound DEF DropOverBudget
  <2> QED BY <2>0, <2>1, <2>2, ThrottleAssumption
<1> QED BY <1>1, ThrottleAlways, PTL DEF Spec, BanEarned

\* The maps hold what they are declared to hold.
THEOREM ThrottleTypeCorrect == Spec => []TypeOK
<1>1. ThrottleInv => TypeOK
    BY DEF ThrottleInv, ObserverType, MapsType, TypeOK
<1> QED BY <1>1, ThrottleAlways, PTL
=============================================================================

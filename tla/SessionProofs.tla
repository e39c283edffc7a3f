----------------------------- MODULE SessionProofs -----------------------------
(***************************************************************************)
(* What requests share with others of their session, their key or their    *)
(* agent, for every value of the constants: the bucket of a key, the       *)
(* vault of a session and what it is charged, the slots of the store, the  *)
(* proofs of an agent, the catalog of a tenant, the policy of a key.       *)
(***************************************************************************)
EXTENDS SharedSession, TokenBucket, CircuitBreaker, AgentIdentity, DiscoveryCache,
        PolicyCache, VaultStore, Vault, VaultLemmas, SequenceTheorems, FiniteSetTheorems, WellFoundedInduction, TLAPS

(***************************************************************************)
(* The bucket of a key (TokenBucket).  What was granted and what is left   *)
(* in the bucket grow together by no more than the time passed: BucketInv  *)
(* says so of the bucket in Redis, by the clocks of its callers, and of    *)
(* the bucket of each replica, by its own.                                 *)
(***************************************************************************)
Called ==
  [at : {"begun", "degraded"}, by : Replicas, now : Int, amount : Amounts]

BucketTypes ==
  /\ time \in Nat
  /\ bucket \in [tokens : 0 .. Burst, last : Int, until : Nat]
  /\ local \in [Replicas -> SUBSET [tokens : 0 .. Burst, last : 0 .. time]]
  /\ call \in [Calls -> {Resting} \cup Called]
  /\ granted \in Nat /\ grantedBy \in [Replicas -> Nat] /\ opened \in [Replicas -> Nat]
  /\ restarts \in Nat /\ drift \in Int /\ slip \in Nat

(* The filled of the bursts Redis was good for, and what slipped. *)
Allowance == (1 + restarts) * Burst + slip

(* While the bucket is there: it was filled by the clock of the last call, *)
(* until - Burst on Redis's own.                                           *)
Written ==
  /\ bucket.until - Burst \in 0 .. time
  /\ bucket.last = bucket.until - Burst + drift
  /\ granted + bucket.tokens <= Allowance + bucket.last

(* And while it is not, a full one may be handed out. *)
Absent == bucket = NoBucket /\ granted + Burst <= Allowance + time + drift

(* At most one bucket in a replica, and its level. *)
LocalLevel(p) ==
  \/ local[p] = {} /\ grantedBy[p] <= opened[p] * Burst + time
  \/ \E b \in local[p] :
       local[p] = {b} /\ grantedBy[p] + b.tokens <= opened[p] * Burst + b.last

BucketInv ==
  /\ BucketTypes
  /\ Written \/ Absent
  /\ \A p \in Replicas : LocalLevel(p)

-----------------------------------------------------------------------------
LEMMA AmountsArePositive == Burst \in Nat \ {0} /\ Amounts \subseteq Nat \ {0} /\ Skew \subseteq Int
  BY BucketAssumption

LEMMA BucketInit == BInit => BucketInv
<1>. SUFFICES ASSUME BInit PROVE BucketInv
  OBVIOUS
<1>. USE AmountsArePositive
<1>1. BucketTypes
  <2>1. bucket \in [tokens : 0 .. Burst, last : Int, until : Nat]
    BY DEF BInit, NoBucket
  <2>2. call \in [Calls -> {Resting} \cup Called]
    BY DEF BInit
  <2>3. local \in [Replicas -> SUBSET [tokens : 0 .. Burst, last : 0 .. time]]
    BY DEF BInit
  <2>4. grantedBy \in [Replicas -> Nat] /\ opened \in [Replicas -> Nat]
    BY DEF BInit
  <2>. HIDE AmountsArePositive
  <2>. QED
    BY <2>1, <2>2, <2>3, <2>4 DEF BInit, BucketTypes
<1>2. Absent
  BY DEF BInit, Absent, Allowance
<1>3. \A p \in Replicas : LocalLevel(p)
  BY DEF BInit, LocalLevel
<1>. QED
  BY <1>1, <1>2, <1>3 DEF BucketInv

(* What a bucket holds after a while. *)
LEMMA PastBounds ==
  ASSUME NEW elapsed \in Int
  PROVE  /\ Past(elapsed) \in Nat /\ elapsed <= Past(elapsed)
         /\ elapsed >= 0 => Past(elapsed) = elapsed
         /\ elapsed <= 0 => Past(elapsed) = 0
  BY DEF Past

LEMMA FilledBounds ==
  ASSUME NEW filled \in 0 .. Burst, NEW elapsed \in Int
  PROVE  /\ Filled(filled, elapsed) \in 0 .. Burst
         /\ Filled(filled, elapsed) <= filled + Past(elapsed)
  BY AmountsArePositive, PastBounds DEF Filled, Min2

(* The heart of it: one run of the script, by a call whose clock reads     *)
(* clk, keeps what was granted and what is left within the allowance.      *)
LEMMA ScriptLevel ==
  ASSUME BucketTypes, Written \/ Absent, NEW clk \in Int, NEW amount \in Amounts,
         NEW filled, filled = (IF Present THEN Filled(bucket.tokens, clk - bucket.last) ELSE Burst)
  PROVE  /\ filled \in 0 .. Burst
         /\ granted + filled <= Allowance + clk + Past(drift - (clk - time))
<1>. USE AmountsArePositive
<1>. DEFINE bound == Allowance
<1>1. /\ time \in Nat /\ granted \in Nat /\ drift \in Int /\ bound \in Int
      /\ bucket.tokens \in 0 .. Burst /\ bucket.last \in Int /\ bucket.until \in Nat
  BY DEF BucketTypes, Allowance
<1>2. /\ Past(drift - (clk - time)) \in Nat
      /\ drift - (clk - time) <= Past(drift - (clk - time))
  <2>1. drift - (clk - time) \in Int
    BY <1>1
  <2>. QED
    BY <2>1, PastBounds
<1>. HIDE DEF bound
<1>3. CASE Present
  <2>1. Written
    BY <1>3 DEF Absent, NoBucket, Present, BucketTypes
  <2>2. /\ Filled(bucket.tokens, clk - bucket.last) \in 0 .. Burst
        /\ Filled(bucket.tokens, clk - bucket.last) <= bucket.tokens + Past(clk - bucket.last)
        /\ clk - bucket.last >= 0 => Past(clk - bucket.last) = clk - bucket.last
        /\ clk - bucket.last <= 0 => Past(clk - bucket.last) = 0
    <3>1. clk - bucket.last \in Int
      BY <1>1
    <3>. QED
      BY <1>1, <3>1, FilledBounds, PastBounds
  <2>3. /\ bucket.last <= time + drift
        /\ granted + bucket.tokens <= bound + bucket.last
    BY <2>1, <1>1 DEF Written, bound
  <2>4. CASE clk - bucket.last >= 0
    BY <1>1, <1>2, <1>3, <2>2, <2>3, <2>4 DEF bound
  <2>5. CASE clk - bucket.last < 0
    BY <1>1, <1>2, <1>3, <2>2, <2>3, <2>5 DEF bound
  <2>. QED
    BY <1>1, <2>4, <2>5
<1>4. CASE ~Present
  <2>1. granted + Burst <= bound + time + drift
    <3>1. CASE Absent
      BY <3>1 DEF Absent, bound
    <3>2. CASE Written
      BY <1>1, <1>4, <3>2 DEF Written, Present, bound
    <3>. QED
      BY <3>1, <3>2
  <2>. QED
    BY <1>1, <1>2, <1>4, <2>1 DEF bound
<1>. QED
  BY <1>3, <1>4

Products ==
  /\ (1 + restarts) * Burst \in Nat /\ (1 + restarts + 1) * Burst = (1 + restarts) * Burst + Burst
  /\ \A p \in Replicas : /\ opened[p] * Burst \in Nat
                         /\ (opened[p] + 1) * Burst = opened[p] * Burst + Burst

LEMMA ProductsOfBurst == ASSUME BucketTypes PROVE Products
<1>1. \A n \in Nat : n * Burst \in Nat /\ (n + 1) * Burst = n * Burst + Burst
  BY AmountsArePositive
<1>2. 1 + restarts \in Nat /\ opened \in [Replicas -> Nat]
  BY DEF BucketTypes
<1>. QED
  BY <1>1, <1>2 DEF Products

(* A step that leaves the counts alone, and at most lets time pass. *)
LEMMA LevelsRest ==
  ASSUME BucketInv, BucketTypes', time <= time',
         UNCHANGED <<bucket, local, granted, grantedBy, opened, restarts, drift, slip>>
  PROVE  BucketInv'
<1>1. /\ time \in Nat /\ time' \in Nat /\ granted \in Nat /\ drift \in Int /\ Allowance \in Int
      /\ bucket.until \in Nat /\ Burst \in Nat
  BY AmountsArePositive DEF BucketInv, BucketTypes, Allowance
<1>2. Allowance' = Allowance
  BY DEF Allowance
<1>3. Written => Written'
  BY <1>1, <1>2 DEF Written
<1>4. Absent => Absent'
  <2>1. \A g, a, t, u, d \in Int : g <= a + t + d /\ t <= u => g <= a + u + d
    OBVIOUS
  <2>2. ASSUME Absent PROVE granted + Burst <= Allowance + time' + drift
    <3>1. granted + Burst \in Int /\ time \in Int /\ time' \in Int
      BY <1>1
    <3>2. granted + Burst <= Allowance + time + drift
      BY <2>2 DEF Absent
    <3>. QED
      BY <1>1, <2>1, <3>1, <3>2
  <2>. QED
    BY <1>2, <2>2 DEF Absent
<1>5. ASSUME NEW p \in Replicas PROVE LocalLevel(p)'
  <2>1. opened[p] * Burst \in Nat /\ grantedBy[p] \in Nat
    BY ProductsOfBurst DEF Products, BucketInv, BucketTypes
  <2>. QED
    BY <1>1, <2>1 DEF LocalLevel, BucketInv
<1>. QED
  BY <1>3, <1>4, <1>5 DEF BucketInv

LEMMA RestingCall ==
  ASSUME BucketInv, NEW c \in Calls, call[c].at \in {"begun", "degraded"}
  PROVE  call[c] \in Called
<1>1. Resting.at = "resting"
  BY DEF Resting
<1>2. call[c] \in {Resting} \cup Called
  BY DEF BucketInv, BucketTypes
<1>. QED
  BY <1>1, <1>2

LEMMA BeginsStep ==
  ASSUME BucketInv, NEW c \in Calls, NEW p \in Replicas, Begins(c, p)
  PROVE  BucketInv'
<1>1. PICK n \in Amounts, ahead \in Skew :
        call' = [call EXCEPT ![c] = [at |-> "begun", by |-> p, now |-> time + ahead, amount |-> n]]
  BY DEF Begins
<1>2. [at |-> "begun", by |-> p, now |-> time + ahead, amount |-> n] \in Called
  BY AmountsArePositive DEF Called, BucketInv, BucketTypes
<1>3. call' \in [Calls -> {Resting} \cup Called]
  BY <1>1, <1>2 DEF BucketInv, BucketTypes
<1>4. BucketTypes' /\ time <= time'
  BY <1>3 DEF Begins, clocks, BucketInv, BucketTypes
<1>. QED
  BY <1>4, LevelsRest DEF Begins, clocks

LEMMA RunsScriptStep ==
  ASSUME BucketInv, NEW c \in Calls, RunsScript(c)
  PROVE  BucketInv'
<1>. DEFINE clk == call[c].now
            amount == call[c].amount
            last == IF Present THEN bucket.last ELSE clk
            filled == IF Present THEN Filled(bucket.tokens, clk - last) ELSE Burst
            left == IF filled >= amount THEN filled - amount ELSE filled
            spent == IF filled >= amount THEN amount ELSE 0
<1>1. clk \in Int /\ amount \in Amounts /\ amount \in Nat \ {0}
  BY RestingCall, AmountsArePositive DEF RunsScript, Called
<1>2. /\ bucket' = [tokens |-> left, last |-> clk, until |-> time + Burst]
      /\ granted' = granted + spent
      /\ drift' = clk - time /\ slip' = slip + Past(drift - (clk - time))
      /\ call' = [call EXCEPT ![c] = Resting]
      /\ UNCHANGED <<time, script, local, grantedBy, opened, restarts>>
  BY DEF RunsScript, Drifts
<1>3. filled = IF Present THEN Filled(bucket.tokens, clk - bucket.last) ELSE Burst
  OBVIOUS
<1>. HIDE DEF filled, clk, amount
<1>4. /\ filled \in 0 .. Burst
      /\ granted + filled <= Allowance + clk + Past(drift - (clk - time))
  BY <1>1, <1>3, ScriptLevel DEF BucketInv
<1>5. left \in 0 .. Burst /\ spent \in Nat /\ left + spent = filled
  BY <1>1, <1>4, AmountsArePositive
<1>. HIDE DEF left, spent
<1>6. /\ time \in Nat /\ Burst \in Nat /\ granted \in Nat /\ slip \in Nat /\ drift \in Int
      /\ (1 + restarts) * Burst \in Nat
  BY AmountsArePositive, ProductsOfBurst DEF BucketInv, BucketTypes, Products
<1>7. Past(drift - (clk - time)) \in Nat
  <2>1. drift - (clk - time) \in Int
    BY <1>1, <1>6
  <2>. QED
    BY <2>1, PastBounds
<1>8. BucketTypes'
  <2>1. bucket' \in [tokens : 0 .. Burst, last : Int, until : Nat]
    BY <1>1, <1>2, <1>5, <1>6
  <2>2. granted' \in Nat /\ drift' \in Int /\ slip' \in Nat
    BY <1>1, <1>2, <1>5, <1>6, <1>7
  <2>3. call' \in [Calls -> {Resting} \cup Called]
    BY <1>2 DEF BucketInv, BucketTypes
  <2>. QED
    BY <1>2, <2>1, <2>2, <2>3 DEF BucketInv, BucketTypes
<1>9. Written'
  <2>1. Allowance' = Allowance + Past(drift - (clk - time))
    BY <1>2, <1>6, <1>7 DEF Allowance
  <2>2. bucket'.tokens = left /\ bucket'.last = clk /\ bucket'.until = time + Burst
    BY <1>2
  <2>3. granted' + left <= Allowance' + clk
    BY <1>1, <1>2, <1>4, <1>5, <1>6, <1>7, <2>1 DEF Allowance
  <2>. QED
    BY <1>1, <1>2, <1>6, <2>2, <2>3 DEF Written
<1>10. \A p \in Replicas : LocalLevel(p)'
  BY <1>2 DEF BucketInv, LocalLevel
<1>. QED
  BY <1>8, <1>9, <1>10 DEF BucketInv

LEMMA RestartStep == ASSUME BucketInv, RedisRestarts PROVE BucketInv'
<1>1. /\ time \in Nat /\ Burst \in Nat /\ granted \in Nat /\ slip \in Nat /\ drift \in Int
      /\ (1 + restarts) * Burst \in Nat /\ restarts \in Nat
      /\ bucket.tokens \in 0 .. Burst /\ bucket.until \in Nat
  BY AmountsArePositive, ProductsOfBurst DEF BucketInv, BucketTypes, Products
<1>2. granted <= Allowance + time + drift
  <2>1. CASE Absent
    BY <1>1, <2>1 DEF Absent, Allowance
  <2>2. CASE Written
    BY <1>1, <2>2 DEF Written, Allowance
  <2>. QED
    BY <2>1, <2>2 DEF BucketInv
<1>3. Allowance' = Allowance + Burst
  BY <1>1, ProductsOfBurst DEF RedisRestarts, Allowance, Products, BucketInv
<1>4. Absent'
  BY <1>1, <1>2, <1>3 DEF RedisRestarts, Absent, Allowance
<1>5. NoBucket \in [tokens : 0 .. Burst, last : Int, until : Nat]
  BY <1>1 DEF NoBucket
<1>6. BucketTypes'
  BY <1>1, <1>5 DEF RedisRestarts, BucketInv, BucketTypes
<1>7. \A p \in Replicas : LocalLevel(p)'
  BY DEF RedisRestarts, BucketInv, LocalLevel
<1>. QED
  BY <1>4, <1>6, <1>7 DEF BucketInv

LEMMA RedisFailsStep == ASSUME BucketInv, NEW c \in Calls, RedisFails(c) PROVE BucketInv'
<1>. DEFINE degraded == [at |-> "degraded", by |-> call[c].by, now |-> 0, amount |-> call[c].amount]
<1>1. call[c] \in Called
  BY RestingCall DEF RedisFails
<1>2. degraded \in Called
  BY <1>1 DEF Called
<1>3. call' = [call EXCEPT ![c] = degraded]
  BY DEF RedisFails
<1>. HIDE DEF degraded
<1>4. call' \in [Calls -> {Resting} \cup Called]
  BY <1>2, <1>3 DEF BucketInv, BucketTypes
<1>5. BucketTypes' /\ time <= time'
  BY <1>4 DEF RedisFails, clocks, BucketInv, BucketTypes
<1>. QED
  BY <1>5, LevelsRest DEF RedisFails, clocks

(* The bucket of a replica: filled, and spent by one grant. *)
LEMMA DegradesStep == ASSUME BucketInv, NEW c \in Calls, Degrades(c) PROVE BucketInv'
<1>. DEFINE p == call[c].by
            amount == call[c].amount
            filled == IF local[p] = {} THEN Burst ELSE Filled(Own(p).tokens, time - Own(p).last)
            left == IF filled >= amount THEN filled - amount ELSE filled
            spent == IF filled >= amount THEN amount ELSE 0
            fills == IF local[p] = {} THEN opened[p] + 1 ELSE opened[p]
            b == [tokens |-> left, last |-> time]
<1>1. p \in Replicas /\ amount \in Nat \ {0}
  BY RestingCall, AmountsArePositive DEF Degrades, Called
<1>2. /\ local' = [local EXCEPT ![p] = {b}]
      /\ opened' = [opened EXCEPT ![p] = fills]
      /\ grantedBy' = [grantedBy EXCEPT ![p] = @ + spent]
      /\ call' = [call EXCEPT ![c] = Resting]
      /\ UNCHANGED <<time, bucket, granted, restarts, drift, slip>>
  BY DEF Degrades, clocks
<1>3. /\ time \in Nat /\ Burst \in Nat /\ opened \in [Replicas -> Nat]
      /\ grantedBy \in [Replicas -> Nat]
      /\ local \in [Replicas -> SUBSET [tokens : 0 .. Burst, last : 0 .. time]]
  BY AmountsArePositive DEF BucketInv, BucketTypes
<1>4. /\ filled \in 0 .. Burst
      /\ grantedBy[p] + filled <= fills * Burst + time
      /\ fills \in Nat
  <2>1. CASE local[p] = {}
    <3>1. grantedBy[p] <= opened[p] * Burst + time
      BY <1>1, <2>1 DEF BucketInv, LocalLevel
    <3>2. opened[p] * Burst \in Nat /\ (opened[p] + 1) * Burst = opened[p] * Burst + Burst
      BY <1>1, ProductsOfBurst DEF Products, BucketInv
    <3>. QED
      BY <1>1, <1>3, <2>1, <3>1, <3>2
  <2>2. CASE local[p] # {}
    <3>1. PICK o \in local[p] :
            local[p] = {o} /\ grantedBy[p] + o.tokens <= opened[p] * Burst + o.last
      BY <1>1, <2>2 DEF BucketInv, LocalLevel
    <3>2. Own(p) = o
      BY <3>1 DEF Own
    <3>3. o.tokens \in 0 .. Burst /\ o.last \in 0 .. time
      BY <1>1, <1>3, <3>1
    <3>4. time - o.last \in Nat
      BY <1>3, <3>3
    <3>5. filled = Filled(o.tokens, time - o.last)
      BY <2>2, <3>2
    <3>. HIDE DEF filled
    <3>6. filled \in 0 .. Burst /\ filled <= o.tokens + (time - o.last)
      BY <3>3, <3>4, <3>5, FilledBounds, PastBounds
    <3>7. opened[p] * Burst \in Nat
      BY <1>1, ProductsOfBurst DEF Products, BucketInv
    <3>. QED
      BY <1>1, <1>3, <2>2, <3>1, <3>3, <3>6, <3>7
  <2>. QED
    BY <2>1, <2>2
<1>. HIDE DEF filled, fills, amount, p
<1>5. left \in 0 .. Burst /\ spent \in Nat /\ left + spent = filled
  BY <1>1, <1>3, <1>4
<1>. HIDE DEF left, spent
<1>6. b \in [tokens : 0 .. Burst, last : 0 .. time]
  BY <1>3, <1>5
<1>7. BucketTypes'
  <2>1. call' \in [Calls -> {Resting} \cup Called]
    BY <1>2 DEF BucketInv, BucketTypes
  <2>2. /\ local' \in [Replicas -> SUBSET [tokens : 0 .. Burst, last : 0 .. time]]
        /\ opened' \in [Replicas -> Nat] /\ grantedBy' \in [Replicas -> Nat]
    BY <1>1, <1>2, <1>3, <1>4, <1>5, <1>6
  <2>. QED
    BY <1>2, <2>1, <2>2 DEF BucketInv, BucketTypes
<1>8. Written' \/ Absent'
  BY <1>2 DEF BucketInv, Written, Absent, Allowance
<1>9. ASSUME NEW w \in Replicas PROVE LocalLevel(w)'
  <2>1. CASE w # p
    BY <1>2, <1>3, <2>1 DEF BucketInv, LocalLevel
  <2>2. CASE w = p
    <3>1. local'[p] = {b} /\ opened'[p] = fills /\ grantedBy'[p] = grantedBy[p] + spent
      BY <1>1, <1>2, <1>3
    <3>2. b.tokens = left /\ b.last = time
      OBVIOUS
    <3>. HIDE DEF b
    <3>3. fills * Burst \in Nat /\ grantedBy[p] \in Nat
      BY <1>1, <1>3, <1>4
    <3>4. (grantedBy[p] + spent) + b.tokens <= fills * Burst + b.last
      BY <1>3, <1>4, <1>5, <3>2, <3>3
    <3>. QED
      BY <2>2, <3>1, <3>4 DEF LocalLevel
  <2>. QED
    BY <2>1, <2>2
<1>. QED
  BY <1>7, <1>8, <1>9 DEF BucketInv

LEMMA DropsLocalStep == ASSUME BucketInv, NEW p \in Replicas, DropsLocal(p) PROVE BucketInv'
<1>1. /\ time \in Nat /\ Burst \in Nat /\ opened \in [Replicas -> Nat]
      /\ grantedBy \in [Replicas -> Nat]
      /\ local \in [Replicas -> SUBSET [tokens : 0 .. Burst, last : 0 .. time]]
  BY AmountsArePositive DEF BucketInv, BucketTypes
<1>2. BucketTypes'
  BY <1>1 DEF DropsLocal, clocks, BucketInv, BucketTypes
<1>3. Written' \/ Absent'
  BY DEF DropsLocal, clocks, BucketInv, Written, Absent, Allowance
<1>4. ASSUME NEW w \in Replicas PROVE LocalLevel(w)'
  <2>1. CASE w # p
    BY <1>1, <2>1 DEF DropsLocal, BucketInv, LocalLevel
  <2>2. CASE w = p
    <3>1. PICK o \in local[p] : grantedBy[p] + o.tokens <= opened[p] * Burst + o.last
      BY DEF DropsLocal, BucketInv, LocalLevel
    <3>2. o.tokens \in 0 .. Burst /\ o.last \in 0 .. time /\ grantedBy[p] \in Nat
      BY <1>1
    <3>3. opened[p] * Burst \in Nat
      BY ProductsOfBurst DEF Products, BucketInv
    <3>4. grantedBy[p] <= opened[p] * Burst + time
      BY <1>1, <3>1, <3>2, <3>3
    <3>5. local'[p] = {} /\ UNCHANGED <<grantedBy, opened, time>>
      BY <1>1 DEF DropsLocal
    <3>. QED
      BY <2>2, <3>4, <3>5 DEF LocalLevel
  <2>. QED
    BY <2>1, <2>2
<1>. QED
  BY <1>2, <1>3, <1>4 DEF BucketInv

LEMMA BucketStep == BucketInv /\ [BNext]_bvars => BucketInv'
<1>. SUFFICES ASSUME BucketInv, [BNext]_bvars PROVE BucketInv'
  OBVIOUS
<1>1. CASE BTicks
  <2>1. time \in Nat /\ time' = time + 1
    BY <1>1 DEF BTicks, BucketInv, BucketTypes
  <2>2. \A n \in 0 .. time : n \in 0 .. time'
    BY <2>1
  <2>3. local' \in [Replicas -> SUBSET [tokens : 0 .. Burst, last : 0 .. time']]
    BY <1>1, <2>2 DEF BTicks, BucketInv, BucketTypes
  <2>4. BucketTypes' /\ time <= time'
    BY <1>1, <2>1, <2>3 DEF BTicks, clocks, BucketInv, BucketTypes
  <2>. QED
    BY <1>1, <2>4, LevelsRest DEF BTicks, clocks
<1>2. ASSUME NEW c \in Calls, LoadsScript(c) PROVE BucketInv'
  <2>1. BucketTypes' /\ time <= time'
    BY <1>2 DEF LoadsScript, clocks, BucketInv, BucketTypes
  <2>. QED
    BY <1>2, <2>1, LevelsRest DEF LoadsScript, clocks
<1>3. CASE UNCHANGED bvars
  <2>1. BucketTypes' /\ time <= time'
    BY <1>3 DEF bvars, clocks, BucketInv, BucketTypes
  <2>. QED
    BY <1>3, <2>1, LevelsRest DEF bvars, clocks
<1>. QED
  BY <1>1, <1>2, <1>3, BeginsStep, RunsScriptStep, RestartStep, RedisFailsStep,
     DegradesStep, DropsLocalStep DEF BNext

-----------------------------------------------------------------------------
(* Whatever the burst, the amounts, the skew of the clocks and how calls   *)
(* overlap, fail and degrade, a key is granted no more than a burst for    *)
(* every bucket that was opened, the time passed and what clocks slipped   *)
(* (RATE_LIMIT_LUA and InMemoryBucket.acquire).                            *)
THEOREM BucketGrantsBounded == BSpec => []GrantsBounded
<1>1. ASSUME BucketInv PROVE RedisGrantsBounded
  <2>1. /\ time \in Nat /\ Burst \in Nat /\ granted \in Nat /\ slip \in Nat /\ drift \in Int
        /\ (1 + restarts) * Burst \in Nat /\ bucket.tokens \in Nat /\ bucket.until \in Nat
    BY <1>1, AmountsArePositive, ProductsOfBurst DEF BucketInv, BucketTypes, Products
  <2>2. CASE Written
    BY <2>1, <2>2 DEF Written, Allowance, RedisGrantsBounded
  <2>3. CASE Absent
    BY <2>1, <2>3 DEF Absent, Allowance, RedisGrantsBounded
  <2>. QED
    BY <1>1, <2>2, <2>3 DEF BucketInv
<1>2. ASSUME BucketInv, NEW p \in Replicas
      PROVE  grantedBy[p] <= opened[p] * Burst + time
  <2>1. /\ time \in Nat /\ grantedBy[p] \in Nat /\ opened[p] * Burst \in Nat
        /\ \A b \in local[p] : b.tokens \in Nat /\ b.last \in 0 .. time
    BY <1>2, AmountsArePositive, ProductsOfBurst DEF BucketInv, BucketTypes, Products
  <2>. QED
    BY <1>2, <2>1 DEF BucketInv, LocalLevel
<1>3. BucketInv => GrantsBounded
  BY <1>1, <1>2 DEF GrantsBounded, LocalGrantsBounded
<1>. QED
  BY <1>3, BucketInit, BucketStep, PTL DEF BSpec

-----------------------------------------------------------------------------
(***************************************************************************)
(* The vault of a session and what it is charged (SharedSession).  Every   *)
(* value of the shared vault is accounted for, and a request that began to *)
(* mask saw the counters grow by no less than what it minted, so that what *)
(* it is charged covers that, whoever minted beside it.                    *)
(***************************************************************************)
Stages == {"masked", "redacting", "text pass", "counted"}
Holder ==
  [at : Stages, mode : SessionModes, values : SUBSET Values, left : SUBSET Values,
   before : Nat, minted : SUBSET Values, count : Nat]

SessionTypes ==
  /\ vaulted \subseteq Values /\ mints \in Nat
  /\ q \in [Requests -> {Over} \cup Holder]

Open(c) == q[c] # Over

(* A request that is being masked, or was. *)
Charged(c) ==
  /\ IsFiniteSet(q[c].minted)
  /\ q[c].at = "masked" => q[c].minted = {} /\ q[c].left = q[c].values
  /\ ~Private(c) =>
       /\ q[c].values \ q[c].left \subseteq vaulted
       /\ q[c].at = "redacting" => Cardinality(q[c].minted) <= mints - q[c].before
       /\ q[c].at = "counted" => q[c].left = {} /\ Cardinality(q[c].minted) <= q[c].count

MintedBy(c, v) == Open(c) /\ ~Private(c) /\ v \in q[c].minted
Accounted(v) == v \in paid \cup excused \cup refused \/ \E c \in Requests : MintedBy(c, v)

SessionInv ==
  /\ SessionTypes
  /\ \A c \in Requests : Open(c) => Charged(c)
  /\ out \subseteq vaulted
  /\ \A v \in vaulted : Accounted(v)

LEMMA SessionInit == SInit => SessionInv
BY DEF SInit, SessionInv, SessionTypes, Open

LEMMA OverStage == Over.at = "over"
BY DEF Over

LEMMA OpenHolds ==
  ASSUME SessionTypes, NEW c \in Requests, q[c].at \in Stages
  PROVE  Open(c) /\ q[c] \in Holder
<1>1. Over.at \notin Stages
  BY DEF Over, Stages
<1>. QED
  BY <1>1 DEF SessionTypes, Open

(* A step of one request that mints nothing, and accounts for what it     *)
(* minted before, leaves the others as charged as they were.               *)
LEMMA StepOfOne ==
  ASSUME SessionInv, NEW c \in Requests, NEW h \in {Over} \cup Holder,
         q' = [q EXCEPT ![c] = h], vaulted' = vaulted, mints' = mints,
         out' \subseteq vaulted', paid \subseteq paid', excused \subseteq excused',
         refused \subseteq refused',
         h # Over => Charged(c)', \A v \in Values : MintedBy(c, v) => Accounted(v)'
  PROVE  SessionInv'
<1>1. SessionTypes /\ q'[c] = h /\ \A d \in Requests \ {c} : q'[d] = q[d]
  BY DEF SessionInv, SessionTypes
<1>2. SessionTypes'
  BY <1>1 DEF SessionTypes
<1>3. ASSUME NEW d \in Requests, Open(d)' PROVE Charged(d)'
  BY <1>1, <1>3 DEF Open, SessionInv, Charged, Private
<1>4. ASSUME NEW v \in vaulted PROVE Accounted(v)'
  <2>1. Accounted(v) /\ v \in Values
    BY <1>1 DEF SessionInv, SessionTypes
  <2>2. CASE v \in paid \cup excused \cup refused
    BY <2>2 DEF Accounted
  <2>3. ASSUME NEW d \in Requests \ {c}, MintedBy(d, v) PROVE MintedBy(d, v)'
    BY <1>1, <2>3 DEF MintedBy, Open, Private
  <2>. QED
    BY <2>1, <2>2, <2>3 DEF Accounted
<1>. QED
  BY <1>2, <1>3, <1>4 DEF SessionInv

LEMMA SessionStep == SessionInv /\ [SNext]_svars => SessionInv'
<1>. SUFFICES ASSUME SessionInv, [SNext]_svars PROVE SessionInv'
  OBVIOUS
<1>. USE DEF Stages
<1>0. SessionTypes /\ \A v \in vaulted : v \in Values
  BY DEF SessionInv, SessionTypes
<1>1. CASE Refills \/ UNCHANGED svars
  BY <1>1 DEF Refills, svars, SessionInv, SessionTypes, Open, Charged, Private, Accounted, MintedBy
<1>2. ASSUME NEW c \in Requests, Arrives(c) PROVE SessionInv'
  <2>1. PICK mode \in SessionModes, values \in SUBSET Values :
          q' = [q EXCEPT ![c] = [at |-> "masked", mode |-> mode, values |-> values, left |-> values,
                                 before |-> 0, minted |-> {}, count |-> 0]]
    BY <1>2 DEF Arrives
  <2>. DEFINE h == [at |-> "masked", mode |-> mode, values |-> values, left |-> values,
                    before |-> 0, minted |-> {}, count |-> 0]
  <2>2. /\ q[c] = Over /\ vaulted' = vaulted /\ mints' = mints /\ out' = out
        /\ paid' = paid /\ excused' = excused /\ refused' = refused
    BY <1>2 DEF Arrives
  <2>3. h \in Holder /\ q'[c] = h
    BY <1>0, <2>1 DEF Holder, SessionTypes
  <2>4. Charged(c)'
    BY <2>3, FS_EmptySet DEF Charged
  <2>5. \A v \in Values : ~MintedBy(c, v)
    BY <2>2 DEF MintedBy, Open
  <2>. HIDE DEF h
  <2>. QED
    BY <2>1, <2>2, <2>3, <2>4, <2>5, StepOfOne DEF SessionInv, h
<1>3. ASSUME NEW c \in Requests, BeginsRedaction(c) PROVE SessionInv'
  <2>1. q[c] \in Holder /\ Charged(c)
    BY <1>0, <1>3, OpenHolds DEF BeginsRedaction, SessionInv
  <2>. DEFINE h == [q[c] EXCEPT !.at = "redacting", !.before = IF Private(c) THEN 0 ELSE mints]
  <2>2. /\ h \in Holder /\ q' = [q EXCEPT ![c] = h] /\ q'[c] = h
        /\ vaulted' = vaulted /\ mints' = mints /\ out' = out
        /\ paid' = paid /\ excused' = excused /\ refused' = refused
    BY <1>0, <1>3, <2>1 DEF BeginsRedaction, Holder, SessionTypes
  <2>3. /\ q[c].minted = {} /\ IsFiniteSet(q[c].minted) /\ Cardinality(q[c].minted) = 0
        /\ q[c].left = q[c].values /\ mints \in Nat
    BY <1>0, <1>3, <2>1, FS_EmptySet DEF Charged, BeginsRedaction, SessionTypes
  <2>4. /\ h.at = "redacting" /\ h.mode = q[c].mode /\ h.minted = q[c].minted
        /\ h.left = q[c].left /\ h.values = q[c].values
        /\ ~Private(c) => h.before = mints
    BY <2>1 DEF Holder
  <2>. HIDE DEF h
  <2>5. Charged(c)'
    BY <2>2, <2>3, <2>4 DEF Charged, Private
  <2>6. \A v \in Values : ~MintedBy(c, v)
    BY <2>3 DEF MintedBy
  <2>. QED
    BY <2>2, <2>5, <2>6, StepOfOne DEF SessionInv
<1>4. ASSUME NEW c \in Requests, NEW v \in Values, Mints(c, v) PROVE SessionInv'
  <2>1. q[c] \in Holder /\ Open(c) /\ Charged(c) /\ v \in q[c].left
    BY <1>0, <1>4, OpenHolds DEF Mints, SessionInv
  <2>. DEFINE new == MayMint(c, v)
              h == [q[c] EXCEPT !.left = @ \ {v}, !.minted = IF new THEN @ \cup {v} ELSE @]
  <2>2. /\ h \in Holder /\ q' = [q EXCEPT ![c] = h] /\ q'[c] = h
        /\ out' = out /\ paid' = paid /\ excused' = excused /\ refused' = refused
    BY <1>0, <1>4, <2>1 DEF Mints, Holder, SessionTypes
  <2>3. /\ h.at = q[c].at /\ h.mode = q[c].mode /\ h.values = q[c].values /\ h.before = q[c].before
        /\ h.count = q[c].count /\ h.left = q[c].left \ {v}
        /\ h.minted = IF new THEN q[c].minted \cup {v} ELSE q[c].minted
    BY <2>1 DEF Holder
  <2>. HIDE DEF h
  <2>4. /\ mints \in Nat /\ mints' \in Nat /\ mints <= mints'
        /\ vaulted \subseteq vaulted' /\ vaulted' \subseteq vaulted \cup {v}
        /\ ~Private(c) => v \in vaulted'
        /\ ~Private(c) /\ new => mints' = mints + 1
        /\ v \in vaulted' \ vaulted => ~Private(c) /\ new
        /\ ~new => mints' = mints
    <3>1. mints \in Nat
      BY <1>0 DEF SessionTypes
    <3>2. new <=> (Private(c) \/ v \notin vaulted)
      BY DEF MayMint
    <3>. HIDE DEF new
    <3>3. CASE new /\ ~Private(c)
      <4>1. vaulted' = vaulted \cup {v} /\ mints' = mints + 1
        BY <1>4, <3>3 DEF Mints, new
      <4>. QED
        BY <3>1, <3>3, <4>1
    <3>4. CASE ~new \/ Private(c)
      <4>1. vaulted' = vaulted /\ mints' = mints
        BY <1>4, <3>4 DEF Mints, new
      <4>. QED
        BY <3>1, <3>2, <3>4, <4>1
    <3>. QED
      BY <3>3, <3>4
  <2>5. SessionTypes'
    BY <1>0, <2>2, <2>4 DEF SessionTypes
  <2>6. /\ IsFiniteSet(q[c].minted) /\ IsFiniteSet(q[c].minted \cup {v})
        /\ Cardinality(q[c].minted) \in Nat
        /\ Cardinality(q[c].minted \cup {v}) <= Cardinality(q[c].minted) + 1
    <3>1. IsFiniteSet(q[c].minted)
      BY <2>1 DEF Charged
    <3>2. Cardinality(q[c].minted) \in Nat
      BY <3>1, FS_CardinalityType
    <3>3. /\ IsFiniteSet(q[c].minted \cup {v})
          /\ \/ Cardinality(q[c].minted \cup {v}) = Cardinality(q[c].minted)
             \/ Cardinality(q[c].minted \cup {v}) = Cardinality(q[c].minted) + 1
      BY <3>1, FS_AddElement
    <3>. QED
      BY <3>1, <3>2, <3>3
  <2>7. Charged(c)'
    <3>1. q[c].at \in {"redacting", "text pass"} /\ q[c].before \in Nat
      BY <1>4, <2>1 DEF Mints, Holder
    <3>2. ~Private(c) => q[c].values \ (q[c].left \ {v}) \subseteq vaulted'
      BY <2>1, <2>4 DEF Charged
    <3>3. ~Private(c) /\ q[c].at = "redacting" => Cardinality(h.minted) <= mints' - q[c].before
      <4>1. SUFFICES ASSUME ~Private(c), q[c].at = "redacting"
                     PROVE  Cardinality(h.minted) <= mints' - q[c].before
        OBVIOUS
      <4>2. Cardinality(q[c].minted) <= mints - q[c].before
        BY <2>1, <4>1 DEF Charged
      <4>. DEFINE number == Cardinality(q[c].minted)
                  base == q[c].before
      <4>0. /\ mints \in Nat /\ mints' \in Nat /\ mints <= mints' /\ base \in Nat
            /\ number \in Nat /\ number <= mints - base
        BY <2>4, <2>6, <3>1, <4>2
      <4>3. CASE new
        <5>1. h.minted = q[c].minted \cup {v} /\ mints' = mints + 1
          BY <2>3, <2>4, <4>1, <4>3
        <5>2. Cardinality(h.minted) <= number + 1 /\ Cardinality(h.minted) \in Nat
          BY <2>6, <5>1, FS_CardinalityType
        <5>. HIDE DEF number, base
        <5>3. Cardinality(h.minted) <= mints' - base
          BY <4>0, <5>1, <5>2
        <5>. QED
          BY <5>3 DEF base
      <4>4. CASE ~new
        <5>1. h.minted = q[c].minted /\ mints' = mints
          BY <2>3, <2>4, <4>4
        <5>2. Cardinality(h.minted) = number /\ Cardinality(h.minted) \in Nat
          BY <2>6, <5>1
        <5>. HIDE DEF number, base
        <5>3. Cardinality(h.minted) <= mints' - base
          BY <4>0, <5>1, <5>2
        <5>. QED
          BY <5>3 DEF base
      <4>. QED
        BY <4>3, <4>4
    <3>4. IsFiniteSet(h.minted)
      BY <2>3, <2>6
    <3>. QED
      BY <2>2, <2>3, <3>1, <3>2, <3>3, <3>4 DEF Charged, Private
  <2>8. ASSUME NEW d \in Requests \ {c}, Open(d)' PROVE Charged(d)'
    <3>1. q'[d] = q[d] /\ Open(d) /\ Charged(d) /\ q[d] \in Holder
      BY <1>0, <2>2, <2>8 DEF Open, SessionInv, SessionTypes
    <3>2. Cardinality(q[d].minted) \in Nat /\ q[d].before \in Nat
      BY <3>1, FS_CardinalityType DEF Charged, Holder
    <3>. QED
      BY <2>4, <3>1, <3>2 DEF Charged, Private
  <2>9. ASSUME NEW w \in vaulted' PROVE Accounted(w)'
    <3>0. h # Over
      BY <1>4, <2>3, OverStage DEF Mints
    <3>1. CASE w \in vaulted
      <4>1. CASE w \in paid \cup excused \cup refused
        BY <2>2, <4>1 DEF Accounted
      <4>2. ASSUME NEW d \in Requests, MintedBy(d, w) PROVE MintedBy(d, w)'
        <5>1. CASE d = c
          BY <2>1, <2>2, <2>3, <3>0, <4>2, <5>1 DEF MintedBy, Open, Private
        <5>2. CASE d # c
          BY <1>0, <2>2, <4>2, <5>2 DEF MintedBy, Open, Private, SessionTypes
        <5>. QED
          BY <5>1, <5>2
      <4>. QED
        BY <3>1, <4>1, <4>2 DEF Accounted, SessionInv
    <3>2. CASE w \notin vaulted
      <4>1. w = v /\ ~Private(c) /\ v \in h.minted
        BY <2>3, <2>4, <3>2
      <4>. QED
        BY <2>2, <2>3, <3>0, <4>1 DEF Accounted, MintedBy, Open, Private
    <3>. QED
      BY <3>1, <3>2
  <2>. QED
    BY <2>1, <2>2, <2>4, <2>5, <2>7, <2>8, <2>9 DEF SessionInv
<1>5. ASSUME NEW c \in Requests, RedactionFails(c) PROVE SessionInv'
  <2>1. /\ q' = [q EXCEPT ![c] = Over] /\ vaulted' = vaulted /\ mints' = mints /\ out' = out
        /\ paid' = paid /\ refused' = refused
        /\ excused' = excused \cup (IF Private(c) THEN {} ELSE q[c].minted)
    BY <1>5 DEF RedactionFails, Ends, Excuses
  <2>2. \A v \in Values : MintedBy(c, v) => Accounted(v)'
    BY <2>1 DEF MintedBy, Accounted
  <2>. QED
    BY <2>1, <2>2, StepOfOne DEF SessionInv
<1>6. ASSUME NEW c \in Requests, GoesOnAsText(c) PROVE SessionInv'
  <2>1. q[c] \in Holder /\ Charged(c)
    BY <1>0, <1>6, OpenHolds DEF GoesOnAsText, SessionInv
  <2>. DEFINE h == [q[c] EXCEPT !.at = "text pass", !.left = q[c].values]
  <2>2. /\ h \in Holder /\ q' = [q EXCEPT ![c] = h] /\ q'[c] = h
        /\ vaulted' = vaulted /\ mints' = mints /\ out' = out
        /\ paid' = paid /\ excused' = excused /\ refused' = refused
    BY <1>0, <1>6, <2>1 DEF GoesOnAsText, Holder, SessionTypes
  <2>3. /\ h.at = "text pass" /\ h.mode = q[c].mode /\ h.minted = q[c].minted
        /\ h.left = q[c].values /\ h.values = q[c].values
    BY <2>1 DEF Holder
  <2>. HIDE DEF h
  <2>4. Charged(c)'
    BY <2>1, <2>2, <2>3 DEF Charged, Private
  <2>5. \A v \in Values : MintedBy(c, v) => Accounted(v)'
    <3>1. h # Over
      BY <2>3, OverStage
    <3>. QED
      BY <2>1, <2>2, <2>3, <3>1 DEF MintedBy, Accounted, Open, Private
  <2>. QED
    BY <2>2, <2>4, <2>5, StepOfOne DEF SessionInv
<1>7. ASSUME NEW c \in Requests, Redacted(c) PROVE SessionInv'
  <2>1. q[c] \in Holder /\ Charged(c)
    BY <1>0, <1>7, OpenHolds DEF Redacted, SessionInv
  <2>. DEFINE n == IF Private(c) THEN Cardinality(q[c].minted) ELSE mints - q[c].before
              h == [q[c] EXCEPT !.at = "counted", !.count = n]
  <2>2. n \in Nat /\ (~Private(c) => Cardinality(q[c].minted) <= n)
    <3>1. Cardinality(q[c].minted) \in Nat
      BY <2>1, FS_CardinalityType DEF Charged
    <3>2. mints \in Nat /\ q[c].before \in Nat /\ q[c].at = "redacting"
      BY <1>0, <1>7, <2>1 DEF Redacted, Holder, SessionTypes
    <3>3. CASE Private(c)
      BY <3>1, <3>3
    <3>4. CASE ~Private(c)
      <4>1. Cardinality(q[c].minted) <= mints - q[c].before
        BY <2>1, <3>2, <3>4 DEF Charged
      <4>. QED
        BY <3>1, <3>2, <3>4, <4>1
    <3>. QED
      BY <3>3, <3>4
  <2>. HIDE DEF n
  <2>3. /\ h \in Holder /\ q' = [q EXCEPT ![c] = h] /\ q'[c] = h
        /\ vaulted' = vaulted /\ mints' = mints /\ out' = out
        /\ paid' = paid /\ excused' = excused /\ refused' = refused
    BY <1>0, <1>7, <2>1, <2>2 DEF Redacted, Holder, SessionTypes, n
  <2>4. /\ h.at = "counted" /\ h.mode = q[c].mode /\ h.minted = q[c].minted
        /\ h.left = q[c].left /\ h.values = q[c].values /\ h.count = n /\ q[c].left = {}
    BY <1>7, <2>1 DEF Holder, Redacted
  <2>. HIDE DEF h
  <2>5. Charged(c)'
    BY <2>1, <2>2, <2>3, <2>4 DEF Charged, Private
  <2>6. \A v \in Values : MintedBy(c, v) => Accounted(v)'
    <3>1. h # Over
      BY <2>4, OverStage
    <3>. QED
      BY <2>1, <2>3, <2>4, <3>1 DEF MintedBy, Accounted, Open, Private
  <2>. QED
    BY <2>3, <2>5, <2>6, StepOfOne DEF SessionInv
<1>8. ASSUME NEW c \in Requests, Pays(c) PROVE SessionInv'
  <2>1. q[c] \in Holder /\ Charged(c)
    BY <1>0, <1>8, OpenHolds DEF Pays, SessionInv
  <2>2. /\ q' = [q EXCEPT ![c] = Over] /\ vaulted' = vaulted /\ mints' = mints
        /\ excused' = excused /\ refused' = refused /\ paid \subseteq paid'
        /\ out' = IF Private(c) THEN out ELSE out \cup q[c].values
    BY <1>8 DEF Pays, Ends, GoesOut
  <2>3. ~Private(c) => paid' = paid \cup q[c].minted
    <3>1. Cardinality(q[c].minted) \in Nat /\ q[c].count \in Nat
      BY <2>1, FS_CardinalityType DEF Charged, Holder
    <3>. QED
      BY <1>8, <2>1, <3>1 DEF Pays, Charged
  <2>4. out' \subseteq vaulted'
    BY <1>8, <2>1, <2>2 DEF Charged, Pays, SessionInv
  <2>5. \A v \in Values : MintedBy(c, v) => Accounted(v)'
    BY <2>3 DEF MintedBy, Accounted
  <2>. QED
    BY <2>2, <2>4, <2>5, StepOfOne
<1>9. ASSUME NEW c \in Requests, LeavesAsText(c) PROVE SessionInv'
  <2>1. q[c] \in Holder /\ Charged(c)
    BY <1>0, <1>9, OpenHolds DEF LeavesAsText, SessionInv
  <2>2. /\ q' = [q EXCEPT ![c] = Over] /\ vaulted' = vaulted /\ mints' = mints
        /\ paid' = paid /\ refused' = refused
        /\ excused' = excused \cup (IF Private(c) THEN {} ELSE q[c].minted)
        /\ out' = IF Private(c) THEN out ELSE out \cup q[c].values
    BY <1>9 DEF LeavesAsText, Ends, GoesOut, Excuses
  <2>3. out' \subseteq vaulted'
    BY <1>9, <2>1, <2>2 DEF Charged, LeavesAsText, SessionInv
  <2>4. \A v \in Values : MintedBy(c, v) => Accounted(v)'
    BY <2>2 DEF MintedBy, Accounted
  <2>. QED
    BY <2>2, <2>3, <2>4, StepOfOne
<1>10. ASSUME NEW c \in Requests, CannotPay(c) PROVE SessionInv'
  <2>1. /\ q' = [q EXCEPT ![c] = Over] /\ vaulted' = vaulted /\ mints' = mints /\ out' = out
        /\ paid' = paid /\ excused' = excused
        /\ refused' = refused \cup (IF Private(c) THEN {} ELSE q[c].minted)
    BY <1>10 DEF CannotPay, Ends
  <2>2. \A v \in Values : MintedBy(c, v) => Accounted(v)'
    BY <2>1 DEF MintedBy, Accounted
  <2>. QED
    BY <2>1, <2>2, StepOfOne DEF SessionInv
<1>. QED
  BY <1>1, <1>2, <1>3, <1>4, <1>5, <1>6, <1>7, <1>8, <1>9, <1>10 DEF SNext

(* Whatever the requests of a session, however they overlap, a value that  *)
(* left was paid for or is about to be, or belongs to a request that       *)
(* failed or was refused (main.py:1487-1560).                              *)
THEOREM SessionSentValuesArePaid == SSpec => []SentValuesArePaid
<1>1. SessionInv => SentValuesArePaid
  <2>. SUFFICES ASSUME SessionInv, NEW v \in out
                PROVE  v \in paid \cup OnAccount \cup excused \cup refused
    BY DEF SentValuesArePaid
  <2>1. Accounted(v)
    BY DEF SessionInv
  <2>2. ASSUME NEW c \in Requests, MintedBy(c, v) PROVE v \in OnAccount
    BY <2>2 DEF MintedBy, Open, OnAccount
  <2>. QED
    BY <2>1, <2>2 DEF Accounted
<1>. QED
  BY <1>1, SessionInit, SessionStep, PTL DEF SSpec

-----------------------------------------------------------------------------
(***************************************************************************)
(* The breaker of a session (CircuitBreaker).  While requests come one     *)
(* after the other the metrics are the summary of those evaluated so far:  *)
(* Sums says so, and each step of a request leaves it so.                  *)
(***************************************************************************)
Texts == {"", "this", "that", Short}
Hashes == {NoCalls, "calls"}
Metrics == [hash : Hashes, text : Texts, count : Nat]
Looked == {p \in Payloads : p.text # Short}
Evaluating ==
  [at : {"loaded", "compared", "counted", "written"}, payload : Looked, of : Nat, own : Metrics,
   repeats : BOOLEAN]
Decided == [at : {"tripped", "let through"}, repeats : BOOLEAN]

BreakerTypes ==
  /\ inRedis \in BOOLEAN /\ disturbed \in BOOLEAN
  /\ metrics \in Seq(Metrics) /\ Len(metrics) # 0
  /\ inRedis => Len(metrics) = 1
  /\ turn \in [Turns -> {Gone} \cup Evaluating \cup Decided]
  /\ seen \in Seq(Looked)

InTurn(t) == turn[t].at \in {"loaded", "compared", "counted", "written"}

(* Through Redis, who is stopped repeats itself. *)
RepeatsItself(t) ==
  /\ InTurn(t) => turn[t].of \in 1 .. Len(metrics)
  /\ turn[t].at = "counted" => inRedis
  /\ turn[t].at \in {"counted", "written"} /\ inRedis /\ turn[t].own.count # 0 => turn[t].repeats
  /\ turn[t].at = "tripped" /\ inRedis /\ Threshold > 1 => turn[t].repeats

(* Of the requests s, one after the other: RepeatAt. *)
RepeatIn(s, i) ==
  \/ \E j \in 1 .. (i - 1) : /\ s[j].hash # NoCalls /\ s[j].hash = s[i].hash
                             /\ \A k \in (j + 1) .. (i - 1) : s[k].hash = NoCalls
  \/ i > 1 /\ s[i - 1].text = s[i].text

(* The metrics m are those of the requests s. *)
LastCalls(m, s) ==
  \/ m.hash = NoCalls /\ \A j \in 1 .. Len(s) : s[j].hash = NoCalls
  \/ /\ m.hash # NoCalls
     /\ \E j \in 1 .. Len(s) : /\ s[j].hash = m.hash
                               /\ \A k \in (j + 1) .. Len(s) : s[k].hash = NoCalls

Sums(m, s) ==
  /\ LastCalls(m, s)
  /\ Len(s) = 0 => m.text = "" /\ m.count = 0
  /\ Len(s) # 0 => m.text = s[Len(s)].text /\ m.count < Len(s)
  /\ \A i \in (Len(s) - m.count + 1) .. Len(s) : RepeatIn(s, i)
  /\ m.count < Len(s) => ~RepeatIn(s, Len(s) - m.count)

(* What a request is at, of the metrics it shares with nobody. *)
InStep(t) ==
  LET p == turn[t].payload IN
  /\ turn[t].at \in {"loaded", "compared", "written"} => turn[t].own = metrics[1]
  /\ turn[t].at \in {"written", "tripped", "let through"} => Len(seen) # 0
  /\ turn[t].at = "compared" => turn[t].repeats = Repeats(metrics[1], p)
  /\ turn[t].at = "counted" => turn[t].own = WithTurn(metrics[1], p, Repeats(metrics[1], p))
  /\ turn[t].at \in {"tripped", "let through"} =>
       (turn[t].at = "tripped" <=> metrics[1].count >= Threshold - 1)

OneAfterTheOther ==
  /\ \A t, u \in Turns : turn[t] # Gone /\ turn[u] # Gone => t = u
  /\ Len(metrics) = 1 /\ Sums(metrics[1], seen)
  /\ \A t \in Turns : InStep(t)

BreakerInv ==
  /\ BreakerTypes
  /\ \A t \in Turns : RepeatsItself(t)
  /\ ~disturbed => OneAfterTheOther

LEMMA SumsParts ==
  ASSUME NEW m, NEW s, m.count \in Nat, Len(s) \in Nat
  PROVE  Sums(m, s) <=>
           /\ LastCalls(m, s)
           /\ Len(s) = 0 => m.text = "" /\ m.count = 0
           /\ Len(s) # 0 => m.text = s[Len(s)].text /\ m.count < Len(s)
           /\ \A i \in (Len(s) - m.count + 1) .. Len(s) : RepeatIn(s, i)
           /\ m.count < Len(s) => ~RepeatIn(s, Len(s) - m.count)
BY Zenon DEF Sums

LEMMA NoMetrics ==
  /\ NewMetrics \in Metrics /\ NewMetrics.hash = NoCalls /\ NewMetrics.text = ""
  /\ NewMetrics.count = 0 /\ Sums(NewMetrics, <<>>)
<1>1. NewMetrics \in Metrics /\ NewMetrics.hash = NoCalls /\ NewMetrics.text = "" /\ NewMetrics.count = 0
  BY DEF NewMetrics, Metrics, Hashes, Texts
<1> DEFINE z == <<>>
<1>2. Len(z) = 0 /\ \A i \in 1 .. 0 : FALSE
  OBVIOUS
<1> HIDE DEF z
<1>3. LastCalls(NewMetrics, z)
  BY <1>1, <1>2 DEF LastCalls
<1> DEFINE n == NewMetrics.count
<1>4. n = 0
  BY <1>1
<1> HIDE DEF n
<1>5. /\ \A i \in (Len(z) - n + 1) .. Len(z) : RepeatIn(z, i)
      /\ ~(n < Len(z)) /\ ~(Len(z) # 0)
  BY <1>2, <1>4
<1>6. Sums(NewMetrics, z)
  BY <1>1, <1>3, <1>5, Zenon DEF Sums, n
<1> QED  BY <1>1, <1>6 DEF z

LEMMA OneMetrics == ASSUME NEW m \in Metrics PROVE <<m>> \in Seq(Metrics) /\ Len(<<m>>) = 1 /\ <<m>>[1] = m
OBVIOUS

LEMMA BreakerInit == KInit => BreakerInv
<1> SUFFICES ASSUME KInit PROVE BreakerInv
  OBVIOUS
<1>2. metrics \in Seq(Metrics) /\ Len(metrics) = 1 /\ metrics[1] = NewMetrics
  BY NoMetrics, OneMetrics DEF KInit
<1>3. \A t \in Turns : turn[t] = Gone /\ turn[t].at = "gone"
  BY DEF KInit, Gone
<1>4. seen = <<>> /\ seen \in Seq(Looked)
  BY DEF KInit
<1>5. turn \in [Turns -> {Gone} \cup Evaluating \cup Decided] /\ disturbed \in BOOLEAN
  BY DEF KInit
<1>6. BreakerTypes
  <2>1. Len(metrics) # 0
    BY <1>2
  <2> QED  BY <1>2, <1>4, <1>5, <2>1 DEF BreakerTypes, KInit
<1>7. \A t \in Turns : RepeatsItself(t)
  BY <1>3 DEF RepeatsItself, InTurn
<1>8. OneAfterTheOther
  BY <1>2, <1>3, <1>4, NoMetrics DEF OneAfterTheOther, InStep
<1> QED  BY <1>6, <1>7, <1>8 DEF BreakerInv

LEMMA LookedFields ==
  ASSUME NEW p \in Looked
  PROVE  p.hash \in Hashes /\ p.text \in {"this", "that"} /\ p.text \in Texts /\ p.text # ""
BY DEF Looked, Payloads, Hashes, Texts

(* Whether an earlier request repeated does not depend on a later one.     *)
LEMMA EarlierRepeats ==
  ASSUME NEW s \in Seq(Looked), NEW p \in Looked
  PROVE  /\ Append(s, p) \in Seq(Looked) /\ Len(Append(s, p)) = Len(s) + 1 /\ Len(s) \in Nat
         /\ Append(s, p)[Len(s) + 1] = p
         /\ \A i \in 1 .. Len(s) : /\ Append(s, p)[i] = s[i]
                                   /\ RepeatIn(Append(s, p), i) <=> RepeatIn(s, i)
<1> DEFINE z == Append(s, p)
<1>1. /\ z \in Seq(Looked) /\ Len(z) = Len(s) + 1 /\ z[Len(s) + 1] = p
      /\ Len(s) \in Nat /\ \A i \in 1 .. Len(s) : z[i] = s[i]
  BY AppendProperties
<1> HIDE DEF z
<1>2. ASSUME NEW i \in 1 .. Len(s) PROVE RepeatIn(z, i) <=> RepeatIn(s, i)
  <2>1. \A j \in 1 .. (i - 1) : z[j] = s[j] /\ \A k \in (j + 1) .. (i - 1) : z[k] = s[k]
    BY <1>1
  <2>2. z[i] = s[i] /\ (i > 1 => z[i - 1] = s[i - 1])
    BY <1>1
  <2> QED  BY <2>1, <2>2 DEF RepeatIn
<1> QED  BY <1>1, <1>2 DEF z

(* _evaluate_payload_duplicate finds whether the payload is a repeat. *)
LEMMA RepeatIsSeen ==
  ASSUME NEW s \in Seq(Looked), NEW p \in Looked, NEW m \in Metrics, Sums(m, s)
  PROVE  Repeats(m, p) <=> RepeatIn(Append(s, p), Len(s) + 1)
<1> DEFINE n == Len(s)
           z == Append(s, p)
<1>1. /\ n \in Nat /\ z[n + 1] = p /\ \A i \in 1 .. n : z[i] = s[i]
  BY EarlierRepeats
<1>2. (p.hash # NoCalls /\ p.hash = m.hash) <=>
        \E j \in 1 .. n : /\ s[j].hash # NoCalls /\ s[j].hash = p.hash
                          /\ \A k \in (j + 1) .. n : s[k].hash = NoCalls
  <2>1. CASE m.hash = NoCalls
    BY <2>1, <1>1 DEF Sums, LastCalls
  <2>2. CASE m.hash # NoCalls
    <3>1. PICK j \in 1 .. n : s[j].hash = m.hash /\ \A k \in (j + 1) .. n : s[k].hash = NoCalls
      BY <2>2 DEF Sums, LastCalls
    <3>2. \A l \in 1 .. n : /\ s[l].hash # NoCalls
                            /\ \A k \in (l + 1) .. n : s[k].hash = NoCalls
                            => l = j
      BY <2>2, <3>1, <1>1
    <3> QED  BY <2>2, <3>1, <3>2
  <2> QED  BY <2>1, <2>2
<1>3. p.text = m.text <=> n > 0 /\ s[n].text = p.text
  <2>1. CASE n = 0
    <3>1. m.text = ""
      BY <2>1, <1>1, SumsParts DEF Metrics
    <3>2. p.text # ""
      BY LookedFields
    <3>3. ~(n > 0)
      BY <2>1, <1>1
    <3> QED  BY <3>1, <3>2, <3>3
  <2>2. CASE n # 0
    <3>1. m.text = s[n].text
      BY <2>2 DEF Sums
    <3>2. n > 0
      BY <2>2, <1>1
    <3> QED  BY <3>1, <3>2
  <2> QED  BY <2>1, <2>2
<1>4. RepeatIn(z, n + 1) <=>
        \/ \E j \in 1 .. n : /\ s[j].hash # NoCalls /\ s[j].hash = p.hash
                             /\ \A k \in (j + 1) .. n : s[k].hash = NoCalls
        \/ n > 0 /\ s[n].text = p.text
  <2>1. n + 1 - 1 = n /\ (n + 1 > 1 <=> n > 0)
    BY <1>1
  <2> HIDE DEF n, z
  <2>2. RepeatIn(z, n + 1) <=>
        \/ \E j \in 1 .. n : /\ z[j].hash # NoCalls /\ z[j].hash = z[n + 1].hash
                             /\ \A k \in (j + 1) .. n : z[k].hash = NoCalls
        \/ n > 0 /\ z[n].text = z[n + 1].text
    BY <1>1, <2>1 DEF RepeatIn
  <2>3. \A j \in 1 .. n : \A k \in (j + 1) .. n : k \in 1 .. n
    BY <1>1
  <2>4. n > 0 => n \in 1 .. n
    BY <1>1
  <2> QED  BY <1>1, <2>2, <2>3, <2>4
<1> QED  BY <1>2, <1>3, <1>4 DEF Repeats

(* With the payload counted, the metrics sum up one request more. *)
LEMMA SumsGrow ==
  ASSUME NEW s \in Seq(Looked), NEW p \in Looked, NEW m \in Metrics, Sums(m, s)
  PROVE  LET w == WithTurn(m, p, Repeats(m, p)) IN w \in Metrics /\ Sums(w, Append(s, p))
<1> DEFINE w == WithTurn(m, p, Repeats(m, p))
           n == Len(s)
           z == Append(s, p)
<1>1. /\ w.hash = (IF p.hash = NoCalls THEN m.hash ELSE p.hash) /\ w.text = p.text
      /\ w.count = IF Repeats(m, p) THEN m.count + 1 ELSE 0
  BY DEF WithTurn
<1>a. m.count \in Nat /\ m.hash \in Hashes
  BY DEF Metrics
<1>b. w \in Metrics
  <2>1. (IF p.hash = NoCalls THEN m.hash ELSE p.hash) \in Hashes /\ p.text \in Texts
    BY <1>a, LookedFields
  <2>2. (IF Repeats(m, p) THEN m.count + 1 ELSE 0) \in Nat
    BY <1>a
  <2> QED  BY <2>1, <2>2 DEF WithTurn, Metrics
<1>2. /\ n \in Nat /\ Len(z) = n + 1 /\ z[n + 1] = p
      /\ \A i \in 1 .. n : z[i] = s[i] /\ (RepeatIn(z, i) <=> RepeatIn(s, i))
  BY EarlierRepeats
<1>3. m.count <= n /\ (n > 0 => m.count < n)
  <2>1. (n = 0 => m.count = 0) /\ (n # 0 => m.count < n)
    BY <1>2, <1>a, SumsParts
  <2> QED  BY <2>1, <1>2, <1>a
<1>4. Repeats(m, p) <=> RepeatIn(z, n + 1)
  BY RepeatIsSeen
<1>c. RepeatIn(z, n + 1) => n > 0
  <2>1. n = 0 => n + 1 - 1 = 0 /\ ~(n + 1 > 1) /\ ~(\E j \in 1 .. 0 : TRUE)
    OBVIOUS
  <2> QED  BY <1>2, <2>1 DEF RepeatIn
<1>d. /\ LastCalls(m, s) /\ \A i \in (n - m.count + 1) .. n : RepeatIn(s, i)
      /\ m.count < n => ~RepeatIn(s, n - m.count)
  BY DEF Sums
<1> HIDE DEF w, n, z
<1>5. LastCalls(w, z)
  <2>1. CASE p.hash # NoCalls
    <3>1. n + 1 \in 1 .. (n + 1) /\ z[n + 1].hash = w.hash /\ w.hash # NoCalls
      BY <1>1, <1>2, <2>1
    <3>2. \A k \in (n + 1 + 1) .. (n + 1) : FALSE
      BY <1>2
    <3> QED  BY <1>2, <3>1, <3>2 DEF LastCalls
  <2>2. CASE p.hash = NoCalls /\ m.hash = NoCalls
    <3>1. \A j \in 1 .. n : s[j].hash = NoCalls
      BY <1>d, <2>2 DEF LastCalls, n
    <3>2. \A j \in 1 .. (n + 1) : z[j].hash = NoCalls
      BY <1>2, <2>2, <3>1
    <3> QED  BY <1>1, <1>2, <2>2, <3>2 DEF LastCalls
  <2>3. CASE p.hash = NoCalls /\ m.hash # NoCalls
    <3>1. PICK j \in 1 .. n : s[j].hash = m.hash /\ \A k \in (j + 1) .. n : s[k].hash = NoCalls
      BY <1>d, <2>3 DEF LastCalls, n
    <3>2. /\ j \in 1 .. (n + 1) /\ z[j].hash = w.hash /\ w.hash # NoCalls
          /\ \A k \in (j + 1) .. (n + 1) : z[k].hash = NoCalls
      BY <1>1, <1>2, <2>3, <3>1
    <3> QED  BY <1>2, <3>2 DEF LastCalls
  <2> QED  BY <2>1, <2>2, <2>3
<1>6. w.count < n + 1 /\ w.text = z[n + 1].text
  BY <1>1, <1>2, <1>3, <1>4, <1>a, <1>c
<1>7. ASSUME NEW i \in (Len(z) - w.count + 1) .. Len(z) PROVE RepeatIn(z, i)
  <2>1. Repeats(m, p) /\ w.count = m.count + 1
    BY <1>1, <1>2
  <2>2. CASE i = n + 1
    BY <1>4, <2>1, <2>2
  <2>3. CASE i # n + 1
    <3>1. i \in (n - m.count + 1) .. n /\ i \in 1 .. n
      BY <2>1, <2>3, <1>2, <1>3, <1>a
    <3> QED  BY <3>1, <1>2, <1>d
  <2> QED  BY <2>2, <2>3
<1>8. ~RepeatIn(z, Len(z) - w.count)
  <2>1. CASE Repeats(m, p)
    <3>1. Len(z) - w.count = n - m.count /\ n - m.count \in 1 .. n /\ m.count < n
      BY <2>1, <1>1, <1>2, <1>3, <1>4, <1>a, <1>c
    <3> QED  BY <3>1, <1>2, <1>d
  <2>2. CASE ~Repeats(m, p)
    <3>1. Len(z) - w.count = n + 1
      BY <2>2, <1>1, <1>2
    <3> QED  BY <2>2, <3>1, <1>4
  <2> QED  BY <2>1, <2>2
<1>9. Sums(w, z)
  <2>1. Len(z) # 0 /\ Len(z) = n + 1
    BY <1>2
  <2>2. w.text = z[Len(z)].text /\ w.count < Len(z)
    BY <1>6, <2>1, Zenon
  <2> QED  BY <1>5, <1>7, <1>8, <2>1, <2>2, Zenon DEF Sums
<1> QED  BY <1>b, <1>9 DEF w, z

LEMMA TurnFields ==
  ASSUME BreakerTypes, NEW t \in Turns
  PROVE  /\ InTurn(t) => turn[t] \in Evaluating
         /\ turn[t].at \in {"tripped", "let through"} => turn[t] \in Decided
         /\ turn[t] = Gone <=> turn[t].at = "gone"
<1>1. Gone.at = "gone"
  BY DEF Gone
<1>2. turn[t] \in {Gone} \cup Evaluating \cup Decided
  BY DEF BreakerTypes
<1> QED  BY <1>1, <1>2 DEF InTurn, Evaluating, Decided

(* A step of one request: the others are gone, or the requests overlap. *)
LEMMA StepOfTurn ==
  ASSUME BreakerInv, NEW t \in Turns, NEW h \in {Gone} \cup Evaluating \cup Decided,
         turn' = [turn EXCEPT ![t] = h], UNCHANGED inRedis, disturbed' \in BOOLEAN,
         metrics' \in Seq(Metrics), Len(metrics') >= Len(metrics), inRedis => Len(metrics') = 1,
         seen' \in Seq(Looked), RepeatsItself(t)',
         ~disturbed' => /\ ~disturbed /\ (turn[t] = Gone => Alone(t))
                        /\ Len(metrics') = 1 /\ Sums(metrics'[1], seen') /\ InStep(t)'
  PROVE  BreakerInv'
<1>1. /\ turn'[t] = h /\ \A u \in Turns : u # t => turn'[u] = turn[u]
      /\ turn' \in [Turns -> {Gone} \cup Evaluating \cup Decided]
  BY DEF BreakerInv, BreakerTypes
<1>2. Len(metrics) \in Nat /\ Len(metrics') \in Nat /\ Len(metrics) # 0
  BY DEF BreakerInv, BreakerTypes
<1>3. BreakerTypes'
  BY <1>1, <1>2 DEF BreakerInv, BreakerTypes
<1>4. ASSUME NEW u \in Turns, u # t PROVE RepeatsItself(u)'
  BY <1>1, <1>2, <1>4 DEF BreakerInv, RepeatsItself, InTurn
<1>5. ASSUME ~disturbed' PROVE OneAfterTheOther'
  <2>1. \A u \in Turns : u # t => turn[u] = Gone
    BY <1>5 DEF BreakerInv, OneAfterTheOther, Alone
  <2>2. \A u \in Turns : u # t => turn'[u] = Gone
    BY <1>1, <2>1
  <2>3. \A u \in Turns : u # t => InStep(u)'
    <3>1. Gone.at = "gone"
      BY DEF Gone
    <3> QED  BY <2>2, <3>1 DEF InStep
  <2> QED  BY <1>5, <2>2, <2>3 DEF OneAfterTheOther
<1> QED  BY <1>3, <1>4, <1>5 DEF BreakerInv

LEMMA LooksStep ==
  ASSUME BreakerInv, NEW t \in Turns, NEW p \in Payloads, Looks(t, p)
  PROVE  BreakerInv'
<1> DEFINE h == [at |-> "loaded", payload |-> p, of |-> Len(metrics), own |-> Last(metrics),
                 repeats |-> FALSE]
<1>1. /\ metrics \in Seq(Metrics) /\ Len(metrics) \in Nat /\ Len(metrics) \in 1 .. Len(metrics)
      /\ Last(metrics) = metrics[Len(metrics)] /\ Last(metrics) \in Metrics
  BY DEF BreakerInv, BreakerTypes, Last
<1>2. h \in Evaluating
  BY <1>1 DEF Looks, Evaluating, Looked
<1>3. /\ turn' = [turn EXCEPT ![t] = h] /\ turn'[t] = h /\ turn[t] = Gone
      /\ UNCHANGED <<inRedis, metrics>>
      /\ IF Alone(t) THEN UNCHANGED <<seen, disturbed>> ELSE Disturbs
  BY DEF Looks, BreakerInv, BreakerTypes
<1>4. /\ h.at = "loaded" /\ h.of = Len(metrics) /\ h.own = Last(metrics)
  OBVIOUS
<1> HIDE DEF h
<1>5. disturbed' \in BOOLEAN /\ seen' \in Seq(Looked)
  <2>1. CASE UNCHANGED <<seen, disturbed>>
    BY <2>1 DEF BreakerInv, BreakerTypes
  <2>2. CASE Disturbs
    BY <2>2 DEF Disturbs
  <2> QED  BY <1>3, <2>1, <2>2
<1>6. RepeatsItself(t)'
  BY <1>1, <1>3, <1>4 DEF RepeatsItself
<1>7. ASSUME ~disturbed'
      PROVE  /\ ~disturbed /\ (turn[t] = Gone => Alone(t))
             /\ Len(metrics') = 1 /\ Sums(metrics'[1], seen') /\ InStep(t)'
  <2>1. Alone(t) /\ ~disturbed /\ UNCHANGED seen
    BY <1>3, <1>7 DEF Disturbs
  <2>2. Len(metrics) = 1 /\ Sums(metrics[1], seen)
    BY <2>1 DEF BreakerInv, OneAfterTheOther
  <2>3. InStep(t)'
    BY <1>1, <1>3, <1>4, <2>2 DEF InStep
  <2> QED  BY <1>3, <2>1, <2>2, <2>3
<1>8. /\ metrics' \in Seq(Metrics) /\ Len(metrics') >= Len(metrics) /\ (inRedis => Len(metrics') = 1)
  BY <1>1, <1>3 DEF BreakerInv, BreakerTypes
<1>9. turn' = [turn EXCEPT ![t] = h] /\ UNCHANGED inRedis
  BY <1>3
<1> QED  BY <1>2, <1>5, <1>6, <1>7, <1>8, <1>9, StepOfTurn

(* What is known of a request under way. *)
LEMMA RequestUnderWay ==
  ASSUME BreakerInv, NEW t \in Turns, InTurn(t)
  PROVE  /\ turn[t] \in Evaluating /\ turn[t] # Gone /\ Known(t) \in Metrics
         /\ turn[t].payload \in Looked /\ turn[t].of \in 1 .. Len(metrics)
         /\ metrics \in Seq(Metrics) /\ Len(metrics) \in Nat \ {0}
         /\ ~disturbed /\ turn[t].at # "counted" => Known(t) = metrics[1]
         /\ ~disturbed => Len(metrics) = 1 /\ Sums(metrics[1], seen) /\ InStep(t)
<1>1. turn[t] \in Evaluating /\ turn[t] # Gone /\ turn[t].of \in 1 .. Len(metrics)
  BY TurnFields DEF BreakerInv, RepeatsItself, InTurn
<1>2. metrics \in Seq(Metrics) /\ Len(metrics) \in Nat \ {0}
  BY DEF BreakerInv, BreakerTypes
<1>3. turn[t].own \in Metrics /\ turn[t].payload \in Looked /\ turn[t].of \in Nat
  BY <1>1 DEF Evaluating
<1>4. metrics[turn[t].of] \in Metrics
  BY <1>1, <1>2
<1>5. Known(t) \in Metrics
  BY <1>3, <1>4 DEF Known
<1>6. ~disturbed => Len(metrics) = 1 /\ Sums(metrics[1], seen) /\ InStep(t)
  BY DEF BreakerInv, OneAfterTheOther
<1>7. ~disturbed /\ turn[t].at # "counted" => Known(t) = metrics[1]
  <2> SUFFICES ASSUME ~disturbed, turn[t].at # "counted" PROVE Known(t) = metrics[1]
    OBVIOUS
  <2>1. turn[t].of = 1
    BY <1>1, <1>6
  <2>2. turn[t].own = metrics[1]
    BY <1>6 DEF InStep, InTurn
  <2> QED  BY <2>1, <2>2 DEF Known
<1> QED  BY <1>1, <1>2, <1>3, <1>5, <1>6, <1>7

LEMMA ComparesStep ==
  ASSUME BreakerInv, NEW t \in Turns, Compares(t)
  PROVE  BreakerInv'
<1> DEFINE repeats == Repeats(Known(t), turn[t].payload)
           h == [turn[t] EXCEPT !.at = "compared", !.repeats = repeats]
<1>1. turn[t].at = "loaded" /\ InTurn(t)
  BY DEF Compares, InTurn
<1>2. turn[t] \in Evaluating /\ repeats \in BOOLEAN
  BY <1>1, RequestUnderWay DEF Repeats
<1>3. turn' = [turn EXCEPT ![t] = h] /\ UNCHANGED <<inRedis, metrics, seen, disturbed>>
  BY DEF Compares
<1>4. /\ h \in Evaluating /\ h.at = "compared" /\ h.repeats = repeats /\ h.of = turn[t].of
      /\ h.own = turn[t].own /\ h.payload = turn[t].payload
  BY <1>2 DEF Evaluating
<1> HIDE DEF h, repeats
<1>5. turn'[t] = h
  BY <1>3 DEF BreakerInv, BreakerTypes
<1>6. RepeatsItself(t)'
  BY <1>1, <1>3, <1>4, <1>5, RequestUnderWay DEF RepeatsItself
<1>7. ~disturbed => InStep(t)'
  BY <1>1, <1>3, <1>4, <1>5, RequestUnderWay DEF InStep, repeats
<1>8. /\ metrics' \in Seq(Metrics) /\ Len(metrics') >= Len(metrics) /\ (inRedis => Len(metrics') = 1)
      /\ seen' \in Seq(Looked)
  BY <1>1, <1>3, RequestUnderWay DEF BreakerInv, BreakerTypes
<1>9. disturbed' \in BOOLEAN
  BY <1>3 DEF BreakerInv, BreakerTypes
<1>a. ~disturbed' => /\ ~disturbed /\ (turn[t] = Gone => Alone(t))
                     /\ Len(metrics') = 1 /\ Sums(metrics'[1], seen') /\ InStep(t)'
  BY <1>1, <1>3, <1>7, RequestUnderWay
<1> QED  BY <1>3, <1>4, <1>6, <1>8, <1>9, <1>a, StepOfTurn

LEMMA CountsStep ==
  ASSUME BreakerInv, NEW t \in Turns, Counts(t)
  PROVE  BreakerInv'
<1> DEFINE p == turn[t].payload
           m == WithTurn(Known(t), p, turn[t].repeats)
           h == [turn[t] EXCEPT !.at = IF inRedis THEN "counted" ELSE "written", !.own = m]
<1>1. turn[t].at = "compared" /\ InTurn(t)
  BY DEF Counts, InTurn
<1>2. turn[t] \in Evaluating /\ p \in Looked /\ turn[t].repeats \in BOOLEAN /\ Known(t) \in Metrics
  BY <1>1, RequestUnderWay DEF Evaluating
<1>3. /\ m \in Metrics /\ (m.count # 0 => turn[t].repeats)
  <2>1. (IF p.hash = NoCalls THEN Known(t).hash ELSE p.hash) \in Hashes /\ p.text \in Texts
    BY <1>2, LookedFields DEF Metrics
  <2>2. (IF turn[t].repeats THEN Known(t).count + 1 ELSE 0) \in Nat
    BY <1>2 DEF Metrics
  <2> QED  BY <2>1, <2>2 DEF WithTurn, Metrics
<1>4. /\ turn' = [turn EXCEPT ![t] = h] /\ UNCHANGED <<inRedis, disturbed>>
      /\ metrics' = IF inRedis THEN metrics ELSE [metrics EXCEPT ![turn[t].of] = m]
      /\ inRedis => seen' = seen
      /\ ~inRedis => seen' = IF disturbed THEN seen ELSE Append(seen, p)
  BY DEF Counts, Evaluated
<1>5. ~disturbed => m = WithTurn(metrics[1], p, Repeats(metrics[1], p)) /\ turn[t].of = 1
  <2> SUFFICES ASSUME ~disturbed
               PROVE  m = WithTurn(metrics[1], p, Repeats(metrics[1], p)) /\ turn[t].of = 1
    OBVIOUS
  <2>1. Known(t) = metrics[1] /\ turn[t].repeats = Repeats(metrics[1], p)
    BY <1>1, RequestUnderWay DEF InStep
  <2>2. turn[t].of \in 1 .. Len(metrics) /\ Len(metrics) = 1
    BY <1>1, RequestUnderWay
  <2>3. turn[t].of = 1
    BY <2>2
  <2> QED  BY <2>1, <2>3
<1> HIDE DEF m
<1>6. /\ h \in Evaluating /\ h.at = (IF inRedis THEN "counted" ELSE "written") /\ h.own = m
      /\ h.repeats = turn[t].repeats /\ h.of = turn[t].of /\ h.payload = p
  BY <1>2, <1>3 DEF Evaluating
<1> HIDE DEF h, p
<1>7. turn'[t] = h
  BY <1>4 DEF BreakerInv, BreakerTypes
<1>8. /\ metrics' \in Seq(Metrics) /\ Len(metrics') = Len(metrics)
      /\ ~disturbed /\ ~inRedis => metrics'[1] = m
  BY <1>1, <1>3, <1>4, <1>5, RequestUnderWay
<1>9. seen \in Seq(Looked) /\ (inRedis => Len(metrics) = 1) /\ disturbed' \in BOOLEAN
  BY <1>4 DEF BreakerInv, BreakerTypes
<1>10. seen' \in Seq(Looked)
  BY <1>2, <1>4, <1>9, EarlierRepeats
<1>11. RepeatsItself(t)'
  <2>1. h.of \in 1 .. Len(metrics')
    BY <1>1, <1>6, <1>8, RequestUnderWay
  <2> QED  BY <2>1, <1>3, <1>4, <1>6, <1>7 DEF RepeatsItself
<1>12. ASSUME ~disturbed
       PROVE  Len(metrics') = 1 /\ Sums(metrics'[1], seen') /\ InStep(t)'
  <2>1. Len(metrics) = 1 /\ Sums(metrics[1], seen) /\ metrics[1] \in Metrics
    BY <1>1, <1>12, RequestUnderWay
  <2>2. CASE inRedis
    BY <2>1, <2>2, <1>4, <1>5, <1>6, <1>7, <1>12 DEF InStep
  <2>3. CASE ~inRedis
    <3>1. Sums(m, Append(seen, p)) /\ Len(Append(seen, p)) # 0
      BY <2>1, <1>2, <1>5, <1>9, <1>12, SumsGrow, EarlierRepeats
    <3> QED  BY <2>1, <2>3, <3>1, <1>4, <1>6, <1>7, <1>8, <1>12 DEF InStep
  <2> QED  BY <2>2, <2>3
<1>13. ~disturbed' => /\ ~disturbed /\ (turn[t] = Gone => Alone(t))
                      /\ Len(metrics') = 1 /\ Sums(metrics'[1], seen') /\ InStep(t)'
  BY <1>1, <1>4, <1>12, RequestUnderWay
<1>14. Len(metrics') >= Len(metrics) /\ (inRedis => Len(metrics') = 1)
  BY <1>1, <1>8, <1>9, RequestUnderWay
<1> QED  BY <1>4, <1>6, <1>8, <1>9, <1>10, <1>11, <1>13, <1>14, StepOfTurn

LEMMA WritesStep ==
  ASSUME BreakerInv, NEW t \in Turns, Writes(t)
  PROVE  BreakerInv'
<1> DEFINE p == turn[t].payload
           m == turn[t].own
           h == [turn[t] EXCEPT !.at = "written"]
<1>1. turn[t].at = "counted" /\ InTurn(t)
  BY DEF Writes, InTurn
<1>2. turn[t] \in Evaluating /\ p \in Looked /\ m \in Metrics
  BY <1>1, RequestUnderWay DEF Evaluating
<1>3. inRedis /\ Len(metrics) = 1 /\ (m.count # 0 => turn[t].repeats) /\ seen \in Seq(Looked)
  BY <1>1 DEF BreakerInv, BreakerTypes, RepeatsItself
<1>4. /\ turn' = [turn EXCEPT ![t] = h] /\ UNCHANGED <<inRedis, disturbed>> /\ metrics' = <<m>>
      /\ seen' = IF disturbed THEN seen ELSE Append(seen, p)
  BY DEF Writes, Evaluated
<1>5. /\ h \in Evaluating /\ h.at = "written" /\ h.own = m /\ h.of = turn[t].of
      /\ h.repeats = turn[t].repeats
  BY <1>2 DEF Evaluating
<1> HIDE DEF h
<1>6. turn'[t] = h
  BY <1>4 DEF BreakerInv, BreakerTypes
<1>7. metrics' \in Seq(Metrics) /\ Len(metrics') = 1 /\ metrics'[1] = m
  BY <1>2, <1>4, OneMetrics
<1>8. seen' \in Seq(Looked) /\ disturbed' \in BOOLEAN
  <2>1. Append(seen, p) \in Seq(Looked)
    BY <1>2, <1>3, EarlierRepeats
  <2>2. disturbed \in BOOLEAN
    BY DEF BreakerInv, BreakerTypes
  <2> QED  BY <1>3, <1>4, <2>1, <2>2
<1>9. RepeatsItself(t)'
  <2>1. h.of \in 1 .. Len(metrics')
    BY <1>1, <1>3, <1>5, <1>7, RequestUnderWay
  <2> QED  BY <2>1, <1>3, <1>4, <1>5, <1>6 DEF RepeatsItself
<1>10. ASSUME ~disturbed PROVE Sums(m, seen') /\ InStep(t)'
  <2>1. Sums(metrics[1], seen) /\ metrics[1] \in Metrics /\ InStep(t)
    BY <1>1, <1>10, RequestUnderWay
  <2>2. m = WithTurn(metrics[1], p, Repeats(metrics[1], p))
    BY <2>1, <1>1 DEF InStep
  <2> HIDE DEF m, p
  <2>3. Sums(m, Append(seen, p)) /\ Len(Append(seen, p)) # 0
    <3>1. Sums(m, Append(seen, p))
      BY <2>1, <2>2, <1>2, <1>3, SumsGrow
    <3>2. Len(Append(seen, p)) # 0
      BY <1>2, <1>3, EarlierRepeats
    <3> QED  BY <3>1, <3>2
  <2> QED  BY <2>3, <1>4, <1>5, <1>6, <1>7, <1>10 DEF InStep
<1>11. ~disturbed' => /\ ~disturbed /\ (turn[t] = Gone => Alone(t))
                      /\ Len(metrics') = 1 /\ Sums(metrics'[1], seen') /\ InStep(t)'
  BY <1>1, <1>4, <1>7, <1>10, RequestUnderWay
<1>12. Len(metrics') >= Len(metrics)
  BY <1>3, <1>7
<1> QED  BY <1>4, <1>5, <1>7, <1>8, <1>9, <1>11, <1>12, StepOfTurn

LEMMA DecidesStep ==
  ASSUME BreakerInv, NEW t \in Turns, Decides(t)
  PROVE  BreakerInv'
<1> DEFINE h == [at |-> IF Trips(t) THEN "tripped" ELSE "let through", repeats |-> turn[t].repeats]
<1>1. turn[t].at = "written" /\ InTurn(t)
  BY DEF Decides, InTurn
<1>2. turn[t] \in Evaluating /\ turn[t].repeats \in BOOLEAN /\ Known(t).count \in Nat
  BY <1>1, RequestUnderWay DEF Evaluating, Metrics
<1>3. turn' = [turn EXCEPT ![t] = h] /\ UNCHANGED <<inRedis, metrics, seen, disturbed>>
  BY DEF Decides
<1>4. /\ h \in Decided /\ h.at \in {"tripped", "let through"} /\ h.repeats = turn[t].repeats
      /\ h.at = "tripped" <=> Known(t).count >= Threshold - 1
  BY <1>2 DEF Decided, Trips
<1> HIDE DEF h
<1>5. turn'[t] = h
  BY <1>3 DEF BreakerInv, BreakerTypes
<1>6. RepeatsItself(t)'
  <2>1. inRedis /\ Known(t).count # 0 => turn[t].repeats
    BY <1>1 DEF Known, BreakerInv, RepeatsItself
  <2>2. Threshold > 1 /\ h.at = "tripped" => Known(t).count # 0
    BY <1>2, <1>4, BreakerAssumption
  <2> QED  BY <2>1, <2>2, <1>3, <1>4, <1>5 DEF RepeatsItself, InTurn
<1>7. ~disturbed => InStep(t)'
  BY <1>1, <1>3, <1>4, <1>5, RequestUnderWay DEF InStep
<1>8. /\ metrics' \in Seq(Metrics) /\ Len(metrics') >= Len(metrics) /\ (inRedis => Len(metrics') = 1)
      /\ seen' \in Seq(Looked) /\ disturbed' \in BOOLEAN
  BY <1>1, <1>3, RequestUnderWay DEF BreakerInv, BreakerTypes
<1>9. ~disturbed' => /\ ~disturbed /\ (turn[t] = Gone => Alone(t))
                     /\ Len(metrics') = 1 /\ Sums(metrics'[1], seen') /\ InStep(t)'
  BY <1>1, <1>3, <1>7, RequestUnderWay
<1> QED  BY <1>3, <1>4, <1>6, <1>8, <1>9, StepOfTurn

LEMMA LeavesStep ==
  ASSUME BreakerInv, NEW t \in Turns, StoreFails(t) \/ GoesOn(t)
  PROVE  BreakerInv'
<1>1. /\ turn' = [turn EXCEPT ![t] = Gone] /\ UNCHANGED inRedis /\ turn[t] # Gone
      /\ \/ StoreFails(t) /\ disturbed' = TRUE /\ seen' = <<>>
         \/ UNCHANGED <<metrics, seen, disturbed>>
  BY TurnFields DEF StoreFails, GoesOn, Disturbs, BreakerInv
<1>2. turn'[t] = Gone /\ Gone.at = "gone"
  BY <1>1 DEF BreakerInv, BreakerTypes, Gone
<1>3. RepeatsItself(t)' /\ InStep(t)'
  BY <1>2 DEF RepeatsItself, InStep, InTurn
<1>4. /\ metrics' \in Seq(Metrics) /\ Len(metrics') >= Len(metrics) /\ (inRedis => Len(metrics') = 1)
  <2>1. CASE StoreFails(t)
    <3>1. inRedis /\ Len(metrics) = 1 /\ metrics \in Seq(Metrics) /\ turn[t].own \in Metrics
      BY <2>1, RequestUnderWay DEF StoreFails, InTurn, BreakerInv, BreakerTypes, Evaluating
    <3>2. metrics' = metrics \/ metrics' = <<turn[t].own>>
      BY <2>1 DEF StoreFails
    <3>3. CASE metrics' = metrics
      <4>1. metrics' \in Seq(Metrics) /\ Len(metrics') = 1
        BY <3>1, <3>3
      <4> QED  BY <3>1, <4>1
    <3>4. CASE metrics' = <<turn[t].own>>
      <4>1. metrics' \in Seq(Metrics) /\ Len(metrics') = 1
        BY <3>1, <3>4, OneMetrics
      <4> QED  BY <3>1, <4>1
    <3> QED  BY <3>2, <3>3, <3>4
  <2>2. CASE UNCHANGED metrics
    BY <2>2 DEF BreakerInv, BreakerTypes
  <2> QED  BY <1>1, <2>1, <2>2
<1>5. seen' \in Seq(Looked) /\ disturbed' \in BOOLEAN
  <2>1. CASE disturbed' = TRUE /\ seen' = <<>>
    BY <2>1
  <2>2. CASE UNCHANGED <<seen, disturbed>>
    BY <2>2 DEF BreakerInv, BreakerTypes
  <2> QED  BY <1>1, <2>1, <2>2
<1>6. ~disturbed' => /\ ~disturbed /\ (turn[t] = Gone => Alone(t))
                     /\ Len(metrics') = 1 /\ Sums(metrics'[1], seen') /\ InStep(t)'
  BY <1>1, <1>3 DEF BreakerInv, OneAfterTheOther
<1> QED  BY <1>1, <1>3, <1>4, <1>5, <1>6, StepOfTurn

LEMMA ExpireStep == BreakerInv /\ MetricsExpire => BreakerInv'
<1> SUFFICES ASSUME BreakerInv, MetricsExpire PROVE BreakerInv'
  OBVIOUS
<1>1. /\ UNCHANGED <<inRedis, turn>> /\ disturbed' = TRUE /\ seen' = <<>>
      /\ metrics' = IF inRedis THEN <<NewMetrics>> ELSE Append(metrics, NewMetrics)
  BY DEF MetricsExpire, Disturbs
<1>2. metrics \in Seq(Metrics) /\ Len(metrics) \in Nat /\ NewMetrics \in Metrics
  <2>1. metrics \in Seq(Metrics)
    BY DEF BreakerInv, BreakerTypes
  <2>2. NewMetrics \in Metrics
    BY NoMetrics
  <2>3. Len(metrics) \in Nat
    BY <2>1
  <2> QED  BY <2>1, <2>2, <2>3
<1>3. /\ metrics' \in Seq(Metrics) /\ Len(metrics') >= Len(metrics) /\ Len(metrics') # 0
      /\ inRedis => Len(metrics') = 1
  <2>1. CASE inRedis
    <3>1. Len(metrics) = 1
      BY <2>1 DEF BreakerInv, BreakerTypes
    <3>2. metrics' \in Seq(Metrics) /\ Len(metrics') = 1
      BY <2>1, <1>1, <1>2, OneMetrics
    <3> QED  BY <3>1, <3>2
  <2>2. CASE ~inRedis
    BY <2>2, <1>1, <1>2, AppendProperties
  <2> QED  BY <2>1, <2>2
<1>4. Len(metrics') \in Nat
  BY <1>3
<1>5. BreakerTypes'
  BY <1>1, <1>3 DEF BreakerInv, BreakerTypes
<1>6. ASSUME NEW t \in Turns PROVE RepeatsItself(t)'
  BY <1>1, <1>2, <1>3, <1>4 DEF BreakerInv, RepeatsItself, InTurn
<1> QED  BY <1>1, <1>5, <1>6 DEF BreakerInv

LEMMA BreakerRests == BreakerInv /\ UNCHANGED kvars => BreakerInv'
<1> SUFFICES ASSUME BreakerInv, UNCHANGED kvars PROVE BreakerInv'
  OBVIOUS
<1>1. UNCHANGED <<inRedis, metrics, turn, begun, seen, disturbed>>
  BY DEF kvars
<1>2. BreakerTypes' /\ \A t \in Turns : RepeatsItself(t)'
  BY <1>1 DEF BreakerInv, BreakerTypes, RepeatsItself, InTurn
<1>3. OneAfterTheOther' <=> OneAfterTheOther
  BY <1>1 DEF OneAfterTheOther, InStep
<1> QED  BY <1>1, <1>2, <1>3 DEF BreakerInv

(* A request that is alone is stopped exactly when the last Threshold form *)
(* a loop.                                                                 *)
LEMMA LoopIsCounted ==
  ASSUME NEW m \in Metrics, seen \in Seq(Looked), Sums(m, seen)
  PROVE  Len(seen) # 0 => (m.count >= Threshold - 1 <=> InALoop)
<1> DEFINE n == Len(seen)
<1>1. n \in Nat /\ m.count \in Nat /\ Threshold \in Nat \ {0}
  BY BreakerAssumption DEF Metrics
<1>2. /\ n # 0 => m.count < n
      /\ \A i \in (n - m.count + 1) .. n : RepeatIn(seen, i)
      /\ m.count < n => ~RepeatIn(seen, n - m.count)
  BY <1>1, SumsParts
<1>3. InALoop <=> n >= Threshold /\ \A i \in (n - Threshold + 2) .. n : RepeatIn(seen, i)
  BY DEF InALoop, RepeatAt, RepeatIn
<1> HIDE DEF n
<1>4. ASSUME n # 0, m.count >= Threshold - 1 PROVE InALoop
  BY <1>1, <1>2, <1>3, <1>4
<1>5. ASSUME n # 0, ~(m.count >= Threshold - 1), InALoop PROVE FALSE
  <2>1. n - m.count \in (n - Threshold + 2) .. n /\ m.count < n
    BY <1>1, <1>2, <1>3, <1>5
  <2> QED  BY <2>1, <1>2, <1>3, <1>5
<1> QED  BY <1>4, <1>5 DEF n

(* Requests that come one after the other are stopped exactly when the     *)
(* last Threshold of them form a loop, whatever the threshold and whichever*)
(* store keeps the counts; through Redis a request that overlaps others is *)
(* only stopped if it repeats itself (circuit_breaker.py:75-125, 172-191). *)
THEOREM BreakerLoopsTrip == KSpec => []LoopsTrip
<1>1. BreakerInv /\ [KNext]_kvars => BreakerInv'
  BY BreakerRests, ExpireStep, LooksStep, ComparesStep, CountsStep, WritesStep, DecidesStep,
     LeavesStep DEF KNext
<1>2. BreakerInv => LoopsTrip
  <2> SUFFICES ASSUME BreakerInv, NEW t \in Turns
               PROVE  /\ turn[t].at \in {"tripped", "let through"} /\ ~disturbed =>
                            (turn[t].at = "tripped" <=> InALoop)
                      /\ turn[t].at = "tripped" /\ inRedis /\ Threshold > 1 => turn[t].repeats
    BY DEF LoopsTrip
  <2>1. ASSUME turn[t].at \in {"tripped", "let through"}, ~disturbed
        PROVE  turn[t].at = "tripped" <=> InALoop
    <3>1. /\ Len(metrics) = 1 /\ Sums(metrics[1], seen)
          /\ Len(seen) # 0 /\ (turn[t].at = "tripped" <=> metrics[1].count >= Threshold - 1)
      BY <2>1 DEF BreakerInv, OneAfterTheOther, InStep
    <3>2. metrics \in Seq(Metrics) /\ seen \in Seq(Looked)
      BY DEF BreakerInv, BreakerTypes
    <3>3. metrics[1] \in Metrics
      <4>1. 1 \in 1 .. Len(metrics)
        BY <3>1
      <4> QED  BY <3>2, <4>1, ElementOfSeq
    <3> QED  BY <3>1, <3>2, <3>3, LoopIsCounted
  <2>2. turn[t].at = "tripped" /\ inRedis /\ Threshold > 1 => turn[t].repeats
    BY DEF BreakerInv, RepeatsItself
  <2> QED  BY <2>1, <2>2
<1> QED  BY <1>1, <1>2, BreakerInit, PTL DEF KSpec

-----------------------------------------------------------------------------
(***************************************************************************)
(* Proofs of possession (AgentIdentity).  What makes a proof consumed once *)
(* is IdentityAssumption: the cache remembers for at least as long as the  *)
(* freshness window is wide, MaxAge and a skew on either side of it.       *)
(***************************************************************************)
Presentation == [at : {"presented", "verified", "consumed"}, proof : Proofs]
AgentState == {NotAsking} \cup Presentation

IdentityTypes ==
  /\ now \in Nat /\ iat \in [Proofs -> Nat]
  /\ DOMAIN cache \subseteq Proofs
  /\ \A p \in DOMAIN cache : cache[p] \in Nat
  /\ pushed \subseteq Proofs
  /\ used \in [Proofs -> 0 .. 2]
  /\ agent \in [Agents -> AgentState]

TooOld(p) == now - iat[p] >= MaxAge + ClockSkew

(* Remembered since a moment at which its iat was not ahead of the clock   *)
(* by more than the skew.                                                  *)
Recalled(p) == p \in DOMAIN cache /\ iat[p] < cache[p] + ClockSkew

(* A proof that was consumed is remembered, was pushed out, or is stale.   *)
UsedIsKnown ==
  \A p \in Proofs \ pushed :
    used[p] = 0 \/ (used[p] = 1 /\ (Recalled(p) \/ TooOld(p)))

IdentityInv == IdentityTypes /\ UsedIsKnown

-----------------------------------------------------------------------------
LEMMA IdentityInit == IInit => IdentityInv
<1>. SUFFICES ASSUME IInit PROVE IdentityInv
  OBVIOUS
<1>1. iat \in [Proofs -> Nat] /\ DOMAIN cache = {} /\ used \in [Proofs -> 0 .. 2]
  BY IdentityAssumption DEF IInit
<1>2. agent \in [Agents -> AgentState]
  BY DEF IInit, AgentState
<1>. QED
  BY <1>1, <1>2 DEF IInit, IdentityInv, IdentityTypes, UsedIsKnown

(* A request under way has a proof. *)
LEMMA UnderWay == ASSUME NEW s \in AgentState, s.at # "not asking" PROVE s \in Presentation
<1>1. NotAsking.at = "not asking"
  BY DEF NotAsking
<1>2. s # NotAsking
  BY <1>1
<1>. QED
  BY <1>2 DEF AgentState

(* An agent moves on with a proof. *)
LEMMA AgentsMove ==
  ASSUME agent \in [Agents -> AgentState], NEW a \in Agents, NEW p \in Proofs,
         NEW stage \in {"presented", "verified", "consumed"},
         agent' = [agent EXCEPT ![a] = Asking(stage, p)]
  PROVE  agent' \in [Agents -> AgentState]
<1>1. Asking(stage, p) \in Presentation
  BY DEF Asking, Presentation
<1>2. Asking(stage, p) \in AgentState
  BY <1>1 DEF AgentState
<1>. QED
  BY <1>2

(* Steps that leave the cache alone, whatever the agents and the clock do. *)
LEMMA CacheRests ==
  ASSUME IdentityInv, UNCHANGED <<iat, cache, pushed, used>>,
         now' \in Nat, now <= now', agent' \in [Agents -> AgentState]
  PROVE  IdentityInv'
<1>1. IdentityTypes'
  BY DEF IdentityInv, IdentityTypes
<1>2. UsedIsKnown'
  BY IdentityAssumption DEF IdentityInv, IdentityTypes, UsedIsKnown, Recalled, TooOld
<1>. QED
  BY <1>1, <1>2 DEF IdentityInv

(* What the cache no longer holds by its own clock is too old to come      *)
(* back: ReplayTTL covers the freshness window.                            *)
LEMMA ForgottenIsTooOld ==
  ASSUME IdentityInv, NEW p \in Proofs, Recalled(p), p \notin Live
  PROVE  TooOld(p)
<1>1. now \in Nat /\ iat[p] \in Nat /\ cache[p] \in Nat
  BY DEF Recalled, IdentityInv, IdentityTypes
<1>2. ~(now < cache[p] + ReplayTTL) /\ iat[p] < cache[p] + ClockSkew
  BY DEF Recalled, Live
<1>. QED
  BY <1>1, <1>2, IdentityAssumption DEF TooOld

LEMMA IdentityStep == IdentityInv /\ [INext]_ivars => IdentityInv'
<1>. SUFFICES ASSUME IdentityInv, [INext]_ivars PROVE IdentityInv'
  OBVIOUS
<1>. now \in Nat /\ agent \in [Agents -> AgentState]
  BY DEF IdentityInv, IdentityTypes
<1>1. CASE ITicks
  BY <1>1, CacheRests DEF ITicks
<1>2. ASSUME NEW a \in Agents, NEW p \in Proofs, Presents(a, p)
      PROVE  IdentityInv'
  <2>1. agent' \in [Agents -> AgentState]
    BY <1>2, AgentsMove DEF Presents
  <2>. QED
    BY <1>2, <2>1, CacheRests DEF Presents, IRest
<1>3. ASSUME NEW a \in Agents, Verifies(a) PROVE IdentityInv'
  <2>0. agent[a] \in AgentState /\ agent[a].at = "presented"
    BY <1>3 DEF Verifies
  <2>1. agent[a].proof \in Proofs
    BY <2>0, UnderWay DEF Presentation
  <2>2. agent' \in [Agents -> AgentState]
    BY <1>3, <2>1, AgentsMove DEF Verifies
  <2>. QED
    BY <1>3, <2>2, CacheRests DEF Verifies, IRest
<1>4. ASSUME NEW a \in Agents,
             DoesNotVerify(a) \/ IsStale(a) \/ IsReplay(a) \/ Finishes(a)
      PROVE  IdentityInv'
  BY <1>4, CacheRests
  DEF DoesNotVerify, IsStale, IsReplay, Finishes, IsAnswered, IRest, AgentState
<1>5. ASSUME NEW a \in Agents, Consumes(a) PROVE IdentityInv'
  <2>. DEFINE p == agent[a].proof
  <2>. agent[a] \in AgentState /\ agent[a].at = "verified"
    BY <1>5 DEF Consumes
  <2>0. p \in Proofs
    BY UnderWay DEF Presentation
  <2>1. /\ p \in Proofs /\ Fresh(p) /\ p \notin Live
        /\ UNCHANGED <<now, iat>>
    BY <1>5, <2>0 DEF Consumes
  <2>2. PICK left \in SUBSET Live :
          /\ cache' = Remembered(p, left)
          /\ pushed' = pushed \cup (Live \ left)
    <3>1. CASE Cardinality(Live) < Size
      BY <1>5, <3>1 DEF Consumes
    <3>2. CASE ~(Cardinality(Live) < Size)
      <4>1. PICK o \in Live : /\ cache' = Remembered(p, Live \ {o})
                              /\ pushed' = pushed \cup {o}
        BY <1>5, <3>2 DEF Consumes
      <4>. WITNESS Live \ {o} \in SUBSET Live
      <4>. QED
        BY <4>1
    <3>. QED
      BY <3>1, <3>2
  <2>3. used' = [used EXCEPT ![p] = IF @ = 2 THEN 2 ELSE @ + 1]
    BY <1>5 DEF Consumes
  <2>4. /\ DOMAIN cache' = left \cup {p} /\ cache'[p] = now
        /\ \A w \in left : w # p => cache'[w] = cache[w]
    BY <2>2 DEF Remembered
  <2>5. IdentityTypes'
    <3>1. agent' \in [Agents -> AgentState]
      BY <1>5, <2>0, AgentsMove DEF Consumes
    <3>2. used' \in [Proofs -> 0 .. 2]
      BY <2>1, <2>3 DEF IdentityInv, IdentityTypes
    <3>3. pushed' \subseteq Proofs
      BY <2>2 DEF Live, IdentityInv, IdentityTypes
    <3>4. DOMAIN cache' \subseteq Proofs /\ \A w \in DOMAIN cache' : cache'[w] \in Nat
      BY <2>1, <2>2, <2>4 DEF Live, IdentityInv, IdentityTypes
    <3>. QED
      BY <2>1, <3>1, <3>2, <3>3, <3>4 DEF IdentityInv, IdentityTypes
  <2>6. ASSUME NEW w \in Proofs \ pushed'
        PROVE  used'[w] = 0 \/ (used'[w] = 1 /\ (Recalled(w)' \/ TooOld(w)'))
    <3>1. w \in Proofs \ pushed /\ used'[w] \in 0 .. 2
      BY <2>2, <2>5 DEF IdentityTypes
    <3>2. CASE w = p
      <4>1. Recalled(w)'
        BY <2>1, <2>4, <3>2 DEF Recalled, Fresh
      <4>2. ~ TooOld(p)
        BY <2>1, IdentityAssumption DEF Fresh, TooOld, IdentityInv, IdentityTypes
      <4>3. used[p] = 0
        BY <2>1, <3>1, <3>2, <4>2, ForgottenIsTooOld DEF IdentityInv, UsedIsKnown
      <4>. QED
        BY <2>1, <2>3, <3>2, <4>1, <4>3 DEF IdentityInv, IdentityTypes
    <3>3. CASE w # p
      <4>1. used'[w] = used[w]
        BY <2>1, <2>3, <3>3 DEF IdentityInv, IdentityTypes
      <4>2. CASE TooOld(w)
        BY <2>1, <3>1, <4>1, <4>2 DEF TooOld, IdentityInv, UsedIsKnown
      <4>3. CASE Recalled(w) /\ w \in Live
        <5>1. w \in left
          BY <2>2, <4>3
        <5>2. Recalled(w)'
          BY <2>1, <2>4, <3>3, <4>3, <5>1 DEF Recalled
        <5>. QED
          BY <3>1, <4>1, <5>2 DEF IdentityInv, UsedIsKnown
      <4>. QED
        BY <3>1, <4>1, <4>2, <4>3, ForgottenIsTooOld DEF IdentityInv, UsedIsKnown
    <3>. QED
      BY <3>2, <3>3
  <2>. QED
    BY <2>5, <2>6 DEF IdentityInv, UsedIsKnown
<1>6. CASE UNCHANGED ivars
  BY <1>6, CacheRests DEF ivars
<1>. QED
  BY <1>1, <1>2, <1>3, <1>4, <1>5, <1>6 DEF INext

-----------------------------------------------------------------------------
(* However its uses overlap and however late the second comes, a proof is  *)
(* consumed once unless the cache dropped it for want of room              *)
(* (identity.py's _DPOP_REPLAY_CACHE_TTL_SECONDS against the freshness     *)
(* check).                                                                 *)
THEOREM IdentityConsumedOnce == ISpec => []ConsumedOnce
<1>1. IdentityInv => ConsumedOnce
  BY DEF IdentityInv, UsedIsKnown, ConsumedOnce
<1>. QED
  BY <1>1, IdentityInit, IdentityStep, PTL DEF ISpec

-----------------------------------------------------------------------------
(***************************************************************************)
(* The catalog of a tenant (DiscoveryCache).  Any catalog that is or may   *)
(* come to be kept under the generation a caller has read was fetched      *)
(* after that generation began, hence after every invalidation applied     *)
(* before the caller asked.                                                *)
(***************************************************************************)
Catalog == [gen : Nat, tools : Nat]
Enquiry ==
  [at : {"asking", "looking", "fetched", "served"}, gen : Nat, tools : Nat, floor : Nat]
Caller == {Away} \cup Enquiry

CacheTypes ==
  /\ tools \in Nat /\ generation \in Nat /\ applied \in Nat
  /\ notices \subseteq Nat
  /\ kept \subseteq Catalog /\ writes \subseteq Catalog
  /\ caller \in [Callers -> Caller]

(* A catalog that is kept, is on its way there, or is about to be. *)
Kept(gen, list) ==
  \/ \E e \in kept \cup writes : e.gen = gen /\ e.tools = list
  \/ \E c \in Callers : caller[c].at = "fetched" /\ caller[c].gen = gen /\ caller[c].tools = list

Asked(c) == caller[c].at \in {"asking", "looking", "fetched"}
HasRead(c) == caller[c].at \in {"looking", "fetched"}

(* Nothing is known of a version the server does not have yet. *)
KnownIsOffered ==
  /\ applied <= tools
  /\ \A v \in notices : v <= tools
  /\ \A c \in Callers : Asked(c) => caller[c].floor <= applied

(* Nobody is ahead of the counter. *)
ReadIsPast ==
  /\ \A gen, list \in Nat : Kept(gen, list) => gen <= generation
  /\ \A c \in Callers : HasRead(c) => caller[c].gen <= generation

(* What is held under the generation in force is from after it began, and  *)
(* what is held under a caller's is as new as the caller may expect.       *)
HeldIsRecent ==
  \A gen, list \in Nat :
    Kept(gen, list) =>
      /\ gen = generation => applied <= list
      /\ \A c \in Callers : HasRead(c) /\ caller[c].gen = gen => caller[c].floor <= list

DiscoveryInv ==
  CacheTypes /\ KnownIsOffered /\ ReadIsPast /\ HeldIsRecent /\ NoListFromBefore

-----------------------------------------------------------------------------
LEMMA DiscoveryInit == DInit => DiscoveryInv
  BY DEF DInit, DiscoveryInv, CacheTypes, KnownIsOffered, ReadIsPast, HeldIsRecent,
         NoListFromBefore, Caller, Catalog, Kept, Asked, HasRead, Away

(* Steps that hold no new catalog and leave callers and counter alone. *)
LEMMA QuietStep ==
  ASSUME DiscoveryInv,
         UNCHANGED <<generation, applied, caller>>,
         kept' \cup writes' \subseteq kept \cup writes,
         CacheTypes', tools <= tools', \A v \in notices' : v <= tools'
  PROVE  DiscoveryInv'
<1>1. \A gen, list \in Nat : Kept(gen, list)' => Kept(gen, list)
  BY DEF Kept
<1>2. KnownIsOffered'
  BY DEF DiscoveryInv, KnownIsOffered, CacheTypes, Asked
<1>3. ReadIsPast' /\ HeldIsRecent' /\ NoListFromBefore'
  BY <1>1 DEF DiscoveryInv, ReadIsPast, HeldIsRecent, NoListFromBefore, HasRead
<1>. QED
  BY <1>2, <1>3 DEF DiscoveryInv

(* A caller moves: what is held does not grow, and neither does what it    *)
(* may expect beyond what was applied.                                     *)
LEMMA CallerMoves ==
  ASSUME DiscoveryInv, NEW c \in Callers, NEW state \in Caller,
         caller' = [caller EXCEPT ![c] = state],
         UNCHANGED <<tools, notices, generation, applied, kept, writes>>,
         state.at \in {"asking", "looking", "fetched"} => state.floor <= applied,
         state.at \in {"looking", "fetched"} => state.gen <= generation,
         state.at = "fetched" =>
           /\ state.gen = generation => applied <= state.tools
           /\ \A d \in Callers : HasRead(d) /\ caller[d].gen = state.gen
                                   => caller[d].floor <= state.tools
           /\ state.floor <= state.tools,
         state.at \in {"looking", "fetched"} =>
           \A list \in Nat : Kept(state.gen, list) => state.floor <= list,
         state.at = "served" => state.floor <= state.tools
  PROVE  DiscoveryInv'
<1>. USE DEF DiscoveryInv
<1>1. /\ CacheTypes' /\ caller'[c] = state
      /\ \A d \in Callers : d # c => caller'[d] = caller[d]
  BY DEF CacheTypes
<1>2. \A gen, list \in Nat :
        Kept(gen, list)' => \/ Kept(gen, list)
                            \/ state.at = "fetched" /\ gen = state.gen /\ list = state.tools
  BY <1>1 DEF Kept
<1>3. KnownIsOffered'
  BY <1>1 DEF KnownIsOffered, Asked
<1>4. ReadIsPast'
  BY <1>1, <1>2 DEF ReadIsPast, HasRead
<1>5. HeldIsRecent'
  <2>. SUFFICES ASSUME NEW gen \in Nat, NEW list \in Nat, Kept(gen, list)'
                PROVE  /\ gen = generation => applied <= list
                       /\ \A d \in Callers : HasRead(d)' /\ caller'[d].gen = gen
                                               => caller'[d].floor <= list
    BY DEF HeldIsRecent
  <2>1. CASE Kept(gen, list)
    BY <2>1, <1>1 DEF HeldIsRecent, HasRead
  <2>2. CASE state.at = "fetched" /\ gen = state.gen /\ list = state.tools
    BY <2>2, <1>1 DEF HasRead
  <2>. QED
    BY <2>1, <2>2, <1>2
<1>6. NoListFromBefore'
  BY <1>1 DEF NoListFromBefore, CacheTypes, Caller, Away
<1>. QED
  BY <1>1, <1>3, <1>4, <1>5, <1>6

(* A caller that is not away has all its fields. *)
LEMMA AnEnquiry == ASSUME NEW r \in Caller, r.at # "away" PROVE r \in Enquiry
  BY DEF Caller, Away

LEMMA DiscoveryStep == DiscoveryInv /\ [DNext]_dvars => DiscoveryInv'
<1>. SUFFICES ASSUME DiscoveryInv, [DNext]_dvars PROVE DiscoveryInv'
  OBVIOUS
<1>. USE DEF DiscoveryInv
<1>1. CASE ListChanges
  BY <1>1, QuietStep DEF ListChanges, CacheTypes, KnownIsOffered
<1>2. CASE NoticeArrives
  BY <1>2, QuietStep DEF NoticeArrives, CacheTypes, KnownIsOffered
<1>3. CASE InvalidateCache
  <2>1. PICK v \in notices :
          /\ notices' = notices \ {v} /\ generation' = generation + 1
          /\ applied' = (IF v > applied THEN v ELSE applied)
          /\ UNCHANGED <<tools, noticed, kept, writes, caller>>
    BY <1>3 DEF InvalidateCache
  <2>2. CacheTypes' /\ applied <= applied' /\ applied' <= tools'
    BY <2>1 DEF CacheTypes, KnownIsOffered
  <2>. \A d \in Callers : Asked(d) \/ HasRead(d) => caller[d].floor \in Nat /\ caller[d].gen \in Nat
    BY AnEnquiry DEF CacheTypes, Enquiry, Asked, HasRead, Away
  <2>. applied \in Nat /\ applied' \in Nat /\ generation \in Nat
    BY <2>2 DEF CacheTypes
  <2>3. KnownIsOffered'
    <3>1. \A d \in Callers : Asked(d)' => caller'[d].floor <= applied'
      BY <2>1, <2>2 DEF KnownIsOffered, Asked
    <3>. QED
      BY <2>1, <2>2, <3>1 DEF KnownIsOffered
  <2>4. \A gen, list : Kept(gen, list)' <=> Kept(gen, list)
    BY <2>1 DEF Kept
  <2>5. ReadIsPast'
    <3>1. \A d \in Callers : HasRead(d)' => caller'[d].gen <= generation'
      BY <2>1 DEF ReadIsPast, HasRead
    <3>2. \A gen, list \in Nat : Kept(gen, list)' => gen <= generation'
      BY <2>1, <2>4 DEF ReadIsPast
    <3>. QED
      BY <3>1, <3>2 DEF ReadIsPast
  <2>6. HeldIsRecent'
    BY <2>1, <2>4 DEF HeldIsRecent, ReadIsPast, CacheTypes, HasRead
  <2>7. NoListFromBefore'
    BY <2>1 DEF NoListFromBefore
  <2>. QED
    BY <2>2, <2>3, <2>5, <2>6, <2>7
<1>4. CASE InvalidationFails
  BY <1>4, QuietStep DEF InvalidationFails, CacheTypes, KnownIsOffered
<1>5. CASE WriteLands
  BY <1>5, QuietStep DEF WriteLands, CacheTypes, KnownIsOffered
<1>6. CASE WriteFails
  BY <1>6, QuietStep DEF WriteFails, CacheTypes, KnownIsOffered
<1>7. CASE CatalogExpires
  BY <1>7, QuietStep DEF CatalogExpires, CacheTypes, KnownIsOffered
<1>8. ASSUME NEW c \in Callers,
             \/ Discovers(c) \/ ReadsGeneration(c) \/ FindsCatalog(c) \/ FetchesCatalog(c)
             \/ KeepsCatalog(c) \/ DiscoveryFails(c) \/ CallerLeaves(c)
      PROVE  DiscoveryInv'
  <2>. caller[c] \in Caller /\ caller \in [Callers -> Caller]
    BY DEF CacheTypes
  <2>1. CASE Discovers(c)
    <3>. DEFINE state == At("asking", 0, NoList, applied)
    <3>1. state \in Caller /\ state.at = "asking" /\ state.floor <= applied
      BY DEF At, NoList, Caller, Enquiry, CacheTypes
    <3>2. caller' = [caller EXCEPT ![c] = state]
      BY <2>1 DEF Discovers
    <3>. HIDE DEF state
    <3>. QED
      BY <2>1, <3>1, <3>2, CallerMoves DEF Discovers
  <2>2. CASE ReadsGeneration(c)
    <3>. DEFINE state == At("looking", generation, NoList, caller[c].floor)
    <3>1. state \in Caller /\ state.at = "looking" /\ state.gen = generation
          /\ state.floor = caller[c].floor /\ caller' = [caller EXCEPT ![c] = state]
      BY <2>2, AnEnquiry DEF ReadsGeneration, Caller, Enquiry, CacheTypes, At, NoList
    <3>2. state.floor <= applied
      BY <2>2, <3>1 DEF ReadsGeneration, KnownIsOffered, Asked
    <3>3. \A list \in Nat : Kept(state.gen, list) => state.floor <= list
      <4>1. state.floor \in Nat /\ applied \in Nat /\ generation \in Nat
        BY <3>1 DEF Caller, Enquiry, CacheTypes, Away
      <4>. QED
        BY <3>1, <3>2, <4>1 DEF HeldIsRecent
    <3>4. state.gen <= generation
      BY <3>1 DEF CacheTypes
    <3>. HIDE DEF state
    <3>. QED
      BY <2>2, <3>1, <3>2, <3>3, <3>4, CallerMoves DEF ReadsGeneration
  <2>3. CASE FindsCatalog(c)
    <3>1. PICK e \in kept : /\ e.gen = caller[c].gen
                            /\ caller' = [caller EXCEPT ![c] = At("served", @.gen, e.tools, @.floor)]
      BY <2>3 DEF FindsCatalog
    <3>. DEFINE state == At("served", caller[c].gen, e.tools, caller[c].floor)
    <3>2. state \in Caller /\ state.at = "served" /\ state.tools = e.tools
          /\ state.floor = caller[c].floor /\ caller' = [caller EXCEPT ![c] = state]
      BY <2>3, <3>1, AnEnquiry DEF FindsCatalog, Caller, Enquiry, CacheTypes, Catalog, At
    <3>3. Kept(e.gen, e.tools) /\ e.gen \in Nat /\ e.tools \in Nat
      BY DEF Kept, CacheTypes, Catalog
    <3>4. caller[c].floor <= e.tools
      BY <2>3, <3>1, <3>3 DEF FindsCatalog, HeldIsRecent, HasRead
    <3>. HIDE DEF state
    <3>. QED
      BY <2>3, <3>2, <3>4, CallerMoves DEF FindsCatalog
  <2>4. CASE FetchesCatalog(c)
    <3>. DEFINE state == At("fetched", caller[c].gen, tools, caller[c].floor)
    <3>1. state \in Caller /\ state.at = "fetched" /\ state.tools = tools
          /\ state.gen = caller[c].gen /\ state.floor = caller[c].floor
          /\ caller' = [caller EXCEPT ![c] = state]
      BY <2>4, AnEnquiry DEF FetchesCatalog, Caller, Enquiry, CacheTypes, At
    <3>2. applied <= tools /\ \A d \in Callers : HasRead(d) => caller[d].floor <= tools
      BY DEF KnownIsOffered, HasRead, Asked, CacheTypes, Caller, Enquiry, Away
    <3>3. caller[c].floor <= applied /\ caller[c].gen <= generation /\ caller[c].gen \in Nat
      BY <2>4 DEF FetchesCatalog, KnownIsOffered, ReadIsPast, Asked, HasRead, Caller, Enquiry, Away, CacheTypes
    <3>4. \A list \in Nat : Kept(state.gen, list) => state.floor <= list
      BY <2>4, <3>1, <3>3 DEF FetchesCatalog, HeldIsRecent, HasRead
    <3>5. state.floor <= state.tools
      BY <2>4, <3>1, <3>2 DEF FetchesCatalog, HasRead
    <3>. HIDE DEF state
    <3>. QED
      BY <2>4, <3>1, <3>2, <3>3, <3>4, <3>5, CallerMoves DEF FetchesCatalog
  <2>5. CASE KeepsCatalog(c)
    <3>1. /\ caller[c].at = "fetched" /\ caller[c].gen \in Nat /\ caller[c].tools \in Nat
          /\ writes' = writes \cup {[gen |-> caller[c].gen, tools |-> caller[c].tools]}
          /\ caller' = [caller EXCEPT ![c] = At("served", @.gen, @.tools, @.floor)]
          /\ UNCHANGED <<tools, notices, noticed, generation, applied, kept>>
      BY <2>5, AnEnquiry DEF KeepsCatalog, Enquiry
    <3>2. /\ CacheTypes' /\ caller'[c].at = "served" /\ caller'[c].floor = caller[c].floor
          /\ caller'[c].tools = caller[c].tools
          /\ \A d \in Callers : d # c => caller'[d] = caller[d]
      BY <3>1, AnEnquiry DEF CacheTypes, Caller, Enquiry, Catalog, At
    <3>3. Kept(caller[c].gen, caller[c].tools)
      BY <3>1 DEF Kept
    <3>4. \A gen, list \in Nat : Kept(gen, list)' => Kept(gen, list)
      BY <3>1, <3>2 DEF Kept
    <3>5. KnownIsOffered' /\ ReadIsPast' /\ HeldIsRecent'
      BY <3>1, <3>2, <3>4 DEF KnownIsOffered, ReadIsPast, HeldIsRecent, Asked, HasRead
    <3>6. caller[c].floor <= caller[c].tools
      BY <3>1, <3>3 DEF HeldIsRecent, HasRead
    <3>7. NoListFromBefore'
      BY <3>2, <3>6 DEF NoListFromBefore
    <3>. QED
      BY <3>2, <3>5, <3>7
  <2>6. CASE DiscoveryFails(c)
    BY <2>6, CallerMoves DEF DiscoveryFails, Caller, Away
  <2>7. CASE CallerLeaves(c)
    BY <2>7, CallerMoves DEF CallerLeaves, Caller, Away
  <2>. QED
    BY <1>8, <2>1, <2>2, <2>3, <2>4, <2>5, <2>6, <2>7
<1>9. CASE UNCHANGED dvars
  BY <1>9, QuietStep DEF dvars, CacheTypes, KnownIsOffered
<1>. QED
  BY <1>1, <1>2, <1>3, <1>4, <1>5, <1>6, <1>7, <1>8, <1>9 DEF DNext

-----------------------------------------------------------------------------
(* No request that begins after an invalidation was applied is served a    *)
(* list from before it, for any number of callers, versions and notices    *)
(* (mcp_pruner.py's generation, read before the list is fetched).          *)
THEOREM DiscoveryNoListFromBefore == DSpec => []NoListFromBefore
<1>1. DiscoveryInv => NoListFromBefore
  BY DEF DiscoveryInv
<1>. QED
  BY <1>1, DiscoveryInit, DiscoveryStep, PTL DEF DSpec

-----------------------------------------------------------------------------
(***************************************************************************)
(* The in-memory store (VaultStore).  Its order, the lists of the tenants  *)
(* and the idle times are related through "precedes", so what a list       *)
(* operation does to each is one fact about sequences without repetition.  *)
(* A call is a chain of drops, a refresh or an insertion; each keeps       *)
(* StoreInv.  What an eviction takes is told from the ways room is made.   *)
(***************************************************************************)

(* What RemoveFirst returns, index by index. *)
LEMMA ClosedUp ==
  ASSUME NEW S, NEW ord \in Seq(S), IsInjective(ord), NEW k \in ToSet(ord)
  PROVE  \E m \in 1 .. Len(ord) :
           /\ ord[m] = k
           /\ RemoveFirst(ord, k) = [i \in 1 .. Len(ord) - 1 |-> IF i < m THEN ord[i] ELSE ord[i + 1]]
<1>1. PICK m \in 1 .. Len(ord) : ord[m] = k
  BY DEF ToSet
<1>2. {i \in 1 .. Len(ord) : ord[i] = k} = {m}
  BY <1>1 DEF IsInjective
<1>3. Min({m}) = m
  BY DEF Min
<1>4. RemoveFirst(ord, k) = RemoveAt(ord, m)
  BY <1>1, <1>2, <1>3 DEF RemoveFirst, SelectInSeq
<1>. DEFINE r == [i \in 1 .. Len(ord) - 1 |-> IF i < m THEN ord[i] ELSE ord[i + 1]]
<1>5. SubSeq(ord, 1, m - 1) \o SubSeq(ord, m + 1, Len(ord)) = r
  <2>1. SubSeq(ord, 1, m - 1) \in Seq(S) /\ Len(SubSeq(ord, 1, m - 1)) = m - 1
        /\ \A i \in 1 .. m - 1 : SubSeq(ord, 1, m - 1)[i] = ord[i]
    OBVIOUS
  <2>2. SubSeq(ord, m + 1, Len(ord)) \in Seq(S) /\ Len(SubSeq(ord, m + 1, Len(ord))) = Len(ord) - m
        /\ \A i \in 1 .. Len(ord) - m : SubSeq(ord, m + 1, Len(ord))[i] = ord[m + i]
    OBVIOUS
  <2>. DEFINE h == SubSeq(ord, 1, m - 1)  e == SubSeq(ord, m + 1, Len(ord))
  <2>3. h \o e \in Seq(S) /\ Len(h \o e) = Len(ord) - 1
        /\ \A i \in 1 .. Len(ord) - 1 : (h \o e)[i] = IF i < m THEN h[i] ELSE e[i - (m - 1)]
    <3>1. h \in Seq(S) /\ Len(h) = m - 1
      BY <2>1
    <3>2. e \in Seq(S) /\ Len(e) = Len(ord) - m
      BY <2>2
    <3>. HIDE DEF h, e
    <3>. QED  BY <3>1, <3>2
  <2>4. \A i \in 1 .. Len(ord) - 1 : (h \o e)[i] = r[i]
    <3>. HIDE DEF h, e
    <3>1. \A i \in 1 .. Len(ord) - 1 : i < m => h[i] = ord[i]
      BY <2>1 DEF h
    <3>2. \A i \in 1 .. Len(ord) - 1 : i >= m => e[i - (m - 1)] = ord[m + (i - (m - 1))]
      BY <2>2 DEF e
    <3>3. \A i \in 1 .. Len(ord) - 1 : m + (i - (m - 1)) = i + 1
      OBVIOUS
    <3>. QED  BY <2>3, <3>1, <3>2, <3>3
  <2>5. h \o e = [i \in 1 .. Len(ord) - 1 |-> (h \o e)[i]]
    <3>. DEFINE he == h \o e
    <3>1. he \in Seq(S) /\ Len(he) = Len(ord) - 1
      BY <2>3
    <3>. HIDE DEF he
    <3>2. he = [i \in 1 .. Len(he) |-> he[i]]
      BY <3>1
    <3>. QED  BY <3>1, <3>2 DEF he
  <2>6. h \o e = r
    <3>. HIDE DEF h, e
    <3>. QED  BY <2>4, <2>5
  <2>. QED  BY <2>6
<1>. QED  BY <1>1, <1>4, <1>5 DEF RemoveAt

(* Removing an element keeps the order of the others. *)
LEMMA RemovingOne ==
  ASSUME NEW S, NEW ord \in Seq(S), IsInjective(ord), NEW k \in ToSet(ord)
  PROVE  LET r == RemoveFirst(ord, k)
         IN  /\ r \in Seq(S) /\ IsInjective(r) /\ Len(r) = Len(ord) - 1
             /\ ToSet(r) = ToSet(ord) \ {k}
             /\ \A a, b : Precedes(r, a, b) <=> (Precedes(ord, a, b) /\ a # k /\ b # k)
<1>. DEFINE r == RemoveFirst(ord, k)
<1>1. PICK m \in 1 .. Len(ord) :
           /\ ord[m] = k
           /\ r = [i \in 1 .. Len(ord) - 1 |-> IF i < m THEN ord[i] ELSE ord[i + 1]]
  BY ClosedUp
<1>. HIDE DEF r
<1>2. r \in Seq(S) /\ Len(r) = Len(ord) - 1
  BY <1>1
<1>. DEFINE Up(i) == IF i < m THEN i ELSE i + 1
            Down(j) == IF j < m THEN j ELSE j - 1
<1>3. \A i \in 1 .. Len(r) : Up(i) \in 1 .. Len(ord) /\ Up(i) # m /\ r[i] = ord[Up(i)]
  BY <1>1, <1>2
<1>4. \A j \in 1 .. Len(ord) : j # m => Down(j) \in 1 .. Len(r) /\ r[Down(j)] = ord[j]
  BY <1>1, <1>2
<1>10. \A i, j \in 1 .. Len(ord) : i < j => Up(i) < Up(j)
  OBVIOUS
<1>11. \A i, j \in 1 .. Len(ord) : i < j /\ i # m /\ j # m => Down(i) < Down(j)
  OBVIOUS
<1>12. \A i, j \in 1 .. Len(ord) : Up(i) = Up(j) => i = j
  OBVIOUS
<1>. HIDE DEF Up, Down
<1>5. \A j \in 1 .. Len(ord) : j # m <=> ord[j] # k
  BY <1>1 DEF IsInjective
<1>6. IsInjective(r)
  BY <1>2, <1>3, <1>12 DEF IsInjective
<1>7. ToSet(r) = ToSet(ord) \ {k}
  <2>1. ASSUME NEW x \in ToSet(r) PROVE x \in ToSet(ord) \ {k}
    <3>1. PICK i \in 1 .. Len(r) : r[i] = x
      BY <1>2 DEF ToSet
    <3>. QED  BY <3>1, <1>3, <1>5 DEF ToSet
  <2>2. ASSUME NEW x \in ToSet(ord) \ {k} PROVE x \in ToSet(r)
    <3>1. PICK j \in 1 .. Len(ord) : ord[j] = x
      BY DEF ToSet
    <3>. QED  BY <3>1, <1>2, <1>4, <1>5 DEF ToSet
  <2>. QED  BY <2>1, <2>2
<1>8. ASSUME NEW a, NEW b, Precedes(r, a, b) PROVE Precedes(ord, a, b) /\ a # k /\ b # k
  <2>1. PICK i, j \in 1 .. Len(r) : i < j /\ r[i] = a /\ r[j] = b
    BY <1>8 DEF Precedes
  <2>2. i \in 1 .. Len(ord) /\ j \in 1 .. Len(ord)
    BY <1>2
  <2>. QED  BY <2>1, <2>2, <1>3, <1>5, <1>10 DEF Precedes
<1>9. ASSUME NEW a, NEW b, Precedes(ord, a, b), a # k, b # k PROVE Precedes(r, a, b)
  <2>1. PICK i, j \in 1 .. Len(ord) : i < j /\ ord[i] = a /\ ord[j] = b
    BY <1>9 DEF Precedes
  <2>. QED  BY <2>1, <1>4, <1>5, <1>9, <1>11 DEF Precedes
<1>. QED  BY <1>2, <1>6, <1>7, <1>8, <1>9 DEF r

(* A new element at the end follows all the others. *)
LEMMA AddingOne ==
  ASSUME NEW S, NEW ord \in Seq(S), IsInjective(ord), NEW k \in S, k \notin ToSet(ord)
  PROVE  LET r == Append(ord, k)
         IN  /\ r \in Seq(S) /\ IsInjective(r) /\ Len(r) = Len(ord) + 1
             /\ ToSet(r) = ToSet(ord) \cup {k}
             /\ \A a, b : Precedes(r, a, b) <=> (Precedes(ord, a, b) \/ (a \in ToSet(ord) /\ b = k))
<1>. DEFINE r == Append(ord, k)
<1>1. r \in Seq(S) /\ Len(r) = Len(ord) + 1 /\ r[Len(r)] = k
      /\ \A i \in 1 .. Len(ord) : r[i] = ord[i]
  OBVIOUS
<1>. HIDE DEF r
<1>2. \A i \in 1 .. Len(ord) : r[i] # k
  BY <1>1 DEF ToSet
<1>3. IsInjective(r)
  BY <1>1, <1>2 DEF IsInjective
<1>4. ToSet(r) = ToSet(ord) \cup {k}
  BY <1>1 DEF ToSet
<1>5. ASSUME NEW a, NEW b, Precedes(r, a, b)
      PROVE  Precedes(ord, a, b) \/ (a \in ToSet(ord) /\ b = k)
  <2>1. PICK i, j \in 1 .. Len(r) : i < j /\ r[i] = a /\ r[j] = b
    BY <1>5 DEF Precedes
  <2>2. i \in 1 .. Len(ord) /\ ord[i] = a /\ a \in ToSet(ord)
    BY <1>1, <2>1 DEF ToSet
  <2>3. CASE j = Len(r)
    BY <1>1, <2>1, <2>2, <2>3
  <2>4. CASE j # Len(r)
    <3>1. j \in 1 .. Len(ord) /\ ord[j] = b
      BY <1>1, <2>1, <2>4
    <3>2. \E x, y \in 1 .. Len(ord) : x < y /\ ord[x] = a /\ ord[y] = b
      BY <2>1, <2>2, <3>1, Zenon
    <3>. QED  BY <3>2 DEF Precedes
  <2>. QED  BY <2>3, <2>4
<1>6. ASSUME NEW a, NEW b, Precedes(ord, a, b) PROVE Precedes(r, a, b)
  BY <1>1, <1>6 DEF Precedes
<1>7. ASSUME NEW a \in ToSet(ord) PROVE Precedes(r, a, k)
  <2>1. PICK i \in 1 .. Len(ord) : ord[i] = a
    BY DEF ToSet
  <2>. QED  BY <1>1, <2>1 DEF Precedes
<1>. QED  BY <1>1, <1>3, <1>4, <1>5, <1>6, <1>7 DEF r

(* move_to_end: the element follows all the others, whose order is kept. *)
LEMMA MovingToEnd ==
  ASSUME NEW S, NEW ord \in Seq(S), IsInjective(ord), NEW k \in ToSet(ord)
  PROVE  LET r == ToEnd(ord, k)
         IN  /\ r \in Seq(S) /\ IsInjective(r) /\ Len(r) = Len(ord)
             /\ ToSet(r) = ToSet(ord)
             /\ \A a, b : Precedes(r, a, b) <=>
                  \/ Precedes(ord, a, b) /\ a # k /\ b # k
                  \/ a \in ToSet(ord) \ {k} /\ b = k
<1>. DEFINE r == RemoveFirst(ord, k)
<1>1. /\ r \in Seq(S) /\ IsInjective(r) /\ Len(r) = Len(ord) - 1
      /\ ToSet(r) = ToSet(ord) \ {k}
      /\ \A a, b : Precedes(r, a, b) <=> (Precedes(ord, a, b) /\ a # k /\ b # k)
  BY RemovingOne
<1>2. k \in S
  BY DEF ToSet
<1>3. ToEnd(ord, k) = Append(r, k)
  BY DEF ToEnd
<1>. DEFINE z == Append(r, k)
<1>4. z \in Seq(S) /\ IsInjective(z) /\ Len(z) = Len(r) + 1
      /\ ToSet(z) = ToSet(r) \cup {k}
      /\ \A a, b : Precedes(z, a, b) <=> (Precedes(r, a, b) \/ (a \in ToSet(r) /\ b = k))
  <2>. HIDE DEF r
  <2>. QED  BY <1>1, <1>2, AddingOne
<1>5. Len(ord) \in Nat
  OBVIOUS
<1>. HIDE DEF z, r
<1>6. Len(z) = Len(ord)
  BY <1>1, <1>4, <1>5
<1>7. ToSet(z) = ToSet(ord)
  BY <1>1, <1>4
<1>8. ASSUME NEW a, NEW b
      PROVE  Precedes(z, a, b) <=>
               \/ Precedes(ord, a, b) /\ a # k /\ b # k
               \/ a \in ToSet(ord) \ {k} /\ b = k
  BY <1>1, <1>4
<1>9. ToEnd(ord, k) = z
  BY <1>3 DEF z, r
<1>. QED  BY <1>4, <1>6, <1>7, <1>8, <1>9

(* The state of a store. *)
StoreState ==
  [sessions   : Seq(VaultKey),
   age        : UNION {[D -> 0 .. TTL + 1] : D \in SUBSET VaultKey},
   tenantKeys : [Tenant -> Seq(VaultKey)],
   poolMember : SUBSET VaultKey,
   poolSize   : Nat]

(* The parts of the inductive invariant: the indexes are about the same keys, *)
(* each list is the order of the store restricted to its owner, and the idle *)
(* times fall along the order of the whole store, not only along each list.  *)
Indexed(s) ==
  /\ IsInjective(s.sessions)
  /\ DOMAIN s.age = Held(s)
  /\ s.poolMember \subseteq Held(s)
  /\ IsFiniteSet(s.poolMember)
  /\ s.poolSize = Cardinality(s.poolMember)

Owned(s) ==
  \A t \in Tenant :
    /\ IsInjective(s.tenantKeys[t])
    /\ ToSet(s.tenantKeys[t]) = OfTenant(s, t)
    /\ \A a, b : Precedes(s.tenantKeys[t], a, b) => Precedes(s.sessions, a, b)

Aged(s) == \A a, b : Precedes(s.sessions, a, b) => s.age[a] >= s.age[b]

SoundStores == {s \in StoreState : Indexed(s) /\ Owned(s) /\ Aged(s)}

(* The idle times of a store in the terms the provers use. *)
LEMMA AgesAreTyped ==
  ASSUME NEW s \in StoreState
  PROVE  /\ s.age \in [DOMAIN s.age -> 0 .. TTL + 1]
         /\ DOMAIN s.age \subseteq VaultKey
<1>1. PICK D \in SUBSET VaultKey : s.age \in [D -> 0 .. TTL + 1]
  BY DEF StoreState
<1>. QED  BY <1>1

(* The converse of AgesAreTyped. *)
LEMMA AgesAre ==
  ASSUME NEW D \in SUBSET VaultKey, NEW f \in [D -> 0 .. TTL + 1]
  PROVE  f \in UNION {[E -> 0 .. TTL + 1] : E \in SUBSET VaultKey}
  OBVIOUS

(* A held key is in the list of its owner and in no other. *)
LEMMA KeysAreHeld ==
  ASSUME NEW s \in SoundStores
  PROVE  /\ Held(s) \subseteq VaultKey
         /\ \A k \in Held(s) : k[1] \in Tenant /\ k \in ToSet(s.tenantKeys[k[1]])
         /\ \A t \in Tenant : \A k \in ToSet(s.tenantKeys[t]) : k \in Held(s) /\ k[1] = t
<1>1. Held(s) \subseteq VaultKey
  BY DEF SoundStores, StoreState, Held, ToSet
<1>2. \A k \in Held(s) : k[1] \in Tenant
  BY <1>1 DEF VaultKey
<1>. QED  BY <1>1, <1>2 DEF SoundStores, Owned, OfTenant

(* What precedes something is in the sequence, and so is that. *)
LEMMA PrecedesAreIn ==
  ASSUME NEW ord, NEW a, NEW b, Precedes(ord, a, b), NEW S, ord \in Seq(S)
  PROVE  a \in ToSet(ord) /\ b \in ToSet(ord)
  BY DEF Precedes, ToSet

(* _drop of a held key leaves the five indexes in agreement. *)
LEMMA DroppingKeeps ==
  ASSUME NEW s \in SoundStores, NEW k \in Held(s)
  PROVE  LET d == Drop(s, k)
         IN  /\ d \in SoundStores
             /\ Held(d) = Held(s) \ {k}
             /\ Len(d.sessions) = Len(s.sessions) - 1
             /\ \A t \in Tenant :
                  Count(d, t) = IF t = k[1] THEN Count(s, t) - 1 ELSE Count(s, t)
<1>. DEFINE d == Drop(s, k)
            o == k[1]
<1>1. /\ s \in StoreState /\ Indexed(s) /\ Owned(s) /\ Aged(s)
      /\ s.sessions \in Seq(VaultKey)
      /\ \A t \in Tenant : s.tenantKeys[t] \in Seq(VaultKey)
      /\ s.poolMember \in SUBSET VaultKey /\ s.poolSize \in Nat
  BY DEF SoundStores, StoreState
<1>2. o \in Tenant /\ k \in ToSet(s.tenantKeys[o]) /\ k \in ToSet(s.sessions) /\ Held(s) \subseteq VaultKey
  BY KeysAreHeld DEF Held
<1>3. d = [sessions   |-> RemoveFirst(s.sessions, k),
           age        |-> [j \in DOMAIN s.age \ {k} |-> s.age[j]],
           tenantKeys |-> [s.tenantKeys EXCEPT ![o] = RemoveFirst(@, k)],
           poolMember |-> s.poolMember \ {k},
           poolSize   |-> IF k \in s.poolMember THEN s.poolSize - 1 ELSE s.poolSize]
  BY DEF Drop
<1>4. /\ d.sessions = RemoveFirst(s.sessions, k)
      /\ d.age = [j \in DOMAIN s.age \ {k} |-> s.age[j]]
      /\ d.poolMember = s.poolMember \ {k}
      /\ d.poolSize = IF k \in s.poolMember THEN s.poolSize - 1 ELSE s.poolSize
      /\ d.tenantKeys = [s.tenantKeys EXCEPT ![o] = RemoveFirst(@, k)]
  BY <1>3
<1>5. /\ d.sessions \in Seq(VaultKey) /\ IsInjective(d.sessions) /\ Len(d.sessions) = Len(s.sessions) - 1
      /\ ToSet(d.sessions) = ToSet(s.sessions) \ {k}
      /\ \A a, b : Precedes(d.sessions, a, b) <=> (Precedes(s.sessions, a, b) /\ a # k /\ b # k)
  BY <1>1, <1>2, <1>4, RemovingOne DEF Indexed
<1>6. /\ d.tenantKeys[o] = RemoveFirst(s.tenantKeys[o], k)
      /\ \A t \in Tenant : t # o => d.tenantKeys[t] = s.tenantKeys[t]
  BY <1>1, <1>2, <1>4 DEF StoreState
<1>7. /\ d.tenantKeys[o] \in Seq(VaultKey) /\ IsInjective(d.tenantKeys[o])
      /\ Len(d.tenantKeys[o]) = Len(s.tenantKeys[o]) - 1
      /\ ToSet(d.tenantKeys[o]) = ToSet(s.tenantKeys[o]) \ {k}
      /\ \A a, b : Precedes(d.tenantKeys[o], a, b) <=> (Precedes(s.tenantKeys[o], a, b) /\ a # k /\ b # k)
  BY <1>1, <1>2, <1>6, RemovingOne DEF Owned
<1>8. Held(d) = Held(s) \ {k}
  BY <1>5 DEF Held
<1>9. /\ IsFiniteSet(d.poolMember) /\ d.poolSize = Cardinality(d.poolMember) /\ d.poolSize \in Nat
  <2>. DEFINE m == s.poolMember
  <2>1. IsFiniteSet(m) /\ s.poolSize = Cardinality(m)
    BY <1>1 DEF Indexed
  <2>2. CASE k \in m
    <3>1. IsFiniteSet(m \ {k}) /\ Cardinality(m \ {k}) = Cardinality(m) - 1
      BY <2>1, <2>2, FS_RemoveElement
    <3>2. Cardinality(m \ {k}) \in Nat
      BY <3>1, FS_CardinalityType
    <3>. QED  BY <1>4, <2>1, <2>2, <3>1, <3>2
  <2>3. CASE k \notin m
    <3>1. m \ {k} = m
      BY <2>3
    <3>. QED  BY <1>1, <1>4, <2>1, <2>3, <3>1
  <2>. QED  BY <2>2, <2>3
<1>10. DOMAIN d.age = Held(d) /\ \A j \in Held(d) : d.age[j] = s.age[j]
  BY <1>1, <1>4, <1>8 DEF Indexed
<1>11. d \in StoreState
  <2>1. d.age \in [Held(d) -> 0 .. TTL + 1]
    BY <1>1, <1>4, <1>8, <1>10, AgesAreTyped DEF Indexed
  <2>2. d.age \in UNION {[E -> 0 .. TTL + 1] : E \in SUBSET VaultKey}
    BY <2>1, <1>2, <1>8, AgesAre
  <2>3. d.tenantKeys \in [Tenant -> Seq(VaultKey)]
    BY <1>1, <1>2, <1>4, <1>6, <1>7 DEF StoreState
  <2>4. d.poolMember \in SUBSET VaultKey
    BY <1>1, <1>4
  <2>. QED  BY <1>3, <1>4, <1>5, <1>9, <2>2, <2>3, <2>4 DEF StoreState
<1>12. Indexed(d)
  BY <1>1, <1>4, <1>5, <1>8, <1>9, <1>10 DEF Indexed
<1>13. Owned(d)
  <2>1. ASSUME NEW t \in Tenant
        PROVE  /\ IsInjective(d.tenantKeys[t])
               /\ ToSet(d.tenantKeys[t]) = OfTenant(d, t)
               /\ \A a, b : Precedes(d.tenantKeys[t], a, b) => Precedes(d.sessions, a, b)
    <3>1. CASE t = o
      BY <3>1, <1>1, <1>5, <1>7, <1>8 DEF Owned, OfTenant
    <3>2. CASE t # o
      <4>1. d.tenantKeys[t] = s.tenantKeys[t]
        BY <3>2, <1>6
      <4>2. ToSet(s.tenantKeys[t]) = OfTenant(d, t)
        BY <3>2, <1>1, <1>8 DEF Owned, OfTenant
      <4>3. \A a, b : Precedes(s.tenantKeys[t], a, b) => a # k /\ b # k
        BY <4>2, <1>1, <1>8, PrecedesAreIn DEF OfTenant
      <4>. QED  BY <4>1, <4>2, <4>3, <1>1, <1>5 DEF Owned
    <3>. QED  BY <3>1, <3>2
  <2>. QED  BY <2>1 DEF Owned
<1>14. Aged(d)
  <2>1. \A a, b : Precedes(d.sessions, a, b) => a \in Held(d) /\ b \in Held(d)
    BY <1>5, PrecedesAreIn DEF Held
  <2>. QED  BY <2>1, <1>1, <1>5, <1>10 DEF Aged
<1>15. \A t \in Tenant : Count(d, t) = IF t = o THEN Count(s, t) - 1 ELSE Count(s, t)
  BY <1>6, <1>7 DEF Count
<1>. QED  BY <1>5, <1>8, <1>11, <1>12, <1>13, <1>14, <1>15 DEF SoundStores

(* The same for any key: _drop of one that is not held changes nothing. *)
LEMMA DroppingAnyKeeps ==
  ASSUME NEW s \in SoundStores, NEW k
  PROVE  /\ Drop(s, k) \in SoundStores
         /\ Held(Drop(s, k)) = Held(s) \ {k}
         /\ Len(Drop(s, k).sessions) <= Len(s.sessions)
         /\ \A t \in Tenant : Count(Drop(s, k), t) <= Count(s, t)
<1>1. CASE k \in Held(s)
  <2>1. Len(s.sessions) \in Nat /\ \A t \in Tenant : Count(s, t) \in Nat
    BY DEF SoundStores, StoreState, Count
  <2>. QED  BY <1>1, <2>1, DroppingKeeps
<1>2. CASE k \notin Held(s)
  <2>1. Drop(s, k) = s
    BY <1>2 DEF Drop
  <2>2. Len(s.sessions) \in Nat /\ \A t \in Tenant : Count(s, t) \in Nat
    BY DEF SoundStores, StoreState, Count
  <2>. QED  BY <1>2, <2>1, <2>2
<1>. QED  BY <1>1, <1>2

(* What _drop leaves alone. *)
LEMMA DroppingLeaves ==
  ASSUME NEW s \in SoundStores, NEW k
  PROVE  /\ Drop(s, k).poolMember = s.poolMember \ {k}
         /\ \A j \in Held(s) \ {k} : Drop(s, k).age[j] = s.age[j]
<1>1. DOMAIN s.age = Held(s) /\ s.poolMember \subseteq Held(s)
  BY DEF SoundStores, Indexed
<1>. QED  BY <1>1 DEF Drop

(* A refresh keeps the indexes in agreement: a key that becomes the last
   is idle for no time, so the idle times still fall along the order. *)
LEMMA TouchingKeeps ==
  ASSUME NEW s \in SoundStores, NEW k \in Held(s)
  PROVE  LET d == Touch(s, k)
         IN  /\ d \in SoundStores
             /\ Held(d) = Held(s)
             /\ Len(d.sessions) = Len(s.sessions)
             /\ \A t \in Tenant : Count(d, t) = Count(s, t)
<1>. DEFINE d == Touch(s, k)
            o == k[1]
<1>1. /\ s \in StoreState /\ Indexed(s) /\ Owned(s) /\ Aged(s)
      /\ s.sessions \in Seq(VaultKey)
      /\ \A t \in Tenant : s.tenantKeys[t] \in Seq(VaultKey)
      /\ s.poolMember \in SUBSET VaultKey /\ s.poolSize \in Nat
      /\ 0 \in 0 .. TTL + 1
  BY StoreAssumption DEF SoundStores, StoreState
<1>2. o \in Tenant /\ k \in ToSet(s.tenantKeys[o]) /\ k \in ToSet(s.sessions) /\ Held(s) \subseteq VaultKey
  BY KeysAreHeld DEF Held
<1>3. /\ d.sessions = ToEnd(s.sessions, k)
      /\ d.age = [s.age EXCEPT ![k] = 0]
      /\ d.poolMember = s.poolMember
      /\ d.poolSize = s.poolSize
      /\ d.tenantKeys = [s.tenantKeys EXCEPT ![o] = ToEnd(@, k)]
      /\ d = [sessions |-> d.sessions, age |-> d.age, tenantKeys |-> d.tenantKeys,
              poolMember |-> d.poolMember, poolSize |-> d.poolSize]
  <2>. DEFINE ord == ToEnd(s.sessions, k)
              a == [s.age EXCEPT ![k] = 0]
              m == [s.tenantKeys EXCEPT ![o] = ToEnd(@, k)]
  <2>1. d = [s EXCEPT !.sessions = ord, !.tenantKeys = m, !.age = a]
    BY Zenon DEF Touch
  <2>2. s = [sessions |-> s.sessions, age |-> s.age, tenantKeys |-> s.tenantKeys,
             poolMember |-> s.poolMember, poolSize |-> s.poolSize]
    BY <1>1 DEF StoreState
  <2>. HIDE DEF ord, a, m, d
  <2>3. d = [sessions |-> ord, age |-> a, tenantKeys |-> m,
             poolMember |-> s.poolMember, poolSize |-> s.poolSize]
    BY <2>1, <2>2
  <2>. QED  BY <2>3 DEF ord, a, m
<1>5. /\ d.sessions \in Seq(VaultKey) /\ IsInjective(d.sessions) /\ Len(d.sessions) = Len(s.sessions)
      /\ ToSet(d.sessions) = ToSet(s.sessions)
      /\ \A a, b : Precedes(d.sessions, a, b) <=>
           \/ Precedes(s.sessions, a, b) /\ a # k /\ b # k
           \/ a \in ToSet(s.sessions) \ {k} /\ b = k
  BY <1>1, <1>2, <1>3, MovingToEnd DEF Indexed
<1>6. /\ d.tenantKeys[o] = ToEnd(s.tenantKeys[o], k)
      /\ \A t \in Tenant : t # o => d.tenantKeys[t] = s.tenantKeys[t]
  BY <1>1, <1>2, <1>3 DEF StoreState
<1>7. /\ d.tenantKeys[o] \in Seq(VaultKey) /\ IsInjective(d.tenantKeys[o])
      /\ Len(d.tenantKeys[o]) = Len(s.tenantKeys[o])
      /\ ToSet(d.tenantKeys[o]) = ToSet(s.tenantKeys[o])
      /\ \A a, b : Precedes(d.tenantKeys[o], a, b) <=>
           \/ Precedes(s.tenantKeys[o], a, b) /\ a # k /\ b # k
           \/ a \in ToSet(s.tenantKeys[o]) \ {k} /\ b = k
  BY <1>1, <1>2, <1>6, MovingToEnd DEF Owned
<1>8. Held(d) = Held(s)
  BY <1>5 DEF Held
<1>10. /\ DOMAIN d.age = Held(d) /\ d.age[k] = 0
       /\ \A j \in Held(d) : j # k => d.age[j] = s.age[j]
  BY <1>1, <1>3, <1>8 DEF Indexed
<1>16. s.age \in [Held(s) -> 0 .. TTL + 1]
  BY <1>1, AgesAreTyped DEF Indexed
<1>11. d \in StoreState
  <2>1. d.age \in [Held(d) -> 0 .. TTL + 1]
    BY <1>1, <1>3, <1>8, <1>16
  <2>2. d.age \in UNION {[E -> 0 .. TTL + 1] : E \in SUBSET VaultKey}
    BY <2>1, <1>2, <1>8, AgesAre
  <2>3. d.tenantKeys \in [Tenant -> Seq(VaultKey)]
    BY <1>1, <1>2, <1>3, <1>6, <1>7 DEF StoreState
  <2>. QED  BY <1>1, <1>3, <1>5, <2>2, <2>3 DEF StoreState
<1>12. Indexed(d)
  BY <1>1, <1>3, <1>5, <1>8, <1>10 DEF Indexed
<1>13. Owned(d)
  <2>1. ASSUME NEW t \in Tenant
        PROVE  /\ IsInjective(d.tenantKeys[t])
               /\ ToSet(d.tenantKeys[t]) = OfTenant(d, t)
               /\ \A a, b : Precedes(d.tenantKeys[t], a, b) => Precedes(d.sessions, a, b)
    <3>1. CASE t = o
      <4>1. ToSet(s.tenantKeys[o]) \subseteq ToSet(s.sessions)
        BY KeysAreHeld, <1>2 DEF Held
      <4>2. ToSet(d.tenantKeys[o]) = OfTenant(d, o)
        BY <1>1, <1>2, <1>7, <1>8 DEF Owned, OfTenant
      <4>. QED  BY <3>1, <4>1, <4>2, <1>1, <1>2, <1>5, <1>7 DEF Owned
    <3>2. CASE t # o
      <4>1. d.tenantKeys[t] = s.tenantKeys[t]
        BY <3>2, <1>6
      <4>2. ToSet(s.tenantKeys[t]) = OfTenant(d, t)
        BY <3>2, <1>1, <1>8 DEF Owned, OfTenant
      <4>3. \A a, b : Precedes(s.tenantKeys[t], a, b) => a # k /\ b # k
        BY <3>2, <4>2, <1>1, PrecedesAreIn DEF OfTenant
      <4>. QED  BY <4>1, <4>2, <4>3, <1>1, <1>5 DEF Owned
    <3>. QED  BY <3>1, <3>2
  <2>. QED  BY <2>1 DEF Owned
<1>14. Aged(d)
  <2>1. ASSUME NEW a, NEW b, Precedes(d.sessions, a, b) PROVE d.age[a] >= d.age[b]
    <3>1. a \in Held(s) /\ b \in Held(s)
      BY <2>1, <1>5, PrecedesAreIn DEF Held
    <3>2. s.age[a] \in Int /\ s.age[b] \in Int /\ s.age[a] >= 0 /\ s.age[b] >= 0
      BY <3>1, <1>16, StoreAssumption
    <3>3. CASE b = k
      BY <3>1, <3>2, <3>3, <1>8, <1>10, <1>5, <2>1
    <3>4. CASE b # k
      BY <3>1, <3>2, <3>4, <1>1, <1>8, <1>10, <1>5, <2>1 DEF Aged
    <3>. QED  BY <3>3, <3>4
  <2>. QED  BY <2>1 DEF Aged
<1>15. \A t \in Tenant : Count(d, t) = Count(s, t)
  BY <1>6, <1>7 DEF Count
<1>. QED  BY <1>5, <1>8, <1>11, <1>12, <1>13, <1>14, <1>15 DEF SoundStores

(* _lookup keeps the indexes in agreement and adds nothing. *)
LEMMA LookingUpKeeps ==
  ASSUME NEW s \in SoundStores, NEW k
  PROVE  LET d == Lookup(s, k)
         IN  /\ d \in SoundStores
             /\ Len(d.sessions) <= Len(s.sessions)
             /\ \A t \in Tenant : Count(d, t) <= Count(s, t)
<1>. DEFINE live == IF Expired(s, k) THEN Drop(s, k) ELSE s
<1>1. Len(s.sessions) \in Nat /\ \A t \in Tenant : Count(s, t) \in Nat
  BY DEF SoundStores, StoreState, Count
<1>2. /\ live \in SoundStores
      /\ Len(live.sessions) <= Len(s.sessions)
      /\ \A t \in Tenant : Count(live, t) <= Count(s, t)
  BY <1>1, DroppingAnyKeeps
<1>3. Lookup(s, k) = IF k \in Held(live) THEN Touch(live, k) ELSE live
  BY DEF Lookup
<1>. HIDE DEF live
<1>. QED  BY <1>2, <1>3, TouchingKeeps

(* A key that is not held is inserted last, in its list and the pool too. *)
LEMMA InsertingKeeps ==
  ASSUME NEW s \in SoundStores, NEW k \in VaultKey, k \notin Held(s)
  PROVE  LET d == Insert(s, k)
         IN  /\ d \in SoundStores
             /\ Len(d.sessions) = Len(s.sessions) + 1
             /\ \A t \in Tenant :
                  Count(d, t) = IF t = k[1] THEN Count(s, t) + 1 ELSE Count(s, t)
<1>. DEFINE d == Insert(s, k)
            o == k[1]
<1>1. /\ s \in StoreState /\ Indexed(s) /\ Owned(s) /\ Aged(s)
      /\ s.sessions \in Seq(VaultKey)
      /\ \A t \in Tenant : s.tenantKeys[t] \in Seq(VaultKey)
      /\ s.poolMember \in SUBSET VaultKey /\ s.poolSize \in Nat
      /\ 0 \in 0 .. TTL + 1
  BY StoreAssumption DEF SoundStores, StoreState
<1>2. o \in Tenant /\ k \notin ToSet(s.tenantKeys[o]) /\ k \notin ToSet(s.sessions) /\ Held(s) \subseteq VaultKey
  <2>1. o \in Tenant
    BY DEF VaultKey
  <2>. QED  BY <2>1, KeysAreHeld DEF Held
<1>3. /\ d.sessions = Append(s.sessions, k)
      /\ d.age = [j \in DOMAIN s.age \cup {k} |-> IF j = k THEN 0 ELSE s.age[j]]
      /\ d.poolMember = IF o \notin configured THEN s.poolMember \cup {k} ELSE s.poolMember
      /\ d.poolSize = IF o \notin configured THEN s.poolSize + 1 ELSE s.poolSize
      /\ d.tenantKeys = [s.tenantKeys EXCEPT ![o] = Append(@, k)]
      /\ d = [sessions |-> d.sessions, age |-> d.age, tenantKeys |-> d.tenantKeys,
              poolMember |-> d.poolMember, poolSize |-> d.poolSize]
  BY DEF Insert
<1>5. /\ d.sessions \in Seq(VaultKey) /\ IsInjective(d.sessions) /\ Len(d.sessions) = Len(s.sessions) + 1
      /\ ToSet(d.sessions) = ToSet(s.sessions) \cup {k}
      /\ \A a, b : Precedes(d.sessions, a, b) <=>
           (Precedes(s.sessions, a, b) \/ (a \in ToSet(s.sessions) /\ b = k))
  BY <1>1, <1>2, <1>3, AddingOne DEF Indexed
<1>6. /\ d.tenantKeys[o] = Append(s.tenantKeys[o], k)
      /\ \A t \in Tenant : t # o => d.tenantKeys[t] = s.tenantKeys[t]
  BY <1>1, <1>2, <1>3 DEF StoreState
<1>7. /\ d.tenantKeys[o] \in Seq(VaultKey) /\ IsInjective(d.tenantKeys[o])
      /\ Len(d.tenantKeys[o]) = Len(s.tenantKeys[o]) + 1
      /\ ToSet(d.tenantKeys[o]) = ToSet(s.tenantKeys[o]) \cup {k}
      /\ \A a, b : Precedes(d.tenantKeys[o], a, b) <=>
           (Precedes(s.tenantKeys[o], a, b) \/ (a \in ToSet(s.tenantKeys[o]) /\ b = k))
  BY <1>1, <1>2, <1>6, AddingOne DEF Owned
<1>8. Held(d) = Held(s) \cup {k}
  BY <1>5 DEF Held
<1>9. /\ IsFiniteSet(d.poolMember) /\ d.poolSize = Cardinality(d.poolMember) /\ d.poolSize \in Nat
      /\ d.poolMember \in SUBSET VaultKey /\ d.poolMember \subseteq Held(d)
  <2>. DEFINE m == s.poolMember
  <2>1. IsFiniteSet(m) /\ s.poolSize = Cardinality(m) /\ m \subseteq Held(s) /\ k \notin m
    BY <1>1 DEF Indexed
  <2>2. IsFiniteSet(m \cup {k}) /\ Cardinality(m \cup {k}) = Cardinality(m) + 1
    BY <2>1, FS_AddElement
  <2>. QED  BY <1>1, <1>3, <1>8, <2>1, <2>2
<1>10. /\ DOMAIN d.age = Held(d) /\ d.age[k] = 0
       /\ \A j \in Held(s) : d.age[j] = s.age[j]
  BY <1>1, <1>3, <1>8 DEF Indexed
<1>16. s.age \in [Held(s) -> 0 .. TTL + 1]
  BY <1>1, AgesAreTyped DEF Indexed
<1>11. d \in StoreState
  <2>1. d.age \in [Held(d) -> 0 .. TTL + 1]
    BY <1>1, <1>3, <1>8, <1>10, <1>16
  <2>2. d.age \in UNION {[E -> 0 .. TTL + 1] : E \in SUBSET VaultKey}
    BY <2>1, <1>2, <1>8, AgesAre
  <2>3. d.tenantKeys \in [Tenant -> Seq(VaultKey)]
    BY <1>1, <1>2, <1>3, <1>6, <1>7 DEF StoreState
  <2>. QED  BY <1>3, <1>5, <1>9, <2>2, <2>3 DEF StoreState
<1>12. Indexed(d)
  BY <1>5, <1>8, <1>9, <1>10 DEF Indexed
<1>13. Owned(d)
  <2>1. ASSUME NEW t \in Tenant
        PROVE  /\ IsInjective(d.tenantKeys[t])
               /\ ToSet(d.tenantKeys[t]) = OfTenant(d, t)
               /\ \A a, b : Precedes(d.tenantKeys[t], a, b) => Precedes(d.sessions, a, b)
    <3>1. CASE t = o
      <4>1. ToSet(s.tenantKeys[o]) \subseteq ToSet(s.sessions)
        BY KeysAreHeld, <1>2 DEF Held
      <4>2. ToSet(d.tenantKeys[o]) = OfTenant(d, o)
        BY <1>1, <1>2, <1>7, <1>8 DEF Owned, OfTenant
      <4>. QED  BY <3>1, <4>1, <4>2, <1>1, <1>2, <1>5, <1>7 DEF Owned
    <3>2. CASE t # o
      BY <3>2, <1>1, <1>5, <1>6, <1>8 DEF Owned, OfTenant
    <3>. QED  BY <3>1, <3>2
  <2>. QED  BY <2>1 DEF Owned
<1>14. Aged(d)
  <2>1. ASSUME NEW a, NEW b, Precedes(d.sessions, a, b) PROVE d.age[a] >= d.age[b]
    <3>1. CASE Precedes(s.sessions, a, b)
      <4>1. a \in Held(s) /\ b \in Held(s)
        BY <3>1, <1>1, PrecedesAreIn DEF Held
      <4>. QED  BY <3>1, <4>1, <1>1, <1>10 DEF Aged
    <3>2. CASE a \in ToSet(s.sessions) /\ b = k
      <4>1. a \in Held(s) /\ s.age[a] \in Int /\ s.age[a] >= 0
        BY <3>2, <1>16, StoreAssumption DEF Held
      <4>. QED  BY <3>2, <4>1, <1>10
    <3>. QED  BY <2>1, <3>1, <3>2, <1>5
  <2>. QED  BY <2>1 DEF Aged
<1>15. \A t \in Tenant : Count(d, t) = IF t = o THEN Count(s, t) + 1 ELSE Count(s, t)
  BY <1>6, <1>7 DEF Count
<1>. QED  BY <1>5, <1>11, <1>12, <1>13, <1>14, <1>15 DEF SoundStores

(* The stores with one vault less. *)
Evictions(s) == {Drop(s, k) : k \in Held(s)}

(* Counts are naturals. *)
LEMMA CountsAreLengths ==
  ASSUME NEW s \in SoundStores
  PROVE  /\ Len(s.sessions) \in Nat
         /\ \A t \in Tenant : s.tenantKeys[t] \in Seq(VaultKey) /\ Count(s, t) \in Nat
  BY DEF SoundStores, StoreState, Count

(* The head of a list that is not empty is a held key of its owner. *)
LEMMA OldestIsHeld ==
  ASSUME NEW s \in SoundStores, NEW t \in Tenant, Count(s, t) > 0
  PROVE  /\ Head(s.tenantKeys[t]) \in Held(s)
         /\ Head(s.tenantKeys[t])[1] = t
         /\ DropOldest(s, t) \in Evictions(s)
<1>1. s.tenantKeys[t] \in Seq(VaultKey) /\ Len(s.tenantKeys[t]) > 0
  BY CountsAreLengths DEF Count
<1>2. Head(s.tenantKeys[t]) = s.tenantKeys[t][1] /\ 1 \in 1 .. Len(s.tenantKeys[t])
  BY <1>1
<1>3. Head(s.tenantKeys[t]) \in ToSet(s.tenantKeys[t])
  BY <1>1, <1>2 DEF ToSet
<1>. QED  BY <1>3, KeysAreHeld DEF DropOldest, Evictions

(* Dropping a held key frees one slot and lengthens no list. *)
LEMMA EvictionsFreeASlot ==
  ASSUME NEW s \in SoundStores, NEW d \in Evictions(s)
  PROVE  /\ d \in SoundStores
         /\ Held(d) \subseteq Held(s)
         /\ Len(d.sessions) = Len(s.sessions) - 1
         /\ \A t \in Tenant : Count(d, t) <= Count(s, t)
<1>1. PICK k \in Held(s) : d = Drop(s, k)
  BY DEF Evictions
<1>. QED  BY <1>1, DroppingKeeps, DroppingAnyKeeps

(* _largest returns one of the names it was given. *)
LEMMA LargestIsAName ==
  ASSUME NEW S, NEW sizes, S = DOMAIN sizes, NEW p
  PROVE  Largest(sizes, p) \subseteq S
  BY DEF Largest

(* A tenant of the pool that is to lose a vault has one. *)
LEMMA PoolVictimsHold ==
  ASSUME NEW s \in SoundStores, NEW tenant, NEW v \in PoolVictims(s, tenant)
  PROVE  v \in Tenant /\ Count(s, v) > 0
<1>1. PoolVictims(s, tenant) \subseteq Holding(s, Tenant \ configured)
  BY LargestIsAName DEF PoolVictims
<1>. QED  BY <1>1 DEF Holding

(* _evict_from_pool drops a held key, or nothing when it finds no victim. *)
LEMMA PoolEvictions ==
  ASSUME NEW s \in SoundStores, NEW tenant, NEW d \in EvictFromPool(s, tenant)
  PROVE  /\ d = s \/ d \in Evictions(s)
         /\ PoolVictims(s, tenant) # {} => d \in Evictions(s)
<1>1. CASE PoolVictims(s, tenant) = {}
  BY <1>1 DEF EvictFromPool
<1>2. CASE PoolVictims(s, tenant) # {}
  <2>1. PICK v \in PoolVictims(s, tenant) : d = DropOldest(s, v)
    BY <1>2 DEF EvictFromPool
  <2>. QED  BY <2>1, PoolVictimsHold, OldestIsHeld
<1>. QED  BY <1>1, <1>2

(* _evict_one_for always frees a slot, whatever the counts say. *)
LEMMA EvictingFreesASlot ==
  ASSUME NEW s \in SoundStores, Len(s.sessions) > 0, configured \subseteq Tenant,
         NEW tenant, NEW d \in EvictOneFor(s, tenant)
  PROVE  d \in Evictions(s)
<1>. DEFINE requester == IF tenant \in configured THEN tenant ELSE Pool
            victims == Largest(BucketSizes(s), requester)
            anyOldest == {Drop(s, Head(s.sessions))}
<1>1. \A x \in anyOldest : x \in Evictions(s)
  <2>1. s.sessions \in Seq(VaultKey)
    BY DEF SoundStores, StoreState
  <2>2. Head(s.sessions) = s.sessions[1] /\ 1 \in 1 .. Len(s.sessions)
    BY <2>1
  <2>. QED  BY <2>1, <2>2 DEF Held, ToSet, Evictions
<1>2. victims \subseteq Holding(s, configured) \cup {Pool}
  <2>1. DOMAIN BucketSizes(s) \subseteq Holding(s, configured) \cup {Pool}
    BY DEF BucketSizes
  <2>. QED  BY <2>1, LargestIsAName
<1>3. EvictOneFor(s, tenant) =
        IF victims = {} THEN anyOldest
        ELSE UNION {IF v # Pool THEN {DropOldest(s, v)}
                    ELSE IF PoolVictims(s, tenant) # {} THEN EvictFromPool(s, tenant)
                    ELSE anyOldest : v \in victims}
  BY DEF EvictOneFor
<1>. HIDE DEF victims, anyOldest
<1>4. CASE victims = {}
  BY <1>1, <1>3, <1>4
<1>5. CASE victims # {}
  <2>1. PICK v \in victims :
          d \in (IF v # Pool THEN {DropOldest(s, v)}
                 ELSE IF PoolVictims(s, tenant) # {} THEN EvictFromPool(s, tenant)
                 ELSE anyOldest)
    BY <1>3, <1>5
  <2>2. CASE v # Pool
    <3>1. v \in Tenant /\ Count(s, v) > 0 /\ d = DropOldest(s, v)
      BY <2>1, <2>2, <1>2 DEF Holding
    <3>. QED  BY <3>1, OldestIsHeld
  <2>3. CASE v = Pool /\ PoolVictims(s, tenant) # {}
    BY <2>1, <2>3, PoolEvictions
  <2>4. CASE v = Pool /\ PoolVictims(s, tenant) = {}
    BY <2>1, <2>4, <1>1
  <2>. QED  BY <2>2, <2>3, <2>4
<1>. QED  BY <1>4, <1>5

(* CapacityHeld, of any store. *)
Fits(s) ==
  /\ Len(s.sessions) <= MaxCapacity
  /\ \A t \in Tenant : Count(s, t) <= PerTenantCapacity

(* After making room there is a free slot, for the store and for the key. *)
LEMMA RoomIsMade ==
  ASSUME NEW s \in SoundStores, Fits(s), configured \subseteq Tenant, NEW t \in Tenant,
         NEW d \in MakeRoom(s, t)
  PROVE  /\ d \in SoundStores /\ Fits(d)
         /\ Held(d) \subseteq Held(s)
         /\ Len(d.sessions) < MaxCapacity
         /\ Count(d, t) < PerTenantCapacity
<1>. DEFINE own == IF Count(s, t) >= PerTenantCapacity THEN DropOldest(s, t) ELSE s
            pooled == IF t \notin configured /\ own.poolSize >= PerTenantCapacity
                        THEN EvictFromPool(own, t) ELSE {own}
            Room(x) == /\ x \in SoundStores /\ Held(x) \subseteq Held(s)
                       /\ Count(x, t) < PerTenantCapacity
                       /\ Fits(x)
<1>0. /\ MaxCapacity \in Nat /\ MaxCapacity > 0
      /\ PerTenantCapacity \in Nat /\ PerTenantCapacity > 0
  BY StoreAssumption
<1>1. Room(own)
  <2>1. CASE Count(s, t) >= PerTenantCapacity
    <3>1. Count(s, t) > 0
      BY <1>0, <2>1, CountsAreLengths
    <3>. DEFINE k == Head(s.tenantKeys[t])
    <3>2. k \in Held(s) /\ k[1] = t /\ own = Drop(s, k)
      BY <2>1, <3>1, OldestIsHeld DEF DropOldest
    <3>. HIDE DEF k, own
    <3>3. /\ own \in SoundStores /\ Held(own) \subseteq Held(s)
          /\ Len(own.sessions) <= Len(s.sessions)
          /\ \A u \in Tenant : Count(own, u) <= Count(s, u)
          /\ Count(own, t) = Count(s, t) - 1
      BY <3>2, DroppingKeeps, DroppingAnyKeeps
    <3>4. Fits(own)
      BY <1>0, <3>3, CountsAreLengths DEF Fits
    <3>5. Count(own, t) < PerTenantCapacity
      BY <1>0, <3>3, CountsAreLengths DEF Fits
    <3>. QED  BY <3>3, <3>4, <3>5
  <2>2. CASE ~(Count(s, t) >= PerTenantCapacity)
    BY <1>0, <2>2, CountsAreLengths
  <2>. QED  BY <2>1, <2>2
<1>. HIDE DEF own
<1>2. ASSUME NEW x, Room(x), NEW y \in Evictions(x)
      PROVE  Room(y) /\ Len(y.sessions) = Len(x.sessions) - 1
  <2>1. /\ y \in SoundStores
        /\ Held(y) \subseteq Held(x)
        /\ Len(y.sessions) = Len(x.sessions) - 1
        /\ \A u \in Tenant : Count(y, u) <= Count(x, u)
    BY <1>2, EvictionsFreeASlot
  <2>2. Fits(y)
    BY <1>0, <1>2, <2>1, CountsAreLengths DEF Fits
  <2>3. Count(y, t) < PerTenantCapacity
    BY <1>0, <1>2, <2>1, CountsAreLengths
  <2>. QED  BY <1>2, <2>1, <2>2, <2>3
<1>3. \A p \in pooled : Room(p)
  <2>1. ASSUME NEW p \in pooled PROVE p = own \/ p \in Evictions(own)
    BY <2>1, <1>1, PoolEvictions
  <2>. QED  BY <2>1, <1>1, <1>2
<1>4. MakeRoom(s, t) =
        UNION {IF Len(p.sessions) >= MaxCapacity THEN EvictOneFor(p, t) ELSE {p} : p \in pooled}
  BY DEF MakeRoom, own
<1>. HIDE DEF pooled, Room
<1>5. PICK p \in pooled :
        d \in (IF Len(p.sessions) >= MaxCapacity THEN EvictOneFor(p, t) ELSE {p})
  BY <1>4
<1>6. Room(p) /\ p \in SoundStores /\ Len(p.sessions) <= MaxCapacity /\ Len(p.sessions) \in Nat
  BY <1>3, CountsAreLengths DEF Room, Fits
<1>7. CASE Len(p.sessions) >= MaxCapacity
  <2>1. d \in Evictions(p)
    BY <1>0, <1>5, <1>6, <1>7, EvictingFreesASlot
  <2>2. Room(d) /\ Len(d.sessions) = Len(p.sessions) - 1
    BY <2>1, <1>2, <1>6
  <2>3. Len(d.sessions) < MaxCapacity
    BY <1>0, <1>6, <2>2
  <2>. QED  BY <2>2, <2>3 DEF Room
<1>8. CASE ~(Len(p.sessions) >= MaxCapacity)
  <2>1. d = p
    BY <1>5, <1>8
  <2>. QED  BY <1>0, <1>6, <1>8, <2>1 DEF Room
<1>. QED  BY <1>7, <1>8

(* Between two calls. *)
Steady(s) == s \in SoundStores /\ Fits(s)

(* A store that holds less than one within its capacities is within them. *)
LEMMA SmallerFits ==
  ASSUME NEW s \in SoundStores, NEW d \in SoundStores, Fits(s),
         Len(d.sessions) <= Len(s.sessions),
         \A t \in Tenant : Count(d, t) <= Count(s, t)
  PROVE  Steady(d)
<1>1. MaxCapacity \in Nat /\ PerTenantCapacity \in Nat
  BY StoreAssumption
<1>. QED  BY <1>1, CountsAreLengths DEF Fits, Steady

(* The loop of _evict_expired has a result for every list of keys. *)
LEMMA SweepEnds ==
  \A n \in Nat : \A ord :
    \E f : f = [i \in 0 .. n |->
                  IF i = 0 THEN store
                  ELSE IF Expired(store, ord[i]) THEN Drop(f[i - 1], ord[i]) ELSE f[i - 1]]
<1>. SUFFICES ASSUME NEW n \in Nat, NEW ord
     PROVE  \E f : f = [i \in 0 .. n |->
                       IF i = 0 THEN store
                       ELSE IF Expired(store, ord[i]) THEN Drop(f[i - 1], ord[i]) ELSE f[i - 1]]
  BY Zenon
<1>. DEFINE Step(x, i) == IF Expired(store, ord[i]) THEN Drop(x, ord[i]) ELSE x
            Swept(f, m) == f = [i \in 0 .. m |-> IF i = 0 THEN store ELSE Step(f[i - 1], i)]
            Stuck == {m \in Nat : ~ \E f : Swept(f, m)}
<1>. HIDE DEF Step
<1>1. ASSUME Stuck # {} PROVE FALSE
  <2>1. PICK m \in Stuck : \A k \in Stuck : m <= k
    <3>1. Stuck \in SUBSET Nat
      OBVIOUS
    <3>. HIDE DEF Stuck
    <3>. QED  BY <1>1, <3>1, LeastNatural
  <2>2. m \in Nat /\ ~ \E f : Swept(f, m)
    BY <2>1
  <2>3. CASE m = 0
    <3>1. Swept([i \in 0 .. 0 |-> store], 0)
      OBVIOUS
    <3>. QED  BY <2>2, <2>3, <3>1
  <2>4. CASE m # 0
    <3>1. m - 1 \in Nat /\ m - 1 \notin Stuck
      <4>1. m - 1 \in Nat /\ ~(m <= m - 1)
        BY <2>2, <2>4
      <4>. QED  BY <2>1, <4>1
    <3>2. PICK f : Swept(f, m - 1)
      BY <3>1
    <3>. DEFINE g == [i \in 0 .. m |-> IF i = m THEN Step(f[m - 1], m) ELSE f[i]]
    <3>3. \A i \in 0 .. m - 1 : f[i] = IF i = 0 THEN store ELSE Step(f[i - 1], i)
      BY <3>2
    <3>4. \A i \in 0 .. m : g[i] = IF i = 0 THEN store ELSE Step(g[i - 1], i)
      BY <2>2, <2>4, <3>3
    <3>5. Swept(g, m)
      <4>1. g = [i \in 0 .. m |-> g[i]]
        OBVIOUS
      <4>. HIDE DEF g
      <4>. QED  BY <3>4, <4>1
    <3>. QED  BY <2>2, <3>5
  <2>. QED  BY <2>3, <2>4
<1>2. \E f : Swept(f, n)
  BY <1>1
<1>. QED  BY <1>2 DEF Step

(* Only what is idle for too long, or k in a clear, goes; nothing is made. *)
Quiet(s) ==
  /\ Held(s) \subseteq Held(store)
  /\ \A j \in Held(s) : Expired(store, j) => Expired(s, j)
  /\ s.poolMember \subseteq store.poolMember

(* A sweep drops expired keys only and leaves the indexes in agreement. *)
LEMMA SweepingKeeps ==
  ASSUME Steady(store), EvictExpired
  PROVE  /\ Steady(store')
         /\ Quiet(store')
         /\ \A j \in Held(store) \ Held(store') : Expired(store, j)
<1>. DEFINE ord == store.sessions
            n == Len(ord)
            swept[i \in 0 .. n] ==
              IF i = 0 THEN store
              ELSE IF Expired(store, ord[i]) THEN Drop(swept[i - 1], ord[i]) ELSE swept[i - 1]
            Reached(s) == /\ s \in SoundStores
                          /\ Len(s.sessions) <= Len(store.sessions)
                          /\ \A t \in Tenant : Count(s, t) <= Count(store, t)
                          /\ Held(s) \subseteq Held(store)
                          /\ s.poolMember \subseteq store.poolMember
                          /\ \A j \in Held(s) : s.age[j] = store.age[j]
                          /\ \A j \in Held(store) \ Held(s) : Expired(store, j)
            Lost == {i \in 0 .. n : ~Reached(swept[i])}
<1>1. n \in Nat /\ store \in SoundStores /\ Fits(store)
  BY CountsAreLengths DEF Steady
<1>2. store' = swept[n]
  BY Zenon DEF EvictExpired
<1>3. \E f : f = [i \in 0 .. n |->
                    IF i = 0 THEN store
                    ELSE IF Expired(store, ord[i]) THEN Drop(f[i - 1], ord[i]) ELSE f[i - 1]]
  <2>. HIDE DEF ord
  <2>1. \A p : \E f : f = [i \in 0 .. n |->
                    IF i = 0 THEN store
                    ELSE IF Expired(store, p[i]) THEN Drop(f[i - 1], p[i]) ELSE f[i - 1]]
    BY <1>1, SweepEnds, Zenon
  <2>. QED  BY <2>1, Zenon
<1>4. swept = [i \in 0 .. n |->
                 IF i = 0 THEN store
                 ELSE IF Expired(store, ord[i]) THEN Drop(swept[i - 1], ord[i]) ELSE swept[i - 1]]
  BY <1>3, Zenon
<1>. HIDE DEF swept
<1>5. \A i \in 0 .. n : swept[i] = IF i = 0 THEN store
                 ELSE IF Expired(store, ord[i]) THEN Drop(swept[i - 1], ord[i]) ELSE swept[i - 1]
  BY <1>4, Zenon
<1>6. Reached(store)
  BY <1>1, CountsAreLengths
<1>7. ASSUME NEW s, Reached(s), NEW k, Expired(store, k) PROVE Reached(Drop(s, k))
  <2>1. /\ Drop(s, k) \in SoundStores
        /\ Len(Drop(s, k).sessions) <= Len(s.sessions)
        /\ \A t \in Tenant : Count(Drop(s, k), t) <= Count(s, t)
    BY <1>7, DroppingAnyKeeps
  <2>2. /\ Len(s.sessions) \in Nat /\ \A t \in Tenant : Count(s, t) \in Nat
        /\ Len(Drop(s, k).sessions) \in Nat /\ \A t \in Tenant : Count(Drop(s, k), t) \in Nat
        /\ Len(store.sessions) \in Nat /\ \A t \in Tenant : Count(store, t) \in Nat
    BY <1>1, <1>7, <2>1, CountsAreLengths
  <2>3. /\ Held(Drop(s, k)) = Held(s) \ {k}
        /\ Drop(s, k).poolMember = s.poolMember \ {k}
        /\ \A j \in Held(s) \ {k} : Drop(s, k).age[j] = s.age[j]
    BY <1>7, DroppingAnyKeeps, DroppingLeaves
  <2>4. /\ Len(Drop(s, k).sessions) <= Len(store.sessions)
        /\ \A t \in Tenant : Count(Drop(s, k), t) <= Count(store, t)
    BY <1>7, <2>1, <2>2
  <2>. QED  BY <1>7, <2>1, <2>3, <2>4
<1>. HIDE DEF Reached, ord
<1>8. ASSUME Lost # {} PROVE FALSE
  <2>1. PICK i \in Lost : \A j \in Lost : i <= j
    <3>1. Lost \in SUBSET Nat
      BY <1>1
    <3>. HIDE DEF Lost
    <3>. QED  BY <1>8, <3>1, LeastNatural
  <2>2. i \in 0 .. n /\ ~Reached(swept[i])
    BY <2>1
  <2>3. i # 0
    BY <2>2, <1>5, <1>6
  <2>4. i - 1 \in 0 .. n /\ Reached(swept[i - 1])
    <3>1. i - 1 \in 0 .. n /\ ~(i <= i - 1)
      BY <1>1, <2>2, <2>3
    <3>. QED  BY <2>1, <3>1
  <2>. QED  BY <2>2, <2>3, <2>4, <1>5, <1>7
<1>9. Reached(store')
  BY <1>1, <1>2, <1>8
<1>10. Steady(store')
  BY <1>1, <1>9, SmallerFits DEF Reached
<1>11. Quiet(store')
  <2>1. DOMAIN store'.age = Held(store')
    BY <1>9 DEF Reached, SoundStores, Indexed
  <2>. QED  BY <1>9, <2>1 DEF Reached, Quiet, Expired
<1>. QED  BY <1>9, <1>10, <1>11 DEF Reached

(* Time passes for all keys alike: what is idle longer stays so. *)
LEMMA TickingKeeps ==
  ASSUME Steady(store), Tick
  PROVE  Steady(store') /\ Quiet(store') /\ Held(store') = Held(store)
<1>1. /\ store \in StoreState /\ Indexed(store) /\ Owned(store) /\ Aged(store) /\ Fits(store)
      /\ TTL \in Nat
  BY StoreAssumption DEF Steady, SoundStores
<1>. DEFINE a == [k \in DOMAIN store.age |->
                    IF store.age[k] > TTL THEN store.age[k] ELSE store.age[k] + 1]
<1>2. store = [sessions |-> store.sessions, age |-> store.age, tenantKeys |-> store.tenantKeys,
               poolMember |-> store.poolMember, poolSize |-> store.poolSize]
  BY <1>1 DEF StoreState
<1>3. store' = [sessions |-> store.sessions, age |-> a, tenantKeys |-> store.tenantKeys,
                poolMember |-> store.poolMember, poolSize |-> store.poolSize]
  BY <1>2 DEF Tick
<1>4. /\ store'.sessions = store.sessions /\ store'.age = a
      /\ store'.tenantKeys = store.tenantKeys
      /\ store'.poolMember = store.poolMember /\ store'.poolSize = store.poolSize
  BY <1>3
<1>5. store.age \in [DOMAIN store.age -> 0 .. TTL + 1] /\ DOMAIN store.age \in SUBSET VaultKey
  BY <1>1, AgesAreTyped
<1>6. a \in [DOMAIN store.age -> 0 .. TTL + 1]
  BY <1>1, <1>5
<1>7. a \in UNION {[E -> 0 .. TTL + 1] : E \in SUBSET VaultKey}
  BY <1>5, <1>6, AgesAre
<1>8. DOMAIN a = DOMAIN store.age
  OBVIOUS
<1>9. ASSUME NEW x, NEW y, Precedes(store.sessions, x, y) PROVE a[x] >= a[y]
  <2>1. x \in DOMAIN store.age /\ y \in DOMAIN store.age
    BY <1>1, <1>9, PrecedesAreIn DEF StoreState, Indexed, Held
  <2>2. store.age[x] \in 0 .. TTL + 1 /\ store.age[y] \in 0 .. TTL + 1 /\ store.age[x] >= store.age[y]
    BY <1>1, <1>5, <1>9, <2>1 DEF Aged
  <2>3. /\ a[x] = IF store.age[x] > TTL THEN store.age[x] ELSE store.age[x] + 1
        /\ a[y] = IF store.age[y] > TTL THEN store.age[y] ELSE store.age[y] + 1
    BY <2>1
  <2>. HIDE DEF a
  <2>. QED  BY <1>1, <2>2, <2>3
<1>. HIDE DEF a
<1>10. store' \in StoreState
  BY <1>1, <1>3, <1>7 DEF StoreState
<1>11. Indexed(store')
  BY <1>1, <1>4, <1>8 DEF Indexed, Held
<1>12. Owned(store')
  BY <1>1, <1>4 DEF Owned, OfTenant, Held
<1>13. Aged(store')
  BY <1>4, <1>9 DEF Aged
<1>14. Fits(store')
  BY <1>1, <1>4 DEF Fits, Count
<1>15. Held(store') = Held(store)
  BY <1>4 DEF Held
<1>16. Quiet(store')
  <2>1. \A j \in DOMAIN store.age : store.age[j] > TTL => a[j] > TTL
    BY DEF a
  <2>. QED  BY <1>4, <1>8, <1>15, <2>1 DEF Quiet, Expired
<1>. QED  BY <1>10, <1>11, <1>12, <1>13, <1>14, <1>15, <1>16 DEF Steady, SoundStores

(* get_vault leaves the indexes in agreement and the capacities kept. *)
LEMMA GettingKeeps ==
  ASSUME Steady(store), configured \subseteq Tenant, NEW k \in VaultKey, GetVault(k)
  PROVE  Steady(store')
<1>. DEFINE found == Lookup(store, k)
<1>1. found \in SoundStores /\ Steady(found)
  BY LookingUpKeeps, SmallerFits DEF Steady
<1>2. \/ k \in Held(found) /\ store' = found
      \/ k \notin Held(found) /\ \E room \in MakeRoom(found, k[1]) : store' = Insert(room, k)
  BY DEF GetVault
<1>. HIDE DEF found
<1>3. CASE k \in Held(found) /\ store' = found
  BY <1>1, <1>3
<1>4. CASE k \notin Held(found) /\ \E room \in MakeRoom(found, k[1]) : store' = Insert(room, k)
  <2>1. PICK room \in MakeRoom(found, k[1]) : store' = Insert(room, k)
    BY <1>4
  <2>2. k[1] \in Tenant
    BY DEF VaultKey
  <2>3. /\ room \in SoundStores /\ Fits(room) /\ k \notin Held(room)
        /\ Len(room.sessions) < MaxCapacity /\ Count(room, k[1]) < PerTenantCapacity
    BY <1>1, <1>4, <2>2, RoomIsMade DEF Steady
  <2>4. /\ store' \in SoundStores
        /\ Len(store'.sessions) = Len(room.sessions) + 1
        /\ \A t \in Tenant :
             Count(store', t) = IF t = k[1] THEN Count(room, t) + 1 ELSE Count(room, t)
    BY <2>1, <2>3, InsertingKeeps
  <2>5. /\ MaxCapacity \in Nat /\ PerTenantCapacity \in Nat
        /\ Len(room.sessions) \in Nat /\ \A t \in Tenant : Count(room, t) \in Nat
    BY <2>3, CountsAreLengths, StoreAssumption
  <2>6. Len(store'.sessions) <= MaxCapacity
    BY <2>3, <2>4, <2>5
  <2>7. \A t \in Tenant : Count(store', t) <= PerTenantCapacity
    BY <2>3, <2>4, <2>5 DEF Fits
  <2>. QED  BY <2>4, <2>6, <2>7 DEF Steady, Fits
<1>. QED  BY <1>2, <1>3, <1>4

(* The inductive invariant of the store. *)
StoreInv == Steady(store) /\ configured \subseteq Tenant

(* The store the program starts with. *)
LEMMA NoVaultsIsSteady == Steady(NoVaults)
<1>. DEFINE e == NoVaults
<1>1. /\ e.sessions = <<>> /\ e.age = [k \in {} |-> 0] /\ e.poolMember = {} /\ e.poolSize = 0
      /\ e.tenantKeys = [t \in Tenant |-> <<>>]
      /\ e = [sessions |-> e.sessions, age |-> e.age, tenantKeys |-> e.tenantKeys,
              poolMember |-> e.poolMember, poolSize |-> e.poolSize]
  BY DEF NoVaults
<1>. HIDE DEF e
<1>. DEFINE z == <<>>
<1>2. z \in Seq(VaultKey) /\ Len(z) = 0 /\ ToSet(z) = {} /\ IsInjective(z)
      /\ \A a, b : ~Precedes(z, a, b)
  BY DEF ToSet, IsInjective, Precedes
<1>3. \A t \in Tenant : e.tenantKeys[t] = z
  BY <1>1
<1>4. e.age \in UNION {[E -> 0 .. TTL + 1] : E \in SUBSET VaultKey} /\ DOMAIN e.age = {}
  <2>1. e.age \in [{} -> 0 .. TTL + 1]
    BY <1>1
  <2>. QED  BY <2>1, AgesAre
<1>. HIDE DEF z
<1>5. e.tenantKeys \in [Tenant -> Seq(VaultKey)]
  BY <1>1, <1>2, <1>3
<1>6. e.sessions = z
  BY <1>1 DEF z
<1>7. e \in StoreState
  <2>1. e.sessions \in Seq(VaultKey) /\ e.poolMember \in SUBSET VaultKey /\ e.poolSize \in Nat
    BY <1>1, <1>2, <1>6
  <2>2. e \in [sessions   : {e.sessions}, age : {e.age}, tenantKeys : {e.tenantKeys},
               poolMember : {e.poolMember}, poolSize : {e.poolSize}]
    BY <1>1, Zenon
  <2>. QED  BY <2>1, <2>2, <1>4, <1>5 DEF StoreState
<1>8. Held(e) = {}
  BY <1>2, <1>6 DEF Held
<1>9. Indexed(e)
  BY <1>1, <1>2, <1>4, <1>6, <1>8, FS_EmptySet DEF Indexed
<1>10. Owned(e) /\ Aged(e)
  BY <1>2, <1>3, <1>6, <1>8 DEF Owned, Aged, OfTenant
<1>11. Fits(e)
  BY <1>2, <1>3, <1>6, StoreAssumption DEF Fits, Count
<1>. QED  BY <1>7, <1>9, <1>10, <1>11 DEF Steady, SoundStores, e

(* The inductive invariant holds. *)
LEMMA StoreInvHolds == StoreSpec => []StoreInv
<1>1. StoreInit => StoreInv
  BY NoVaultsIsSteady DEF StoreInit, StoreInv
<1>2. StoreInv /\ [StoreNext]_storeVars => StoreInv'
  <2>. SUFFICES ASSUME StoreInv, [StoreNext]_storeVars PROVE StoreInv'
    OBVIOUS
  <2>. USE DEF StoreInv
  <2>1. CASE UNCHANGED storeVars
    BY <2>1 DEF storeVars, Steady, SoundStores, Indexed, Owned, Aged, Fits, OfTenant, Held, Count
  <2>2. ASSUME NEW k \in VaultKey, GetVault(k) PROVE StoreInv'
    <3>1. Steady(store') /\ configured' = configured
      BY <2>2, GettingKeeps DEF GetVault
    <3>. QED  BY <3>1
  <2>3. ASSUME NEW k \in VaultKey, GetExistingVault(k) PROVE StoreInv'
    <3>1. Steady(Lookup(store, k))
      BY LookingUpKeeps, SmallerFits DEF Steady
    <3>. QED  BY <2>3, <3>1 DEF GetExistingVault
  <2>4. ASSUME NEW k \in VaultKey, ClearSession(k) PROVE StoreInv'
    <3>1. Steady(Drop(store, k))
      BY DroppingAnyKeeps, SmallerFits DEF Steady
    <3>. QED  BY <2>4, <3>1 DEF ClearSession
  <2>5. CASE EvictExpired
    <3>1. Steady(store') /\ configured' = configured
      BY <2>5, SweepingKeeps DEF EvictExpired
    <3>. QED  BY <3>1
  <2>6. CASE Tick
    <3>1. Steady(store') /\ configured' = configured
      BY <2>6, TickingKeeps DEF Tick
    <3>. QED  BY <3>1
  <2>7. CASE ReloadKeys
    BY <2>7 DEF ReloadKeys
  <2>. QED  BY <2>1, <2>2, <2>3, <2>4, <2>5, <2>6, <2>7 DEF StoreNext
<1>. QED  BY <1>1, <1>2, PTL DEF StoreSpec

(* THEOREM: for any tenants, sessions and capacities, after any calls, sweeps
   and reloads of the keys the store's indexes agree, no capacity is exceeded
   and a key's oldest vault is the one idle longest (engines/vault.py). *)
THEOREM StoreStaysSound == StoreSpec => []StoreIsSound
<1>1. StoreInv => StoreIsSound
  <2>. SUFFICES ASSUME StoreInv PROVE StoreIsSound
    OBVIOUS
  <2>1. /\ store \in SoundStores /\ Indexed(store) /\ Owned(store) /\ Aged(store) /\ Fits(store)
    BY DEF StoreInv, Steady, SoundStores
  <2>2. ASSUME NEW t \in Tenant, NEW i \in 1 .. Count(store, t), NEW j \in 1 .. Count(store, t), i < j
        PROVE  Precedes(store.sessions, store.tenantKeys[t][i], store.tenantKeys[t][j])
    <3>1. Precedes(store.tenantKeys[t], store.tenantKeys[t][i], store.tenantKeys[t][j])
      BY <2>2 DEF Precedes, Count
    <3>. QED  BY <2>1, <3>1 DEF Owned
  <2>3. IndexesAgree
    BY <2>1, <2>2 DEF IndexesAgree, Indexed, Owned
  <2>4. CapacityHeld
    BY <2>1 DEF CapacityHeld, Fits
  <2>5. OldestIsIdleLongest
    BY <2>1, <2>2 DEF OldestIsIdleLongest, Aged
  <2>. QED  BY <2>3, <2>4, <2>5 DEF StoreIsSound
<1>. QED  BY <1>1, StoreInvHolds, PTL

(* What a refresh leaves alone. *)
LEMMA TouchingLeaves ==
  ASSUME NEW s \in SoundStores, NEW k
  PROVE  /\ Touch(s, k).poolMember = s.poolMember
         /\ \A j \in Held(s) \ {k} : Touch(s, k).age[j] = s.age[j]
<1>1. /\ s.age \in [DOMAIN s.age -> 0 .. TTL + 1] /\ DOMAIN s.age = Held(s)
      /\ s = [sessions |-> s.sessions, age |-> s.age, tenantKeys |-> s.tenantKeys,
              poolMember |-> s.poolMember, poolSize |-> s.poolSize]
  BY AgesAreTyped DEF SoundStores, StoreState, Indexed
<1>. QED  BY <1>1 DEF Touch

(* A step that makes no vault takes no share from anyone. *)
LEMMA QuietIsJust ==
  ASSUME StoreInv, Quiet(store'), \A k \in Held(store) \ Held(store') : MayGo(k)
  PROVE  LossesHaveACause /\ SharesAreFair
<1>1. Created = {}
  BY DEF Created, Quiet
<1>2. IsFiniteSet(store.poolMember)
  BY DEF StoreInv, Steady, SoundStores, Indexed
<1>3. Cardinality(store'.poolMember) <= Cardinality(store.poolMember)
      /\ Cardinality(store.poolMember) \in Nat /\ Cardinality(store'.poolMember) \in Nat
  BY <1>2, FS_Subset, FS_CardinalityType DEF Quiet
<1>4. PerTenantCapacity \in Nat
  BY StoreAssumption
<1>. QED  BY <1>1, <1>3, <1>4 DEF LossesHaveACause, SharesAreFair

(* _lookup drops at most the key itself, when it is idle for too long. *)
LEMMA LookingUpIsQuiet ==
  ASSUME StoreInv, NEW k
  PROVE  /\ Quiet(Lookup(store, k))
         /\ \A j \in Held(store) \ Held(Lookup(store, k)) : Expired(store, j)
<1>. DEFINE live == IF Expired(store, k) THEN Drop(store, k) ELSE store
<1>0. store \in SoundStores /\ DOMAIN store.age = Held(store)
  BY DEF StoreInv, Steady, SoundStores, Indexed
<1>1. /\ live \in SoundStores /\ DOMAIN live.age = Held(live)
      /\ Held(live) = IF Expired(store, k) THEN Held(store) \ {k} ELSE Held(store)
      /\ live.poolMember \subseteq store.poolMember
      /\ \A j \in Held(live) : live.age[j] = store.age[j]
  <2>1. live \in SoundStores
    BY <1>0, DroppingAnyKeeps
  <2>2. DOMAIN live.age = Held(live)
    BY <2>1 DEF SoundStores, Indexed
  <2>3. CASE Expired(store, k)
    <3>1. live = Drop(store, k)
      BY <2>3
    <3>2. /\ Held(live) = Held(store) \ {k}
          /\ live.poolMember = store.poolMember \ {k}
          /\ \A j \in Held(store) \ {k} : live.age[j] = store.age[j]
      BY <1>0, <3>1, DroppingAnyKeeps, DroppingLeaves
    <3>. QED  BY <2>1, <2>2, <2>3, <3>2
  <2>4. CASE ~Expired(store, k)
    BY <1>0, <2>1, <2>2, <2>4
  <2>. QED  BY <2>3, <2>4
<1>2. Lookup(store, k) = IF k \in Held(live) THEN Touch(live, k) ELSE live
  BY DEF Lookup
<1>3. \A j \in Held(live) : Expired(store, j) => j # k /\ store.age[j] > TTL
  BY <1>1 DEF Expired
<1>. HIDE DEF live
<1>4. CASE k \in Held(live)
  <2>. DEFINE d == Touch(live, k)
  <2>1. /\ d \in SoundStores /\ Held(d) = Held(live) /\ d.poolMember = live.poolMember
        /\ \A j \in Held(live) \ {k} : d.age[j] = live.age[j]
    BY <1>1, <1>4, TouchingKeeps, TouchingLeaves
  <2>2. DOMAIN d.age = Held(d)
    BY <2>1 DEF SoundStores, Indexed
  <2>3. Lookup(store, k) = d
    BY <1>2, <1>4
  <2>. HIDE DEF d
  <2>4. \A j \in Held(d) : Expired(store, j) => Expired(d, j)
    BY <1>1, <1>3, <2>1, <2>2 DEF Expired
  <2>. QED  BY <1>1, <2>1, <2>3, <2>4 DEF Quiet
<1>5. CASE k \notin Held(live)
  <2>1. \A j \in Held(live) : Expired(store, j) => Expired(live, j)
    BY <1>1 DEF Expired
  <2>. QED  BY <1>1, <1>2, <1>5, <2>1 DEF Quiet
<1>. QED  BY <1>4, <1>5

(* CountsAreCurrent, of any store. *)
Current(s) == s.poolMember = {k \in Held(s) : k[1] \notin configured}

(* The pool need not give a vault for one more of t, or has none to give. *)
PoolIsDone(s, t) ==
  t \in configured \/ s.poolSize < PerTenantCapacity \/ PoolVictims(s, t) = {}

Oldest(s, t) == Head(s.tenantKeys[t])

(* The ways to make room: nothing, one vault of the fullest bucket, one of
   the pool, the oldest of the key, or that and one of the pool. *)
LEMMA RoomCosts ==
  ASSUME NEW s \in SoundStores, Fits(s), configured \subseteq Tenant, NEW t \in Tenant,
         NEW d \in MakeRoom(s, t)
  PROVE  LET own == DropOldest(s, t)
         IN  \/ Count(s, t) < PerTenantCapacity /\ PoolIsDone(s, t) /\ d = s
             \/ /\ Count(s, t) < PerTenantCapacity /\ PoolIsDone(s, t)
                /\ Len(s.sessions) = MaxCapacity /\ d \in EvictOneFor(s, t)
             \/ /\ Count(s, t) < PerTenantCapacity /\ ~PoolIsDone(s, t)
                /\ \E v \in PoolVictims(s, t) : d = DropOldest(s, v)
             \/ Count(s, t) >= PerTenantCapacity /\ d = own
             \/ /\ Count(s, t) >= PerTenantCapacity /\ ~PoolIsDone(own, t)
                /\ \E v \in PoolVictims(own, t) : d = DropOldest(own, v)
<1>. DEFINE full == Count(s, t) >= PerTenantCapacity
            own == IF full THEN DropOldest(s, t) ELSE s
            pooled == IF t \notin configured /\ own.poolSize >= PerTenantCapacity
                        THEN EvictFromPool(own, t) ELSE {own}
<1>0. /\ MaxCapacity \in Nat /\ MaxCapacity > 0
      /\ PerTenantCapacity \in Nat /\ PerTenantCapacity > 0
      /\ Count(s, t) \in Nat /\ Len(s.sessions) \in Nat /\ Len(s.sessions) <= MaxCapacity
  BY StoreAssumption, CountsAreLengths DEF Fits
<1>1. /\ own \in SoundStores
      /\ Len(own.sessions) = IF full THEN Len(s.sessions) - 1 ELSE Len(s.sessions)
  <2>1. CASE full
    BY <2>1, <1>0, OldestIsHeld, EvictionsFreeASlot, SMTT(30)
  <2>2. CASE ~full
    BY <2>2
  <2>. QED  BY <2>1, <2>2
<1>2. MakeRoom(s, t) =
        UNION {IF Len(p.sessions) >= MaxCapacity THEN EvictOneFor(p, t) ELSE {p} : p \in pooled}
  BY DEF MakeRoom
<1>3. own.poolSize \in Nat
  BY <1>1 DEF SoundStores, StoreState
<1>4. \A p \in pooled :
        \/ PoolIsDone(own, t) /\ p = own
        \/ ~PoolIsDone(own, t) /\ p \in Evictions(own) /\ \E v \in PoolVictims(own, t) : p = DropOldest(own, v)
  <2>1. CASE PoolIsDone(own, t)
    <3>. HIDE DEF own
    <3>. QED  BY <2>1, <1>0, <1>3 DEF PoolIsDone, EvictFromPool
  <2>2. CASE ~PoolIsDone(own, t)
    <3>. HIDE DEF own
    <3>1. pooled = {DropOldest(own, v) : v \in PoolVictims(own, t)}
      BY <2>2, <1>0, <1>3 DEF PoolIsDone, EvictFromPool
    <3>2. \A p \in pooled : p \in Evictions(own)
      BY <3>1, <1>1, PoolVictimsHold, OldestIsHeld
    <3>. QED  BY <2>2, <3>1, <3>2
  <2>. QED  BY <2>1, <2>2
<1>. HIDE DEF pooled, own
<1>5. PICK p \in pooled :
        d \in (IF Len(p.sessions) >= MaxCapacity THEN EvictOneFor(p, t) ELSE {p})
  BY <1>2
<1>6. CASE PoolIsDone(own, t) /\ p = own
  <2>1. CASE full
    <3>1. ~(Len(p.sessions) >= MaxCapacity)
      BY <1>0, <1>1, <1>6, <2>1
    <3>. QED  BY <1>0, <1>5, <1>6, <2>1, <3>1 DEF own
  <2>2. CASE ~full
    <3>1. own = s
      BY <2>2 DEF own
    <3>2. Count(s, t) < PerTenantCapacity
      BY <1>0, <2>2
    <3>. QED  BY <1>0, <1>5, <1>6, <3>1, <3>2
  <2>. QED  BY <2>1, <2>2
<1>7. CASE ~PoolIsDone(own, t) /\ p \in Evictions(own) /\ \E v \in PoolVictims(own, t) : p = DropOldest(own, v)
  <2>1. Len(p.sessions) = Len(own.sessions) - 1
    BY <1>1, <1>7, EvictionsFreeASlot
  <2>2. ~(Len(p.sessions) >= MaxCapacity)
    BY <1>0, <1>1, <2>1
  <2>3. d = p
    BY <1>5, <2>2
  <2>4. CASE full
    BY <1>7, <2>3, <2>4 DEF own
  <2>5. CASE ~full
    BY <1>0, <1>7, <2>3, <2>5 DEF own
  <2>. QED  BY <2>4, <2>5
<1>. QED  BY <1>4, <1>6, <1>7

(* A nonempty set of naturals with a bound has a largest element. *)
LEMMA LargestBelow ==
  ASSUME NEW S \in SUBSET Nat, S # {}, NEW n \in Nat, \A x \in S : x <= n
  PROVE  \E m \in S : \A x \in S : x <= m
<1>. DEFINE T == {n - x : x \in S}
<1>1. T \in SUBSET Nat /\ T # {}
  <2>1. \A x \in S : n - x \in Nat
    OBVIOUS
  <2>. QED  BY <2>1
<1>2. PICK y \in T : \A z \in T : y <= z
  <2>. HIDE DEF T
  <2>. QED  BY <1>1, LeastNatural
<1>3. PICK m \in S : y = n - m
  BY <1>2
<1>4. ASSUME NEW x \in S PROVE x <= m
  <2>1. n - m <= n - x
    BY <1>2, <1>3
  <2>2. x \in Nat /\ m \in Nat
    OBVIOUS
  <2>. HIDE DEF T
  <2>. QED  BY <2>1, <2>2
<1>. QED  BY <1>4

(* _largest of a dictionary that is not empty finds a name. *)
LEMMA SomeoneIsLargest ==
  ASSUME NEW D, D # {}, NEW sizes, D = DOMAIN sizes, NEW n \in Nat,
         \A x \in D : sizes[x] \in Nat /\ sizes[x] <= n, NEW p
  PROVE  Largest(sizes, p) # {}
<1>. DEFINE S == {sizes[x] : x \in D}
<1>1. S \in SUBSET Nat /\ S # {} /\ \A y \in S : y <= n
  OBVIOUS
<1>2. PICK m \in S : \A y \in S : y <= m
  <2>. HIDE DEF S
  <2>. QED  BY <1>1, LargestBelow
<1>3. PICK x \in D : sizes[x] = m
  BY <1>2
<1>4. \A y \in D : sizes[y] <= sizes[x]
  BY <1>2, <1>3
<1>. QED  BY <1>3, <1>4 DEF Largest

(* No count is above that of the name _largest returns, and the preferred
   name, if it is not the one returned, has strictly less. *)
LEMMA LargestIs ==
  ASSUME NEW D, NEW sizes, D = DOMAIN sizes, \A x \in D : sizes[x] \in Nat,
         NEW p, NEW v \in Largest(sizes, p)
  PROVE  /\ v \in D
         /\ \A x \in D : sizes[x] <= sizes[v]
         /\ p \in D /\ p # v => sizes[p] < sizes[v]
<1>. DEFINE top == {x \in D : \A y \in D : sizes[y] <= sizes[x]}
<1>1. Largest(sizes, p) = IF p \in top THEN {p} ELSE top
  BY DEF Largest
<1>2. v \in top
  BY <1>1
<1>3. ASSUME p \in D, p # v PROVE sizes[p] < sizes[v]
  <2>1. p \notin top
    BY <1>1, <1>3
  <2>2. PICK y \in D : ~(sizes[y] <= sizes[p])
    BY <1>3, <2>1
  <2>3. sizes[y] <= sizes[v]
    BY <1>2
  <2>4. sizes[y] \in Nat /\ sizes[p] \in Nat /\ sizes[v] \in Nat
    BY <1>2, <1>3, <2>2
  <2>. QED  BY <2>2, <2>3, <2>4
<1>. QED  BY <1>2, <1>3

(* _drop keeps the pool's counts current. *)
LEMMA DroppingKeepsCurrent ==
  ASSUME NEW s \in SoundStores, Current(s), NEW k
  PROVE  Current(Drop(s, k))
  BY DroppingLeaves, DroppingAnyKeeps DEF Current

(* While the counts are current a pool that is not empty has a victim. *)
LEMMA PoolHasAVictim ==
  ASSUME NEW s \in SoundStores, Fits(s), Current(s), s.poolSize > 0, NEW t
  PROVE  PoolVictims(s, t) # {}
<1>. DEFINE D == Holding(s, Tenant \ configured)
            sizes == [u \in D |-> Count(s, u)]
<1>1. s.poolMember # {}
  BY FS_EmptySet DEF SoundStores, Indexed
<1>2. PICK h \in Held(s) : h[1] \notin configured
  BY <1>1 DEF Current
<1>3. h[1] \in Tenant /\ h \in ToSet(s.tenantKeys[h[1]])
  BY KeysAreHeld
<1>4. Count(s, h[1]) > 0
  <2>1. s.tenantKeys[h[1]] \in Seq(VaultKey)
    BY <1>3, CountsAreLengths
  <2>. QED  BY <1>3, <2>1 DEF ToSet, Count
<1>5. h[1] \in D
  BY <1>2, <1>3, <1>4 DEF Holding
<1>6. \A u \in D : Count(s, u) \in Nat /\ Count(s, u) <= PerTenantCapacity
  BY CountsAreLengths DEF Holding, Fits
<1>7. PerTenantCapacity \in Nat
  BY StoreAssumption
<1>8. DOMAIN sizes = D /\ \A u \in D : sizes[u] = Count(s, u)
  OBVIOUS
<1>9. PoolVictims(s, t) = Largest(sizes, t)
  BY DEF PoolVictims
<1>. HIDE DEF D, sizes
<1>. QED  BY <1>5, <1>6, <1>7, <1>8, <1>9, SomeoneIsLargest

(* The pool's victim holds most of the unconfigured keys, and strictly more
   than the requester if that is another. *)
LEMMA PoolVictimIsLargest ==
  ASSUME NEW s \in SoundStores, NEW t \in Tenant, NEW v \in PoolVictims(s, t)
  PROVE  /\ v \in Tenant \ configured /\ Count(s, v) > 0
         /\ \A u \in Tenant \ configured : Count(s, u) <= Count(s, v)
         /\ t \notin configured /\ t # v => Count(s, t) < Count(s, v)
<1>. DEFINE D == Holding(s, Tenant \ configured)
            sizes == [u \in D |-> Count(s, u)]
<1>1. DOMAIN sizes = D /\ \A u \in D : sizes[u] = Count(s, u) /\ sizes[u] \in Nat
  BY CountsAreLengths DEF Holding
<1>2. PoolVictims(s, t) = Largest(sizes, t)
  BY DEF PoolVictims
<1>. HIDE DEF sizes
<1>3. /\ v \in D
      /\ \A x \in D : sizes[x] <= sizes[v]
      /\ t \in D /\ t # v => sizes[t] < sizes[v]
  <2>. HIDE DEF D
  <2>. QED  BY <1>1, <1>2, LargestIs
<1>4. v \in Tenant \ configured /\ Count(s, v) > 0 /\ Count(s, v) \in Nat
  BY <1>3, CountsAreLengths DEF Holding
<1>5. \A u \in Tenant \ configured : u \in D \/ Count(s, u) = 0
  BY CountsAreLengths DEF Holding
<1>. HIDE DEF D
<1>6. ASSUME NEW u \in Tenant \ configured PROVE Count(s, u) <= Count(s, v)
  BY <1>1, <1>3, <1>4, <1>5
<1>7. ASSUME t \notin configured, t # v PROVE Count(s, t) < Count(s, v)
  BY <1>1, <1>3, <1>4, <1>5, <1>7
<1>. QED  BY <1>4, <1>6, <1>7

(* TakenFrom, of any store: v may lose a vault to t. *)
Fair(s, v, t) ==
  IF {v, t} \cap configured # {}
    THEN /\ \A u \in Tenant : Share(s, u) <= Share(s, v)
         /\ Share(s, t) < Share(s, v)
    ELSE \A u \in Tenant \ configured : Count(s, u) <= Count(s, v)

(* A share is a key's count, or for the unconfigured keys the pool's. *)
LEMMA SharesAre ==
  ASSUME NEW s \in SoundStores, Current(s), NEW u \in Tenant
  PROVE  /\ u \in configured => Share(s, u) = Count(s, u)
         /\ u \notin configured => Share(s, u) = s.poolSize
         /\ Share(s, u) \in Nat
<1>1. s.poolSize = Cardinality({k \in Held(s) : k[1] \notin configured}) /\ s.poolSize \in Nat
  BY DEF SoundStores, StoreState, Indexed, Current
<1>2. Count(s, u) \in Nat
  BY CountsAreLengths
<1>. QED  BY <1>1, <1>2, Zenon DEF Share

(* While the counts are current _evict_one_for takes from the largest share,
   and from another than the requester only if it is strictly larger. *)
LEMMA EvictionIsFair ==
  ASSUME NEW s \in SoundStores, Fits(s), Current(s), configured \subseteq Tenant,
         Len(s.sessions) > 0, NEW t \in Tenant, NEW d \in EvictOneFor(s, t)
  PROVE  \E v \in Tenant :
           Count(s, v) > 0 /\ d = DropOldest(s, v) /\ (v # t => Fair(s, v, t))
<1>. DEFINE requester == IF t \in configured THEN t ELSE Pool
            sizes == BucketSizes(s)
            D == Holding(s, configured) \cup (IF s.poolSize > 0 THEN {Pool} ELSE {})
            victims == Largest(sizes, requester)
            anyOldest == {Drop(s, Head(s.sessions))}
<1>0. /\ s.poolSize \in Nat /\ PerTenantCapacity \in Nat /\ Pool \notin Tenant
      /\ \A u \in Tenant : Count(s, u) \in Nat
  <2>1. PerTenantCapacity \in Nat
    BY StoreAssumption
  <2>2. s.poolSize \in Nat
    BY DEF SoundStores, StoreState
  <2>. QED  BY <2>1, <2>2, PoolIsNoTenant, CountsAreLengths
<1>1. /\ DOMAIN sizes = D
      /\ \A u \in D : sizes[u] = IF u = Pool THEN s.poolSize ELSE Count(s, u)
  BY DEF BucketSizes
<1>2. /\ \A u \in Holding(s, configured) : u \in Tenant /\ Count(s, u) > 0 /\ u # Pool
      /\ \A u \in configured : u \in Holding(s, configured) \/ Count(s, u) = 0
  BY <1>0 DEF Holding
<1>3. \A u \in D : sizes[u] \in Nat /\ sizes[u] <= PerTenantCapacity + s.poolSize
  <2>1. \A u \in Tenant : Count(s, u) <= PerTenantCapacity
    BY DEF Fits
  <2>. QED  BY <1>0, <1>1, <1>2, <2>1
<1>4. D # {}
  <2>1. PICK h \in Held(s) : TRUE
    <3>1. s.sessions \in Seq(VaultKey)
      BY DEF SoundStores, StoreState
    <3>2. s.sessions[1] \in Held(s)
      BY <3>1 DEF Held, ToSet
    <3>. QED  BY <3>2
  <2>2. h[1] \in Tenant /\ h \in ToSet(s.tenantKeys[h[1]])
    BY KeysAreHeld
  <2>3. CASE h[1] \in configured
    <3>1. Count(s, h[1]) > 0
      BY <2>2, CountsAreLengths DEF ToSet, Count
    <3>. QED  BY <1>0, <1>2, <2>2, <2>3, <3>1
  <2>4. CASE h[1] \notin configured
    <3>1. h \in s.poolMember
      BY <2>4 DEF Current
    <3>2. s.poolSize > 0
      BY <3>1, <1>0, FS_EmptySet DEF SoundStores, Indexed
    <3>. QED  BY <3>2
  <2>. QED  BY <2>3, <2>4
<1>5. victims # {}
  <2>1. PerTenantCapacity + s.poolSize \in Nat
    BY <1>0
  <2>. HIDE DEF D, sizes
  <2>. QED  BY <1>1, <1>3, <1>4, <2>1, SomeoneIsLargest
<1>6. \A v \in victims :
        /\ v \in D
        /\ \A x \in D : sizes[x] <= sizes[v]
        /\ requester \in D /\ requester # v => sizes[requester] < sizes[v]
  <2>. HIDE DEF D, sizes, requester
  <2>. QED  BY <1>1, <1>3, LargestIs
<1>7. EvictOneFor(s, t) =
        IF victims = {} THEN anyOldest
        ELSE UNION {IF v # Pool THEN {DropOldest(s, v)}
                    ELSE IF PoolVictims(s, t) # {} THEN EvictFromPool(s, t)
                    ELSE anyOldest : v \in victims}
  BY DEF EvictOneFor
<1>. HIDE DEF victims, anyOldest, sizes
<1>8. PICK v \in victims :
        d \in (IF v # Pool THEN {DropOldest(s, v)}
               ELSE IF PoolVictims(s, t) # {} THEN EvictFromPool(s, t)
               ELSE anyOldest)
  BY <1>5, <1>7
<1>9. v \in D /\ sizes[v] \in Nat /\ sizes[v] > 0
  <2>1. v \in D
    BY <1>6
  <2>. QED  BY <2>1, <1>0, <1>1, <1>2, <1>3
<1>10. ASSUME NEW u \in Tenant PROVE Share(s, u) <= sizes[v]
  <2>1. CASE u \in configured
    <3>1. Share(s, u) = Count(s, u) /\ (Count(s, u) = 0 \/ (u \in D /\ sizes[u] = Count(s, u)))
      BY <2>1, <1>0, <1>1, <1>2, SharesAre
    <3>. QED  BY <3>1, <1>6, <1>9
  <2>2. CASE u \notin configured
    <3>1. Share(s, u) = s.poolSize /\ (s.poolSize = 0 \/ (Pool \in D /\ sizes[Pool] = s.poolSize))
      BY <2>2, <1>0, <1>1, SharesAre
    <3>. QED  BY <3>1, <1>6, <1>9
  <2>. QED  BY <2>1, <2>2
<1>11. ASSUME requester # v PROVE Share(s, t) < sizes[v]
  <2>1. CASE t \in configured
    <3>1. Share(s, t) = Count(s, t) /\ (Count(s, t) = 0 \/ (t \in D /\ sizes[t] = Count(s, t)))
      BY <2>1, <1>0, <1>1, <1>2, SharesAre
    <3>. QED  BY <3>1, <2>1, <1>6, <1>9, <1>11
  <2>2. CASE t \notin configured
    <3>1. Share(s, t) = s.poolSize /\ (s.poolSize = 0 \/ (Pool \in D /\ sizes[Pool] = s.poolSize))
      BY <2>2, <1>0, <1>1, SharesAre
    <3>. QED  BY <3>1, <2>2, <1>6, <1>9, <1>11
  <2>. QED  BY <2>1, <2>2
<1>12. CASE v # Pool
  <2>1. v \in Tenant /\ v \in configured /\ Count(s, v) > 0 /\ sizes[v] = Count(s, v) /\ d = DropOldest(s, v)
    BY <1>8, <1>9, <1>12, <1>1, <1>2 DEF Holding
  <2>2. Share(s, v) = sizes[v]
    BY <2>1, SharesAre
  <2>3. v # t => Fair(s, v, t)
    <3>1. v # t => requester # v
      BY <1>12
    <3>. HIDE DEF requester
    <3>. QED  BY <2>1, <2>2, <3>1, <1>10, <1>11 DEF Fair
  <2>. QED  BY <2>1, <2>3
<1>13. CASE v = Pool
  <2>1. sizes[v] = s.poolSize /\ s.poolSize > 0
    BY <1>1, <1>9, <1>13
  <2>2. PoolVictims(s, t) # {}
    BY <2>1, PoolHasAVictim
  <2>3. PICK w \in PoolVictims(s, t) : d = DropOldest(s, w)
    BY <1>8, <1>13, <2>2 DEF EvictFromPool
  <2>4. /\ w \in Tenant \ configured /\ Count(s, w) > 0
        /\ \A u \in Tenant \ configured : Count(s, u) <= Count(s, w)
    BY PoolVictimIsLargest
  <2>5. Share(s, w) = sizes[v]
    BY <2>1, <2>4, SharesAre
  <2>6. Fair(s, w, t)
    <3>1. CASE t \in configured
      <4>1. requester # v
        BY <3>1, <1>0, <1>13
      <4>2. Share(s, t) < Share(s, w) /\ \A u \in Tenant : Share(s, u) <= Share(s, w)
        BY <4>1, <2>5, <1>10, <1>11
      <4>. QED  BY <3>1, <4>2 DEF Fair
    <3>2. CASE t \notin configured
      BY <3>2, <2>4 DEF Fair
    <3>. QED  BY <3>1, <3>2
  <2>. QED  BY <2>3, <2>4, <2>6
<1>. QED  BY <1>12, <1>13

(* Everything the eviction of a key's oldest vault changes. *)
LEMMA VictimIsOldest ==
  ASSUME NEW s \in SoundStores, NEW v \in Tenant, Count(s, v) > 0
  PROVE  LET d == DropOldest(s, v)
             old == Oldest(s, v)
         IN  /\ old \in Held(s) /\ old[1] = v
             /\ d \in SoundStores
             /\ Held(d) = Held(s) \ {old}
             /\ d.poolMember = s.poolMember \ {old}
             /\ \A j \in Held(d) : d.age[j] = s.age[j]
             /\ Len(d.sessions) = Len(s.sessions) - 1
             /\ \A u \in Tenant : Count(d, u) = IF u = v THEN Count(s, u) - 1 ELSE Count(s, u)
             /\ Current(s) => Current(d)
<1>1. Oldest(s, v) \in Held(s) /\ Oldest(s, v)[1] = v /\ DropOldest(s, v) = Drop(s, Oldest(s, v))
  BY OldestIsHeld DEF Oldest, DropOldest
<1>. QED  BY <1>1, DroppingKeeps, DroppingLeaves, DroppingKeepsCurrent

(* What is in the way of k goes first: k itself if it is idle too long. *)
(* What _lookup leaves when the key has no vault, or had an expired one. *)
LEMMA MissedKey ==
  ASSUME StoreInv, NEW k \in VaultKey, k \notin Held(Lookup(store, k))
  PROVE  LET s == Lookup(store, k)
         IN  /\ Steady(s)
             /\ Held(s) = Held(store) \ {k}
             /\ s.poolMember = store.poolMember \ {k}
             /\ \A j \in Held(s) : s.age[j] = store.age[j]
             /\ k \in Held(store) => Expired(store, k)
             /\ k \in Held(store) => Len(s.sessions) = Len(store.sessions) - 1
             /\ k \notin Held(store) => s = store
             /\ \A u \in Tenant : /\ Count(s, u) <= Count(store, u)
                                  /\ u # k[1] => Count(s, u) = Count(store, u)
                                  /\ Count(s, u) >= Count(store, u) - 1
             /\ CountsAreCurrent => Current(s)
<1>. DEFINE live == IF Expired(store, k) THEN Drop(store, k) ELSE store
            s == Lookup(store, k)
<1>1. /\ store \in SoundStores /\ Fits(store) /\ DOMAIN store.age = Held(store)
      /\ store.poolMember \subseteq Held(store)
      /\ \A u \in Tenant : Count(store, u) \in Nat
  BY CountsAreLengths DEF StoreInv, Steady, SoundStores, Indexed
<1>2. s = live
  <2>1. s = IF k \in Held(live) THEN Touch(live, k) ELSE live
    BY DEF Lookup
  <2>2. live \in SoundStores
    BY <1>1, DroppingAnyKeeps
  <2>3. k \notin Held(live)
    <3>1. k \in Held(live) => Held(Touch(live, k)) = Held(live)
      <4>. HIDE DEF live
      <4>. QED  BY <2>2, TouchingKeeps
    <3>. HIDE DEF live
    <3>. QED  BY <2>1, <3>1
  <2>. QED  BY <2>1, <2>3
<1>3. CountsAreCurrent => Current(store)
  BY DEF CountsAreCurrent, Current
<1>4. CASE Expired(store, k)
  <2>1. k \in Held(store) /\ s = Drop(store, k)
    BY <1>1, <1>2, <1>4 DEF Expired
  <2>. HIDE DEF s
  <2>2. /\ s \in SoundStores /\ Held(s) = Held(store) \ {k}
        /\ Len(s.sessions) = Len(store.sessions) - 1
        /\ \A u \in Tenant :
             Count(s, u) = IF u = k[1] THEN Count(store, u) - 1 ELSE Count(store, u)
    BY <1>1, <2>1, DroppingKeeps
  <2>3. /\ s.poolMember = store.poolMember \ {k}
        /\ \A j \in Held(store) \ {k} : s.age[j] = store.age[j]
        /\ CountsAreCurrent => Current(s)
    BY <1>1, <1>3, <2>1, DroppingLeaves, DroppingKeepsCurrent
  <2>4. \A u \in Tenant : /\ Count(s, u) <= Count(store, u)
                          /\ u # k[1] => Count(s, u) = Count(store, u)
                          /\ Count(s, u) >= Count(store, u) - 1
    BY <1>1, <2>2
  <2>5. Steady(s)
    <3>1. Len(s.sessions) <= Len(store.sessions)
      BY <1>1, <2>2, CountsAreLengths
    <3>. QED  BY <1>1, <2>2, <2>4, <3>1, SmallerFits
  <2>. QED  BY <1>4, <2>1, <2>2, <2>3, <2>4, <2>5 DEF s
<1>5. CASE ~Expired(store, k)
  <2>1. s = store /\ k \notin Held(store)
    BY <1>2, <1>5
  <2>. HIDE DEF s
  <2>2. \A u \in Tenant : Count(store, u) >= Count(store, u) - 1 /\ Count(store, u) <= Count(store, u)
    BY <1>1
  <2>3. store.poolMember \ {k} = store.poolMember /\ Held(store) \ {k} = Held(store)
    BY <1>1, <2>1
  <2>. QED  BY <1>1, <1>3, <2>1, <2>2, <2>3 DEF s, Steady
<1>. QED  BY <1>4, <1>5

(* What making room has cost. *)
Cost(s, room) == Held(s) \ Held(room)

(* What every way of making room has in common. *)
RoomKeeps(s, t, room) ==
  /\ Held(room) \subseteq Held(s)
  /\ \A j \in Held(room) : room.age[j] = s.age[j]
  /\ room.poolMember \subseteq s.poolMember
  /\ Cost(s, room) # {} =>
       \/ Count(s, t) >= PerTenantCapacity
       \/ s.poolSize >= PerTenantCapacity
       \/ Len(s.sessions) = MaxCapacity
  /\ \E x, y : Cost(s, room) \subseteq {x, y}

(* What making room costs while the counts are current. *)
RoomIsFair(s, t, room) ==
  /\ s.poolSize <= PerTenantCapacity => \E x : Cost(s, room) \subseteq {x}
  /\ s.poolSize <= PerTenantCapacity /\ t \notin configured
       => Cardinality(room.poolMember) < PerTenantCapacity
  /\ \A old \in Cost(s, room) : old[1] # t =>
       \/ Fair(s, old[1], t) /\ Len(s.sessions) = MaxCapacity
       \/ /\ t \notin configured /\ old[1] \in Tenant \ configured
          /\ \A u \in Tenant \ configured : Count(s, u) <= Count(s, old[1])
          /\ Count(s, t) < Count(s, old[1]) \/ Count(s, t) >= PerTenantCapacity

(* Fewer members, a smaller count. *)
LEMMA SmallerPool ==
  ASSUME NEW s \in SoundStores, NEW d \in SoundStores, d.poolMember \subseteq s.poolMember
  PROVE  /\ d.poolSize <= s.poolSize /\ d.poolSize \in Nat /\ s.poolSize \in Nat
         /\ d.poolSize = Cardinality(d.poolMember)
         /\ \A x \in s.poolMember \ d.poolMember : d.poolSize <= s.poolSize - 1
<1>1. /\ IsFiniteSet(s.poolMember) /\ s.poolSize = Cardinality(s.poolMember)
      /\ d.poolSize = Cardinality(d.poolMember)
      /\ d.poolSize \in Nat /\ s.poolSize \in Nat
  BY DEF SoundStores, StoreState, Indexed
<1>2. d.poolSize <= s.poolSize
  BY <1>1, FS_Subset
<1>3. ASSUME NEW x \in s.poolMember \ d.poolMember PROVE d.poolSize <= s.poolSize - 1
  <2>1. d.poolSize # s.poolSize
    BY <1>1, <1>3, FS_Subset
  <2>. QED  BY <1>1, <1>2, <2>1
<1>. QED  BY <1>1, <1>2, <1>3

(* Every way of making room keeps what RoomKeeps says, and RoomIsFair
   while the counts are current. *)
LEMMA RoomIsJust ==
  ASSUME NEW s \in SoundStores, Fits(s), configured \subseteq Tenant, NEW t \in Tenant,
         NEW room \in MakeRoom(s, t)
  PROVE  RoomKeeps(s, t, room) /\ (Current(s) => RoomIsFair(s, t, room))
<1>. DEFINE own == DropOldest(s, t)
<1>0. /\ PerTenantCapacity \in Nat /\ PerTenantCapacity > 0
      /\ MaxCapacity \in Nat /\ MaxCapacity > 0
      /\ \A u \in Tenant : Count(s, u) \in Nat /\ Count(s, u) <= PerTenantCapacity
      /\ s.poolSize \in Nat /\ s.poolSize = Cardinality(s.poolMember)
  <2>1. PerTenantCapacity \in Nat /\ PerTenantCapacity > 0 /\ MaxCapacity \in Nat /\ MaxCapacity > 0
    BY StoreAssumption
  <2>2. \A u \in Tenant : Count(s, u) \in Nat /\ Count(s, u) <= PerTenantCapacity
    BY CountsAreLengths DEF Fits
  <2>3. s.poolSize \in Nat /\ s.poolSize = Cardinality(s.poolMember)
    BY DEF SoundStores, StoreState, Indexed
  <2>. QED  BY <2>1, <2>2, <2>3
<1>1. CASE Count(s, t) < PerTenantCapacity /\ PoolIsDone(s, t) /\ room = s
  <2>1. Cost(s, room) = {}
    BY <1>1 DEF Cost
  <2>2. RoomKeeps(s, t, room)
    BY <1>1, <2>1 DEF RoomKeeps
  <2>3. ASSUME Current(s), t \notin configured, s.poolSize <= PerTenantCapacity
        PROVE  Cardinality(room.poolMember) < PerTenantCapacity
    BY <1>0, <1>1, <2>3, PoolHasAVictim DEF PoolIsDone
  <2>. QED  BY <2>1, <2>2, <2>3 DEF RoomIsFair
<1>2. CASE /\ Count(s, t) < PerTenantCapacity /\ PoolIsDone(s, t)
           /\ Len(s.sessions) = MaxCapacity /\ room \in EvictOneFor(s, t)
  <2>1. PICK k \in Held(s) : room = Drop(s, k)
    BY <1>0, <1>2, EvictingFreesASlot DEF Evictions
  <2>2. /\ room \in SoundStores /\ Held(room) = Held(s) \ {k}
        /\ room.poolMember = s.poolMember \ {k}
        /\ \A j \in Held(room) : room.age[j] = s.age[j]
    BY <2>1, DroppingKeeps, DroppingLeaves
  <2>3. Cost(s, room) = {k}
    BY <2>1, <2>2 DEF Cost
  <2>4. RoomKeeps(s, t, room)
    BY <1>2, <2>2, <2>3 DEF RoomKeeps
  <2>5. ASSUME Current(s) PROVE RoomIsFair(s, t, room)
    <3>1. PICK v \in Tenant :
             Count(s, v) > 0 /\ room = DropOldest(s, v) /\ (v # t => Fair(s, v, t))
      BY <1>0, <1>2, <2>5, EvictionIsFair
    <3>2. k = Oldest(s, v) /\ k[1] = v
      BY <2>1, <2>2, <3>1, VictimIsOldest
    <3>3. ASSUME t \notin configured, s.poolSize <= PerTenantCapacity
          PROVE  Cardinality(room.poolMember) < PerTenantCapacity
      <4>1. s.poolSize < PerTenantCapacity
        BY <1>0, <1>2, <2>5, <3>3, PoolHasAVictim DEF PoolIsDone
      <4>2. Cardinality(room.poolMember) <= s.poolSize
        BY <2>2, SmallerPool
      <4>3. Cardinality(room.poolMember) \in Nat
        BY <2>2, SmallerPool
      <4>. QED  BY <1>0, <4>1, <4>2, <4>3
    <3>. QED  BY <1>2, <2>3, <3>1, <3>2, <3>3 DEF RoomIsFair
  <2>. QED  BY <2>4, <2>5
<1>3. CASE /\ Count(s, t) < PerTenantCapacity /\ ~PoolIsDone(s, t)
           /\ \E v \in PoolVictims(s, t) : room = DropOldest(s, v)
  <2>1. PICK v \in PoolVictims(s, t) : room = DropOldest(s, v)
    BY <1>3
  <2>2. /\ v \in Tenant \ configured /\ Count(s, v) > 0
        /\ \A u \in Tenant \ configured : Count(s, u) <= Count(s, v)
        /\ t \notin configured /\ t # v => Count(s, t) < Count(s, v)
    BY PoolVictimIsLargest
  <2>. DEFINE k == Oldest(s, v)
  <2>3. /\ k \in Held(s) /\ k[1] = v
        /\ room \in SoundStores /\ Held(room) = Held(s) \ {k}
        /\ room.poolMember = s.poolMember \ {k}
        /\ \A j \in Held(room) : room.age[j] = s.age[j]
    BY <2>1, <2>2, VictimIsOldest
  <2>. HIDE DEF k
  <2>4. Cost(s, room) = {k}
    BY <2>3 DEF Cost
  <2>5. t \notin configured /\ s.poolSize >= PerTenantCapacity
    BY <1>0, <1>3 DEF PoolIsDone
  <2>6. RoomKeeps(s, t, room)
    BY <2>3, <2>4, <2>5 DEF RoomKeeps
  <2>7. ASSUME Current(s), s.poolSize <= PerTenantCapacity
        PROVE  Cardinality(room.poolMember) < PerTenantCapacity
    <3>1. k \in s.poolMember \ room.poolMember
      BY <2>2, <2>3, <2>7 DEF Current
    <3>2. room.poolSize <= s.poolSize - 1 /\ room.poolSize = Cardinality(room.poolMember) /\ room.poolSize \in Nat
      BY <2>3, <3>1, SmallerPool
    <3>. QED  BY <1>0, <2>7, <3>2
  <2>. QED  BY <2>2, <2>3, <2>4, <2>5, <2>6, <2>7 DEF RoomIsFair
<1>. DEFINE a == Oldest(s, t)
<1>4. ASSUME Count(s, t) >= PerTenantCapacity
      PROVE  /\ a \in Held(s) /\ a[1] = t
             /\ own \in SoundStores /\ Held(own) = Held(s) \ {a}
             /\ own.poolMember = s.poolMember \ {a}
             /\ \A j \in Held(own) : own.age[j] = s.age[j]
             /\ \A u \in Tenant : Count(own, u) = IF u = t THEN Count(s, u) - 1 ELSE Count(s, u)
             /\ Current(s) => Current(own)
             /\ Current(s) /\ t \notin configured => own.poolSize <= s.poolSize - 1
             /\ own.poolSize \in Nat /\ own.poolSize = Cardinality(own.poolMember)
  <2>1. Count(s, t) > 0
    BY <1>0, <1>4
  <2>2. /\ a \in Held(s) /\ a[1] = t
        /\ own \in SoundStores /\ Held(own) = Held(s) \ {a}
        /\ own.poolMember = s.poolMember \ {a}
        /\ \A j \in Held(own) : own.age[j] = s.age[j]
        /\ \A u \in Tenant : Count(own, u) = IF u = t THEN Count(s, u) - 1 ELSE Count(s, u)
        /\ Current(s) => Current(own)
    BY <2>1, VictimIsOldest
  <2>. HIDE DEF own, a
  <2>3. Current(s) /\ t \notin configured => a \in s.poolMember \ own.poolMember
    BY <2>2 DEF Current
  <2>. QED  BY <2>2, <2>3, SmallerPool
<1>. HIDE DEF own, a
<1>5. CASE Count(s, t) >= PerTenantCapacity /\ room = own
  <2>1. Cost(s, room) = {a}
    BY <1>4, <1>5 DEF Cost
  <2>2. RoomKeeps(s, t, room)
    BY <1>4, <1>5, <2>1 DEF RoomKeeps
  <2>3. ASSUME Current(s), t \notin configured, s.poolSize <= PerTenantCapacity
        PROVE  Cardinality(room.poolMember) < PerTenantCapacity
    <3>1. own.poolSize <= s.poolSize - 1 /\ own.poolSize \in Nat /\ own.poolSize = Cardinality(own.poolMember)
      BY <1>4, <1>5, <2>3
    <3>. QED  BY <1>0, <1>5, <2>3, <3>1
  <2>. QED  BY <1>4, <1>5, <2>1, <2>2, <2>3 DEF RoomIsFair
<1>6. CASE /\ Count(s, t) >= PerTenantCapacity /\ ~PoolIsDone(own, t)
           /\ \E v \in PoolVictims(own, t) : room = DropOldest(own, v)
  <2>1. PICK v \in PoolVictims(own, t) : room = DropOldest(own, v)
    BY <1>6
  <2>2. /\ v \in Tenant \ configured /\ Count(own, v) > 0
        /\ \A u \in Tenant \ configured : Count(own, u) <= Count(own, v)
        /\ t \notin configured /\ t # v => Count(own, t) < Count(own, v)
    BY <1>4, <1>6, PoolVictimIsLargest
  <2>. DEFINE k == Oldest(own, v)
  <2>3. /\ k \in Held(own) /\ k[1] = v
        /\ room \in SoundStores /\ Held(room) = Held(own) \ {k}
        /\ room.poolMember = own.poolMember \ {k}
        /\ \A j \in Held(room) : room.age[j] = own.age[j]
    BY <1>4, <1>6, <2>1, <2>2, VictimIsOldest
  <2>. HIDE DEF k
  <2>4. Cost(s, room) = {a, k}
    BY <1>4, <1>6, <2>3 DEF Cost
  <2>5. t \notin configured /\ own.poolSize >= PerTenantCapacity
    BY <1>0, <1>4, <1>6 DEF PoolIsDone
  <2>6. RoomKeeps(s, t, room)
    BY <1>4, <1>6, <2>3, <2>4 DEF RoomKeeps
  <2>7. ASSUME Current(s), s.poolSize <= PerTenantCapacity PROVE FALSE
    BY <1>0, <1>4, <1>6, <2>5, <2>7
  <2>8. ASSUME v # t
        PROVE  \A u \in Tenant \ configured : Count(s, u) <= Count(s, v)
    <3>1. Count(own, v) = Count(s, v) /\ Count(own, t) = Count(s, t) - 1
      BY <1>4, <1>6, <2>2, <2>8
    <3>2. Count(s, t) <= Count(s, v)
      BY <1>0, <2>2, <2>5, <2>8, <3>1
    <3>3. ASSUME NEW u \in Tenant \ configured, u # t PROVE Count(s, u) <= Count(s, v)
      BY <1>4, <1>6, <2>2, <3>1, <3>3
    <3>. QED  BY <3>2, <3>3
  <2>. QED  BY <1>4, <1>6, <2>2, <2>3, <2>4, <2>5, <2>6, <2>7, <2>8 DEF RoomIsFair
<1>. QED  BY <1>1, <1>2, <1>3, <1>5, <1>6, RoomCosts DEF own

(* get_vault takes a live vault only for cause, and fairly. *)
LEMMA GettingIsJust ==
  ASSUME StoreInv, NEW k \in VaultKey, GetVault(k)
  PROVE  LossesHaveACause /\ SharesAreFair
<1>. DEFINE s == Lookup(store, k)
            t == k[1]
<1>0. /\ store \in SoundStores /\ Fits(store) /\ configured \subseteq Tenant
      /\ DOMAIN store.age = Held(store) /\ t \in Tenant
      /\ PerTenantCapacity \in Nat /\ MaxCapacity \in Nat /\ TTL \in Nat
  BY StoreAssumption DEF StoreInv, Steady, SoundStores, Indexed, VaultKey
<1>1. CASE k \in Held(s)
  <2>1. store' = s
    BY <1>1 DEF GetVault
  <2>2. Quiet(store') /\ \A j \in Held(store) \ Held(store') : Expired(store, j)
    BY <2>1, LookingUpIsQuiet
  <2>. QED  BY <2>2, QuietIsJust DEF MayGo
<1>2. CASE k \notin Held(s)
  <2>1. PICK room \in MakeRoom(s, t) : store' = Insert(room, k)
    BY <1>2 DEF GetVault
  <2>2. /\ Steady(s) /\ s \in SoundStores /\ Fits(s)
        /\ Held(s) = Held(store) \ {k}
        /\ s.poolMember = store.poolMember \ {k}
        /\ \A j \in Held(s) : s.age[j] = store.age[j]
        /\ k \in Held(store) => Expired(store, k)
        /\ k \in Held(store) => Len(s.sessions) = Len(store.sessions) - 1
        /\ k \notin Held(store) => s = store
        /\ \A u \in Tenant : /\ Count(s, u) <= Count(store, u)
                             /\ u # t => Count(s, u) = Count(store, u)
                             /\ Count(s, u) >= Count(store, u) - 1
        /\ CountsAreCurrent => Current(s)
    BY <1>2, MissedKey DEF Steady
  <2>. HIDE DEF s
  <2>3. /\ room \in SoundStores /\ k \notin Held(room)
        /\ RoomKeeps(s, t, room) /\ (Current(s) => RoomIsFair(s, t, room))
    BY <1>0, <1>2, <2>1, <2>2, RoomIsMade, RoomIsJust
  <2>4. /\ DOMAIN room.age = Held(room)
        /\ IsFiniteSet(room.poolMember) /\ room.poolMember \subseteq Held(room)
    BY <2>3 DEF SoundStores, Indexed
  <2>5. /\ Held(store') = Held(room) \cup {k}
        /\ store'.poolMember = IF t \notin configured THEN room.poolMember \cup {k} ELSE room.poolMember
        /\ store'.age = [j \in Held(room) \cup {k} |-> IF j = k THEN 0 ELSE room.age[j]]
    <3>1. room.sessions \in Seq(VaultKey) /\ IsInjective(room.sessions)
      BY <2>3 DEF SoundStores, StoreState, Indexed
    <3>2. store'.sessions = Append(room.sessions, k)
      BY <2>1 DEF Insert
    <3>3. ToSet(Append(room.sessions, k)) = ToSet(room.sessions) \cup {k}
      BY <2>3, <3>1, AddingOne DEF Held
    <3>. QED  BY <2>1, <2>4, <3>2, <3>3 DEF Insert, Held
  <2>6. Created = {k}
    <3>1. k \in Created
      <4>1. k \in DOMAIN store'.age /\ store'.age[k] = 0
        BY <2>5
      <4>2. ~Expired(store', k)
        BY <1>0, <4>1 DEF Expired
      <4>. QED  BY <2>2, <2>5, <4>2 DEF Created
    <3>2. ASSUME NEW j \in Created, j # k PROVE FALSE
      <4>1. j \in Held(room) /\ j \in Held(s) /\ j \in Held(store)
        BY <2>2, <2>3, <2>5, <3>2 DEF Created, RoomKeeps
      <4>2. store'.age[j] = store.age[j] /\ j \in DOMAIN store'.age
        BY <2>2, <2>3, <2>5, <3>2, <4>1 DEF RoomKeeps
      <4>. QED  BY <3>2, <4>1, <4>2 DEF Created, Expired
    <3>. QED  BY <3>1, <3>2
  <2>7. PushedOut = Cost(s, room) /\ Held(store) \ Held(store') = Cost(s, room)
    BY <2>2, <2>5, <2>6 DEF PushedOut, Cost
  <2>8. \A j \in Cost(s, room) : j \in Held(store) /\ j # k
    BY <2>2 DEF Cost
  <2>9. /\ IsFiniteSet(store.poolMember) /\ store.poolSize = Cardinality(store.poolMember)
        /\ s.poolSize <= store.poolSize /\ s.poolSize \in Nat /\ store.poolSize \in Nat
        /\ \A u \in Tenant : Count(store, u) \in Nat /\ Count(s, u) \in Nat /\ Count(store, u) <= PerTenantCapacity
        /\ Len(store.sessions) \in Nat /\ Len(store.sessions) <= MaxCapacity /\ Len(s.sessions) \in Nat
    <3>1. s.poolSize <= store.poolSize /\ s.poolSize \in Nat /\ store.poolSize \in Nat
      BY <1>0, <2>2, SmallerPool
    <3>2. IsFiniteSet(store.poolMember) /\ store.poolSize = Cardinality(store.poolMember)
      BY <1>0 DEF SoundStores, Indexed
    <3>3. \A u \in Tenant : Count(store, u) \in Nat /\ Count(s, u) \in Nat /\ Count(store, u) <= PerTenantCapacity
      BY <1>0, <2>2, CountsAreLengths DEF Fits
    <3>4. Len(store.sessions) \in Nat /\ Len(store.sessions) <= MaxCapacity /\ Len(s.sessions) \in Nat
      BY <1>0, <2>2, CountsAreLengths DEF Fits
    <3>. QED  BY <3>1, <3>2, <3>3, <3>4
  <2>10. ASSUME NEW j \in Held(store) \ Held(store'), ~Expired(store, j) PROVE MayGo(j)
    <3>1. j \in LivePushedOut /\ LivePushedOut \subseteq Cost(s, room) /\ Cost(s, room) # {}
      BY <2>7, <2>10 DEF LivePushedOut
    <3>2. \/ Len(store.sessions) = MaxCapacity
          \/ \E u \in Tenant : Count(store, u) = PerTenantCapacity
          \/ store.poolSize >= PerTenantCapacity
      <4>1. CASE Count(s, t) >= PerTenantCapacity
        <5>1. Count(store, t) = PerTenantCapacity
          BY <1>0, <2>2, <2>9, <4>1
        <5>. QED  BY <1>0, <5>1
      <4>2. CASE s.poolSize >= PerTenantCapacity
        BY <1>0, <2>9, <4>2
      <4>3. CASE Len(s.sessions) = MaxCapacity
        BY <1>0, <2>2, <2>9, <4>3
      <4>. QED  BY <2>3, <3>1, <4>1, <4>2, <4>3 DEF RoomKeeps
    <3>3. \E i \in LivePushedOut : LivePushedOut = {i, j}
      <4>1. PICK x, y : Cost(s, room) \subseteq {x, y}
        BY <2>3 DEF RoomKeeps
      <4>2. CASE \E i \in LivePushedOut : i # j
        BY <3>1, <4>1, <4>2
      <4>3. CASE \A i \in LivePushedOut : i = j
        BY <3>1, <4>3
      <4>. QED  BY <4>2, <4>3
    <3>4. PoolIsWithinCap => LivePushedOut = {j}
      <4>1. ASSUME PoolIsWithinCap PROVE \E x : Cost(s, room) \subseteq {x}
        <5>1. CountsAreCurrent /\ s.poolSize <= PerTenantCapacity
          BY <1>0, <2>9, <4>1 DEF PoolIsWithinCap
        <5>. QED  BY <2>2, <2>3, <5>1 DEF RoomIsFair
      <4>. QED  BY <3>1, <4>1
    <3>. QED  BY <2>6, <3>2, <3>3, <3>4 DEF MayGo
  <2>11. LossesHaveACause
    BY <2>10 DEF LossesHaveACause, MayGo
  <2>12. ASSUME CountsAreCurrent, NEW old \in PushedOut, old[1] # t PROVE TakenFrom(old, k)
    <3>. DEFINE v == old[1]
    <3>1. old \in Cost(s, room) /\ v \in Tenant
      BY <1>0, <2>7, <2>8, <2>12, KeysAreHeld
    <3>2. RoomIsFair(s, t, room)
      BY <2>2, <2>3, <2>12
    <3>3. CASE Fair(s, v, t) /\ Len(s.sessions) = MaxCapacity
      <4>1. s = store
        BY <1>0, <2>2, <2>9, <3>3
      <4>. QED  BY <3>3, <4>1 DEF Fair, TakenFrom
    <3>4. CASE /\ t \notin configured /\ v \in Tenant \ configured
               /\ \A u \in Tenant \ configured : Count(s, u) <= Count(s, v)
               /\ Count(s, t) < Count(s, v) \/ Count(s, t) >= PerTenantCapacity
      <4>1. Count(s, v) = Count(store, v)
        BY <2>2, <2>12, <3>1
      <4>2. Count(store, t) <= Count(store, v)
        BY <1>0, <2>2, <2>9, <3>1, <3>4, <4>1
      <4>3. ASSUME NEW u \in Tenant \ configured, u # t PROVE Count(store, u) <= Count(store, v)
        BY <2>2, <3>4, <4>1, <4>3
      <4>. QED  BY <3>4, <4>2, <4>3 DEF TakenFrom
    <3>. QED  BY <2>12, <3>1, <3>2, <3>3, <3>4 DEF RoomIsFair
  <2>13. ASSUME CountsAreCurrent, Cardinality(store.poolMember) <= PerTenantCapacity
         PROVE  Cardinality(store'.poolMember) <= PerTenantCapacity
    <3>1. s.poolSize <= PerTenantCapacity
      BY <1>0, <2>9, <2>13
    <3>2. CASE t \in configured
      <4>1. store'.poolMember \subseteq store.poolMember
        BY <2>2, <2>3, <2>5, <3>2 DEF RoomKeeps
      <4>2. Cardinality(store'.poolMember) <= Cardinality(store.poolMember) /\ IsFiniteSet(store'.poolMember)
        BY <2>9, <4>1, FS_Subset
      <4>3. Cardinality(store'.poolMember) \in Nat /\ Cardinality(store.poolMember) \in Nat
        BY <2>9, <4>2, FS_CardinalityType
      <4>. QED  BY <1>0, <2>13, <4>2, <4>3
    <3>3. CASE t \notin configured
      <4>1. Cardinality(room.poolMember) < PerTenantCapacity
        BY <2>2, <2>3, <2>13, <3>1, <3>3 DEF RoomIsFair
      <4>2. k \notin room.poolMember
        BY <2>3, <2>4
      <4>3. Cardinality(room.poolMember \cup {k}) = Cardinality(room.poolMember) + 1
            /\ Cardinality(room.poolMember) \in Nat
        BY <2>4, <4>2, FS_AddElement, FS_CardinalityType
      <4>. QED  BY <1>0, <2>5, <3>3, <4>1, <4>3
    <3>. QED  BY <3>2, <3>3
  <2>. QED  BY <2>6, <2>11, <2>12, <2>13 DEF SharesAreFair
<1>. QED  BY <1>1, <1>2

(* THEOREM: for any tenants, sessions and capacities, a live vault goes only by
   its owner's clear or to a new vault while a capacity is used up, and while
   the counts are current no key loses one to a key whose share is as large
   (VaultStore.get_vault, _evict_one_for). *)
THEOREM StoreEvictionIsJust == StoreSpec => EvictionIsJust
<1>1. ASSUME StoreInv, StoreNext PROVE LossesHaveACause /\ SharesAreFair
  <2>0. store \in SoundStores /\ DOMAIN store.age = Held(store)
    BY <1>1 DEF StoreInv, Steady, SoundStores, Indexed
  <2>1. ASSUME NEW k \in VaultKey, GetVault(k) PROVE LossesHaveACause /\ SharesAreFair
    BY <1>1, <2>1, GettingIsJust
  <2>2. ASSUME NEW k \in VaultKey, GetExistingVault(k) PROVE LossesHaveACause /\ SharesAreFair
    <3>1. Quiet(store') /\ \A j \in Held(store) \ Held(store') : Expired(store, j)
      BY <1>1, <2>2, LookingUpIsQuiet DEF GetExistingVault
    <3>. QED  BY <1>1, <3>1, QuietIsJust DEF MayGo
  <2>3. ASSUME NEW k \in VaultKey, ClearSession(k) PROVE LossesHaveACause /\ SharesAreFair
    <3>. DEFINE d == Drop(store, k)
    <3>1. /\ d \in SoundStores /\ Held(d) = Held(store) \ {k} /\ d.poolMember \subseteq store.poolMember
          /\ \A j \in Held(d) : d.age[j] = store.age[j]
      BY <2>0, DroppingAnyKeeps, DroppingLeaves
    <3>. HIDE DEF d
    <3>2. DOMAIN d.age = Held(d)
      BY <3>1 DEF SoundStores, Indexed
    <3>3. Quiet(d)
      BY <3>1, <3>2 DEF Quiet, Expired
    <3>4. store' = d
      BY <2>3 DEF ClearSession, d
    <3>5. \A j \in Held(store) \ Held(store') : MayGo(j)
      BY <2>3, <3>1, <3>4 DEF MayGo
    <3>. QED  BY <1>1, <3>3, <3>4, <3>5, QuietIsJust
  <2>4. CASE EvictExpired
    BY <1>1, <2>4, SweepingKeeps, QuietIsJust DEF MayGo, StoreInv
  <2>5. CASE Tick
    BY <1>1, <2>5, TickingKeeps, QuietIsJust DEF StoreInv
  <2>6. CASE ReloadKeys
    <3>1. Quiet(store') /\ Held(store') = Held(store)
      BY <2>6 DEF ReloadKeys, Quiet
    <3>. QED  BY <1>1, <3>1, QuietIsJust
  <2>. QED  BY <1>1, <2>1, <2>2, <2>3, <2>4, <2>5, <2>6 DEF StoreNext
<1>. QED  BY <1>1, StoreInvHolds, PTL DEF StoreSpec, EvictionIsJust

-----------------------------------------------------------------------------
(***************************************************************************)
(* The policy cache (PolicyCache).  A key whose lock the map did not drop  *)
(* has one lock, and whoever fetches is at its head: so one fetch at a     *)
(* time (LocksAreTaken).  What a fetch brings is then no older than what   *)
(* the key was granted or has cached, and the service has it or a newer.   *)
(***************************************************************************)

(* What a slot is at while it is not idle. *)
Errands ==
  [at : {"task", "queued", "asked", "read"}, what : {"request", "refresh"}, key : Keys,
   lock : Locks \cup {NoLock}, version : Nat]

PolicyTypes ==
  /\ clock \in Nat /\ service \in [Keys -> Nat]
  /\ policies \in Seq([key : Keys, policy : Nat, expires : Nat])
  /\ latest \in [Keys -> Nat]

LockTypes ==
  /\ lockMap \in Seq([key : Keys, lock : Locks])
  /\ queue \in [Locks -> Seq(Slots)]
  /\ slot \in [Slots -> {Idle} \cup Errands]
  /\ unlocked \subseteq Keys

(* The slots that hold or await a lock. *)
Engaged == {s \in Slots : slot[s].at \in {"queued", "asked", "read"}}

WaitersAreQueued ==
  /\ \A l \in Locks :
       IsInjective(queue[l]) /\ ToSet(queue[l]) = {s \in Engaged : slot[s].lock = l}
  /\ \A s \in Engaged : slot[s].lock \in Locks
  /\ \A s \in Engaged : slot[s].at # "queued" => Head(queue[slot[s].lock]) = s

LocksAreDistinct ==
  /\ Len(lockMap) <= MaxLocks /\ IsInjective(lockMap)
  /\ \A m, n \in ToSet(lockMap) : m.key = n.key \/ m.lock = n.lock => m = n

LocksAreMapped ==
  \A s \in Engaged :
    /\ \A m \in ToSet(lockMap) : m.lock = slot[s].lock => m.key = slot[s].key
    /\ slot[s].key \notin unlocked => [key |-> slot[s].key, lock |-> slot[s].lock] \in ToSet(lockMap)

LocksAreTaken == LockTypes /\ WaitersAreQueued /\ LocksAreDistinct /\ LocksAreMapped

(* What was granted, what is cached and what is on its way, for a key. *)
GrantsAreKnown == \A k \in Keys : latest[k] <= service[k]

EntriesAreDistinct == \A e, f \in ToSet(policies) : e.key = f.key => e = f

EntriesAreRecent ==
  \A e \in ToSet(policies) :
    /\ e.policy <= service[e.key]
    /\ e.key \notin unlocked => e.policy = FailClosed \/ latest[e.key] <= e.policy

RepliesAreRecent ==
  \A s \in Slots : slot[s].at = "read" =>
    /\ slot[s].version <= service[slot[s].key]
    /\ slot[s].key \notin unlocked =>
         /\ latest[slot[s].key] <= slot[s].version
         /\ \A e \in EntriesOf(slot[s].key) : e.policy <= slot[s].version

GrantsAreInOrder ==
  GrantsAreKnown /\ EntriesAreDistinct /\ EntriesAreRecent /\ RepliesAreRecent

(* The inductive invariant of the policy cache. *)
PolicyInv == PolicyTypes /\ LocksAreTaken /\ GrantsAreInOrder

(* Who leaves a queue from behind leaves its head in place. *)
LEMMA LeavingKeepsTheHead ==
  ASSUME NEW S, NEW ord \in Seq(S), IsInjective(ord), NEW k \in ToSet(ord), Head(ord) # k
  PROVE  Head(RemoveFirst(ord, k)) = Head(ord)
<1>1. PICK m \in 1 .. Len(ord) :
           /\ ord[m] = k
           /\ RemoveFirst(ord, k) = [i \in 1 .. Len(ord) - 1 |-> IF i < m THEN ord[i] ELSE ord[i + 1]]
  BY ClosedUp
<1>2. Len(ord) \in Nat /\ Head(ord) = ord[1]
  BY <1>1
<1>3. 1 < m /\ 1 \in 1 .. Len(ord) - 1
  BY <1>1, <1>2
<1>4. RemoveFirst(ord, k)[1] = ord[1]
  BY <1>1, <1>3
<1>5. Head(RemoveFirst(ord, k)) = RemoveFirst(ord, k)[1]
  <2>. DEFINE r == RemoveFirst(ord, k)
  <2>1. r \in Seq(S) /\ Len(r) = Len(ord) - 1
    BY RemovingOne
  <2>. HIDE DEF r
  <2>2. Len(r) >= 1
    BY <1>2, <1>3, <2>1
  <2>3. Head(r) = r[1]
    BY <2>1, <2>2
  <2>. QED  BY <2>3 DEF r
<1>. QED  BY <1>2, <1>4, <1>5

(* Who joins a queue does not come before its head. *)
LEMMA JoiningKeepsTheHead ==
  ASSUME NEW S, NEW ord \in Seq(S), NEW k \in S
  PROVE  Append(ord, k) # <<>> /\ (ord # <<>> => Head(Append(ord, k)) = Head(ord))
<1>. DEFINE r == Append(ord, k)
<1>1. r \in Seq(S) /\ Len(r) = Len(ord) + 1 /\ \A i \in 1 .. Len(ord) : r[i] = ord[i]
  OBVIOUS
<1>2. Len(ord) \in Nat /\ (ord # <<>> => Len(ord) > 0)
  OBVIOUS
<1>. HIDE DEF r
<1>3. r # <<>> /\ Head(r) = r[1]
  BY <1>1, <1>2
<1>4. ord # <<>> => 1 \in 1 .. Len(ord) /\ Head(ord) = ord[1]
  BY <1>2
<1>. QED  BY <1>1, <1>3, <1>4 DEF r

(* popitem(last=False): the first is gone. *)
LEMMA DroppingTheHead ==
  ASSUME NEW S, NEW ord \in Seq(S), IsInjective(ord), Len(ord) > 0
  PROVE  /\ Head(ord) \in ToSet(ord) /\ Tail(ord) \in Seq(S) /\ IsInjective(Tail(ord))
         /\ Len(Tail(ord)) = Len(ord) - 1 /\ ToSet(Tail(ord)) = ToSet(ord) \ {Head(ord)}
<1>. DEFINE r == Tail(ord)
<1>1. /\ r \in Seq(S) /\ Len(r) = Len(ord) - 1 /\ \A i \in 1 .. Len(r) : r[i] = ord[i + 1]
      /\ Len(ord) \in Nat /\ Head(ord) = ord[1]
  OBVIOUS
<1>. HIDE DEF r
<1>2. IsInjective(r)
  BY <1>1 DEF IsInjective
<1>3. 1 \in 1 .. Len(ord)
  BY <1>1
<1>4. ASSUME NEW x \in ToSet(r) PROVE x \in ToSet(ord) /\ x # Head(ord)
  <2>1. PICK i \in 1 .. Len(r) : x = r[i]
    BY <1>1, <1>4 DEF ToSet
  <2>2. i + 1 \in 1 .. Len(ord) /\ i + 1 # 1 /\ x = ord[i + 1]
    BY <1>1, <2>1
  <2>. QED  BY <1>1, <1>3, <2>2 DEF ToSet, IsInjective
<1>5. ASSUME NEW x \in ToSet(ord), x # Head(ord) PROVE x \in ToSet(r)
  <2>1. PICK i \in 1 .. Len(ord) : x = ord[i]
    BY DEF ToSet
  <2>2. i - 1 \in 1 .. Len(r) /\ r[i - 1] = x
    BY <1>1, <1>5, <2>1
  <2>. QED  BY <1>1, <2>2 DEF ToSet
<1>6. Head(ord) \in ToSet(ord)
  BY <1>1, <1>3 DEF ToSet
<1>. QED  BY <1>1, <1>2, <1>4, <1>5, <1>6 DEF r

(* Who is in a queue awaits or holds that lock, and no other. *)
LEMMA AQueueIsOfItsLock ==
  ASSUME LocksAreTaken, NEW l \in Locks
  PROVE  /\ queue[l] \in Seq(Slots)
         /\ queue[l] # <<>> => Head(queue[l]) \in Engaged /\ slot[Head(queue[l])].lock = l
         /\ \A s \in Engaged : slot[s].lock = l => queue[l] # <<>>
<1>1. queue[l] \in Seq(Slots) /\ ToSet(queue[l]) = {s \in Engaged : slot[s].lock = l}
  BY DEF LocksAreTaken, LockTypes, WaitersAreQueued
<1>2. queue[l] # <<>> => Head(queue[l]) \in ToSet(queue[l])
  <2>1. queue[l] # <<>> => 1 \in 1 .. Len(queue[l]) /\ Head(queue[l]) = queue[l][1]
    BY <1>1
  <2>. QED  BY <1>1, <2>1 DEF ToSet
<1>3. ASSUME NEW s \in ToSet(queue[l]) PROVE queue[l] # <<>>
  BY <1>1 DEF ToSet
<1>. QED  BY <1>1, <1>2, <1>3

(* While a slot is not engaged there is a lock to spare. *)
LEMMA ALockIsFree ==
  ASSUME LocksAreTaken, NEW s \in Slots, s \notin Engaged
  PROVE  FreshLock \in Locks /\ FreshLock \notin InUse
<1>. DEFINE held == {l \in Locks : queue[l] # <<>>}
            mapped == {m.lock : m \in ToSet(lockMap)}
            n == Cardinality(Slots)
<1>1. IsFiniteSet(Slots) /\ n \in Nat /\ MaxLocks \in Nat
  BY CacheAssumption, FS_CardinalityType
<1>2. IsFiniteSet(held) /\ Cardinality(held) <= n - 1
  <2>1. IsFiniteSet(Slots \ {s}) /\ Cardinality(Slots \ {s}) = n - 1
    BY <1>1, FS_RemoveElement
  <2>. DEFINE f == [l \in held |-> Head(queue[l])]
  <2>2. f \in Injection(held, Slots \ {s})
    <3>1. \A l \in held : f[l] \in Engaged /\ slot[f[l]].lock = l
      BY AQueueIsOfItsLock
    <3>2. f \in [held -> Slots \ {s}]
      BY <3>1 DEF Engaged
    <3>. QED  BY <3>1, <3>2 DEF Injection, IsInjective
  <2>. QED  BY <2>1, <2>2, FS_Injection
<1>3. IsFiniteSet(mapped) /\ Cardinality(mapped) <= MaxLocks
  <2>1. lockMap \in Seq([key : Keys, lock : Locks]) /\ Len(lockMap) <= MaxLocks /\ Len(lockMap) \in Nat
    BY DEF LocksAreTaken, LockTypes, LocksAreDistinct
  <2>. DEFINE g == [i \in 1 .. Len(lockMap) |-> lockMap[i].lock]
  <2>2. g \in Surjection(1 .. Len(lockMap), mapped)
    <3>1. ToSet(lockMap) = {lockMap[i] : i \in 1 .. Len(lockMap)}
      BY <2>1 DEF ToSet
    <3>. QED  BY <3>1 DEF Surjection
  <2>3. IsFiniteSet(1 .. Len(lockMap)) /\ Cardinality(1 .. Len(lockMap)) = Len(lockMap)
    BY <2>1, FS_Interval
  <2>4. IsFiniteSet(mapped) /\ Cardinality(mapped) <= Cardinality(1 .. Len(lockMap))
    BY <2>2, <2>3, FS_Surjection
  <2>5. Cardinality(mapped) \in Nat
    BY <2>4, FS_CardinalityType
  <2>. QED  BY <1>1, <2>1, <2>3, <2>4, <2>5
<1>4. IsFiniteSet(Locks) /\ Cardinality(Locks) = n + MaxLocks
  <2>1. 1 \in Int /\ n + MaxLocks \in Int /\ ~ (1 > n + MaxLocks)
    BY <1>1, CacheAssumption
  <2>2. Locks = 1 .. (n + MaxLocks)
    BY DEF Locks
  <2>. HIDE DEF n
  <2>. QED  BY <1>1, <2>1, <2>2, FS_Interval
<1>5. InUse = held \cup mapped
  BY DEF InUse
<1>. HIDE DEF held, mapped, n
<1>6. /\ IsFiniteSet(InUse)
      /\ Cardinality(InUse) = Cardinality(held) + Cardinality(mapped) - Cardinality(held \cap mapped)
      /\ Cardinality(held \cap mapped) \in Nat
      /\ Cardinality(held) \in Nat /\ Cardinality(mapped) \in Nat
  BY <1>2, <1>3, <1>5, FS_Union, FS_Intersection, FS_CardinalityType
<1>7. Cardinality(InUse) < Cardinality(Locks) /\ Cardinality(InUse) \in Nat
  BY <1>1, <1>2, <1>3, <1>4, <1>6, FS_CardinalityType
<1>8. ~ (Locks \subseteq InUse)
  BY <1>4, <1>6, <1>7, FS_Subset, FS_CardinalityType
<1>. QED  BY <1>8 DEF FreshLock

(* Slots that keep their locks, in queues and a map that do not change: a *)
(* task that is created, and a fetch that advances.                       *)
LEMMA TheLocksRest ==
  ASSUME LocksAreTaken, UNCHANGED <<lockMap, queue, unlocked>>,
         slot' \in [Slots -> {Idle} \cup Errands], Engaged' = Engaged,
         \A s \in Engaged : slot'[s].lock = slot[s].lock /\ slot'[s].key = slot[s].key,
         \A s \in Engaged : slot'[s].at # "queued" => slot[s].at # "queued" \/ Head(queue[slot[s].lock]) = s
  PROVE  LocksAreTaken'
<1>1. LockTypes' /\ LocksAreDistinct'
  BY DEF LocksAreTaken, LockTypes, LocksAreDistinct
<1>2. WaitersAreQueued'
  BY DEF LocksAreTaken, WaitersAreQueued
<1>3. LocksAreMapped'
  BY DEF LocksAreTaken, LocksAreMapped
<1>. QED  BY <1>1, <1>2, <1>3 DEF LocksAreTaken

(* async with lock: the slot releases what it holds or stops waiting. *)
LEMMA LeavingKeepsTheLocks ==
  ASSUME LocksAreTaken, NEW s \in Engaged, Leaves(s), UNCHANGED <<lockMap, unlocked>>
  PROVE  LocksAreTaken' /\ Engaged' = Engaged \ {s}
<1>. DEFINE l == slot[s].lock
<1>1. /\ s \in Slots /\ l \in Locks /\ queue[l] \in Seq(Slots) /\ IsInjective(queue[l])
      /\ s \in ToSet(queue[l]) /\ slot \in [Slots -> {Idle} \cup Errands]
      /\ queue \in [Locks -> Seq(Slots)]
  BY DEF LocksAreTaken, LockTypes, WaitersAreQueued, Engaged
<1>2. /\ slot' = [slot EXCEPT ![s] = Idle]
      /\ queue' = [queue EXCEPT ![l] = RemoveFirst(queue[l], s)]
  BY DEF Leaves
<1>3. Engaged' = Engaged \ {s} /\ \A t \in Engaged' : slot'[t] = slot[t]
  BY <1>1, <1>2 DEF Engaged, Idle
<1>. DEFINE r == RemoveFirst(queue[l], s)
<1>4. r \in Seq(Slots) /\ IsInjective(r) /\ ToSet(r) = ToSet(queue[l]) \ {s}
  BY <1>1, RemovingOne
<1>5. Head(queue[l]) # s => Head(r) = Head(queue[l])
  BY <1>1, LeavingKeepsTheHead
<1>. HIDE DEF r, l
<1>6. queue'[l] = r /\ \A m \in Locks \ {l} : queue'[m] = queue[m]
  BY <1>1, <1>2 DEF r
<1>7. LockTypes'
  <2>1. queue' \in [Locks -> Seq(Slots)]
    BY <1>1, <1>2, <1>4 DEF r
  <2>2. slot' \in [Slots -> {Idle} \cup Errands]
    BY <1>1, <1>2
  <2>. QED  BY <2>1, <2>2 DEF LocksAreTaken, LockTypes
<1>8. WaitersAreQueued'
  <2>1. ASSUME NEW m \in Locks
        PROVE  IsInjective(queue'[m]) /\ ToSet(queue'[m]) = {t \in Engaged' : slot'[t].lock = m}
    <3>0. IsInjective(queue[m]) /\ ToSet(queue[m]) = {t \in Engaged : slot[t].lock = m}
      BY DEF LocksAreTaken, WaitersAreQueued
    <3>1. CASE m = l
      BY <3>0, <3>1, <1>3, <1>4, <1>6
    <3>2. CASE m # l
      BY <3>0, <3>2, <1>3, <1>6 DEF l
    <3>. QED  BY <3>1, <3>2
  <2>2. ASSUME NEW t \in Engaged'
        PROVE  /\ slot'[t].lock \in Locks
               /\ slot'[t].at # "queued" => Head(queue'[slot'[t].lock]) = t
    <3>1. t \in Engaged /\ t # s /\ slot'[t] = slot[t]
      BY <1>3
    <3>2. slot[t].lock \in Locks /\ (slot[t].at # "queued" => Head(queue[slot[t].lock]) = t)
      BY <3>1 DEF LocksAreTaken, WaitersAreQueued
    <3>3. CASE slot[t].lock = l
      BY <3>1, <3>2, <3>3, <1>5, <1>6
    <3>4. CASE slot[t].lock # l
      BY <3>1, <3>2, <3>4, <1>6
    <3>. QED  BY <3>1, <3>2, <3>3, <3>4
  <2>. QED  BY <2>1, <2>2 DEF WaitersAreQueued
<1>9. LocksAreDistinct' /\ LocksAreMapped'
  BY <1>3 DEF LocksAreTaken, LocksAreDistinct, LocksAreMapped
<1>. QED  BY <1>3, <1>7, <1>8, <1>9 DEF LocksAreTaken

(* What get_lock leaves in the map, and whose lock it drops. *)
LEMMA GettingALock ==
  ASSUME LocksAreTaken, NEW s \in Slots, s \notin Engaged, NEW k \in Keys, NEW lock \in Locks,
         GetLock(k, lock)
  PROVE  LET entry == [key |-> k, lock |-> lock]
         IN  /\ lockMap' \in Seq([key : Keys, lock : Locks])
             /\ Len(lockMap') <= MaxLocks /\ IsInjective(lockMap')
             /\ entry \in ToSet(lockMap') /\ ToSet(lockMap') \subseteq ToSet(lockMap) \cup {entry}
             /\ \A m \in ToSet(lockMap) : m.key = k \/ m.lock = lock => m = entry
             /\ \A m \in ToSet(lockMap) \ ToSet(lockMap') : queue[m.lock] # <<>> => m.key \in unlocked'
             /\ unlocked \subseteq unlocked' /\ unlocked' \subseteq Keys
             /\ \A t \in Engaged : slot[t].lock = lock => slot[t].key = k
<1>. DEFINE entry == [key |-> k, lock |-> lock]
            Entries == [key : Keys, lock : Locks]
<1>1. /\ lockMap \in Seq(Entries) /\ IsInjective(lockMap) /\ Len(lockMap) <= MaxLocks
      /\ unlocked \subseteq Keys /\ ToSet(lockMap) \subseteq Entries
  <2>1. lockMap \in Seq(Entries)
    BY DEF LocksAreTaken, LockTypes
  <2>2. ToSet(lockMap) \subseteq Entries
    <3>. HIDE DEF Entries
    <3>. QED  BY <2>1 DEF ToSet
  <2>. QED  BY <2>1, <2>2 DEF LocksAreTaken, LockTypes, LocksAreDistinct
<1>2. CASE \E mine \in LocksOf(k) :
             /\ lock = mine.lock
             /\ lockMap' = Append(RemoveFirst(lockMap, mine), mine)
             /\ UNCHANGED unlocked
  <2>1. PICK mine \in LocksOf(k) :
             /\ lock = mine.lock
             /\ lockMap' = Append(RemoveFirst(lockMap, mine), mine)
             /\ UNCHANGED unlocked
    BY <1>2
  <2>2. mine \in ToSet(lockMap) /\ mine.key = k /\ mine \in Entries
    BY <1>1 DEF LocksOf
  <2>3. mine = entry
    BY <2>1, <2>2
  <2>4. lockMap' = ToEnd(lockMap, mine)
    BY <2>1 DEF ToEnd
  <2>. HIDE DEF Entries
  <2>5. /\ lockMap' \in Seq(Entries) /\ IsInjective(lockMap') /\ Len(lockMap') = Len(lockMap)
        /\ ToSet(lockMap') = ToSet(lockMap)
    BY <1>1, <2>2, <2>4, MovingToEnd
  <2>. HIDE DEF entry
  <2>6. \A m \in ToSet(lockMap) : m.key = k \/ m.lock = lock => m = entry
    BY <2>1, <2>2, <2>3 DEF LocksAreTaken, LocksAreDistinct
  <2>7. \A t \in Engaged : slot[t].lock = lock => slot[t].key = k
    BY <2>1, <2>2 DEF LocksAreTaken, LocksAreMapped
  <2>. QED  BY <1>1, <2>1, <2>2, <2>3, <2>5, <2>6, <2>7 DEF entry, Entries
<1>3. CASE /\ LocksOf(k) = {} /\ lock = FreshLock
           /\ lockMap' = Append(IF Len(lockMap) >= MaxLocks THEN Tail(lockMap) ELSE lockMap, entry)
           /\ unlocked' = IF Len(lockMap) >= MaxLocks /\ queue[Head(lockMap).lock] # <<>>
                          THEN unlocked \cup {Head(lockMap).key} ELSE unlocked
  <2>. DEFINE base == IF Len(lockMap) >= MaxLocks THEN Tail(lockMap) ELSE lockMap
  <2>0. Len(lockMap) \in Nat /\ MaxLocks \in Nat \ {0}
    BY <1>1, CacheAssumption
  <2>1. lock \notin InUse
    BY <1>3, ALockIsFree
  <2>2. \A m \in ToSet(lockMap) : m.key # k /\ m.lock # lock
    BY <1>3, <2>1 DEF LocksOf, InUse
  <2>3. /\ base \in Seq(Entries) /\ IsInjective(base) /\ Len(base) < MaxLocks
        /\ ToSet(base) \subseteq ToSet(lockMap)
        /\ \A m \in ToSet(lockMap) \ ToSet(base) : Len(lockMap) >= MaxLocks /\ m = Head(lockMap)
        /\ Len(lockMap) >= MaxLocks => Head(lockMap) \in Entries
    <3>. HIDE DEF Entries
    <3>1. CASE Len(lockMap) >= MaxLocks
      <4>1. Len(lockMap) > 0
        BY <2>0, <3>1
      <4>2. /\ Head(lockMap) \in ToSet(lockMap) /\ Tail(lockMap) \in Seq(Entries)
            /\ IsInjective(Tail(lockMap)) /\ Len(Tail(lockMap)) = Len(lockMap) - 1
            /\ ToSet(Tail(lockMap)) = ToSet(lockMap) \ {Head(lockMap)}
        BY <1>1, <4>1, DroppingTheHead
      <4>3. base = Tail(lockMap)
        BY <3>1
      <4>. HIDE DEF base
      <4>. QED  BY <1>1, <2>0, <3>1, <4>2, <4>3
    <3>2. CASE ~ (Len(lockMap) >= MaxLocks)
      <4>1. base = lockMap
        BY <3>2
      <4>. HIDE DEF base
      <4>. QED  BY <1>1, <2>0, <3>2, <4>1
    <3>. QED  BY <3>1, <3>2
  <2>4. lockMap' = Append(base, entry) /\ entry \in Entries
    BY <1>3
  <2>5. entry \notin ToSet(base)
    <3>. HIDE DEF base
    <3>. QED  BY <2>2, <2>3
  <2>. HIDE DEF base, Entries
  <2>6. /\ lockMap' \in Seq(Entries) /\ IsInjective(lockMap') /\ Len(lockMap') = Len(base) + 1
        /\ ToSet(lockMap') = ToSet(base) \cup {entry}
    <3>. HIDE DEF entry
    <3>. QED  BY <2>3, <2>4, <2>5, AddingOne
  <2>7. Len(lockMap') <= MaxLocks
    BY <2>0, <2>3, <2>6
  <2>8. \A m \in ToSet(lockMap) \ ToSet(lockMap') : queue[m.lock] # <<>> => m.key \in unlocked'
    BY <1>3, <2>3, <2>6
  <2>9. unlocked \subseteq unlocked' /\ unlocked' \subseteq Keys
    BY <1>1, <1>3, <2>3 DEF Entries
  <2>10. \A t \in Engaged : slot[t].lock # lock
    BY <2>1, AQueueIsOfItsLock DEF InUse
  <2>. QED  BY <2>2, <2>3, <2>6, <2>7, <2>8, <2>9, <2>10 DEF Entries
<1>. QED  BY <1>2, <1>3 DEF GetLock

(* Who gets the lock of a key waits for it at its end. *)
LEMMA QueueingKeepsTheLocks ==
  ASSUME LocksAreTaken, NEW s \in Slots, s \notin Engaged, NEW what \in {"request", "refresh"},
         NEW k \in Keys, Queues(s, what, k)
  PROVE  /\ LocksAreTaken' /\ Engaged' = Engaged \cup {s} /\ unlocked \subseteq unlocked'
         /\ \A t \in Slots \ {s} : slot'[t] = slot[t]
         /\ slot'[s].at = "queued"
<1>1. PICK lock \in Locks :
           /\ GetLock(k, lock)
           /\ queue' = [queue EXCEPT ![lock] = Append(queue[lock], s)]
           /\ slot' = [slot EXCEPT ![s] = Doing("queued", what, k, lock, FailClosed)]
  BY DEF Queues
<1>. DEFINE entry == [key |-> k, lock |-> lock]
<1>2. /\ lockMap' \in Seq([key : Keys, lock : Locks])
      /\ Len(lockMap') <= MaxLocks /\ IsInjective(lockMap')
      /\ entry \in ToSet(lockMap') /\ ToSet(lockMap') \subseteq ToSet(lockMap) \cup {entry}
      /\ \A m \in ToSet(lockMap) : m.key = k \/ m.lock = lock => m = entry
      /\ \A m \in ToSet(lockMap) \ ToSet(lockMap') : queue[m.lock] # <<>> => m.key \in unlocked'
      /\ unlocked \subseteq unlocked' /\ unlocked' \subseteq Keys
      /\ \A t \in Engaged : slot[t].lock = lock => slot[t].key = k
  BY <1>1, GettingALock
<1>3. slot \in [Slots -> {Idle} \cup Errands] /\ queue \in [Locks -> Seq(Slots)]
  BY DEF LocksAreTaken, LockTypes
<1>. DEFINE d == Doing("queued", what, k, lock, FailClosed)
<1>4. d \in Errands /\ d.at = "queued" /\ d.key = k /\ d.lock = lock
  BY DEF Doing, Errands, FailClosed
<1>5. slot'[s] = d /\ \A t \in Slots \ {s} : slot'[t] = slot[t]
  BY <1>1, <1>3
<1>. HIDE DEF d
<1>6. Engaged' = Engaged \cup {s} /\ \A t \in Engaged : slot'[t] = slot[t]
  BY <1>4, <1>5 DEF Engaged
<1>. DEFINE joined == Append(queue[lock], s)
<1>7. queue[lock] \in Seq(Slots) /\ IsInjective(queue[lock]) /\ ToSet(queue[lock]) = {t \in Engaged : slot[t].lock = lock}
  BY <1>3 DEF LocksAreTaken, WaitersAreQueued
<1>8. joined \in Seq(Slots) /\ IsInjective(joined) /\ ToSet(joined) = ToSet(queue[lock]) \cup {s}
  BY <1>7, AddingOne
<1>9. queue[lock] # <<>> => Head(joined) = Head(queue[lock])
  BY <1>7, JoiningKeepsTheHead
<1>. HIDE DEF joined
<1>10. queue'[lock] = joined /\ \A l \in Locks \ {lock} : queue'[l] = queue[l]
  BY <1>1, <1>3 DEF joined
<1>11. LockTypes'
  <2>1. queue' \in [Locks -> Seq(Slots)]
    BY <1>1, <1>3, <1>8 DEF joined
  <2>2. slot' \in [Slots -> {Idle} \cup Errands]
    BY <1>1, <1>3, <1>4 DEF d
  <2>. QED  BY <1>2, <2>1, <2>2 DEF LockTypes
<1>12. WaitersAreQueued'
  <2>1. ASSUME NEW l \in Locks
        PROVE  IsInjective(queue'[l]) /\ ToSet(queue'[l]) = {t \in Engaged' : slot'[t].lock = l}
    <3>1. IsInjective(queue[l]) /\ ToSet(queue[l]) = {t \in Engaged : slot[t].lock = l}
      BY DEF LocksAreTaken, WaitersAreQueued
    <3>2. {t \in Engaged' : slot'[t].lock = l} =
            {t \in Engaged : slot[t].lock = l} \cup (IF l = lock THEN {s} ELSE {})
      BY <1>4, <1>5, <1>6
    <3>. QED  BY <3>1, <3>2, <1>7, <1>8, <1>10
  <2>2. ASSUME NEW t \in Engaged'
        PROVE  /\ slot'[t].lock \in Locks
               /\ slot'[t].at # "queued" => Head(queue'[slot'[t].lock]) = t
    <3>1. CASE t = s
      BY <3>1, <1>4, <1>5
    <3>2. CASE t # s
      <4>1. t \in Engaged /\ slot'[t] = slot[t]
        BY <3>2, <1>6
      <4>2. slot[t].lock \in Locks /\ (slot[t].at # "queued" => Head(queue[slot[t].lock]) = t)
        BY <4>1 DEF LocksAreTaken, WaitersAreQueued
      <4>3. queue[slot[t].lock] # <<>>
        BY <4>1, <4>2, AQueueIsOfItsLock
      <4>. QED  BY <4>1, <4>2, <4>3, <1>9, <1>10
    <3>. QED  BY <3>1, <3>2
  <2>. QED  BY <2>1, <2>2 DEF WaitersAreQueued
<1>13. LocksAreDistinct'
  <2>1. ASSUME NEW m \in ToSet(lockMap'), NEW n \in ToSet(lockMap'), m.key = n.key \/ m.lock = n.lock
        PROVE  m = n
    <3>1. CASE m = entry \/ n = entry
      BY <2>1, <3>1, <1>2
    <3>2. CASE m \in ToSet(lockMap) /\ n \in ToSet(lockMap)
      BY <2>1, <3>2 DEF LocksAreTaken, LocksAreDistinct
    <3>. QED  BY <3>1, <3>2, <1>2
  <2>. QED  BY <2>1, <1>2 DEF LocksAreDistinct
<1>14. LocksAreMapped'
  <2>1. ASSUME NEW t \in Engaged'
        PROVE  /\ \A m \in ToSet(lockMap') : m.lock = slot'[t].lock => m.key = slot'[t].key
               /\ slot'[t].key \notin unlocked' =>
                    [key |-> slot'[t].key, lock |-> slot'[t].lock] \in ToSet(lockMap')
    <3>1. CASE t = s
      <4>1. \A m \in ToSet(lockMap') : m.lock = lock => m.key = k
        BY <1>2
      <4>. QED  BY <3>1, <4>1, <1>2, <1>4, <1>5
    <3>2. CASE t # s
      <4>1. t \in Engaged /\ slot'[t] = slot[t] /\ slot[t].lock \in Locks
        BY <3>2, <1>6 DEF LocksAreTaken, WaitersAreQueued
      <4>2. \A m \in ToSet(lockMap) : m.lock = slot[t].lock => m.key = slot[t].key
        BY <4>1 DEF LocksAreTaken, LocksAreMapped
      <4>3. entry.lock = slot[t].lock => entry.key = slot[t].key
        BY <4>1, <1>2
      <4>4. ASSUME slot[t].key \notin unlocked'
            PROVE  [key |-> slot[t].key, lock |-> slot[t].lock] \in ToSet(lockMap')
        <5>. DEFINE m == [key |-> slot[t].key, lock |-> slot[t].lock]
        <5>1. m \in ToSet(lockMap)
          BY <4>1, <4>4, <1>2 DEF LocksAreTaken, LocksAreMapped
        <5>2. queue[m.lock] # <<>>
          BY <4>1, AQueueIsOfItsLock
        <5>. QED  BY <5>1, <5>2, <4>4, <1>2
      <4>. QED  BY <4>1, <4>2, <4>3, <4>4, <1>2
    <3>. QED  BY <3>1, <3>2
  <2>. QED  BY <2>1 DEF LocksAreMapped
<1>. QED  BY <1>2, <1>4, <1>5, <1>6, <1>11, <1>12, <1>13, <1>14 DEF LocksAreTaken

(* Two that fetch for one key are one, unless its lock was dropped. *)
LEMMA OneFetches ==
  ASSUME LocksAreTaken, NEW s \in Engaged, NEW t \in Engaged,
         slot[s].at # "queued", slot[t].at # "queued",
         slot[s].key = slot[t].key, slot[s].key \notin unlocked
  PROVE  s = t
<1>. DEFINE m == [key |-> slot[s].key, lock |-> slot[s].lock]
            n == [key |-> slot[t].key, lock |-> slot[t].lock]
<1>1. m \in ToSet(lockMap) /\ n \in ToSet(lockMap)
  BY DEF LocksAreTaken, LocksAreMapped
<1>2. m = n
  BY <1>1 DEF LocksAreTaken, LocksAreDistinct
<1>3. slot[s].lock = slot[t].lock
  BY <1>2
<1>. QED  BY <1>3 DEF LocksAreTaken, WaitersAreQueued

(* What a key is answered with, when it is cached. *)
LEMMA AnEntryIs ==
  ASSUME PolicyTypes, NEW k \in Keys
  PROVE  /\ ToSet(policies) \subseteq [key : Keys, policy : Nat, expires : Nat]
         /\ Cached(k) => Entry(k) \in ToSet(policies) /\ Entry(k).key = k /\ Entry(k).policy \in Nat
<1>. DEFINE Entries == [key : Keys, policy : Nat, expires : Nat]
<1>1. ToSet(policies) \subseteq Entries
  <2>1. policies \in Seq(Entries)
    BY DEF PolicyTypes
  <2>. HIDE DEF Entries
  <2>. QED  BY <2>1 DEF ToSet
<1>2. Cached(k) => Entry(k) \in EntriesOf(k)
  BY DEF Cached, Entry
<1>. QED  BY <1>1, <1>2 DEF EntriesOf

(* A step that grants nothing and stores nothing. *)
LEMMA TheGrantsRest ==
  ASSUME GrantsAreInOrder, UNCHANGED <<service, policies, latest>>, unlocked \subseteq unlocked',
         \A t \in Slots : slot'[t].at = "read" => slot'[t] = slot[t]
  PROVE  GrantsAreInOrder'
BY DEF GrantsAreInOrder, GrantsAreKnown, EntriesAreDistinct, EntriesAreRecent, RepliesAreRecent, EntriesOf

(* A step that grants what is cached. *)
LEMMA AnsweringKeepsTheOrder ==
  ASSUME PolicyTypes, GrantsAreInOrder, NEW k \in Keys, Cached(k), Answers(k, Entry(k).policy),
         UNCHANGED <<service, policies, unlocked>>,
         \A t \in Slots : slot'[t].at = "read" => slot'[t] = slot[t] /\ slot[t].key \in Keys
  PROVE  GrantsAreInOrder' /\ latest' \in [Keys -> Nat] /\ NoGrantGoesBack
<1>. DEFINE p == Entry(k).policy
<1>1. p \in Nat /\ Entry(k) \in ToSet(policies) /\ Entry(k).key = k
      /\ ToSet(policies) \subseteq [key : Keys, policy : Nat, expires : Nat]
  BY AnEntryIs
<1>2. p <= service[k] /\ (k \notin unlocked => p = FailClosed \/ latest[k] <= p)
  BY <1>1 DEF GrantsAreInOrder, EntriesAreRecent
<1>3. latest \in [Keys -> Nat] /\ service \in [Keys -> Nat]
  BY DEF PolicyTypes
<1>4. latest' = [latest EXCEPT ![k] = IF p = FailClosed THEN latest[k] ELSE p]
  BY DEF Answers
<1>5. \A e \in ToSet(policies) : e.key = k => e.policy = p
  BY <1>1 DEF GrantsAreInOrder, EntriesAreDistinct
<1>6. \A t \in Slots : slot'[t].at = "read" /\ slot[t].key = k /\ k \notin unlocked => p <= slot[t].version
  BY <1>1 DEF GrantsAreInOrder, RepliesAreRecent, EntriesOf
<1>. HIDE DEF p
<1>7. /\ latest' \in [Keys -> Nat] /\ \A j \in Keys \ {k} : latest'[j] = latest[j]
      /\ latest'[k] = (IF p = FailClosed THEN latest[k] ELSE p)
  BY <1>1, <1>3, <1>4
<1>8. GrantsAreKnown'
  BY <1>2, <1>7 DEF GrantsAreInOrder, GrantsAreKnown
<1>9. EntriesAreDistinct'
  BY DEF GrantsAreInOrder, EntriesAreDistinct
<1>10. EntriesAreRecent'
  <2>1. ASSUME NEW e \in ToSet(policies), e.key \notin unlocked
        PROVE  e.policy = FailClosed \/ latest'[e.key] <= e.policy
    <3>1. e.key \in Keys /\ (e.policy = FailClosed \/ latest[e.key] <= e.policy)
      BY <1>1, <2>1 DEF GrantsAreInOrder, EntriesAreRecent
    <3>2. CASE e.key = k
      BY <3>1, <3>2, <1>1, <1>5, <1>7
    <3>3. CASE e.key # k
      BY <3>1, <3>3, <1>7
    <3>. QED  BY <3>2, <3>3
  <2>. QED  BY <2>1 DEF GrantsAreInOrder, EntriesAreRecent
<1>11. RepliesAreRecent'
  <2>1. ASSUME NEW t \in Slots, slot'[t].at = "read"
        PROVE  /\ slot'[t].version <= service[slot'[t].key]
               /\ slot'[t].key \notin unlocked =>
                    /\ latest'[slot'[t].key] <= slot'[t].version
                    /\ \A e \in EntriesOf(slot'[t].key) : e.policy <= slot'[t].version
    <3>1. slot'[t] = slot[t] /\ slot[t].at = "read" /\ slot[t].key \in Keys
      BY <2>1
    <3>2. /\ slot[t].version <= service[slot[t].key]
          /\ slot[t].key \notin unlocked =>
               /\ latest[slot[t].key] <= slot[t].version
               /\ \A e \in EntriesOf(slot[t].key) : e.policy <= slot[t].version
      BY <3>1 DEF GrantsAreInOrder, RepliesAreRecent
    <3>3. slot[t].key \notin unlocked => latest'[slot[t].key] <= slot[t].version
      BY <2>1, <3>1, <3>2, <1>6, <1>7
    <3>. QED  BY <3>1, <3>2, <3>3
  <2>. QED  BY <2>1 DEF RepliesAreRecent, EntriesOf
<1>12. NoGrantGoesBack
  BY <1>2, <1>3, <1>7 DEF NoGrantGoesBack
<1>. QED  BY <1>7, <1>8, <1>9, <1>10, <1>11, <1>12 DEF GrantsAreInOrder

(* What _fetch_policy leaves in the cache. *)
LEMMA StoringAnEntry ==
  ASSUME PolicyTypes, EntriesAreDistinct, NEW k \in Keys, NEW policy \in Nat, NEW ttl \in Nat
  PROVE  LET entry == [key |-> k, policy |-> policy, expires |-> clock + ttl]
         IN  /\ Stored(k, policy, ttl) \in Seq([key : Keys, policy : Nat, expires : Nat])
             /\ \A e \in ToSet(Stored(k, policy, ttl)) :
                  e = entry \/ (e \in ToSet(policies) /\ e.key # k)
<1>. DEFINE entry == [key |-> k, policy |-> policy, expires |-> clock + ttl]
            Entries == [key : Keys, policy : Nat, expires : Nat]
            new == Stored(k, policy, ttl)
<1>1. policies \in Seq(Entries) /\ entry \in Entries
  BY DEF PolicyTypes
<1>2. entry.key = k
  OBVIOUS
<1>. HIDE DEF Entries
<1>3. CASE Cached(k)
  <2>1. new = [i \in DOMAIN policies |-> IF policies[i].key = k THEN entry ELSE policies[i]]
    BY <1>3 DEF Stored
  <2>. HIDE DEF new, entry
  <2>2. new \in Seq(Entries) /\ DOMAIN new = DOMAIN policies
    BY <1>1, <2>1
  <2>3. ASSUME NEW e \in ToSet(new) PROVE e = entry \/ (e \in ToSet(policies) /\ e.key # k)
    <3>1. PICK i \in DOMAIN policies : e = new[i]
      BY <2>2, <2>3 DEF ToSet
    <3>. QED  BY <2>1, <3>1 DEF ToSet
  <2>. QED  BY <2>2, <2>3 DEF new, entry, Entries
<1>4. CASE ~Cached(k)
  <2>. DEFINE room == IF Len(policies) >= MaxCache THEN Tail(policies) ELSE policies
  <2>1. new = Append(room, entry)
    BY <1>4 DEF Stored
  <2>2. Len(policies) \in Nat /\ MaxCache \in Nat \ {0}
    BY <1>1, CacheAssumption
  <2>. HIDE DEF new, entry
  <2>3. room \in Seq(Entries) /\ \A e \in ToSet(room) : e \in ToSet(policies)
    <3>1. CASE Len(policies) >= MaxCache
      <4>1. policies # <<>>
        BY <2>2, <3>1
      <4>2. Tail(policies) \in Seq(Entries) /\ Len(Tail(policies)) = Len(policies) - 1
            /\ \A i \in 1 .. Len(Tail(policies)) : Tail(policies)[i] = policies[i + 1]
        BY <1>1, <4>1
      <4>3. \A e \in ToSet(Tail(policies)) : e \in ToSet(policies)
        <5>. DEFINE tail == Tail(policies)
        <5>. HIDE DEF tail
        <5>1. tail \in Seq(Entries) /\ \A i \in 1 .. Len(tail) : i + 1 \in 1 .. Len(policies) /\ tail[i] = policies[i + 1]
          BY <2>2, <4>2 DEF tail
        <5>2. \A e \in ToSet(tail) : e \in ToSet(policies)
          BY <1>1, <5>1 DEF ToSet
        <5>. QED  BY <5>2 DEF tail
      <4>. QED  BY <3>1, <4>2, <4>3
    <3>2. CASE ~ (Len(policies) >= MaxCache)
      BY <1>1, <3>2
    <3>. QED  BY <3>1, <3>2
  <2>4. \A e \in ToSet(policies) : e.key # k
    BY <1>4 DEF Cached, EntriesOf
  <2>. HIDE DEF room
  <2>5. new \in Seq(Entries) /\ \A e \in ToSet(new) : e \in ToSet(room) \/ e = entry
    BY <1>1, <2>1, <2>3 DEF ToSet
  <2>. QED  BY <2>3, <2>4, <2>5 DEF new, entry, Entries
<1>. QED  BY <1>3, <1>4

(* A reply that arrives, or is given up, and whoever asked for it. *)
LEMMA StoringKeepsTheOrder ==
  ASSUME PolicyInv, NEW s \in Slots, slot[s].at \in {"asked", "read"},
         NEW policy \in Nat, NEW ttl \in Nat,
         policy # FailClosed => slot[s].at = "read" /\ policy = slot[s].version,
         Stores(s, policy, ttl)
  PROVE  PolicyInv' /\ NoGrantGoesBack
<1>. DEFINE k == slot[s].key
            entry == [key |-> k, policy |-> policy, expires |-> clock + ttl]
<1>0. PolicyTypes /\ LocksAreTaken /\ GrantsAreInOrder /\ EntriesAreDistinct
  BY DEF PolicyInv, GrantsAreInOrder
<1>1. slot \in [Slots -> {Idle} \cup Errands]
  BY <1>0 DEF LocksAreTaken, LockTypes
<1>2. s \in Engaged /\ k \in Keys /\ slot[s].at # "queued"
  BY <1>1 DEF Engaged, Errands, Idle
<1>3. /\ policies' = Stored(k, policy, ttl)
      /\ latest' = IF slot[s].what = "request"
                   THEN [latest EXCEPT ![k] = IF policy = FailClosed THEN latest[k] ELSE policy]
                   ELSE latest
      /\ Leaves(s) /\ UNCHANGED <<clock, service, lockMap, unlocked>>
  BY DEF Stores, Answers
<1>4. LocksAreTaken'
  BY <1>0, <1>2, <1>3, LeavingKeepsTheLocks
<1>5. slot'[s] = Idle /\ \A t \in Slots \ {s} : slot'[t] = slot[t]
  BY <1>1, <1>3 DEF Leaves
<1>6. /\ policies' \in Seq([key : Keys, policy : Nat, expires : Nat])
      /\ \A e \in ToSet(policies') : e = entry \/ (e \in ToSet(policies) /\ e.key # k)
  BY <1>0, <1>2, <1>3, StoringAnEntry
<1>7. latest \in [Keys -> Nat] /\ service \in [Keys -> Nat]
  BY <1>0 DEF PolicyTypes
<1>8. policy # FailClosed => policy <= service[k] /\ (k \notin unlocked => latest[k] <= policy)
  BY <1>0 DEF GrantsAreInOrder, RepliesAreRecent
<1>9. ToSet(policies) \subseteq [key : Keys, policy : Nat, expires : Nat]
  BY <1>0, <1>2, AnEntryIs
<1>10. entry.key = k /\ entry.policy = policy
  OBVIOUS
<1>11. k \notin unlocked => \A t \in Slots \ {s} : slot[t].at = "read" => slot[t].key # k
  <2>1. \A t \in Slots : slot[t].at = "read" => t \in Engaged
    BY DEF Engaged
  <2>. QED  BY <1>0, <1>2, <2>1, OneFetches
<1>12. \A t \in Slots : slot[t].at = "read" => slot[t].key \in Keys /\ slot[t].version \in Nat
  BY <1>1 DEF Errands, Idle
<1>. HIDE DEF k, entry
<1>13. /\ latest' \in [Keys -> Nat] /\ \A j \in Keys \ {k} : latest'[j] = latest[j]
       /\ latest'[k] = latest[k] \/ (policy # FailClosed /\ latest'[k] = policy)
  BY <1>2, <1>3, <1>7
<1>14. FailClosed \in Nat /\ \A j \in Keys : FailClosed <= service[j]
  BY <1>7 DEF FailClosed
<1>15. PolicyTypes'
  BY <1>0, <1>3, <1>6, <1>13 DEF PolicyTypes
<1>16. GrantsAreKnown'
  BY <1>0, <1>2, <1>3, <1>8, <1>13 DEF GrantsAreInOrder, GrantsAreKnown
<1>17. EntriesAreDistinct'
  BY <1>0, <1>6, <1>10 DEF EntriesAreDistinct
<1>18. EntriesAreRecent'
  <2>1. ASSUME NEW e \in ToSet(policies')
        PROVE  /\ e.policy <= service[e.key]
               /\ e.key \notin unlocked => e.policy = FailClosed \/ latest'[e.key] <= e.policy
    <3>1. CASE e = entry
      <4>1. policy <= service[k]
        BY <1>2, <1>8, <1>14
      <4>2. k \notin unlocked /\ policy # FailClosed => latest'[k] <= policy
        BY <1>8, <1>13
      <4>. QED  BY <3>1, <4>1, <4>2, <1>10
    <3>2. CASE e \in ToSet(policies) /\ e.key # k
      <4>1. /\ e.policy <= service[e.key]
            /\ e.key \notin unlocked => e.policy = FailClosed \/ latest[e.key] <= e.policy
        BY <3>2, <1>0 DEF GrantsAreInOrder, EntriesAreRecent
      <4>2. latest'[e.key] = latest[e.key]
        BY <3>2, <1>9, <1>13
      <4>. QED  BY <4>1, <4>2
    <3>. QED  BY <3>1, <3>2, <1>6
  <2>. QED  BY <2>1, <1>3 DEF EntriesAreRecent
<1>19. RepliesAreRecent'
  <2>1. ASSUME NEW t \in Slots, slot'[t].at = "read"
        PROVE  /\ slot'[t].version <= service[slot'[t].key]
               /\ slot'[t].key \notin unlocked =>
                    /\ latest'[slot'[t].key] <= slot'[t].version
                    /\ \A e \in ToSet(policies') : e.key = slot'[t].key => e.policy <= slot'[t].version
    <3>1. t # s /\ slot'[t] = slot[t] /\ slot[t].at = "read" /\ slot[t].key \in Keys
      BY <2>1, <1>5, <1>12 DEF Idle
    <3>2. /\ slot[t].version <= service[slot[t].key]
          /\ slot[t].key \notin unlocked =>
               /\ latest[slot[t].key] <= slot[t].version
               /\ \A e \in ToSet(policies) : e.key = slot[t].key => e.policy <= slot[t].version
      BY <3>1, <1>0 DEF GrantsAreInOrder, RepliesAreRecent, EntriesOf
    <3>3. ASSUME slot[t].key \notin unlocked
          PROVE  /\ latest'[slot[t].key] <= slot[t].version
                 /\ \A e \in ToSet(policies') : e.key = slot[t].key => e.policy <= slot[t].version
      <4>1. slot[t].key # k
        BY <3>1, <3>3, <1>11
      <4>2. latest'[slot[t].key] = latest[slot[t].key]
        BY <3>1, <4>1, <1>13
      <4>3. \A e \in ToSet(policies') : e.key = slot[t].key => e \in ToSet(policies)
        BY <4>1, <1>6, <1>10
      <4>. QED  BY <3>2, <3>3, <4>2, <4>3
    <3>. QED  BY <3>1, <3>2, <3>3
  <2>. QED  BY <2>1, <1>3 DEF RepliesAreRecent, EntriesOf
<1>20. NoGrantGoesBack
  BY <1>2, <1>3, <1>7, <1>8, <1>13 DEF NoGrantGoesBack
<1>. QED  BY <1>4, <1>15, <1>16, <1>17, <1>18, <1>19, <1>20 DEF PolicyInv, GrantsAreInOrder

LEMMA PolicyStarts == PolicyInit => PolicyInv
<1>. SUFFICES ASSUME PolicyInit PROVE PolicyInv
  OBVIOUS
<1>. DEFINE z == <<>>
<1>1. Len(z) = 0 /\ ToSet(z) = {} /\ IsInjective(z) /\ z \in Seq(Slots)
      /\ z \in Seq([key : Keys, policy : Nat, expires : Nat]) /\ z \in Seq([key : Keys, lock : Locks])
  BY DEF ToSet, IsInjective
<1>2. /\ clock = 0 /\ service = [k \in Keys |-> 1] /\ latest = [k \in Keys |-> 0] /\ unlocked = {}
      /\ policies = z /\ lockMap = z /\ queue = [l \in Locks |-> z] /\ slot = [s \in Slots |-> Idle]
  BY DEF PolicyInit, FailClosed
<1>. HIDE DEF z
<1>3. Engaged = {} /\ \A s \in Slots : slot[s].at # "read"
  BY <1>2 DEF Engaged, Idle
<1>4. PolicyTypes /\ LockTypes
  BY <1>1, <1>2 DEF PolicyTypes, LockTypes
<1>5. WaitersAreQueued
  BY <1>1, <1>2, <1>3 DEF WaitersAreQueued
<1>6. LocksAreDistinct /\ LocksAreMapped
  <2>1. MaxLocks \in Nat
    BY CacheAssumption
  <2>. QED  BY <2>1, <1>1, <1>2, <1>3 DEF LocksAreDistinct, LocksAreMapped
<1>7. GrantsAreInOrder
  BY <1>1, <1>2, <1>3
     DEF GrantsAreInOrder, GrantsAreKnown, EntriesAreDistinct, EntriesAreRecent, RepliesAreRecent
<1>. QED  BY <1>4, <1>5, <1>6, <1>7 DEF PolicyInv, LocksAreTaken

(* Slots move one at a time. *)
LEMMA PolicyStep == ASSUME PolicyInv, PolicyNext PROVE PolicyInv' /\ NoGrantGoesBack
<1>0. /\ PolicyTypes /\ LocksAreTaken /\ GrantsAreInOrder
      /\ slot \in [Slots -> {Idle} \cup Errands]
      /\ latest \in [Keys -> Nat] /\ service \in [Keys -> Nat]
  BY DEF PolicyInv, LocksAreTaken, LockTypes, PolicyTypes
<1>1. ASSUME latest' = latest PROVE NoGrantGoesBack
  BY <1>0, <1>1 DEF NoGrantGoesBack
<1>2. \A t \in Slots : slot[t].at = "read" => slot[t].key \in Keys
  BY <1>0 DEF Errands, Idle
<1>3. ASSUME UNCHANGED <<lockMap, queue, unlocked, slot>> PROVE LocksAreTaken'
  BY <1>0, <1>3, TheLocksRest DEF Engaged
<1>4. CASE Ticks
  <2>1. /\ clock' = clock + 1
        /\ UNCHANGED <<service, policies, lockMap, queue, slot, latest, unlocked>>
    BY <1>4 DEF Ticks
  <2>2. PolicyTypes' /\ GrantsAreInOrder'
    BY <1>0, <2>1, TheGrantsRest DEF PolicyTypes
  <2>. QED  BY <1>1, <1>3, <2>1, <2>2 DEF PolicyInv
<1>5. ASSUME NEW k \in Keys, PolicyChanges(k) PROVE PolicyInv' /\ NoGrantGoesBack
  <2>1. /\ service' = [service EXCEPT ![k] = service[k] + 1]
        /\ UNCHANGED <<clock, policies, lockMap, queue, slot, latest, unlocked>>
    BY <1>5 DEF PolicyChanges
  <2>2. service' \in [Keys -> Nat] /\ \A j \in Keys : service[j] <= service'[j]
    BY <1>0, <2>1
  <2>3. ToSet(policies) \subseteq [key : Keys, policy : Nat, expires : Nat]
    BY <1>0, AnEntryIs
  <2>4. PolicyTypes'
    BY <1>0, <2>1, <2>2 DEF PolicyTypes
  <2>5. GrantsAreKnown'
    BY <1>0, <2>1, <2>2 DEF GrantsAreInOrder, GrantsAreKnown
  <2>6. EntriesAreRecent' /\ EntriesAreDistinct'
    BY <1>0, <2>1, <2>2, <2>3 DEF GrantsAreInOrder, EntriesAreRecent, EntriesAreDistinct
  <2>7. \A t \in Slots : slot[t].at = "read" => slot[t].version \in Nat
    BY <1>0 DEF Errands, Idle
  <2>8. RepliesAreRecent'
    <3>1. ASSUME NEW t \in Slots, slot[t].at = "read" PROVE slot[t].version <= service'[slot[t].key]
      BY <1>0, <1>2, <2>2, <2>7, <3>1 DEF GrantsAreInOrder, RepliesAreRecent
    <3>. QED  BY <1>0, <2>1, <3>1 DEF GrantsAreInOrder, RepliesAreRecent, EntriesOf
  <2>. QED  BY <1>1, <1>3, <2>1, <2>4, <2>5, <2>6, <2>8 DEF PolicyInv, GrantsAreInOrder
<1>6. ASSUME NEW k \in Keys, HitsFresh(k) PROVE PolicyInv' /\ NoGrantGoesBack
  <2>1. /\ Cached(k) /\ Answers(k, Entry(k).policy)
        /\ UNCHANGED <<clock, service, policies, lockMap, queue, slot, unlocked>>
    BY <1>6 DEF HitsFresh
  <2>2. GrantsAreInOrder' /\ latest' \in [Keys -> Nat] /\ NoGrantGoesBack
    BY <1>0, <1>2, <2>1, AnsweringKeepsTheOrder
  <2>3. PolicyTypes'
    BY <1>0, <2>1, <2>2 DEF PolicyTypes
  <2>. QED  BY <1>3, <2>1, <2>2, <2>3 DEF PolicyInv
<1>7. ASSUME NEW s \in Slots, NEW k \in Keys, HitsExpired(s, k) PROVE PolicyInv' /\ NoGrantGoesBack
  <2>. DEFINE d == Doing("task", "refresh", k, NoLock, FailClosed)
  <2>1. /\ Cached(k) /\ Answers(k, Entry(k).policy) /\ slot[s] = Idle
        /\ slot' = [slot EXCEPT ![s] = d]
        /\ UNCHANGED <<clock, service, policies, lockMap, queue, unlocked>>
    BY <1>7 DEF HitsExpired
  <2>2. d \in Errands /\ d.at = "task"
    BY DEF Doing, Errands, NoLock, FailClosed
  <2>. HIDE DEF d
  <2>3. slot' \in [Slots -> {Idle} \cup Errands] /\ slot'[s] = d /\ \A t \in Slots \ {s} : slot'[t] = slot[t]
    BY <1>0, <2>1, <2>2
  <2>4. Engaged' = Engaged /\ s \notin Engaged
    BY <2>1, <2>2, <2>3 DEF Engaged, Idle
  <2>5. LocksAreTaken'
    BY <1>0, <2>1, <2>3, <2>4, TheLocksRest DEF Engaged
  <2>6. GrantsAreInOrder' /\ latest' \in [Keys -> Nat] /\ NoGrantGoesBack
    <3>1. \A t \in Slots : slot'[t].at = "read" => slot'[t] = slot[t] /\ slot[t].key \in Keys
      BY <1>2, <2>2, <2>3
    <3>. QED  BY <1>0, <2>1, <3>1, AnsweringKeepsTheOrder
  <2>7. PolicyTypes'
    BY <1>0, <2>1, <2>6 DEF PolicyTypes
  <2>. QED  BY <2>5, <2>6, <2>7 DEF PolicyInv
<1>8. ASSUME NEW s \in Slots, s \notin Engaged, NEW what \in {"request", "refresh"}, NEW k \in Keys,
             Queues(s, what, k), UNCHANGED <<clock, service, policies, latest>>
      PROVE  PolicyInv' /\ NoGrantGoesBack
  <2>1. /\ LocksAreTaken' /\ unlocked \subseteq unlocked'
        /\ \A t \in Slots \ {s} : slot'[t] = slot[t]
        /\ slot'[s].at = "queued"
    BY <1>0, <1>8, QueueingKeepsTheLocks
  <2>2. \A t \in Slots : slot'[t].at = "read" => slot'[t] = slot[t]
    BY <2>1
  <2>3. GrantsAreInOrder' /\ PolicyTypes'
    BY <1>0, <1>8, <2>1, <2>2, TheGrantsRest DEF PolicyTypes
  <2>. QED  BY <1>1, <1>8, <2>1, <2>3 DEF PolicyInv
<1>9. ASSUME NEW s \in Slots, NEW k \in Keys, Misses(s, k) PROVE PolicyInv' /\ NoGrantGoesBack
  <2>1. s \notin Engaged
    BY <1>9 DEF Misses, Engaged, Idle
  <2>. QED  BY <1>8, <1>9, <2>1 DEF Misses
<1>10. ASSUME NEW s \in Slots, TaskStarts(s) PROVE PolicyInv' /\ NoGrantGoesBack
  <2>1. s \notin Engaged /\ slot[s].key \in Keys
    BY <1>0, <1>10 DEF TaskStarts, Engaged, Errands, Idle
  <2>. QED  BY <1>8, <1>10, <2>1 DEF TaskStarts
<1>11. ASSUME NEW s \in Engaged, Leaves(s), UNCHANGED <<lockMap, unlocked>>
       PROVE  /\ LocksAreTaken'
              /\ \A t \in Slots : slot'[t].at = "read" => slot'[t] = slot[t] /\ slot[t].key \in Keys
  <2>1. LocksAreTaken'
    BY <1>0, <1>11, LeavingKeepsTheLocks
  <2>2. slot' = [slot EXCEPT ![s] = Idle]
    BY <1>11 DEF Leaves
  <2>. QED  BY <1>0, <1>2, <2>1, <2>2 DEF Idle, Engaged
<1>12. ASSUME NEW s \in Slots, FindsFilled(s) PROVE PolicyInv' /\ NoGrantGoesBack
  <2>1. /\ s \in Engaged /\ slot[s].key \in Keys /\ Cached(slot[s].key)
        /\ Answers(slot[s].key, Entry(slot[s].key).policy) /\ Leaves(s)
        /\ UNCHANGED <<clock, service, policies, lockMap, unlocked>>
    BY <1>0, <1>12 DEF FindsFilled, Engaged, Errands, Idle
  <2>2. GrantsAreInOrder' /\ latest' \in [Keys -> Nat] /\ NoGrantGoesBack
    BY <1>0, <1>11, <2>1, AnsweringKeepsTheOrder
  <2>3. PolicyTypes'
    BY <1>0, <2>1, <2>2 DEF PolicyTypes
  <2>. QED  BY <1>11, <2>1, <2>2, <2>3 DEF PolicyInv
<1>13. ASSUME NEW s \in Slots, Cancelled(s) PROVE PolicyInv' /\ NoGrantGoesBack
  <2>1. s \in Engaged /\ Leaves(s) /\ UNCHANGED <<clock, service, policies, lockMap, latest, unlocked>>
    BY <1>13 DEF Cancelled, Engaged
  <2>2. GrantsAreInOrder' /\ PolicyTypes'
    BY <1>0, <1>11, <2>1, TheGrantsRest DEF PolicyTypes
  <2>. QED  BY <1>1, <1>11, <2>1, <2>2 DEF PolicyInv
<1>14. ASSUME NEW s \in Slots, Asks(s) PROVE PolicyInv' /\ NoGrantGoesBack
  <2>1. /\ slot[s].at = "queued" /\ Head(queue[slot[s].lock]) = s
        /\ slot' = [slot EXCEPT ![s] = [slot[s] EXCEPT !.at = "asked"]]
        /\ UNCHANGED <<clock, service, policies, lockMap, queue, latest, unlocked>>
    BY <1>14 DEF Asks, Holds
  <2>. DEFINE d == [slot[s] EXCEPT !.at = "asked"]
  <2>2. slot[s] \in Errands
    BY <1>0, <2>1 DEF Idle
  <2>3. d \in Errands /\ d.at = "asked" /\ d.lock = slot[s].lock /\ d.key = slot[s].key
    BY <2>2 DEF Errands
  <2>. HIDE DEF d
  <2>4. slot' \in [Slots -> {Idle} \cup Errands] /\ slot'[s] = d /\ \A t \in Slots \ {s} : slot'[t] = slot[t]
    BY <1>0, <2>1, <2>3 DEF d
  <2>5. Engaged' = Engaged
    BY <2>1, <2>3, <2>4 DEF Engaged
  <2>6. LocksAreTaken'
    BY <1>0, <2>1, <2>3, <2>4, <2>5, TheLocksRest DEF Engaged
  <2>7. \A t \in Slots : slot'[t].at = "read" => slot'[t] = slot[t]
    BY <2>3, <2>4
  <2>8. GrantsAreInOrder' /\ PolicyTypes'
    BY <1>0, <2>1, <2>7, TheGrantsRest DEF PolicyTypes
  <2>. QED  BY <1>1, <2>1, <2>6, <2>8 DEF PolicyInv
<1>15. ASSUME NEW s \in Slots, ServiceReads(s) PROVE PolicyInv' /\ NoGrantGoesBack
  <2>. DEFINE k == slot[s].key
              d == [slot[s] EXCEPT !.at = "read", !.version = service[k]]
  <2>1. /\ slot[s].at = "asked" /\ slot' = [slot EXCEPT ![s] = d]
        /\ UNCHANGED <<clock, service, policies, lockMap, queue, latest, unlocked>>
    BY <1>15 DEF ServiceReads
  <2>2. slot[s] \in Errands /\ k \in Keys
    BY <1>0, <2>1 DEF Idle, Errands
  <2>3. d \in Errands /\ d.at = "read" /\ d.lock = slot[s].lock /\ d.key = k /\ d.version = service[k]
    BY <1>0, <2>2 DEF Errands
  <2>. HIDE DEF d, k
  <2>4. slot' \in [Slots -> {Idle} \cup Errands] /\ slot'[s] = d /\ \A t \in Slots \ {s} : slot'[t] = slot[t]
    BY <1>0, <2>1, <2>3
  <2>5. Engaged' = Engaged
    BY <2>1, <2>3, <2>4 DEF Engaged
  <2>6. LocksAreTaken'
    BY <1>0, <2>1, <2>3, <2>4, <2>5, TheLocksRest DEF Engaged, k
  <2>7. latest[k] <= service[k] /\ \A e \in EntriesOf(k) : e.policy <= service[k]
    BY <1>0, <2>2 DEF GrantsAreInOrder, GrantsAreKnown, EntriesAreRecent, EntriesOf
  <2>8. RepliesAreRecent'
    <3>1. ASSUME NEW t \in Slots, slot'[t].at = "read"
          PROVE  /\ slot'[t].version <= service[slot'[t].key]
                 /\ slot'[t].key \notin unlocked =>
                      /\ latest[slot'[t].key] <= slot'[t].version
                      /\ \A e \in EntriesOf(slot'[t].key) : e.policy <= slot'[t].version
      <4>1. CASE t = s
        BY <4>1, <1>0, <2>2, <2>3, <2>4, <2>7
      <4>2. CASE t # s
        BY <4>2, <3>1, <1>0, <2>4 DEF GrantsAreInOrder, RepliesAreRecent
      <4>. QED  BY <4>1, <4>2
    <3>. QED  BY <2>1, <3>1 DEF RepliesAreRecent, EntriesOf
  <2>9. (GrantsAreKnown /\ EntriesAreDistinct /\ EntriesAreRecent)' /\ PolicyTypes'
    BY <1>0, <2>1 DEF GrantsAreInOrder, GrantsAreKnown, EntriesAreDistinct, EntriesAreRecent, PolicyTypes
  <2>. QED  BY <1>1, <2>1, <2>6, <2>8, <2>9 DEF PolicyInv, GrantsAreInOrder
<1>16. ASSUME NEW s \in Slots, ReplyArrives(s) \/ FetchFails(s) PROVE PolicyInv' /\ NoGrantGoesBack
  <2>1. CASE ReplyArrives(s)
    <3>1. slot[s].at = "read" /\ slot[s].version \in Nat /\ CacheTTL \in Nat
      BY <1>0, <2>1, CacheAssumption DEF ReplyArrives, Errands, Idle
    <3>. QED  BY <2>1, <3>1, StoringKeepsTheOrder DEF ReplyArrives
  <2>2. CASE FetchFails(s)
    <3>1. slot[s].at \in {"asked", "read"} /\ FailClosed \in Nat /\ FailTTL \in Nat
      BY <2>2, CacheAssumption DEF FetchFails, FailClosed
    <3>. QED  BY <2>2, <3>1, StoringKeepsTheOrder DEF FetchFails
  <2>. QED  BY <1>16, <2>1, <2>2
<1>. QED  BY <1>4, <1>5, <1>6, <1>7, <1>9, <1>10, <1>12, <1>13, <1>14, <1>15, <1>16
          DEF PolicyNext, Proceeds

(* THEOREM: for any keys, slots, bounds and times to live, and whatever is
   cancelled, fails or is pushed out, two fetches of a key are never under
   way together and what it is granted never goes back to an older policy,
   unless the lock map dropped the key's lock while it was in use
   (AbstractCachingPolicyResolver.resolve_policy, BoundedLockMap.get_lock). *)
THEOREM PolicyGrantsAreOrdered == PolicySpec => PoliciesAreOrdered
<1>1. PolicyInv /\ [PolicyNext]_policyVars => PolicyInv'
  <2>. SUFFICES ASSUME PolicyInv, [PolicyNext]_policyVars PROVE PolicyInv'
    OBVIOUS
  <2>1. CASE UNCHANGED policyVars
    <3>1. UNCHANGED <<clock, service, policies, lockMap, queue, slot, latest, unlocked>>
      BY <2>1 DEF policyVars
    <3>2. LocksAreTaken' /\ GrantsAreInOrder' /\ PolicyTypes'
      BY <3>1, TheLocksRest, TheGrantsRest DEF PolicyInv, PolicyTypes, LocksAreTaken, LockTypes, Engaged
    <3>. QED  BY <3>2 DEF PolicyInv
  <2>2. CASE PolicyNext
    BY <2>2, PolicyStep
  <2>. QED  BY <2>1, <2>2
<1>2. PolicyInv => OneFetchAtATime
  <2>. SUFFICES ASSUME PolicyInv PROVE OneFetchAtATime
    OBVIOUS
  <2>1. LocksAreTaken
    BY DEF PolicyInv
  <2>2. \A s \in Slots : slot[s].at \in {"asked", "read"} => s \in Engaged /\ slot[s].at # "queued"
    BY DEF Engaged
  <2>. QED  BY <2>1, <2>2, OneFetches DEF OneFetchAtATime
<1>3. PolicyInv /\ PolicyNext => NoGrantGoesBack
  BY PolicyStep
<1>4. PolicyInv /\ PolicyInv' /\ [PolicyNext]_policyVars => [OneFetchAtATime' /\ NoGrantGoesBack]_policyVars
  <2>1. PolicyInv' => OneFetchAtATime'
    BY <1>2, PTL
  <2>. QED  BY <1>3, <2>1
<1>. QED  BY <1>1, <1>4, PolicyStarts, PTL DEF PolicySpec, PoliciesAreOrdered

-----------------------------------------------------------------------------
(***************************************************************************)
(* The vault's mapping, for every set of values, types and stand-ins, every *)
(* number of reseeds and every draw table.                                 *)
(***************************************************************************)
(* The inductive invariant: the vault's own, and the draw table's type. *)
NamingInv == VaultInv(vault) /\ faker \in [Original -> [EntityType -> Draws]]

LEMMA InitNamingInv == Init => NamingInv
<1>. SUFFICES ASSUME NEW synthetic \in BOOLEAN, vault = NewVault(synthetic),
                     faker \in [Original -> [EntityType -> Draws]]
              PROVE  NamingInv
  BY DEF Init
<1>. QED  BY NewVaultInv DEF NamingInv

LEMMA StepNamingInv == NamingInv /\ [Next]_vars => NamingInv'
<1>. SUFFICES ASSUME NamingInv, [Next]_vars PROVE NamingInv'
  OBVIOUS
<1>1. ASSUME NEW o \in Original, NEW e \in EntityType, Redact(o, e)
      PROVE  NamingInv'
  <2>1. faker[o][e] \in Draws
    BY DEF NamingInv
  <2>. QED  BY <1>1, <2>1, MethodsInv DEF NamingInv, Redact
<1>2. ASSUME NEW o \in Original, NEW e \in EntityType, RedactOneWay(o, e)
      PROVE  NamingInv'
  <2>1. faker[o][e] \in Draws
    BY DEF NamingInv
  <2>. QED  BY <1>2, <2>1, MethodsInv DEF NamingInv, RedactOneWay
<1>3. ASSUME NEW synthetic \in BOOLEAN, Reopen(synthetic)
      PROVE  NamingInv'
  BY <1>3, MethodsInv DEF NamingInv, Reopen
<1>4. CASE UNCHANGED vars
  BY <1>4 DEF NamingInv, vars
<1>. QED  BY <1>1, <1>2, <1>3, <1>4 DEF Next

LEMMA AlwaysNamingInv == Spec => []NamingInv
<1>. QED  BY InitNamingInv, StepNamingInv, PTL DEF Spec

(* The vault's state keeps its declared shape through every call and       *)
(* reload of the class.                                                    *)
THEOREM VaultTypeCorrect == Spec => []TypeOK
<1>1. NamingInv => TypeOK
  BY DEF NamingInv, VaultInv, TypeOK
<1>. QED  BY <1>1, AlwaysNamingInv, PTL

(* get_or_create_token never lets a later value take over an earlier       *)
(* value's token, in either masking mode and whatever Faker draws: the     *)
(* mapping stays a bijection.                                              *)
THEOREM VaultMappingIsBijective == Spec => []MappingIsBijective
<1>1. NamingInv => MappingIsBijective
  BY DEF NamingInv, VaultInv, MappingIsBijective
<1>. QED  BY <1>1, AlwaysNamingInv, PTL

(* No call makes a token of get_or_create_one_way_token restorable. *)
THEOREM VaultOneWayNeverRestorable == Spec => []OneWayNeverRestorable
<1>1. NamingInv => OneWayNeverRestorable
  BY DEF NamingInv, VaultInv, OneWayNeverRestorable
<1>. QED  BY <1>1, AlwaysNamingInv, PTL

(* The tagged fallback of _resolve_collision is unique by construction:    *)
(* no tag in use has reached its type's counter's next number.             *)
THEOREM VaultFallbackTagIsFresh == Spec => []FallbackTagIsFresh
<1>1. NamingInv => FallbackTagIsFresh
  BY DEF NamingInv, VaultInv, FallbackTagIsFresh
<1>. QED  BY <1>1, AlwaysNamingInv, PTL

-----------------------------------------------------------------------------
(***************************************************************************)
(* The refinement: every call is one Assign of TokenNaming or a stutter.   *)
(***************************************************************************)
LEMMA InitNaming == Init => Abstract!Init
<1>. SUFFICES ASSUME NEW synthetic \in BOOLEAN, vault = NewVault(synthetic)
              PROVE  Abstract!Init
  BY DEF Init
<1>1. Named = {}
  BY DEF Named, NewVault, EmptyMap
<1>. QED  BY <1>1 DEF Abstract!Init, Naming

(* A holder that gets a token nobody holds is an abstract assignment. *)
LEMMA AssignStep ==
  ASSUME NamingInv, NamingInv', NEW h \in Holders \ Named, Named' = Named \cup {h},
         \A k \in Named : Naming'[k] = Naming[k],
         ~TokenTaken(vault, Naming'[h])
  PROVE  Abstract!Next
<1>1. Naming' \in [Named' -> Token]
  BY DEF NamingInv, VaultInv, VaultType, Naming, Named
<1>2. DOMAIN Naming = Named
  BY DEF Naming
<1>3. \A k \in Named : TokenTaken(vault, Naming[k])
  BY DEF NamingInv, VaultInv, Bijective, Sealed, TokenTaken, Naming, Named
<1>4. \A k \in Named : Naming'[k] = Naming[k] /\ Naming'[h] # Naming[k]
  BY <1>3
<1>5. Abstract!Assign(h)
  BY <1>1, <1>2, <1>4 DEF Abstract!Assign
<1>. QED  BY <1>5 DEF Abstract!Next

LEMMA StepNaming == NamingInv /\ NamingInv' /\ [Next]_vars => [Abstract!Next]_Naming
<1>. SUFFICES ASSUME NamingInv, NamingInv', [Next]_vars PROVE [Abstract!Next]_Naming
  OBVIOUS
<1>1. ASSUME NEW o \in Original, NEW e \in EntityType, Redact(o, e)
      PROVE  [Abstract!Next]_Naming
  <2>1. CASE o \in DOMAIN vault.toToken
    BY <1>1, <2>1 DEF Redact, GetOrCreateToken, Naming, Named
  <2>2. CASE o \notin DOMAIN vault.toToken
    <3>. DEFINE t == MintToken(vault, e, faker[o][e])
                h == <<o, "restorable">>
    <3>1. vault' = RegisterRestorable(Counted(vault, e), o, t)
      BY <1>1, <2>2 DEF Redact, GetOrCreateToken
    <3>2. ~TokenTaken(vault, t)
      BY MintIsFresh DEF NamingInv
    <3>. HIDE DEF t
    <3>3. vault'.toToken = Put(vault.toToken, o, t) /\ vault'.oneWay = vault.oneWay
      BY <3>1, RestorableFields DEF NamingInv, VaultInv
    <3>4. h \in Holders \ Named /\ Named' = Named \cup {h}
      BY <2>2, <3>3 DEF Holders, Named, Put
    <3>5. Naming'[h] = t /\ \A k \in Named : Naming'[k] = Naming[k]
      BY <2>2, <3>3, <3>4 DEF Naming, Named, Put
    <3>. QED  BY <3>2, <3>4, <3>5, AssignStep
  <2>. QED  BY <2>1, <2>2
<1>2. ASSUME NEW o \in Original, NEW e \in EntityType, RedactOneWay(o, e)
      PROVE  [Abstract!Next]_Naming
  <2>1. CASE o \in DOMAIN vault.oneWay
    BY <1>2, <2>1 DEF RedactOneWay, GetOrCreateOneWayToken, Naming, Named
  <2>2. CASE o \notin DOMAIN vault.oneWay
    <3>. DEFINE t == MintToken(vault, e, faker[o][e])
                h == <<o, "oneway">>
    <3>1. vault' = RegisterOneWay(Counted(vault, e), o, t)
      BY <1>2, <2>2 DEF RedactOneWay, GetOrCreateOneWayToken
    <3>2. ~TokenTaken(vault, t)
      BY MintIsFresh DEF NamingInv
    <3>. HIDE DEF t
    <3>3. vault'.oneWay = Put(vault.oneWay, o, t) /\ vault'.toToken = vault.toToken
      BY <3>1, OneWayFields DEF NamingInv, VaultInv
    <3>4. h \in Holders \ Named /\ Named' = Named \cup {h}
      BY <2>2, <3>3 DEF Holders, Named, Put
    <3>5. Naming'[h] = t /\ \A k \in Named : Naming'[k] = Naming[k]
      BY <2>2, <3>3, <3>4 DEF Naming, Named, Put
    <3>. QED  BY <3>2, <3>4, <3>5, AssignStep
  <2>. QED  BY <2>1, <2>2
<1>3. ASSUME NEW synthetic \in BOOLEAN, Reopen(synthetic)
      PROVE  [Abstract!Next]_Naming
  BY <1>3 DEF Reopen, LoadState, DumpState, Naming, Named
<1>4. CASE UNCHANGED vars
  BY <1>4 DEF vars, Naming, Named
<1>. QED  BY <1>1, <1>2, <1>3, <1>4 DEF Next

(* The class implements TokenNaming: a token keeps its one holder from the *)
(* call that minted it on, through every later call and every reload.      *)
THEOREM VaultImplementsNaming == Spec => ImplementsNaming
<1>. QED
  BY InitNaming, StepNaming, AlwaysNamingInv, PTL DEF Spec, ImplementsNaming, Abstract!Spec
=============================================================================

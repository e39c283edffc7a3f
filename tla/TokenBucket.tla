----------------------------- MODULE TokenBucket -----------------------------
(***************************************************************************)
(* The limit on what one virtual key may do (security/rate_limit.py): a    *)
(* token bucket in Redis, changed by one atomic script, and a bucket of    *)
(* its own in every replica for the calls Redis does not answer.  The rate *)
(* limiter takes one token a call, the blast-radius limiter one for every  *)
(* value the request masked.                                               *)
(*                                                                         *)
(* One token comes back per tick.  A call reads its replica's clock before *)
(* the script runs, and calls may overtake each other on the way.          *)
(***************************************************************************)
EXTENDS Integers, FiniteSets

CONSTANTS
  Replicas,
  Calls,          \* calls under way together
  Burst,          \* RATE_LIMIT_BURST, BLAST_RADIUS_BURST_CAPACITY
  Amounts,        \* tokens a call may ask for
  Skew,           \* how far a replica's clock may be ahead of Redis's
  MaxTime, MaxGrants, MaxRestarts   \* bounds of the runs

ASSUME BucketAssumption ==
  /\ Burst \in Nat \ {0} /\ Amounts \subseteq Nat \ {0} /\ Skew \subseteq Int
  /\ {MaxTime, MaxGrants, MaxRestarts} \subseteq Nat

NoBucket == [tokens |-> 0, last |-> 0, until |-> 0]   \* expires at once: absent
Resting == [at |-> "resting", by |-> "", now |-> 0, amount |-> 0]

VARIABLES
  time,       \* Redis's clock
  bucket,     \* the hash in Redis: tokens, last_refresh, and when it expires
  script,     \* Redis has the script loaded
  known,      \* of each replica, whether it holds the script's sha
  local,      \* _in_memory_buckets of each replica: a set of at most one
  call,
  granted,    \* tokens granted by Redis
  grantedBy,  \* tokens granted by each replica on its own
  opened,     \* buckets each replica has opened
  restarts,   \* how often Redis came back empty
  drift,      \* of the last call that reached the bucket: its now, less Redis's time
  slip        \* by how much drift fell from one call to the next, in all

clocks == <<restarts, drift, slip>>
bvars == <<time, bucket, script, known, local, call, granted, grantedBy, opened, clocks>>

BInit ==
  /\ time = 0 /\ bucket = NoBucket /\ script = FALSE
  /\ known = [p \in Replicas |-> FALSE]
  /\ local = [p \in Replicas |-> {}]
  /\ call = [c \in Calls |-> Resting]
  /\ granted = 0 /\ grantedBy = [p \in Replicas |-> 0]
  /\ opened = [p \in Replicas |-> 0]
  /\ restarts = 0 /\ drift = 0 /\ slip = 0

Min2(a, b) == IF a <= b THEN a ELSE b
Past(a) == IF a > 0 THEN a ELSE 0
Filled(tokens, elapsed) == Min2(Burst, tokens + Past(elapsed))

BTicks ==
  /\ time < MaxTime /\ time' = time + 1
  /\ UNCHANGED <<bucket, script, known, local, call, granted, grantedBy, opened, clocks>>

(* now_ms is taken before anything is awaited. *)
Begins(c, p) ==
  /\ call[c] = Resting
  /\ \E n \in Amounts, ahead \in Skew :
       call' = [call EXCEPT ![c] = [at |-> "begun", by |-> p, now |-> time + ahead, amount |-> n]]
  /\ UNCHANGED <<time, bucket, script, known, local, granted, grantedBy, opened, clocks>>

(* script_load: the first time, and again after NOSCRIPT. *)
LoadsScript(c) ==
  /\ call[c].at = "begun" /\ ~(known[call[c].by] /\ script)
  /\ script' = TRUE
  /\ known' = [known EXCEPT ![call[c].by] = TRUE]
  /\ UNCHANGED <<time, bucket, local, call, granted, grantedBy, opened, clocks>>

Present == bucket.until > time

Drifts(now) ==
  /\ drift' = now - time
  /\ slip' = slip + Past(drift - (now - time))
  /\ UNCHANGED restarts

(* Mutant: a refusal keeps the refill, but not the moment of it. *)
RunsScriptForgetful(c) ==
  LET now == call[c].now
      tokens == IF Present THEN Filled(bucket.tokens, now - bucket.last) ELSE Burst
      last == IF Present THEN bucket.last ELSE now
      grants == tokens >= call[c].amount
  IN
  /\ call[c].at = "begun" /\ known[call[c].by] /\ script
  /\ granted < MaxGrants
  /\ bucket' = [tokens |-> IF grants THEN tokens - call[c].amount ELSE tokens,
                last |-> IF grants THEN now ELSE last, until |-> time + Burst]
  /\ granted' = granted + (IF grants THEN call[c].amount ELSE 0)
  /\ Drifts(now)
  /\ call' = [call EXCEPT ![c] = Resting]
  /\ UNCHANGED <<time, script, known, local, grantedBy, opened>>

(* RATE_LIMIT_LUA.  The key lives as long as an empty bucket takes to fill. *)
RunsScript(c) ==
  LET now == call[c].now
      last == IF Present THEN bucket.last ELSE now
      tokens == IF Present THEN Filled(bucket.tokens, now - last) ELSE Burst
      grants == tokens >= call[c].amount
  IN
  /\ call[c].at = "begun" /\ known[call[c].by] /\ script
  /\ granted < MaxGrants
  /\ bucket' = [tokens |-> IF grants THEN tokens - call[c].amount ELSE tokens,
                last |-> now, until |-> time + Burst]
  /\ granted' = granted + (IF grants THEN call[c].amount ELSE 0)
  /\ Drifts(now)
  /\ call' = [call EXCEPT ![c] = Resting]
  /\ UNCHANGED <<time, script, known, local, grantedBy, opened>>

(* Redis does not answer: the sha is forgotten and the call degrades. *)
RedisFails(c) ==
  /\ call[c].at = "begun"
  /\ known' = [known EXCEPT ![call[c].by] = FALSE]
  /\ call' = [call EXCEPT ![c] = [at |-> "degraded", by |-> @.by, now |-> 0, amount |-> @.amount]]
  /\ UNCHANGED <<time, bucket, script, local, granted, grantedBy, opened, clocks>>

(* Redis restarts empty: the bucket and the script are gone. *)
RedisRestarts ==
  /\ script /\ restarts < MaxRestarts
  /\ script' = FALSE /\ bucket' = NoBucket
  /\ restarts' = restarts + 1
  /\ UNCHANGED <<time, known, local, call, granted, grantedBy, opened, drift, slip>>

Own(p) == CHOOSE b \in local[p] : TRUE

(* Mutant: every degraded call opens a bucket of its own. *)
DegradesAfresh(c) ==
  LET p == call[c].by IN
  /\ call[c].at = "degraded" /\ grantedBy[p] < MaxGrants
  /\ local' = [local EXCEPT ![p] = {[tokens |-> Past(Burst - call[c].amount), last |-> time]}]
  /\ opened' = [opened EXCEPT ![p] = IF local[p] = {} THEN @ + 1 ELSE @]
  /\ grantedBy' = [grantedBy EXCEPT ![p] = @ + (IF call[c].amount <= Burst THEN call[c].amount ELSE 0)]
  /\ call' = [call EXCEPT ![c] = Resting]
  /\ UNCHANGED <<time, bucket, script, known, granted, clocks>>

(* InMemoryBucket.acquire, by the process's monotonic clock; nothing is    *)
(* awaited between the look-up and the grant.                              *)
Degrades(c) ==
  LET p == call[c].by
      tokens == IF local[p] = {} THEN Burst ELSE Filled(Own(p).tokens, time - Own(p).last)
      grants == tokens >= call[c].amount
  IN
  /\ call[c].at = "degraded" /\ grantedBy[p] < MaxGrants
  /\ local' = [local EXCEPT ![p] =
       {[tokens |-> IF grants THEN tokens - call[c].amount ELSE tokens, last |-> time]}]
  /\ opened' = [opened EXCEPT ![p] = IF local[p] = {} THEN @ + 1 ELSE @]
  /\ grantedBy' = [grantedBy EXCEPT ![p] = @ + (IF grants THEN call[c].amount ELSE 0)]
  /\ call' = [call EXCEPT ![c] = Resting]
  /\ UNCHANGED <<time, bucket, script, known, granted, clocks>>

(* The replica's cache drops the bucket: its time to live, or its size. *)
DropsLocal(p) ==
  /\ local[p] # {} /\ opened[p] < 2
  /\ local' = [local EXCEPT ![p] = {}]
  /\ UNCHANGED <<time, bucket, script, known, call, granted, grantedBy, opened, clocks>>

BNext ==
  \/ BTicks \/ RedisRestarts
  \/ \E c \in Calls : LoadsScript(c) \/ RunsScript(c) \/ RedisFails(c) \/ Degrades(c)
  \/ \E p \in Replicas : DropsLocal(p) \/ \E c \in Calls : Begins(c, p)

BSpec == BInit /\ [][BNext]_bvars

-----------------------------------------------------------------------------
RedisGrantsBounded == granted <= (1 + restarts) * Burst + time + drift + slip
LocalGrantsBounded == \A p \in Replicas : grantedBy[p] <= opened[p] * Burst + time

(* Redis grants a burst, another if it restarts, and the refill of the     *)
(* time passed, and more only by as much as callers' clocks slipped: a key *)
(* that expired would have been full.  A replica Redis does not answer     *)
(* grants, on its own, a burst for every bucket it opens and the refill    *)
(* (rate_limit.py:15-47, 108-121).                                         *)
GrantsBounded == RedisGrantsBounded /\ LocalGrantsBounded
=============================================================================

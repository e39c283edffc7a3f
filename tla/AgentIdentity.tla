---------------------------- MODULE AgentIdentity -----------------------------
(***************************************************************************)
(* The identity an agent proves with every request (security/identity.py): *)
(* an access token of an allowed issuer, and a DPoP proof, made for one    *)
(* method and address and to be used once.  A proof is fresh for a while   *)
(* around its iat; the replay cache must remember it at least as long.     *)
(*                                                                         *)
(* Clocks are real and iat whole seconds: no clock stands exactly at a     *)
(* limit, so comparisons with it are strict.  The cache counts by a clock  *)
(* that is not set back; the wall clock is taken not to be either.         *)
(***************************************************************************)
EXTENDS Integers, FiniteSets

CONSTANTS
  Proofs, Agents,
  MaxAge, ClockSkew,      \* _DPOP_MAX_AGE_SECONDS, _DPOP_CLOCK_SKEW_SECONDS
  ReplayTTL,               \* _DPOP_REPLAY_CACHE_TTL_SECONDS
  Size,              \* maxsize of the cache
  MaxNow             \* bound of the runs

ASSUME IdentityAssumption ==
  /\ MaxAge \in Nat /\ ClockSkew \in Nat /\ MaxNow \in Nat /\ Size \in Nat \ {0}
  /\ ReplayTTL \in Nat /\ ReplayTTL >= MaxAge + 2 * ClockSkew

NotAsking == [at |-> "not asking"]
Asking(at, p) == [at |-> at, proof |-> p]

VARIABLES
  now,
  iat,       \* when each proof says it was made
  cache,     \* the proofs remembered, and when each was
  pushed,    \* proofs the cache dropped for want of room
  used,      \* how often each proof was consumed; 2 stands for more
  agent      \* what each request is at

ivars == <<now, iat, cache, pushed, used, agent>>

IInit ==
  /\ now = 0 /\ iat \in [Proofs -> 0..MaxNow]
  /\ cache = [p \in {} |-> 0] /\ pushed = {}
  /\ used = [p \in Proofs |-> 0]
  /\ agent = [a \in Agents |-> NotAsking]

IRest == UNCHANGED <<now, iat, cache, pushed, used>>

(* The policy of the tenant, or the setting, says whether to ask at all;   *)
(* without both headers, an allowed issuer and audience, the request ends. *)
Presents(a, p) ==
  /\ agent[a] = NotAsking
  /\ agent' = [agent EXCEPT ![a] = Asking("presented", p)]
  /\ IRest

(* The issuer's keys are fetched, and both signatures checked, in worker   *)
(* threads: other requests run meanwhile.                                  *)
Verifies(a) ==
  /\ agent[a].at = "presented"
  /\ agent' = [agent EXCEPT ![a] = Asking("verified", @.proof)]
  /\ IRest

IsAnswered(a) == agent' = [agent EXCEPT ![a] = NotAsking]

(* A bad signature, a missing claim, an issuer that does not answer. *)
DoesNotVerify(a) == agent[a].at = "presented" /\ IsAnswered(a) /\ IRest

Fresh(p) == iat[p] < now + ClockSkew /\ now - iat[p] < MaxAge + ClockSkew

(* Mutant: remembered for as long as a proof may be old. *)
LiveBriefly == {p \in DOMAIN cache : now < cache[p] + MaxAge}
Live == {p \in DOMAIN cache : now < cache[p] + ReplayTTL}

IsStale(a) == agent[a].at = "verified" /\ ~Fresh(agent[a].proof) /\ IsAnswered(a) /\ IRest

IsReplay(a) ==
  /\ agent[a].at = "verified" /\ Fresh(agent[a].proof) /\ agent[a].proof \in Live
  /\ IsAnswered(a) /\ IRest

Remembered(p, kept) == [r \in kept \cup {p} |-> IF r = p THEN now ELSE cache[r]]

(* The cache looks, and then remembers, without an await in between; full, *)
(* it drops the entry it has had for longest.                              *)
Consumes(a) ==
  LET p == agent[a].proof IN
  /\ agent[a].at = "verified" /\ Fresh(p) /\ p \notin Live
  /\ IF Cardinality(Live) < Size
     THEN cache' = Remembered(p, Live) /\ UNCHANGED pushed
     ELSE \E o \in Live :
            /\ \A r \in Live : cache[o] <= cache[r]
            /\ cache' = Remembered(p, Live \ {o}) /\ pushed' = pushed \cup {o}
  /\ used' = [used EXCEPT ![p] = IF @ = 2 THEN 2 ELSE @ + 1]
  /\ agent' = [agent EXCEPT ![a] = Asking("consumed", p)]
  /\ UNCHANGED <<now, iat>>

(* The method, the address, and the key the token is bound to are looked   *)
(* at last; the proof is spent whatever they come to.                      *)
Finishes(a) == agent[a].at = "consumed" /\ IsAnswered(a) /\ IRest

ITicks ==
  /\ now < MaxNow /\ now' = now + 1
  /\ UNCHANGED <<iat, cache, pushed, used, agent>>

INext ==
  \/ ITicks
  \/ \E a \in Agents : \/ \E p \in Proofs : Presents(a, p)
                       \/ Verifies(a) \/ DoesNotVerify(a) \/ IsStale(a) \/ IsReplay(a)
                       \/ Consumes(a) \/ Finishes(a)

ISpec == IInit /\ [][INext]_ivars

-----------------------------------------------------------------------------
(* A proof is consumed once, however its uses overlap and however late the *)
(* second comes, unless so many others came after it that the cache had no *)
(* room for it any more (identity.py:36-42, 202-214).                      *)
ConsumedOnce == \A p \in Proofs \ pushed : used[p] <= 1
=============================================================================

------------------------------- MODULE MCSession -------------------------------
(* What a request shares with others of its session or its key, part by     *)
(* part: the session's vault and blast radius, the key's bucket, the        *)
(* session's breaker, the agent's proofs, the tenant's catalog.  The parts  *)
(* share no state, so a behaviour moves one of them and leaves the others   *)
(* as they start.                                                           *)
EXTENDS SharedSession, TokenBucket, CircuitBreaker, AgentIdentity, DiscoveryCache

VARIABLE part

mcvars == <<svars, bvars, kvars, ivars, dvars, part>>

(* A part that does not move starts in one state of its own. *)
MCInit ==
  /\ part \in {"session", "bucket", "breaker", "identity", "catalog"}
  /\ SInit /\ BInit /\ KInit /\ IInit /\ DInit
  /\ part # "breaker" => inRedis
  /\ part # "identity" => \A p \in Proofs : iat[p] = 0

SessionStep == part = "session" /\ SNext /\ UNCHANGED <<bvars, kvars, ivars, dvars>>
BucketStep == part = "bucket" /\ BNext /\ UNCHANGED <<svars, kvars, ivars, dvars>>
BreakerStep == part = "breaker" /\ KNext /\ UNCHANGED <<svars, bvars, ivars, dvars>>
IdentityStep == part = "identity" /\ INext /\ UNCHANGED <<svars, bvars, kvars, dvars>>
CatalogStep == part = "catalog" /\ DNext /\ UNCHANGED <<svars, bvars, kvars, ivars>>

MCNext == /\ SessionStep \/ BucketStep \/ BreakerStep \/ IdentityStep \/ CatalogStep
          /\ UNCHANGED part

MCSpec == MCInit /\ [][MCNext]_mcvars
=============================================================================

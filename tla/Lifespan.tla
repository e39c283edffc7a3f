------------------------------- MODULE Lifespan -------------------------------
(***************************************************************************)
(* A replica from start to end (api/main.py 243-405, 449-476): the secrets *)
(* it must have first, the tasks that run behind the requests, the counter *)
(* of requests under way, and the drain: no new request, wait for the      *)
(* counted ones or the timeout, end the tasks, close the clients.          *)
(*                                                                         *)
(* The tasks are the poll of the policies, the sweep of the in-memory      *)
(* store (engines/vault.py 590-608) and the refresh of the secrets         *)
(* (security/vault_client.py).  What the first applies is ConfigReload's.  *)
(***************************************************************************)
EXTENDS Naturals, FiniteSets

CONSTANTS Guests,        \* requests under way together
          MaxSecrets     \* bound of the runs: versions of the secrets

ASSUME LifespanAssumption == IsFiniteSet(Guests) /\ MaxSecrets \in Nat \ {0}

NoSecrets == 0

VARIABLES
  life,        \* starting, serving, draining, ending, over, or halted
  useSecrets,  \* ENABLE_VAULT_SECRETS
  tasks,       \* the tasks that run
  clients,     \* the HTTP clients that are open: to the providers, to Vault
  request,     \* of each request: away, counted, or streaming its reply uncounted
  timedOut,    \* the drain gave up waiting
  issued,    \* the version of the secrets Vault has
  secrets,     \* _cached_secrets
  fetch,       \* the refresh: resting, or holding a token, or an answer
  expired      \* an expired session is still in the store

hvars == <<life, useSecrets, tasks, clients, request, timedOut, issued, secrets, fetch, expired>>

HInit ==
  /\ life = "starting" /\ useSecrets \in BOOLEAN
  /\ tasks = {} /\ clients = {}
  /\ request = [c \in Guests |-> "away"] /\ timedOut = FALSE
  /\ issued = 1 /\ secrets = NoSecrets
  /\ fetch = [at |-> "rest", got |-> NoSecrets] /\ expired = FALSE

Counted == {c \in Guests : request[c] = "counted"}

-----------------------------------------------------------------------------
(* The start *)

(* The self-test of the ciphers fails, in strict mode. *)
SelfTestFails ==
  /\ life = "starting" /\ clients = {}
  /\ life' = "halted"
  /\ UNCHANGED <<useSecrets, tasks, clients, request, timedOut, issued, secrets, fetch, expired>>

(* Without its first secrets the replica does not start. *)
FetchesFirst ==
  /\ life = "starting" /\ useSecrets /\ secrets = NoSecrets
  /\ clients' = clients \cup {"vault"}
  /\ \/ secrets' = issued /\ tasks' = {"refresh"} /\ UNCHANGED life
     \/ life' = "halted" /\ UNCHANGED <<secrets, tasks>>
  /\ UNCHANGED <<useSecrets, request, timedOut, issued, fetch, expired>>

Starts ==
  /\ life = "starting" /\ (useSecrets => secrets # NoSecrets)
  /\ clients' = clients \cup {"upstream"}
  /\ tasks' = tasks \cup {"watcher", "poll", "sweep"}
  /\ life' = "serving"
  /\ UNCHANGED <<useSecrets, request, timedOut, issued, secrets, fetch, expired>>

-----------------------------------------------------------------------------
(* The requests: security_and_tracing_middleware *)

(* A replica that drains answers 429. *)
Enters(c) ==
  /\ life = "serving" /\ request[c] = "away"
  /\ request' = [request EXCEPT ![c] = "counted"]
  /\ UNCHANGED <<life, useSecrets, tasks, clients, timedOut, issued, secrets, fetch, expired>>

(* Mutant: any request that ends during the drain sets the event. *)
ItEndsWithAny == life' = IF life = "draining" THEN "ending" ELSE life

(* The event is set by the last counted request of a drain; the lifespan   *)
(* goes on when it is.                                                     *)
ItEnds == life' = IF life = "draining" /\ Cardinality(Counted) = 1 THEN "ending" ELSE life

(* The middleware is left with the response: a streamed one goes on after. *)
Responds(c) ==
  /\ request[c] = "counted"
  /\ request' \in {[request EXCEPT ![c] = "away"], [request EXCEPT ![c] = "streaming"]}
  /\ ItEnds
  /\ UNCHANGED <<useSecrets, tasks, clients, timedOut, issued, secrets, fetch, expired>>

StreamEnds(c) ==
  /\ request[c] = "streaming"
  /\ request' = [request EXCEPT ![c] = "away"]
  /\ UNCHANGED <<life, useSecrets, tasks, clients, timedOut, issued, secrets, fetch, expired>>

-----------------------------------------------------------------------------
(* The refresh of the secrets *)

SecretsChange ==
  /\ issued < MaxSecrets /\ issued' = issued + 1
  /\ UNCHANGED <<life, useSecrets, tasks, clients, request, timedOut, secrets, fetch, expired>>

LogsIn ==
  /\ "refresh" \in tasks /\ fetch.at = "rest"
  /\ fetch' = [at |-> "authenticated", got |-> NoSecrets]
  /\ UNCHANGED <<life, useSecrets, tasks, clients, request, timedOut, issued, secrets, expired>>

VaultAnswers ==
  /\ "refresh" \in tasks /\ fetch.at = "authenticated"
  /\ fetch' = [at |-> "answered", got |-> issued]
  /\ UNCHANGED <<life, useSecrets, tasks, clients, request, timedOut, issued, secrets, expired>>

SwapsSecrets ==
  /\ "refresh" \in tasks /\ fetch.at = "answered"
  /\ secrets' = fetch.got /\ fetch' = [at |-> "rest", got |-> NoSecrets]
  /\ UNCHANGED <<life, useSecrets, tasks, clients, request, timedOut, issued, expired>>

(* Mutant: the error leaves the loop. *)
RefreshFailsForGood ==
  /\ "refresh" \in tasks /\ fetch.at # "rest"
  /\ fetch' = [at |-> "rest", got |-> NoSecrets] /\ tasks' = tasks \ {"refresh"}
  /\ UNCHANGED <<life, useSecrets, clients, request, timedOut, issued, secrets, expired>>

(* The secrets at hand are kept, and the next round tries again. *)
RefreshFails ==
  /\ "refresh" \in tasks /\ fetch.at # "rest"
  /\ fetch' = [at |-> "rest", got |-> NoSecrets]
  /\ UNCHANGED <<life, useSecrets, tasks, clients, request, timedOut, issued, secrets, expired>>

-----------------------------------------------------------------------------
(* The sweep: run_eviction_loop                                            *)

SessionExpires ==
  /\ life = "serving" /\ ~expired /\ expired' = TRUE
  /\ UNCHANGED <<life, useSecrets, tasks, clients, request, timedOut, issued, secrets, fetch>>

(* Mutant: the error leaves the loop. *)
SweepFailsForGood ==
  /\ "sweep" \in tasks /\ tasks' = tasks \ {"sweep"}
  /\ UNCHANGED <<life, useSecrets, clients, request, timedOut, issued, secrets, fetch, expired>>

(* It is logged, and the next interval sweeps again. *)
SweepFails == "sweep" \in tasks /\ UNCHANGED hvars

Sweeps ==
  /\ "sweep" \in tasks /\ expired /\ expired' = FALSE
  /\ UNCHANGED <<life, useSecrets, tasks, clients, request, timedOut, issued, secrets, fetch>>

-----------------------------------------------------------------------------
(* The end *)

Drains ==
  /\ life = "serving"
  /\ life' = IF Counted = {} THEN "ending" ELSE "draining"
  /\ UNCHANGED <<useSecrets, tasks, clients, request, timedOut, issued, secrets, fetch, expired>>

DrainTimesOut ==
  /\ life = "draining" /\ life' = "ending" /\ timedOut' = TRUE
  /\ UNCHANGED <<useSecrets, tasks, clients, request, issued, secrets, fetch, expired>>

(* The poll, the sweep and the watcher end; then the client to the         *)
(* providers is closed; then the refresh ends, and Vault's client.         *)
EndsTasks ==
  /\ life = "ending" /\ tasks \ {"refresh"} # {}
  /\ tasks' = tasks \cap {"refresh"}
  /\ UNCHANGED <<life, useSecrets, clients, request, timedOut, issued, secrets, fetch, expired>>

ClosesUpstream ==
  /\ life = "ending" /\ tasks \subseteq {"refresh"} /\ "upstream" \in clients
  /\ clients' = clients \ {"upstream"}
  /\ UNCHANGED <<life, useSecrets, tasks, request, timedOut, issued, secrets, fetch, expired>>

ClosesVault ==
  /\ life = "ending" /\ "upstream" \notin clients
  /\ clients' = {} /\ tasks' = {} /\ life' = "over"
  /\ fetch' = [at |-> "rest", got |-> NoSecrets]
  /\ UNCHANGED <<useSecrets, request, timedOut, issued, secrets, expired>>

Refreshes == LogsIn \/ VaultAnswers \/ SwapsSecrets \/ RefreshFails
Winds == DrainTimesOut \/ EndsTasks \/ ClosesUpstream \/ ClosesVault

HNext ==
  \/ SelfTestFails \/ FetchesFirst \/ Starts
  \/ \E c \in Guests : Enters(c) \/ Responds(c) \/ StreamEnds(c)
  \/ SecretsChange \/ Refreshes \/ SessionExpires \/ SweepFails \/ Sweeps
  \/ Drains \/ Winds

(* The loop runs its tasks; the drain's wait has a timeout; and Vault, if  *)
(* it is asked again and again, answers in the end. *)
HFair ==
  /\ WF_hvars(Winds) /\ WF_hvars(Sweeps)
  /\ WF_hvars(LogsIn) /\ WF_hvars(VaultAnswers \/ RefreshFails) /\ SF_hvars(VaultAnswers)
  /\ SF_hvars(SwapsSecrets)

HSpec == HInit /\ [][HNext]_hvars /\ HFair

-----------------------------------------------------------------------------
(* The client to the providers is not closed under a counted request,      *)
(* unless the drain timed out; nor under a task that runs; and once the    *)
(* replica is over nothing of it runs (main.py:357-405, 449-476).          *)
EndIsOrderly ==
  /\ life \in {"ending", "over"} /\ ~timedOut => Counted = {}
  /\ life \in {"ending", "over"} /\ "upstream" \notin clients => tasks \subseteq {"refresh"}
  /\ life = "over" => tasks = {} /\ clients = {}

(* Secrets that change are taken over in the end, failed refreshes         *)
(* notwithstanding, as long as the replica serves                          *)
(* (vault_client.py:119-141).                                              *)
SecretsCatchUp ==
  [](useSecrets /\ life = "serving" /\ issued = MaxSecrets
     => <>(secrets = MaxSecrets \/ life # "serving"))

(* A session nobody asks for again is swept (vault.py:590-608). *)
ExpiredIsSwept == expired ~> (~expired \/ life # "serving")
=============================================================================

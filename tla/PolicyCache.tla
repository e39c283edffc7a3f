----------------------------- MODULE PolicyCache -----------------------------
(***************************************************************************)
(* The tool policies of the virtual keys (security/tool_rbac.py): a cache  *)
(* with a time to live over a policy service (OPA or HashiCorp Vault), a   *)
(* lock per key so that one fetch at a time is under way for a key, and    *)
(* stale-while-revalidate: an expired policy is still answered from while  *)
(* a background task fetches.                                              *)
(*                                                                         *)
(* A policy is the version the service had when it was asked.  The bodies  *)
(* between two awaits are one action each; the cache lock guards none that *)
(* suspends.  A slot runs a request or a background task.                  *)
(***************************************************************************)
EXTENDS Integers, Sequences, SequencesExt, FiniteSets

CONSTANTS Keys, Slots,
          MaxCache,       \* _max_cache_size
          MaxLocks,       \* maxsize of BoundedLockMap
          CacheTTL,       \* RBAC_CACHE_TTL_SECONDS
          FailTTL,        \* 5.0: how long a failed fetch answers
          MaxClock, MaxVersion   \* bounds of the runs

ASSUME CacheAssumption ==
  /\ {MaxCache, MaxLocks, MaxClock, MaxVersion} \subseteq Nat \ {0}
  /\ CacheTTL \in Nat /\ FailTTL \in Nat
  /\ IsFiniteSet(Slots)

FailClosed == 0           \* allowed_tools: ["_FAIL_CLOSED_"]
Locks == 1..(Cardinality(Slots) + MaxLocks)
NoLock == 0

Idle == [at |-> "idle"]
Doing(at, what, k, lock, version) ==
  [at |-> at, what |-> what, key |-> k, lock |-> lock, version |-> version]

VARIABLES
  clock,
  service,    \* the policy service: the version of each key's policy
  policies,   \* _cache, oldest insertion first: [key, policy, expires]
  lockMap,    \* BoundedLockMap.cache, least recently asked for first: [key, lock]
  queue,      \* of each lock, the slots that hold (the head) or await it
  slot,       \* what each slot is at
  latest,     \* the newest version a request of the key was granted
  lateKeys,   \* keys answered from an expired entry that has not been replaced
  unlocked    \* keys whose lock was dropped from lockMap while in use

policyVars == <<clock, service, policies, lockMap, queue, slot, latest, lateKeys, unlocked>>

PolicyInit ==
  /\ clock = 0 /\ service = [k \in Keys |-> 1]
  /\ policies = <<>> /\ lockMap = <<>>
  /\ queue = [l \in Locks |-> <<>>]
  /\ slot = [s \in Slots |-> Idle]
  /\ latest = [k \in Keys |-> FailClosed]
  /\ lateKeys = {} /\ unlocked = {}

EntriesOf(k) == {e \in ToSet(policies) : e.key = k}
Cached(k) == EntriesOf(k) # {}
Entry(k) == CHOOSE e \in EntriesOf(k) : TRUE

(* The request is answered with policy p.  The grants a key was given only *)
(* matter by the newest of them.                                           *)
Answers(k, p) == latest' = [latest EXCEPT ![k] = IF p = FailClosed THEN @ ELSE p]

-----------------------------------------------------------------------------
(* The lock map *)

InUse == {l \in Locks : queue[l] # <<>>} \cup {m.lock : m \in ToSet(lockMap)}
FreshLock == CHOOSE l \in Locks : l \notin InUse

LocksOf(k) == {m \in ToSet(lockMap) : m.key = k}

(* Mutant: a lock of its own for every call. *)
GetLockNew(k, lock) ==
  /\ lock = FreshLock
  /\ lockMap' = <<[key |-> k, lock |-> lock]>>
  /\ UNCHANGED unlocked

(* get_lock: move to the end, and at the limit the lock asked for least    *)
(* recently goes, held or not.                                             *)
GetLock(k, lock) ==
  \/ \E mine \in LocksOf(k) :
       /\ lock = mine.lock
       /\ lockMap' = Append(RemoveFirst(lockMap, mine), mine)
       /\ UNCHANGED unlocked
  \/ LET full == Len(lockMap) >= MaxLocks
     IN  /\ LocksOf(k) = {} /\ lock = FreshLock
         /\ lockMap' = Append(IF full THEN Tail(lockMap) ELSE lockMap, [key |-> k, lock |-> lock])
         /\ unlocked' = IF full /\ queue[Head(lockMap).lock] # <<>>
                        THEN unlocked \cup {Head(lockMap).key} ELSE unlocked

Queues(s, what, k) ==
  \E lock \in Locks :
    /\ GetLock(k, lock)
    /\ queue' = [queue EXCEPT ![lock] = Append(@, s)]
    /\ slot' = [slot EXCEPT ![s] = Doing("queued", what, k, lock, FailClosed)]

Holds(s) == slot[s].at # "idle" /\ slot[s].at # "task" /\ Head(queue[slot[s].lock]) = s

Leaves(s) ==
  /\ queue' = [queue EXCEPT ![slot[s].lock] = RemoveFirst(@, s)]
  /\ slot' = [slot EXCEPT ![s] = Idle]

-----------------------------------------------------------------------------
(* resolve_policy *)

HitsFresh(k) ==
  /\ Cached(k) /\ clock <= Entry(k).expires
  /\ Answers(k, Entry(k).policy)
  /\ UNCHANGED <<clock, service, policies, lockMap, queue, slot, lateKeys, unlocked>>

(* Answered from an expired entry; a task is created to fetch. *)
HitsExpired(s, k) ==
  /\ Cached(k) /\ clock > Entry(k).expires
  /\ slot[s] = Idle
  /\ Answers(k, Entry(k).policy)
  /\ slot' = [slot EXCEPT ![s] = Doing("task", "refresh", k, NoLock, FailClosed)]
  /\ lateKeys' = lateKeys \cup {k}
  /\ UNCHANGED <<clock, service, policies, lockMap, queue, unlocked>>

Misses(s, k) ==
  /\ ~Cached(k) /\ slot[s] = Idle
  /\ Queues(s, "request", k)
  /\ UNCHANGED <<clock, service, policies, latest, lateKeys>>

(* Behind the lock: somebody else filled the cache meanwhile. *)
FindsFilled(s) ==
  /\ slot[s].at = "queued" /\ slot[s].what = "request" /\ Holds(s)
  /\ Cached(slot[s].key)
  /\ Answers(slot[s].key, Entry(slot[s].key).policy)
  /\ Leaves(s)
  /\ UNCHANGED <<clock, service, policies, lockMap, lateKeys, unlocked>>

(* Mutant: nothing holds the task, and it may be collected before it runs. *)
TaskStartsOrVanishes(s) ==
  /\ slot[s].at = "task"
  /\ \/ Queues(s, "refresh", slot[s].key)
     \/ slot' = [slot EXCEPT ![s] = Idle] /\ UNCHANGED <<lockMap, unlocked, queue>>
  /\ UNCHANGED <<clock, service, policies, latest, lateKeys>>

(* _safe_background_fetch gets its lock when the task first runs. *)
TaskStarts(s) ==
  /\ slot[s].at = "task"
  /\ Queues(s, "refresh", slot[s].key)
  /\ UNCHANGED <<clock, service, policies, latest, lateKeys>>

(* A task asks without looking at the cache again; a request, on a miss. *)
Asks(s) ==
  /\ slot[s].at = "queued" /\ Holds(s)
  /\ slot[s].what = "refresh" \/ ~Cached(slot[s].key)
  /\ slot' = [slot EXCEPT ![s].at = "asked"]
  /\ UNCHANGED <<clock, service, policies, lockMap, queue, latest, lateKeys, unlocked>>

(* The service reads its policy; the reply is on its way. *)
ServiceReads(s) ==
  /\ slot[s].at = "asked"
  /\ slot' = [slot EXCEPT ![s].at = "read", ![s].version = service[slot[s].key]]
  /\ UNCHANGED <<clock, service, policies, lockMap, queue, latest, lateKeys, unlocked>>

(* An entry keeps its place in the dictionary; a new one at the limit      *)
(* pushes out the oldest.                                                  *)
Stored(k, policy, ttl) ==
  LET entry == [key |-> k, policy |-> policy, expires |-> clock + ttl]
      room == IF Len(policies) >= MaxCache THEN Tail(policies) ELSE policies
  IN  IF Cached(k)
      THEN [i \in DOMAIN policies |-> IF policies[i].key = k THEN entry ELSE policies[i]]
      ELSE Append(room, entry)

(* _fetch_policy stores what it got, and whoever asked reads it back: no   *)
(* await suspends in between.                                              *)
Stores(s, policy, ttl) ==
  LET k == slot[s].key IN
  /\ policies' = Stored(k, policy, ttl)
  /\ IF slot[s].what = "request" THEN Answers(k, policy) ELSE UNCHANGED latest
  /\ lateKeys' = lateKeys \ {k}
  /\ Leaves(s)
  /\ UNCHANGED <<clock, service, lockMap, unlocked>>

ReplyArrives(s) == slot[s].at = "read" /\ Stores(s, slot[s].version, CacheTTL)

(* Timeout of 50 ms, an error status, a body that is no policy. *)
FetchFails(s) == slot[s].at \in {"asked", "read"} /\ Stores(s, FailClosed, FailTTL)

(* The caller of a request is gone: CancelledError passes the except       *)
(* clauses, and async with releases the lock.                              *)
Cancelled(s) ==
  /\ slot[s].at \in {"queued", "asked", "read"} /\ slot[s].what = "request"
  /\ Leaves(s)
  /\ UNCHANGED <<clock, service, policies, lockMap, latest, lateKeys, unlocked>>

Ticks ==
  /\ clock < MaxClock /\ clock' = clock + 1
  /\ UNCHANGED <<service, policies, lockMap, queue, slot, latest, lateKeys, unlocked>>

PolicyChanges(k) ==
  /\ service[k] < MaxVersion
  /\ service' = [service EXCEPT ![k] = @ + 1]
  /\ UNCHANGED <<clock, policies, lockMap, queue, slot, latest, lateKeys, unlocked>>

Proceeds(s) ==
  \/ FindsFilled(s) \/ TaskStarts(s) \/ Asks(s)
  \/ ServiceReads(s) \/ ReplyArrives(s) \/ FetchFails(s)

PolicyNext ==
  \/ Ticks
  \/ \E k \in Keys : PolicyChanges(k) \/ HitsFresh(k)
  \/ \E s \in Slots, k \in Keys : HitsExpired(s, k) \/ Misses(s, k)
  \/ \E s \in Slots : Proceeds(s) \/ Cancelled(s)

(* The event loop runs what is ready, an asyncio.Lock is first come first  *)
(* served, and httpx gives up after its timeout.                           *)
PolicySpec == PolicyInit /\ [][PolicyNext]_policyVars /\ \A s \in Slots : WF_policyVars(Proceeds(s))

-----------------------------------------------------------------------------
(* Two fetches of one key are never under way together, as long as the     *)
(* bounded lock map has not dropped that key's lock from under its holder  *)
(* (tool_rbac.py:36: the oldest lock goes, held or not).                   *)
OneFetchAtATime ==
  \A s, t \in Slots :
    /\ slot[s].at \in {"asked", "read"} /\ slot[t].at \in {"asked", "read"}
    /\ slot[s].key = slot[t].key /\ slot[s].key \notin unlocked
    => s = t

(* What a virtual key is granted never goes back to an older policy: a     *)
(* revoked tool does not come back, through an expired answer, a late      *)
(* reply, a failure in between, or an eviction (tool_rbac.py:90-124).      *)
NoGrantGoesBack == \A k \in Keys \ unlocked' : latest'[k] >= latest[k]

(* One fetch of a key at a time, and the order of the service's policies   *)
(* kept by what requests are granted (resolve_policy, _fetch_policy).      *)
PoliciesAreOrdered == [][OneFetchAtATime' /\ NoGrantGoesBack]_policyVars

(* A key answered from an expired entry gets that entry replaced: no task  *)
(* is lost, and none waits for ever behind a lock (tool_rbac.py:97-100).   *)
LateAnswerIsRefreshed == \A k \in Keys : (k \in lateKeys) ~> (k \notin lateKeys)
=============================================================================

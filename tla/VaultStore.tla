----------------------------- MODULE VaultStore -----------------------------
(***************************************************************************)
(* The in-memory session store (class VaultStore of engines/vault.py):     *)
(* which sessions have a vault, how long each was idle, and which one is   *)
(* dropped when the store is full.  Every method runs under the store's    *)
(* lock.  The vaults themselves are module Vault.                          *)
(*                                                                         *)
(* An OrderedDict used for its order is a sequence; a vault key            *)
(* "<tenant>:<session>" is a pair.  A timestamp is kept as the time since: *)
(* it only matters whether it exceeds the TTL, so it stops at TTL + 1.     *)
(***************************************************************************)
EXTENDS Integers, Sequences, FiniteSets, SequencesExt

CONSTANTS Tenant,             \* virtual key fingerprints
          Session,            \* client session ids
          MaxCapacity,        \* max_capacity
          PerTenantCapacity,  \* per_tenant_capacity
          TTL,                \* ttl_seconds
          MayReload           \* whether VALID_VIRTUAL_KEYS changes

ASSUME StoreAssumption ==
  /\ MaxCapacity \in Nat \ {0}
  /\ PerTenantCapacity \in 1 .. MaxCapacity
  /\ TTL \in Nat

Pool == "__pool__"
ASSUME PoolIsNoTenant == Pool \notin Tenant

VaultKey == Tenant \X Session

VARIABLES store,       \* the VaultStore's indexes, see NoVaults
          configured   \* the fingerprints of VALID_VIRTUAL_KEYS

storeVars == <<store, configured>>

NoVaults ==
  [sessions   |-> <<>>,                        \* _sessions, least recent first
   age        |-> [k \in {} |-> 0],            \* now - _timestamps
   tenantKeys |-> [t \in Tenant |-> <<>>],     \* _tenant_keys; <<>> when absent
   poolMember |-> {},                          \* _pool_member
   poolSize   |-> 0]                           \* _pool_size

Held(s) == ToSet(s.sessions)
Count(s, tenant) == Len(s.tenantKeys[tenant])

-----------------------------------------------------------------------------
(* Mutant: a dropped vault stays a member of the pool. *)
DropKeepsMember(s, k) ==
  IF k \notin Held(s) THEN s
  ELSE [sessions   |-> RemoveFirst(s.sessions, k),
        age        |-> [j \in DOMAIN s.age \ {k} |-> s.age[j]],
        tenantKeys |-> [s.tenantKeys EXCEPT ![k[1]] = RemoveFirst(@, k)],
        poolMember |-> s.poolMember,
        poolSize   |-> IF k \in s.poolMember THEN s.poolSize - 1 ELSE s.poolSize]

(* Mutant: membership of the pool is asked of today's keys, not recorded. *)
DropByConfiguration(s, k) ==
  IF k \notin Held(s) THEN s
  ELSE [sessions   |-> RemoveFirst(s.sessions, k),
        age        |-> [j \in DOMAIN s.age \ {k} |-> s.age[j]],
        tenantKeys |-> [s.tenantKeys EXCEPT ![k[1]] = RemoveFirst(@, k)],
        poolMember |-> s.poolMember \ {k},
        poolSize   |-> IF k[1] \notin configured THEN s.poolSize - 1 ELSE s.poolSize]

(* _drop *)
Drop(s, k) ==
  IF k \notin Held(s) THEN s
  ELSE [sessions   |-> RemoveFirst(s.sessions, k),
        age        |-> [j \in DOMAIN s.age \ {k} |-> s.age[j]],
        tenantKeys |-> [s.tenantKeys EXCEPT ![k[1]] = RemoveFirst(@, k)],
        poolMember |-> s.poolMember \ {k},
        poolSize   |-> IF k \in s.poolMember THEN s.poolSize - 1 ELSE s.poolSize]

DropOldest(s, tenant) == Drop(s, Head(s.tenantKeys[tenant]))

ToEnd(seq, k) == Append(RemoveFirst(seq, k), k)

(* Mutant: a tenant's own order is not refreshed. *)
TouchGlobalOnly(s, k) ==
  [s EXCEPT !.sessions = ToEnd(@, k), !.age[k] = 0]

Touch(s, k) ==
  [s EXCEPT !.sessions = ToEnd(@, k),
            !.tenantKeys[k[1]] = ToEnd(@, k),
            !.age[k] = 0]

Expired(s, k) == k \in DOMAIN s.age /\ s.age[k] > TTL

(* Mutant: a vault idle for exactly the TTL is dropped. *)
LookupEarly(s, k) ==
  LET live == IF k \in DOMAIN s.age /\ s.age[k] >= TTL THEN Drop(s, k) ELSE s
  IN  IF k \in Held(live) THEN Touch(live, k) ELSE live

(* The store after _lookup; the vault is found iff the key is still held. *)
Lookup(s, k) ==
  LET live == IF Expired(s, k) THEN Drop(s, k) ELSE s
  IN  IF k \in Held(live) THEN Touch(live, k) ELSE live

(* _largest: the names it may return, given a count per name.  The first   *)
(* one in dictionary order wins a tie the preferred name is not part of.   *)
Largest(sizes, preferred) ==
  LET top == {n \in DOMAIN sizes : \A m \in DOMAIN sizes : sizes[m] <= sizes[n]}
  IN  IF preferred \in top THEN {preferred} ELSE top

Holding(s, tenants) == {t \in tenants : Count(s, t) > 0}

BucketSizes(s) ==
  [n \in Holding(s, configured) \cup (IF s.poolSize > 0 THEN {Pool} ELSE {}) |->
     IF n = Pool THEN s.poolSize ELSE Count(s, n)]

(* The tenants _evict_from_pool may take a vault from: none is its FALSE. *)
PoolVictims(s, tenant) ==
  Largest([t \in Holding(s, Tenant \ configured) |-> Count(s, t)], tenant)

EvictFromPool(s, tenant) ==
  IF PoolVictims(s, tenant) = {} THEN {s}
  ELSE {DropOldest(s, v) : v \in PoolVictims(s, tenant)}

(* Mutant: a bucket that turns out empty ends the search. *)
EvictOneForNoFallback(s, tenant) ==
  LET requester == IF tenant \in configured THEN tenant ELSE Pool
      victims   == Largest(BucketSizes(s), requester)
  IN  IF victims = {} THEN {s}
      ELSE UNION {IF v # Pool THEN {DropOldest(s, v)} ELSE EvictFromPool(s, tenant) :
                    v \in victims}

(* Mutant: the least recently used vault of all is taken. *)
EvictOneForGlobalLRU(s, tenant) == {Drop(s, Head(s.sessions))}

(* _evict_one_for: the oldest vault of the largest bucket, and the oldest  *)
(* of all when the counts name no victim.                                  *)
EvictOneFor(s, tenant) ==
  LET requester == IF tenant \in configured THEN tenant ELSE Pool
      victims   == Largest(BucketSizes(s), requester)
      anyOldest == {Drop(s, Head(s.sessions))}
  IN  IF victims = {} THEN anyOldest
      ELSE UNION {IF v # Pool THEN {DropOldest(s, v)}
                  ELSE IF PoolVictims(s, tenant) # {} THEN EvictFromPool(s, tenant)
                  ELSE anyOldest :
                    v \in victims}

(* Mutant: the pool is not held to a cap of its own. *)
MakeRoomNoPoolCap(s, tenant) ==
  LET own == IF Count(s, tenant) >= PerTenantCapacity THEN DropOldest(s, tenant) ELSE s
  IN  IF Len(own.sessions) >= MaxCapacity THEN EvictOneFor(own, tenant) ELSE {own}

(* Making room for one more vault of `tenant`.  The last loop is one round *)
(* here: CapacityHeld is violated if one round ever frees no slot.         *)
MakeRoom(s, tenant) ==
  LET own    == IF Count(s, tenant) >= PerTenantCapacity THEN DropOldest(s, tenant) ELSE s
      pooled == IF tenant \notin configured /\ own.poolSize >= PerTenantCapacity
                  THEN EvictFromPool(own, tenant) ELSE {own}
  IN  UNION {IF Len(p.sessions) >= MaxCapacity THEN EvictOneFor(p, tenant) ELSE {p} :
               p \in pooled}

Insert(s, k) ==
  LET pooled == k[1] \notin configured
  IN  [sessions   |-> Append(s.sessions, k),
       age        |-> [j \in DOMAIN s.age \cup {k} |-> IF j = k THEN 0 ELSE s.age[j]],
       tenantKeys |-> [s.tenantKeys EXCEPT ![k[1]] = Append(@, k)],
       poolMember |-> IF pooled THEN s.poolMember \cup {k} ELSE s.poolMember,
       poolSize   |-> IF pooled THEN s.poolSize + 1 ELSE s.poolSize]

-----------------------------------------------------------------------------
StoreInit == store = NoVaults /\ configured \in SUBSET Tenant

(* get_vault with a session id *)
GetVault(k) ==
  LET found == Lookup(store, k)
  IN  /\ IF k \in Held(found)
           THEN store' = found
           ELSE \E room \in MakeRoom(found, k[1]) : store' = Insert(room, k)
      /\ UNCHANGED configured

(* get_existing_vault *)
GetExistingVault(k) ==
  /\ store' = Lookup(store, k)
  /\ UNCHANGED configured

(* clear_session *)
ClearSession(k) ==
  /\ store' = Drop(store, k)
  /\ UNCHANGED configured

(* _evict_expired, one round of run_eviction_loop *)
EvictExpired ==
  /\ LET swept[i \in 0 .. Len(store.sessions)] ==
           IF i = 0 THEN store
           ELSE IF Expired(store, store.sessions[i])
                  THEN Drop(swept[i - 1], store.sessions[i]) ELSE swept[i - 1]
     IN  store' = swept[Len(store.sessions)]
  /\ UNCHANGED configured

Tick ==
  /\ store' = [store EXCEPT !.age = [k \in DOMAIN @ |-> IF @[k] > TTL THEN @[k] ELSE @[k] + 1]]
  /\ UNCHANGED configured

(* settings.reload put other virtual keys in force *)
ReloadKeys ==
  /\ MayReload
  /\ configured' \in SUBSET Tenant
  /\ UNCHANGED store

StoreNext ==
  \/ \E k \in VaultKey : GetVault(k) \/ GetExistingVault(k) \/ ClearSession(k)
  \/ EvictExpired
  \/ Tick
  \/ ReloadKeys

StoreSpec == StoreInit /\ [][StoreNext]_storeVars

-----------------------------------------------------------------------------
OfTenant(s, tenant) == {k \in Held(s) : k[1] = tenant}

Precedes(seq, a, b) == \E i, j \in 1 .. Len(seq) : i < j /\ seq[i] = a /\ seq[j] = b

(* Every held key has an idle time and an owner's list, and no other has:  *)
(* each tenant's order is the global order restricted to it, no key is     *)
(* held twice, and the pool's counter counts its members.                  *)
IndexesAgree ==
  /\ DOMAIN store.age = Held(store) /\ store.poolMember \subseteq Held(store)
  /\ IsInjective(store.sessions)
  /\ \A t \in Tenant :
       /\ IsInjective(store.tenantKeys[t])
       /\ ToSet(store.tenantKeys[t]) = OfTenant(store, t)
       /\ \A i, j \in 1 .. Count(store, t) :
            i < j => Precedes(store.sessions, store.tenantKeys[t][i], store.tenantKeys[t][j])
  /\ store.poolSize = Cardinality(store.poolMember)

CapacityHeld ==
  /\ Len(store.sessions) <= MaxCapacity
  /\ \A t \in Tenant : Count(store, t) <= PerTenantCapacity

OldestIsIdleLongest ==
  \A t \in Tenant : \A i, j \in 1 .. Count(store, t) :
    i < j => store.age[store.tenantKeys[t][i]] >= store.age[store.tenantKeys[t][j]]

(* After any sequence of calls, evictions and reloads of the keys the five *)
(* indexes tell one story, neither the store nor a virtual key is past its *)
(* capacity, and the vault dropped as a key's oldest is the one idle       *)
(* longest (get_vault, _drop, _lookup, _evict_one_for).                    *)
StoreIsSound == IndexesAgree /\ CapacityHeld /\ OldestIsIdleLongest

(* How many vaults compete with one another for the same share. *)
Share(s, tenant) ==
  IF tenant \in configured
    THEN Count(s, tenant)
    ELSE Cardinality({k \in Held(s) : k[1] \notin configured})

(* The vaults a step made, in place of an expired one too, and those a new *)
(* vault pushed out.                                                       *)
Created == {k \in Held(store') : k \in Held(store) => Expired(store, k) /\ ~Expired(store', k)}
PushedOut == IF Created = {} THEN {} ELSE Held(store) \ Held(store')

(* Pool membership is recorded when a vault is made; a reload may have     *)
(* changed since what it says of the vault's key.                          *)
CountsAreCurrent == store.poolMember = {k \in Held(store) : k[1] \notin configured}

TakenFrom(old, new) ==
  IF {old[1], new[1]} \cap configured # {}
    THEN /\ \A t \in Tenant : Share(store, t) <= Share(store, old[1])
         /\ Share(store, new[1]) < Share(store, old[1])
    ELSE \A t \in Tenant \ configured : Count(store, t) <= Count(store, old[1])

LivePushedOut == {j \in PushedOut : ~Expired(store, j)}

PoolIsWithinCap == CountsAreCurrent /\ Cardinality(store.poolMember) <= PerTenantCapacity

(* A live vault goes only by its owner's clear, or to one new vault when a *)
(* capacity is used up.  The new vault costs one live vault, or two when   *)
(* its key is at its own cap and the pool, since a reload, past the pool's.*)
MayGo(k) ==
  \/ Expired(store, k)
  \/ ClearSession(k)
  \/ /\ Created # {}
     /\ \/ Len(store.sessions) = MaxCapacity
        \/ \E t \in Tenant : Count(store, t) = PerTenantCapacity
        \/ store.poolSize >= PerTenantCapacity
     /\ \E j \in LivePushedOut : LivePushedOut = {j, k}
     /\ PoolIsWithinCap => LivePushedOut = {k}

LossesHaveACause == \A k \in Held(store) \ Held(store') : MayGo(k)

SharesAreFair ==
  CountsAreCurrent =>
    /\ \A new \in Created, old \in PushedOut : old[1] # new[1] => TakenFrom(old, new)
    /\ Cardinality(store.poolMember) <= PerTenantCapacity
         => Cardinality(store'.poolMember) <= PerTenantCapacity

(* No live vault is lost without cause.  While the counts are current, a   *)
(* key that mints sessions takes a slot from another key only if that      *)
(* key's share is the largest, and larger than its own (within the pool,   *)
(* only if no unconfigured key holds more), and the unconfigured keys      *)
(* together stay within one key's capacity (class VaultStore, get_vault).  *)
EvictionIsJust == [][LossesHaveACause /\ SharesAreFair]_storeVars
=============================================================================

----------------------------- MODULE VaultState -----------------------------
(***************************************************************************)
(* One `Vault` object of engines/vault.py as a value: its mappings and what *)
(* each method does to them.  Modules that own a vault (Vault,             *)
(* RedisVaultStore) hold such a value in a variable and apply these        *)
(* operators under the vault's lock.                                       *)
(*                                                                         *)
(* Strings are abstracted to what the mapping can tell apart: an original  *)
(* is an element of Original, a structural tag "[TYPE_n]" is the record    *)
(* [type, n], a synthetic stand-in is an element of StandIn.               *)
(***************************************************************************)
EXTENDS Integers, FiniteSets

CONSTANTS Original,     \* raw sensitive values
          EntityType,   \* detected entity classifiers
          StandIn,      \* what Faker can draw
          MaxReseeds    \* bound on collision retries (7 in the code)

Tag(type, n) == [type |-> type, n |-> n]
StructuralTag == [type : EntityType, n : Nat \ {0}]
Token == StandIn \cup StructuralTag

(* Faker never draws a bracketed tag. *)
ASSUME VaultAssumption ==
  /\ StandIn \cap StructuralTag = {}
  /\ MaxReseeds \in Nat

(* What Faker draws for one (value, type): draw[0] under the first seed and *)
(* draw[k] under the k-th collision seed.  The seeds are keyed by the vault *)
(* and the value, so the draws are a fixed function of the two.            *)
Draws == [0 .. MaxReseeds -> StandIn]

(* A partial map extended or updated at one key. *)
Put(map, key, value) ==
  [k \in DOMAIN map \cup {key} |-> IF k = key THEN value ELSE map[k]]

EmptyMap == [k \in {} |-> k]

NewVault(synthetic) ==
  [synthetic     |-> synthetic,
   toToken       |-> EmptyMap,               \* original_to_token
   toOriginal    |-> EmptyMap,               \* token_to_original
   oneWay        |-> EmptyMap,               \* one_way_original_to_token
   oneWayTokens  |-> {},                     \* _one_way_tokens
   typeCounters  |-> [e \in EntityType |-> 0]]

-----------------------------------------------------------------------------
(* Mutant: one-way tokens are forgotten by the collision check. *)
TokenTakenRestorableOnly(vault, token) == token \in DOMAIN vault.toOriginal

TokenTaken(vault, token) ==
  token \in DOMAIN vault.toOriginal \/ token \in vault.oneWayTokens

(* The first free draw after the colliding one, else the tagged fallback. *)
ResolveCollision(vault, type, count, draw) ==
  IF \E k \in 1 .. MaxReseeds : ~TokenTaken(vault, draw[k])
    THEN draw[CHOOSE k \in 1 .. MaxReseeds :
                /\ ~TokenTaken(vault, draw[k])
                /\ \A j \in 1 .. k - 1 : TokenTaken(vault, draw[j])]
    ELSE Tag(type, count)

NextCount(vault, type) == vault.typeCounters[type] + 1

(* Mutant: a stand-in already in use is not replaced. *)
MintTokenUnchecked(vault, type, draw) ==
  IF vault.synthetic THEN draw[0] ELSE Tag(type, NextCount(vault, type))

(* The fresh token _mint_token returns; the counter moves in Counted. *)
MintToken(vault, type, draw) ==
  LET count == NextCount(vault, type)
      token == IF vault.synthetic THEN draw[0] ELSE Tag(type, count)
  IN  IF TokenTaken(vault, token)
        THEN ResolveCollision(vault, type, count, draw)
        ELSE token

Counted(vault, type) ==
  [vault EXCEPT !.typeCounters = [@ EXCEPT ![type] = NextCount(vault, type)]]

RegisterRestorable(vault, original, token) ==
  [vault EXCEPT !.toToken = Put(@, original, token),
                !.toOriginal = Put(@, token, original)]

RegisterOneWay(vault, original, token) ==
  [vault EXCEPT !.oneWay = Put(@, original, token),
                !.oneWayTokens = @ \cup {token}]

(* Mutant: the value's existing token is not looked up first. *)
CreateToken(vault, original, type, draw) ==
  RegisterRestorable(Counted(vault, type), original,
                     MintToken(vault, type, draw))

(* get_or_create_token: the vault after the call; the token returned is    *)
(* toToken[original] of the result.                                        *)
GetOrCreateToken(vault, original, type, draw) ==
  IF original \in DOMAIN vault.toToken
    THEN vault
    ELSE RegisterRestorable(Counted(vault, type), original,
                            MintToken(vault, type, draw))

(* get_or_create_one_way_token, likewise through oneWay[original]. *)
GetOrCreateOneWayToken(vault, original, type, draw) ==
  IF original \in DOMAIN vault.oneWay
    THEN vault
    ELSE RegisterOneWay(Counted(vault, type), original,
                        MintToken(vault, type, draw))

(* What is persisted: everything but the mode and the one-way token set. *)
DumpState(vault) ==
  [toToken      |-> vault.toToken,
   toOriginal   |-> vault.toOriginal,
   oneWay       |-> vault.oneWay,
   typeCounters |-> vault.typeCounters]

(* Mutant: a loaded state starts counting from zero again. *)
LoadStateCountersReset(synthetic, state) ==
  [synthetic    |-> synthetic,
   toToken      |-> state.toToken,
   toOriginal   |-> state.toOriginal,
   oneWay       |-> state.oneWay,
   oneWayTokens |-> {state.oneWay[o] : o \in DOMAIN state.oneWay},
   typeCounters |-> [e \in EntityType |-> 0]]

(* Mutant: the one-way set is rebuilt from the keys, not the values. *)
LoadStateOneWayKeys(synthetic, state) ==
  [synthetic    |-> synthetic,
   toToken      |-> state.toToken,
   toOriginal   |-> state.toOriginal,
   oneWay       |-> state.oneWay,
   oneWayTokens |-> DOMAIN state.oneWay,
   typeCounters |-> state.typeCounters]

(* A new Vault object of the given mode holding a dumped state. *)
LoadState(synthetic, state) ==
  [synthetic    |-> synthetic,
   toToken      |-> state.toToken,
   toOriginal   |-> state.toOriginal,
   oneWay       |-> state.oneWay,
   oneWayTokens |-> {state.oneWay[o] : o \in DOMAIN state.oneWay},
   typeCounters |-> state.typeCounters]

-----------------------------------------------------------------------------
(* What every vault value satisfies.                                       *)
VaultType(vault) ==
  /\ vault = [synthetic    |-> vault.synthetic,
              toToken      |-> vault.toToken,
              toOriginal   |-> vault.toOriginal,
              oneWay       |-> vault.oneWay,
              oneWayTokens |-> vault.oneWayTokens,
              typeCounters |-> vault.typeCounters]
  /\ vault.synthetic \in BOOLEAN
  /\ DOMAIN vault.toToken \subseteq Original
  /\ vault.toToken \in [DOMAIN vault.toToken -> Token]
  /\ DOMAIN vault.toOriginal \subseteq Token
  /\ vault.toOriginal \in [DOMAIN vault.toOriginal -> Original]
  /\ DOMAIN vault.oneWay \subseteq Original
  /\ vault.oneWay \in [DOMAIN vault.oneWay -> Token]
  /\ vault.oneWayTokens \subseteq Token
  /\ vault.typeCounters \in [EntityType -> Nat]

(* The two directions of the restorable mapping are inverse to each other. *)
Bijective(vault) ==
  /\ \A o \in DOMAIN vault.toToken :
       /\ vault.toToken[o] \in DOMAIN vault.toOriginal
       /\ vault.toOriginal[vault.toToken[o]] = o
  /\ \A t \in DOMAIN vault.toOriginal :
       /\ vault.toOriginal[t] \in DOMAIN vault.toToken
       /\ vault.toToken[vault.toOriginal[t]] = t

(* No one-way token can be found by rehydration, and no two one-way values *)
(* share a token.                                                          *)
Sealed(vault) ==
  /\ vault.oneWayTokens = {vault.oneWay[o] : o \in DOMAIN vault.oneWay}
  /\ vault.oneWayTokens \cap DOMAIN vault.toOriginal = {}
  /\ \A o, p \in DOMAIN vault.oneWay : vault.oneWay[o] = vault.oneWay[p] => o = p

(* Every structural tag in use was numbered by its type's counter, so the  *)
(* next number is fresh.                                                   *)
CountersAhead(vault) ==
  \A t \in (DOMAIN vault.toOriginal \cup vault.oneWayTokens) \cap StructuralTag :
     t.n <= vault.typeCounters[t.type]

VaultInv(vault) ==
  /\ VaultType(vault)
  /\ Bijective(vault)
  /\ Sealed(vault)
  /\ CountersAhead(vault)
=============================================================================

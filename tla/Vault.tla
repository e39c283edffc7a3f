------------------------------- MODULE Vault -------------------------------
(***************************************************************************)
(* One session vault (class Vault of engines/vault.py) shared by the       *)
(* requests of a session.  Every method runs under `_lock`, so each is one *)
(* action.  Faker's draws are fixed by keyed seeds, so they are a table    *)
(* chosen once; any table is possible.                                     *)
(***************************************************************************)
EXTENDS VaultState

VARIABLES vault,   \* the Vault object
          faker    \* faker[original][type]: its draws; never changes

vars == <<vault, faker>>

Init ==
  /\ \E synthetic \in BOOLEAN : vault = NewVault(synthetic)
  /\ faker \in [Original -> [EntityType -> Draws]]

Redact(o, e) ==
  /\ vault' = GetOrCreateToken(vault, o, e, faker[o][e])
  /\ UNCHANGED faker

RedactOneWay(o, e) ==
  /\ vault' = GetOrCreateOneWayToken(vault, o, e, faker[o][e])
  /\ UNCHANGED faker

(* A persistent store hands the session's state to a new Vault object,     *)
(* whose masking mode follows the settings of that moment.                 *)
Reopen(synthetic) ==
  /\ vault' = LoadState(synthetic, DumpState(vault))
  /\ UNCHANGED faker

Next ==
  \/ \E o \in Original, e \in EntityType : Redact(o, e) \/ RedactOneWay(o, e)
  \/ \E synthetic \in BOOLEAN : Reopen(synthetic)

Spec == Init /\ [][Next]_vars

-----------------------------------------------------------------------------
(* The vault's state has the shape the class declares. *)
TypeOK ==
  /\ VaultType(vault)
  /\ faker \in [Original -> [EntityType -> Draws]]

(* The mapping stays a bijection whatever Faker draws, across collisions,  *)
(* exhausted reseeds and changes of masking mode (_mint_token,             *)
(* _resolve_collision): no later value can take over an earlier value's    *)
(* token, so two people never become one.                                  *)
MappingIsBijective == Bijective(vault)

(* A token given to application text (get_or_create_one_way_token) is      *)
(* never a token rehydration looks up, even for a value that the caller    *)
(* also sent on a restorable path.                                         *)
OneWayNeverRestorable == Sealed(vault)

(* The counters bound every tag in use, also after a state was reloaded:   *)
(* why the tagged fallback of _resolve_collision needs no further check.   *)
FallbackTagIsFresh == CountersAhead(vault)

(* The tokens a session has handed out, as an abstract naming. *)
Holders == Original \X {"restorable", "oneway"}
Named ==
  ((DOMAIN vault.toToken) \X {"restorable"}) \cup ((DOMAIN vault.oneWay) \X {"oneway"})
Naming ==
  [h \in Named |-> IF h[2] = "restorable" THEN vault.toToken[h[1]]
                                          ELSE vault.oneWay[h[1]]]

Abstract == INSTANCE TokenNaming
              WITH Holder <- Holders, Name <- Token, naming <- Naming

(* The vault implements TokenNaming: a token, once handed to the provider, *)
(* keeps its meaning and nobody else's value ever gets it, through every   *)
(* method of the class and a reload from the persistent store.             *)
ImplementsNaming == Abstract!Spec
=============================================================================

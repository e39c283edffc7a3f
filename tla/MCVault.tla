------------------------------ MODULE MCVault ------------------------------
(***************************************************************************)
(* A vault, and the store that keeps the vaults.  They share no state, so  *)
(* a behaviour moves one of them.                                          *)
(*                                                                         *)
(* The vault: two values, two types and two stand-ins with one reseed:     *)
(* every draw table is explored, so both the first draw and its retry      *)
(* collide, and the tagged fallback is reached.                            *)
(*                                                                         *)
(* The store: a requester, a victim and a bystander, each with a session   *)
(* more than a key may hold.                                               *)
(***************************************************************************)
EXTENDS Vault, VaultStore

VARIABLE part

mcvars == <<vars, storeVars, part>>

(* The part that does not move starts in one state of its own. *)
MCInit ==
  /\ part \in {"vault", "store"}
  /\ Init /\ StoreInit
  /\ part # "vault" =>
       /\ vault = NewVault(TRUE)
       /\ \E s \in StandIn :
            faker = [o \in Original |-> [e \in EntityType |-> [i \in 0 .. MaxReseeds |-> s]]]
  /\ part # "store" => configured = {}

VaultStep == part = "vault" /\ Next /\ UNCHANGED storeVars
StoreStep == part = "store" /\ StoreNext /\ UNCHANGED vars

MCNext == (VaultStep \/ StoreStep) /\ UNCHANGED part

MCSpec == MCInit /\ [][MCNext]_mcvars

Symmetry ==
  UNION {Permutations(set) : set \in {Original, EntityType, StandIn, Session}}
=============================================================================

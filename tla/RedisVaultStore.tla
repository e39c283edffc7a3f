--------------------------- MODULE RedisVaultStore ---------------------------
(***************************************************************************)
(* RedisVaultStore of engines/vault.py, for one session key.  A request    *)
(* GETs the stored state into a Vault object of its own, mints tokens in   *)
(* it, and every mint hands a SETEX of the whole state to another task:    *)
(* run_coroutine_threadsafe or run_in_executor, never awaited.  Redis is   *)
(* external: one value that a SETEX replaces, a DEL or its TTL removes.    *)
(*                                                                         *)
(* adversity names what befalls the session, chosen once:                  *)
(*   "modes"       its requests ask for different masking modes            *)
(*   "overlap"     requests of the session run at the same time, or a      *)
(*                 request begins while saves of an earlier one travel     *)
(*   "reorder"     saves of one request land out of order (pooled          *)
(*                 connections)                                            *)
(*   "loss"        a save fails; its future is never looked at             *)
(*   "expiry"      the TTL runs out while a request is open                *)
(*   "disconnect"  a client leaves mid-stream: main.py clears the session  *)
(***************************************************************************)
EXTENDS VaultState, Sequences, SequencesExt

CONSTANTS Request,      \* requests open at a time
          Adversities,  \* the sets of adversities a session may meet
          MaxPending,   \* bound on saves in flight
          MaxCount      \* bound on the numbers of a type

ASSUME RedisAssumption ==
  /\ Adversities \subseteq SUBSET {"modes", "overlap", "reorder", "loss", "expiry", "disconnect"}
  /\ MaxPending \in Nat
  /\ MaxCount \in Nat

Nothing == [absent |-> TRUE]    \* no stored state, no local vault

VARIABLES stored,    \* what Redis holds under the session's key
          local,     \* local[r]: the Vault object of an open request
          pending,   \* saves in flight, oldest first: [by, state]
          handed,    \* what the session handed out: [original, side, token]
          faker,
          adversity

vars == <<stored, local, pending, handed, faker, adversity>>

Init ==
  /\ stored = Nothing
  /\ local = [r \in Request |-> Nothing]
  /\ pending = <<>>
  /\ handed = {}
  /\ faker \in [Original -> [EntityType -> Draws]]
  /\ adversity \in Adversities

Open == {r \in Request : local[r] # Nothing}

Fetched(synthetic) ==
  IF stored = Nothing THEN NewVault(synthetic) ELSE LoadState(synthetic, stored)

AskedModes == IF "modes" \in adversity THEN BOOLEAN ELSE {FALSE}

(* get_vault_async, then main.py sets the object's masking mode. *)
Begin(r) ==
  /\ local[r] = Nothing
  /\ "overlap" \in adversity \/ (Open = {} /\ pending = <<>>)
  /\ \E synthetic \in AskedModes : local' = [local EXCEPT ![r] = Fetched(synthetic)]
  /\ UNCHANGED <<stored, pending, handed, faker, adversity>>

(* Mutant: a save carries the state as it was before the token was minted. *)
SaveBeforeMint(r, before, after) ==
  pending' = Append(pending, [by |-> r, state |-> DumpState(before)])

(* The save_callback _saved runs after a mint. *)
Save(r, before, after) ==
  pending' = Append(pending, [by |-> r, state |-> DumpState(after)])

Bounded(vault) ==
  /\ Len(pending) < MaxPending
  /\ \A e \in EntityType : vault.typeCounters[e] <= MaxCount

(* get_or_create_*: a value the vault knows is answered without a save. *)
HandOut(r, o, side, token, vault) ==
  /\ handed' = handed \cup {[original |-> o, side |-> side, token |-> token]}
  /\ local' = [local EXCEPT ![r] = vault]
  /\ IF vault = local[r] THEN UNCHANGED pending
                         ELSE Bounded(vault) /\ Save(r, local[r], vault)
  /\ UNCHANGED <<stored, faker, adversity>>

Redact(r, o, e) ==
  /\ r \in Open
  /\ LET vault == GetOrCreateToken(local[r], o, e, faker[o][e])
     IN  HandOut(r, o, "restorable", vault.toToken[o], vault)

RedactOneWay(r, o, e) ==
  /\ r \in Open
  /\ LET vault == GetOrCreateOneWayToken(local[r], o, e, faker[o][e])
     IN  HandOut(r, o, "oneway", vault.oneWay[o], vault)

Overtakes(i) == \E j \in 1 .. i - 1 : pending[j].by = pending[i].by

SaveLands(i) ==
  /\ "reorder" \in adversity \/ ~Overtakes(i)
  /\ stored' = pending[i].state
  /\ pending' = RemoveAt(pending, i)
  /\ UNCHANGED <<local, handed, faker, adversity>>

LoseSave(i) ==
  /\ "loss" \in adversity
  /\ pending' = RemoveAt(pending, i)
  /\ UNCHANGED <<stored, local, handed, faker, adversity>>

(* The reply has been rehydrated and the request's object is dropped. *)
Finish(r) ==
  /\ r \in Open
  /\ local' = [local EXCEPT ![r] = Nothing]
  /\ UNCHANGED <<stored, pending, handed, faker, adversity>>

Forget ==
  /\ stored' = Nothing
  /\ handed' = {}

(* clear_session_async; the request's own saves are not cancelled. *)
Disconnect(r) ==
  /\ r \in Open
  /\ "disconnect" \in adversity
  /\ local' = [local EXCEPT ![r] = Nothing]
  /\ Forget
  /\ UNCHANGED <<pending, faker, adversity>>

Expire ==
  /\ stored # Nothing
  /\ "expiry" \in adversity \/ (Open = {} /\ pending = <<>>)
  /\ Forget
  /\ UNCHANGED <<local, pending, faker, adversity>>

Next ==
  \/ \E r \in Request : Begin(r) \/ Finish(r) \/ Disconnect(r)
  \/ \E r \in Request, o \in Original, e \in EntityType :
       Redact(r, o, e) \/ RedactOneWay(r, o, e)
  \/ \E i \in DOMAIN pending : SaveLands(i) \/ LoseSave(i)
  \/ Expire

Spec == Init /\ [][Next]_vars

-----------------------------------------------------------------------------
(* Whatever overlaps, overtakes, fails or expires, the vault a request     *)
(* rehydrates its reply with, the state Redis holds and the states still   *)
(* travelling to it are ones the class could have built: a bijection, with *)
(* no one-way token restorable, and counters ahead of every tag in it.  A  *)
(* save is of the whole state, so a mix of two requests is never stored.   *)
EveryCopyIsSound ==
  /\ stored # Nothing => VaultInv(LoadState(TRUE, stored))
  /\ \A r \in Open : VaultInv(local[r])
  /\ \A i \in DOMAIN pending : VaultInv(LoadState(TRUE, pending[i].state))

(* Nothing but a change of masking mode befalls the session. *)
Calm == adversity \subseteq {"modes"}

(* Within the life of a session no token stands for two values, nor for a  *)
(* restorable and a one-way one: the docstring of Vault promises           *)
(* "deterministic bijective mappings".                                     *)
TokenMeansOneValue ==
  \A g, h \in handed : g.token = h.token => g = h

(* It holds in a calm session.                                             *)
CalmTokenMeansOneValue == Calm => TokenMeansOneValue

(* Then, too, once its saves have landed the next request - on any replica *)
(* - restores every token the session has handed out.                      *)
SessionRemembers ==
  (Calm /\ pending = <<>> /\ Open = {})
    => \A h \in handed :
         /\ stored # Nothing
         /\ h.side = "restorable"
              => /\ h.token \in DOMAIN stored.toOriginal
                 /\ stored.toOriginal[h.token] = h.original
=============================================================================

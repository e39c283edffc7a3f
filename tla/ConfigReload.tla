----------------------------- MODULE ConfigReload -----------------------------
(***************************************************************************)
(* The configuration while the proxy runs (core/config.py 530-690 and the  *)
(* watchers of api/main.py): config.yaml, reloaded by the thread of a file *)
(* watcher when it is modified, and the policies file, polled on the event *)
(* loop.  Both hold one lock while they apply a file; the poll does not    *)
(* wait for it.                                                            *)
(*                                                                         *)
(* A file's content is the version its author gave it; an author's edit    *)
(* truncates the file before it writes it.                                 *)
(***************************************************************************)
EXTENDS Naturals

CONSTANTS MaxEdits   \* bound of the runs: edits of each file

ASSUME ReloadAssumption == MaxEdits \in Nat \ {0}

Empty == 0             \* YAML's null
Versions == 1..(MaxEdits + 1)
Bad == MaxEdits + 2    \* does not parse, or a value that does not validate
NoDigest == MaxEdits + 3

(* VALID_VIRTUAL_KEYS in each version: every other one sets none. *)
NoKeys == 0
KeysIn(content) == IF content % 2 = 1 THEN content ELSE NoKeys

VARIABLES
  file, edits,       \* config.yaml
  events,            \* it was modified since the watcher last looked
  watcher,           \* what the watcher's thread is at, and what it read
  fields, keys,      \* the settings' __dict__, and _valid_virtual_keys_set
  polfile, poledits, \* policies.yaml
  poll,              \* what the poll is at, and the digest it took
  policies, digest   \* _flattened_policies, _policies_digest

lvars == <<file, edits, events, watcher, fields, keys>>
pvars == <<polfile, poledits, poll, policies, digest>>
cvars == <<lvars, pvars>>

AtRest == [at |-> "rest", has |-> Empty]
Stage(at, has) == [at |-> at, has |-> has]

CInit ==
  /\ file = 1 /\ edits = 1 /\ events = FALSE /\ watcher = AtRest
  /\ fields = 1 /\ keys = KeysIn(1)
  /\ polfile = 1 /\ poledits = 1 /\ poll = AtRest
  /\ policies = Empty /\ digest = NoDigest

Locked == watcher.at # "rest"

-----------------------------------------------------------------------------
(* config.yaml *)

Truncates ==
  /\ edits <= MaxEdits /\ file # Empty
  /\ file' = Empty /\ events' = TRUE
  /\ UNCHANGED <<edits, watcher, fields, keys, pvars>>

Saves ==
  /\ file = Empty /\ edits <= MaxEdits
  /\ edits' = edits + 1
  /\ file' \in {edits + 1, Bad} /\ events' = TRUE
  /\ UNCHANGED <<watcher, fields, keys, pvars>>

(* reload takes the lock and reads; what it cannot read or validate leaves *)
(* everything as it was.  An empty file is one that overrides nothing.     *)
Reads ==
  /\ events /\ ~Locked
  /\ events' = FALSE
  /\ watcher' = IF file = Bad THEN AtRest ELSE Stage("read", file)
  /\ UNCHANGED <<file, edits, fields, keys, pvars>>

SwapsFields ==
  /\ watcher.at = "read"
  /\ fields' = watcher.has
  /\ watcher' = Stage("swapped", watcher.has)
  /\ UNCHANGED <<file, edits, events, keys, pvars>>

(* Mutant: no keys leave the set alone. *)
SwapsSomeKeys ==
  /\ watcher.at = "swapped"
  /\ keys' = IF KeysIn(fields) = NoKeys THEN keys ELSE KeysIn(fields)
  /\ watcher' = AtRest
  /\ UNCHANGED <<file, edits, events, fields, pvars>>

(* The set of keys, from the new fields; the lock is released. *)
SwapsKeys ==
  /\ watcher.at = "swapped"
  /\ keys' = KeysIn(fields)
  /\ watcher' = AtRest
  /\ UNCHANGED <<file, edits, events, fields, pvars>>

-----------------------------------------------------------------------------
(* policies.yaml *)

EditsPolicies ==
  /\ \/ polfile # Empty /\ poledits <= MaxEdits /\ polfile' = Empty /\ UNCHANGED poledits
     \/ /\ polfile = Empty /\ poledits <= MaxEdits /\ poledits' = poledits + 1
        /\ polfile' \in {poledits + 1, Bad}
  /\ UNCHANGED <<poll, policies, digest, lvars>>

(* The poll reads the file to compare its digest, *)
TakesDigest ==
  /\ poll.at = "rest" /\ polfile # digest
  /\ poll' = Stage("digested", polfile)
  /\ UNCHANGED <<polfile, poledits, policies, digest, lvars>>

(* Mutant: what was seen counts as applied. *)
PollSkipsForGood ==
  /\ poll.at = "digested" /\ Locked
  /\ poll' = AtRest /\ digest' = poll.has
  /\ UNCHANGED <<polfile, poledits, policies, lvars>>

(* ... gives up if the other reload is under way, *)
PollSkips ==
  /\ poll.at = "digested" /\ Locked
  /\ poll' = AtRest
  /\ UNCHANGED <<polfile, poledits, policies, digest, lvars>>

(* ... and reads it again to apply it: no mapping, or no YAML, changes     *)
(* nothing.  What is recorded is the digest of the first reading.          *)
Applies ==
  /\ poll.at = "digested" /\ ~Locked
  /\ poll' = AtRest
  /\ IF polfile \in Versions
     THEN policies' = polfile /\ digest' = poll.has
     ELSE UNCHANGED <<policies, digest>>
  /\ UNCHANGED <<polfile, poledits, lvars>>

Watches == Reads \/ SwapsFields \/ SwapsKeys
Polls == TakesDigest \/ PollSkips \/ Applies

CNext == Truncates \/ Saves \/ Watches \/ EditsPolicies \/ Polls

(* The watcher has a thread, and the poll runs at every interval.  The     *)
(* lock is not always held when it does: edits end.                        *)
CFair == WF_cvars(Watches) /\ WF_cvars(Polls)

CSpec == CInit /\ [][CNext]_cvars /\ CFair

-----------------------------------------------------------------------------
(* Between reloads the set of virtual keys is that of the settings, also   *)
(* when a reload takes the last key away; and once the watcher has seen    *)
(* every change, both are the file's, unless it cannot be read             *)
(* (config.py:530-541, 610-617).                                           *)
SettingsFollowTheFile ==
  watcher.at = "rest" =>
    /\ keys = KeysIn(fields)
    /\ ~events /\ file # Bad => fields = file

(* A policies file that can be read and is left alone is in force in the   *)
(* end: no skipped poll, half-written or broken version in between, nor a  *)
(* change between the poll's two readings, keeps it out                    *)
(* (config.py:640-655, 664-688).                                           *)
PoliciesFollowTheFile ==
  \A v \in Versions : <>[](polfile = v) => <>[](policies = v)
=============================================================================

----------------------------- MODULE SharedSession ----------------------------
(***************************************************************************)
(* The requests of one session over the in-memory store: they hold one     *)
(* Vault object (api/main.py 1330-1352), and the blast-radius limiter      *)
(* takes as many tokens as the vault's counters grew while a request was   *)
(* masked (1487-1560).  A value the vault knows already adds nothing.      *)
(*                                                                         *)
(* Redaction runs in a worker thread and mints a value at a time.  What a  *)
(* value is masked by is Vault's subject.                                  *)
(***************************************************************************)
EXTENDS Naturals, FiniteSets

CONSTANTS
  Requests, Values,
  Capacity,       \* BLAST_RADIUS_BURST_CAPACITY
  MaxRequests     \* bound of the runs

ASSUME SessionAssumption == Capacity \in Nat \ {0} /\ MaxRequests \in Nat \ {0}

Scrub == "SCRUB"       \* a vault of the request's own, which remembers nothing
SessionModes == {"SYNTHETIC", Scrub}

Over == [at |-> "over"]

VARIABLES
  vaulted,      \* the values the shared vault has tokens for
  mints,      \* the sum of its type_counters
  tokens,     \* in the key's bucket
  asked,      \* requests so far
  q,          \* what each request is at
  out,        \* values the vault masked in a body that left
  paid,       \* values minted by a request that paid for as many
  excused,    \* values minted by a request whose redaction failed after that
  refused     \* values minted by a request that was refused for their number

svars == <<vaulted, mints, tokens, asked, q, out, paid, excused, refused>>

SInit ==
  /\ vaulted = {} /\ mints = 0
  /\ tokens = Capacity /\ asked = 0
  /\ q = [c \in Requests |-> Over]
  /\ out = {} /\ paid = {} /\ excused = {} /\ refused = {}

(* The vault is taken before the body is awaited. *)
Arrives(c) ==
  /\ q[c] = Over /\ asked < MaxRequests /\ asked' = asked + 1
  /\ \E mode \in SessionModes, values \in SUBSET Values \ {{}} :
       q' = [q EXCEPT ![c] = [at |-> "masked", mode |-> mode, values |-> values, left |-> values,
                              before |-> 0, minted |-> {}, count |-> 0]]
  /\ UNCHANGED <<vaulted, mints, tokens, out, paid, excused, refused>>

Private(c) == q[c].mode = Scrub
MayMint(c, v) == Private(c) \/ v \notin vaulted

(* Mutant: the counters are read when the thread has begun. *)
BeginsRedactionLate(c) ==
  /\ q[c].at = "masked"
  /\ \E v \in q[c].left :
       /\ q' = [q EXCEPT ![c].at = "redacting", ![c].before = mints + 1, ![c].left = @ \ {v},
                         ![c].minted = IF MayMint(c, v) THEN {v} ELSE {}]
       /\ vaulted' = IF Private(c) THEN vaulted ELSE vaulted \cup {v}
  /\ mints' = mints + 1
  /\ UNCHANGED <<tokens, asked, out, paid, excused, refused>>

BeginsRedaction(c) ==
  /\ q[c].at = "masked"
  /\ q' = [q EXCEPT ![c].at = "redacting", ![c].before = IF Private(c) THEN 0 ELSE mints]
  /\ UNCHANGED <<vaulted, mints, tokens, asked, out, paid, excused, refused>>

(* get_or_create_token *)
Mints(c, v) ==
  /\ q[c].at \in {"redacting", "text pass"} /\ v \in q[c].left
  /\ LET new == MayMint(c, v) IN
     /\ q' = [q EXCEPT ![c].left = @ \ {v},
                       ![c].minted = IF new THEN @ \cup {v} ELSE @]
     /\ IF new /\ ~Private(c)
        THEN vaulted' = vaulted \cup {v} /\ mints' = mints + 1
        ELSE UNCHANGED <<vaulted, mints>>
  /\ UNCHANGED <<tokens, asked, out, paid, excused, refused>>

Ends(c) == q' = [q EXCEPT ![c] = Over]
Excuses(c) == excused' = excused \cup (IF Private(c) THEN {} ELSE q[c].minted)

(* 413, 400, or 503: what was minted stays in the vault. *)
RedactionFails(c) ==
  /\ q[c].at \in {"redacting", "text pass"}
  /\ Ends(c) /\ Excuses(c)
  /\ UNCHANGED <<vaulted, mints, tokens, asked, out, paid, refused>>

(* FAIL_OPEN masks the whole body again, as text; nobody is charged. *)
GoesOnAsText(c) ==
  /\ q[c].at = "redacting"
  /\ q' = [q EXCEPT ![c].at = "text pass", ![c].left = q[c].values]
  /\ UNCHANGED <<vaulted, mints, tokens, asked, out, paid, excused, refused>>

(* entities_detected: what the counters grew by, whoever made them. *)
Redacted(c) ==
  /\ q[c].at = "redacting" /\ q[c].left = {}
  /\ q' = [q EXCEPT ![c].at = "counted",
                    ![c].count = IF Private(c) THEN Cardinality(q[c].minted) ELSE mints - q[c].before]
  /\ UNCHANGED <<vaulted, mints, tokens, asked, out, paid, excused, refused>>

GoesOut(c) == out' = IF Private(c) THEN out ELSE out \cup q[c].values

Pays(c) ==
  /\ q[c].at = "counted" /\ q[c].count <= tokens
  /\ tokens' = tokens - q[c].count
  /\ paid' = IF q[c].count >= Cardinality(q[c].minted) /\ ~Private(c)
             THEN paid \cup q[c].minted ELSE paid
  /\ GoesOut(c) /\ Ends(c)
  /\ UNCHANGED <<vaulted, mints, asked, excused, refused>>

LeavesAsText(c) ==
  /\ q[c].at = "text pass" /\ q[c].left = {}
  /\ GoesOut(c) /\ Excuses(c) /\ Ends(c)
  /\ UNCHANGED <<vaulted, mints, tokens, asked, paid, refused>>

(* 429 *)
CannotPay(c) ==
  /\ q[c].at = "counted" /\ q[c].count > tokens
  /\ Ends(c)
  /\ refused' = refused \cup (IF Private(c) THEN {} ELSE q[c].minted)
  /\ UNCHANGED <<vaulted, mints, tokens, asked, out, paid, excused>>

Refills ==
  /\ tokens < Capacity /\ tokens' = tokens + 1
  /\ UNCHANGED <<vaulted, mints, asked, q, out, paid, excused, refused>>

SNext ==
  \/ Refills
  \/ \E c \in Requests : \/ Arrives(c) \/ BeginsRedaction(c) \/ \E v \in Values : Mints(c, v)
                         \/ RedactionFails(c) \/ GoesOnAsText(c) \/ Redacted(c)
                         \/ Pays(c) \/ LeavesAsText(c) \/ CannotPay(c)

SSpec == SInit /\ [][SNext]_svars

-----------------------------------------------------------------------------
(* Values minted by requests that have not been asked to pay yet. *)
OnAccount == UNION {q[c].minted : c \in {d \in Requests : q[d] # Over /\ ~Private(d)}}

(* A value that left was paid for, or is about to be, or was minted by a   *)
(* request that then failed: requests that share the counters never charge *)
(* each other's values away (main.py:1487-1560).                           *)
SentValuesArePaid == out \subseteq paid \cup OnAccount \cup excused \cup refused

(* A value whose request was refused for the number of its values leaves   *)
(* with another only if that one pays for it                               *)
(* (entity-weighted-blast-radius-limits.md:12-13).                         *)
RefusedValuesArePaid == out \cap refused \subseteq paid \cup OnAccount
=============================================================================

------------------------------- MODULE RestReply -------------------------------
(***************************************************************************)
(* What happens to a reply that is not streamed, between the provider and  *)
(* the client (api/main.py): the canary check, the scan for identifiers    *)
(* the model produced, the restoration of the caller's own values under    *)
(* one budget, what may still go wrong after it, and the way a reply takes *)
(* when any of this fails; the replies of other methods; and errors.       *)
(*                                                                         *)
(* A reply has three fields: one the restoration knows, one it does not,   *)
(* and a structural one.  A field is what it is made of: "pii" of the      *)
(* model, "own" for a token of this session (or a value beside its         *)
(* ciphertext, in the stateless branch), the canary, or our own key.       *)
(***************************************************************************)
EXTENDS Naturals, Sequences, FiniteSets

CONSTANTS
  Contents,      \* what a field may be made of, as sequences of pieces
  Limit          \* MAX_REHYDRATED_REPLY_BYTES, in restored values

(* What a reply may hold when it comes. *)
Given == {"plain", "pii", "own", "canary", "key"}

ASSUME ReplyAssumption == Limit \in Nat /\ Contents \subseteq Seq(Given)

Fields == {"content", "other", "id"}
Structural == {"id"}                 \* _SSE_STRUCTURAL_KEYS

VARIABLES
  switches,   \* scan, canary, relay, stateless: what is switched on
  route,      \* post, or another method; an error
  form,       \* json, text or binary
  reply,      \* as it came
  text,       \* what became of it
  unscanned,  \* fields whose scan failed
  todo,       \* fields still to be gone through
  budget,
  at

pageVars == <<switches, route, form, reply, text, unscanned, todo, budget, at>>

Pieces(t) == UNION {{t[f][k] : k \in DOMAIN t[f]} : f \in Fields}

RPInit ==
  /\ switches \in [scan : BOOLEAN, canary : BOOLEAN, relay : BOOLEAN, stateless : BOOLEAN]
  /\ route \in {"post", "other", "error"} /\ form \in {"json", "text", "binary"}
  /\ reply \in [Fields -> Contents]
  /\ route = "error" => form = "json" /\ switches.scan
  /\ route # "error" => "key" \notin Pieces(reply) /\ switches.relay
  /\ route # "post" => ~switches.stateless /\ switches.canary
  /\ text = reply /\ unscanned = {} /\ todo = Fields /\ budget = Limit /\ at = "arrived"

GoesOn(stage) == at' = stage /\ todo' = Fields
Keeps == UNCHANGED <<switches, route, form, reply>>
KeepsText == Keeps /\ UNCHANGED <<text, unscanned, budget>>

With(t, was, becomes) ==
  [k \in DOMAIN t |-> IF t[k] = was THEN becomes ELSE t[k]]
Scanned(t) == With(With(t, "pii", "redacted"), "value", "redacted")
Values(t) == Cardinality({k \in DOMAIN t : t[k] = "own"})

-----------------------------------------------------------------------------
(* A POST, answered *)

Forbids == switches.canary /\ "canary" \in Pieces(reply)

ChecksCanary ==
  /\ route = "post" /\ at = "arrived"
  /\ IF Forbids THEN GoesOn("forbidden") ELSE GoesOn("parsing")
  /\ KeepsText

(* What is no JSON document is left to the fallback. *)
Parses ==
  /\ at = "parsing"
  /\ CASE form # "json" -> GoesOn("fallback")
       [] form = "json" /\ switches.scan -> GoesOn("scanning")
       [] OTHER -> GoesOn("restoring")
  /\ KeepsText

(* Nested too deep for the scan or the restoration: the fallback. *)
RaisesBefore == at \in {"scanning", "restoring"} /\ route = "post" /\ GoesOn("fallback") /\ KeepsText

(* Every string but those of structural fields; a scanner that fails lets  *)
(* its string pass.                                                        *)
ScansField(f) ==
  /\ at = "scanning" /\ f \in todo
  /\ \/ /\ text' = [text EXCEPT ![f] = IF f \in Structural THEN @ ELSE Scanned(@)]
        /\ UNCHANGED unscanned
     \/ unscanned' = unscanned \cup {f} /\ UNCHANGED text
  /\ IF todo = {f} THEN GoesOn("restoring") ELSE todo' = todo \ {f} /\ UNCHANGED at
  /\ Keeps /\ UNCHANGED budget

(* Where this route restores: the known fields, or every leaf. *)
Restorable(f) == f = "content" \/ switches.stateless \/ route = "other"

(* Mutant: a budget of its own for every field. *)
SpentEach(f) == UNCHANGED budget

Spent(f) == budget' = budget - (IF switches.stateless THEN 0 ELSE Values(text[f]))

Exceeds(f) == ~switches.stateless /\ Values(text[f]) > budget

RestoresField(f) ==
  /\ at = "restoring" /\ f \in todo
  /\ IF Restorable(f) /\ Exceeds(f) THEN GoesOn("too large") /\ UNCHANGED <<text, budget>>
     ELSE /\ IF Restorable(f)
             THEN text' = [text EXCEPT ![f] = With(@, "own", "value")] /\ Spent(f)
             ELSE UNCHANGED <<text, budget>>
          /\ IF todo = {f} THEN GoesOn("restored") ELSE todo' = todo \ {f} /\ UNCHANGED at
  /\ Keeps /\ UNCHANGED unscanned

(* The transformation to the caller's dialect, the watermark, the usage    *)
(* that is counted: one of them raises.                                    *)
RaisesAfter == at = "restored" /\ route = "post" /\ GoesOn("fallback") /\ KeepsText

IsReturned == at \in {"restored", "raw"} /\ GoesOn("sent") /\ KeepsText

-----------------------------------------------------------------------------
(* The reply as text *)

(* Mutant: what could not be parsed is not scanned either. *)
FallsBackUnscanned ==
  /\ at = "fallback" /\ text' = reply /\ unscanned' = {} /\ budget' = Limit
  /\ GoesOn("text") /\ Keeps

(* From the beginning, structural fields and all. *)
FallsBack ==
  /\ at = "fallback" /\ budget' = Limit
  /\ \/ /\ text' = [f \in Fields |-> IF switches.scan THEN Scanned(reply[f]) ELSE reply[f]]
        /\ unscanned' = {}
     \/ switches.scan /\ text' = reply /\ unscanned' = Fields
  /\ GoesOn("text") /\ Keeps

(* Where a piece stands. *)
Places(t, piece) ==
  {p \in Fields \X (1 .. 2) : p[2] \in DOMAIN t[p[1]] /\ t[p[1]][p[2]] = piece}
Total(t) == Cardinality(Places(t, "own"))

(* From the vault: what the stateless branch replaced stays as it is. *)
RestoresText ==
  /\ at = "text"
  /\ IF switches.stateless THEN GoesOn("raw") /\ UNCHANGED <<text, budget>>
     ELSE IF Total(text) > budget THEN GoesOn("too large") /\ UNCHANGED <<text, budget>>
     ELSE /\ text' = [f \in Fields |-> With(text[f], "own", "value")]
          /\ budget' = budget - Total(text) /\ GoesOn("raw")
  /\ Keeps /\ UNCHANGED unscanned

-----------------------------------------------------------------------------
(* Other methods *)

(* Bytes that are no text go as they are; text as text; and nothing is     *)
(* done when nothing is to be scanned or restored.                         *)
PassesThrough(restores) ==
  /\ route = "other" /\ at = "arrived"
  /\ CASE form = "binary" \/ ~(switches.scan \/ restores) -> GoesOn("raw") /\ UNCHANGED <<text, unscanned>>
       [] form = "text" /\ restores -> GoesOn("fallback") /\ UNCHANGED <<text, unscanned>>
       [] form = "json" /\ switches.scan /\ restores -> GoesOn("scanning") /\ UNCHANGED <<text, unscanned>>
       [] form = "json" /\ ~switches.scan /\ restores -> GoesOn("restoring") /\ UNCHANGED <<text, unscanned>>
       [] OTHER -> \* scanned only
            /\ GoesOn("raw")
            /\ \/ text' = [f \in Fields |-> IF form = "json" /\ f \in Structural
                                              THEN reply[f] ELSE Scanned(reply[f])]
                  /\ UNCHANGED unscanned
               \/ unscanned' = Fields /\ UNCHANGED text
  /\ Keeps /\ UNCHANGED budget

-----------------------------------------------------------------------------
(* An error of the provider *)

(* Mutant: identifiers first, as everywhere; a key is none. *)
ScrubbedOfPii(t) == Scanned(t)

(* Our keys first, then identifiers, one way. *)
Scrubbed(t) == Scanned(With(t, "key", "redacted"))

(* The message and the details, or the general message: nothing is read,   *)
(* relayed, or the engine fails.                                           *)
AnswersError ==
  /\ route = "error" /\ at = "arrived"
  /\ \/ switches.relay /\ text' = [f \in Fields |-> Scrubbed(reply[f])]
     \/ text' = [f \in Fields |-> <<>>]
  /\ GoesOn("raw") /\ Keeps /\ UNCHANGED <<unscanned, budget>>

RPNext ==
  \/ ChecksCanary \/ Parses \/ RaisesBefore \/ RaisesAfter \/ FallsBack
  \/ RestoresText \/ IsReturned \/ AnswersError
  \/ \E f \in Fields : ScansField(f) \/ RestoresField(f)
  \/ \E restores \in BOOLEAN : PassesThrough(restores)

RPSpec == RPInit /\ [][RPNext]_pageVars

-----------------------------------------------------------------------------
Restorations == Cardinality(Places(text, "value"))

(* Whatever fails on the way, what is sent holds no canary, no key of      *)
(* ours, and no identifier of the model's outside a structural field, a    *)
(* binary body or a string whose scan failed; no value of the caller's is  *)
(* taken for the model's, none is left out where a field is known, and     *)
(* never more are restored than the budget allows                          *)
(* (main.py:1986-2107, 2246-2305, 2350-2387, 546-584).                     *)
ReplyIsCleanAndWhole ==
  at = "sent" =>
    /\ route = "post" /\ switches.canary => "canary" \notin Pieces(text)
    /\ route = "error" => Pieces(text) \cap {"key", "pii"} = {}
    /\ switches.scan /\ route # "error" /\ (form # "binary" \/ route = "post") =>
         \A f \in Fields \ (Structural \cup unscanned) : \A k \in DOMAIN text[f] : text[f][k] # "pii"
    /\ route # "error" => \A f \in Fields : \A k \in DOMAIN text[f] :
         reply[f][k] = "own" => text[f][k] \in {"own", "value"}
    /\ route = "post" /\ ~switches.stateless =>
         \A k \in DOMAIN text["content"] : text["content"][k] # "own"
    /\ ~switches.stateless => Restorations <= Limit
=============================================================================

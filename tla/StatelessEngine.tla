---------------------------- MODULE StatelessEngine ----------------------------
(***************************************************************************)
(* A JSON-RPC body through the stateless branch                            *)
(* (engines/stateless_mutation_engine): the visitor that replaces each     *)
(* identifier and puts its ciphertext beside it, and the rehydrator that   *)
(* restores it from there in a reply that gives the document back.         *)
(*                                                                         *)
(* A document has three containers, one inside the other.  A value is the  *)
(* record of what it is, what it says and, sealed, the name it is bound    *)
(* to; an element of a list is named by its position.                      *)
(***************************************************************************)
EXTENDS Naturals, Sequences, FiniteSets

CONSTANTS MaxDepths     \* what AST_MAX_DEPTH may be

ASSUME EngineAssumption == MaxDepths \subseteq Nat

DepthOf(n) == CASE n = "root" -> 0 [] n = "child" -> 1 [] OTHER -> 2
Below(n) == IF n = "root" THEN "child" ELSE "leaf"

Value(is, says, aad) == [is |-> is, says |-> says, aad |-> aad]
Text(says) == Value("text", says, "")
Word == Text("word")
Secret == Text("secret")
CardNumber == Value("number", "secret", "")
Inner(n) == Value("node", n, "")
Fake == Text("fake")
Sealed(says, aad) == Value("sealed", says, aad)
Proxy(says) == Value("proxy", says, "fake")     \* [_shield_val, _shield_ctx]

Ctx(k) == "_ctx_hash_" \o k
NamedByKey == {"id", "a", "who", "enum", "who?"}       \* "who" is itself an identifier
Hashes == {Ctx(k) : k \in NamedByKey} \cup {Ctx(Ctx("a"))}
PropertyOf(h) == CHOOSE k \in NamedByKey \cup {Ctx("a")} : Ctx(k) = h
NoNumberScan == {"enum"}

LeafValues == {Word, Secret, CardNumber}
Objects(keys, values) == UNION {[ks -> values] : ks \in SUBSET keys}
Documents ==
  [root : {[k \in {"id", s} |-> IF k = "id" THEN v ELSE Inner("child")] :
             s \in {"a", "enum"}, v \in LeafValues} \cup
          {[i \in {"0", "1"} |-> IF i = "1" THEN v ELSE Inner("child")] : v \in LeafValues},
   child : Objects({"id", "who", "a", Ctx("a")}, LeafValues) \cup
           {[i \in {"0", "1"} |-> IF i = "0" THEN v ELSE Inner("leaf")] : v \in LeafValues} \cup
           {[k \in {"id", "a"} |-> IF k = "id" THEN v ELSE Inner("leaf")] : v \in LeafValues},
   leaf : {[k \in {"id"} |-> v] : v \in LeafValues} \cup {[i \in {"0"} |-> v] : v \in LeafValues}]

IsList(fields) == "0" \in DOMAIN fields

VARIABLES
  maxDepth,   \* AST_MAX_DEPTH
  document,   \* what the caller sent
  tree,       \* what became of it
  stack,      \* the nodes to visit, each with whether its numbers are scanned
  stage       \* "mutating", "sent", "restoring", "restored", "refused", "fallback"

evars == <<maxDepth, document, tree, stack, stage>>

EInit ==
  /\ maxDepth \in MaxDepths
  /\ document \in Documents /\ tree = document
  /\ stack = {<<"root", TRUE>>} /\ stage = "mutating"

-----------------------------------------------------------------------------
(* The visitor *)

IsEnvelope(n) == n = "root" \/ (n = "child" /\ IsList(document.root))

(* Mutant: the envelope's names are taken for the envelope's at any depth. *)
SkippedByName(n, k) == k = "id"

Skipped(n, k) == IsEnvelope(n) /\ ~IsList(tree[n]) /\ k = "id"

Detected(v, numbers) == v = Secret \/ (numbers /\ v = CardNumber)

Scans(k, numbers) == numbers /\ k \notin NoNumberScan

(* An identifier used as a name is replaced, for good. *)
Renamed(k) == IF k = "who" THEN "who?" ELSE k
WithNames(fields) ==
  [k \in {Renamed(j) : j \in DOMAIN fields} |->
     fields[CHOOSE j \in DOMAIN fields : Renamed(j) = k]]

Masked(n, fields, numbers) ==
  {k \in DOMAIN fields : ~Skipped(n, k) /\ Detected(fields[k], Scans(k, numbers))}

Mutated(n, fields, numbers) ==
  LET masked == Masked(n, fields, numbers)
  IN  IF IsList(fields)
      THEN [i \in DOMAIN fields |-> IF i \in masked THEN Proxy(fields[i].says) ELSE fields[i]]
      ELSE [k \in DOMAIN fields \cup {Ctx(j) : j \in masked} |->
              IF k \in DOMAIN fields THEN IF k \in masked THEN Fake ELSE fields[k]
              ELSE Sealed(fields[PropertyOf(k)].says, PropertyOf(k))]

HasInner(n) == \E k \in DOMAIN tree[n] : tree[n][k] = Inner(Below(n))
KeyOfInner(n) == CHOOSE k \in DOMAIN tree[n] : tree[n][k] = Inner(Below(n))

(* A name of ours is already taken, or it goes too deep. *)
Refuses(n, numbers) ==
  LET fields == WithNames(tree[n])
  IN  \/ DepthOf(n) >= maxDepth
      \/ HasInner(n) /\ DepthOf(n) + 1 >= maxDepth
      \/ ~IsList(fields) /\ \E k \in Masked(n, fields, numbers) : Ctx(k) \in DOMAIN fields

Visits ==
  /\ stage = "mutating"
  /\ \E entry \in stack :
       LET n == entry[1]  numbers == entry[2]
       IN  IF Refuses(n, numbers)
           THEN stage' = "refused" /\ UNCHANGED <<tree, stack>>
           ELSE /\ tree' = [tree EXCEPT ![n] = Mutated(n, WithNames(tree[n]), numbers)]
                /\ stack' = (stack \ {entry}) \cup
                     (IF HasInner(n) THEN {<<Below(n), Scans(KeyOfInner(n), numbers)>>} ELSE {})
                /\ UNCHANGED stage
  /\ UNCHANGED <<maxDepth, document>>

(* Brackets beyond a multiple of the depth are refused unread. *)
TooManyBrackets ==
  /\ stage = "mutating" /\ tree = document
  /\ stage' = "refused"
  /\ UNCHANGED <<maxDepth, document, tree, stack>>

IsSent ==
  /\ stage = "mutating" /\ stack = {}
  /\ stage' = "sent"
  /\ UNCHANGED <<maxDepth, document, tree, stack>>

-----------------------------------------------------------------------------
(* The reply gives the document back *)

ComesBack ==
  /\ stage = "sent"
  /\ stage' = "restoring" /\ stack' = {<<"root", TRUE>>}
  /\ UNCHANGED <<maxDepth, document, tree>>

(* decrypt: bound to the name it was made for. *)
Opens(v, aad) == v.is = "sealed" /\ v.aad = aad

(* The siblings go, and what they restore is there only if it stays.       *)
Restored(fields) ==
  IF IsList(fields)
  THEN [i \in DOMAIN fields |->
          IF fields[i].is = "proxy" THEN Text(fields[i].says) ELSE fields[i]]
  ELSE [k \in {j \in DOMAIN fields : j \notin Hashes \/ fields[j].is = "node"} |->
          IF Ctx(k) \in DOMAIN fields /\ Opens(fields[Ctx(k)], k)
          THEN Text(fields[Ctx(k)].says) ELSE fields[k]]

(* A ciphertext that is no text raises: the text of the reply is all that  *)
(* is left to restore from, and this branch has nothing in the vault.      *)
Raises(fields) == ~IsList(fields) /\ \E h \in Hashes \cap DOMAIN fields : fields[h].is = "number"

Restores ==
  /\ stage = "restoring"
  /\ \E entry \in stack :
       LET n == entry[1]
       IN  IF Raises(tree[n])
           THEN stage' = "fallback" /\ UNCHANGED <<tree, stack>>
           ELSE /\ tree' = [tree EXCEPT ![n] = Restored(tree[n])]
                /\ stack' = (stack \ {entry}) \cup
                            (IF HasInner(n) THEN {<<Below(n), TRUE>>} ELSE {})
                /\ UNCHANGED stage
  /\ UNCHANGED <<maxDepth, document>>

IsRestored ==
  /\ stage = "restoring" /\ stack = {}
  /\ stage' = "restored"
  /\ UNCHANGED <<maxDepth, document, tree, stack>>

ENext == Visits \/ TooManyBrackets \/ IsSent \/ ComesBack \/ Restores \/ IsRestored

ESpec == EInit /\ [][ENext]_evars

-----------------------------------------------------------------------------
Reached ==
  {"root", "child"} \cup
  {n \in {"leaf"} : \E k \in DOMAIN document.child : document.child[k] = Inner("leaf")}

(* Numbers below a schema keyword are bounds, not identifiers. *)
UnderSchema == "enum" \in DOMAIN document.root

(* What the reply is to come to: the names replaced, what was ours gone,   *)
(* a number restored as text.                                              *)
Expected(n) ==
  LET fields == WithNames(document[n])
  IN  [k \in {j \in DOMAIN fields : j \notin Hashes} |->
         IF fields[k] = CardNumber /\ ~Skipped(n, k) /\ ~(UnderSchema /\ n # "root")
         THEN Text("secret") ELSE fields[k]]

(* No identifier leaves in clear, as a value or as a name, outside the     *)
(* envelope; and a reply that gives back what was sent comes to what the   *)
(* caller sent (ast_mutator.py:97-173, streaming_lexer.py:135-192).        *)
StatelessRoundTrip ==
  /\ stage = "sent" => \A n \in Reached : \A k \in DOMAIN tree[n] :
       k # "who" /\ (tree[n][k] = Secret => IsEnvelope(n) /\ k = "id")
  /\ stage = "restored" => \A n \in Reached : tree[n] = Expected(n)
=============================================================================

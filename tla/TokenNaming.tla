---------------------------- MODULE TokenNaming ----------------------------
(***************************************************************************)
(* What a session vault promises, without counters, draws or a reverse     *)
(* map: each name is given to one holder, once, and is never changed or    *)
(* taken back.  A holder is an original together with the side             *)
(* ("restorable" or "oneway") it was redacted on.                          *)
(***************************************************************************)
CONSTANTS Holder, Name
VARIABLE naming          \* a partial injective map from holders to names

Init == naming = [h \in {} |-> h]

Assign(h) ==
  /\ h \notin DOMAIN naming
  /\ naming' \in [DOMAIN naming \cup {h} -> Name]
  /\ \A k \in DOMAIN naming : naming'[k] = naming[k] /\ naming'[h] # naming[k]

Next == \E h \in Holder : Assign(h)

Spec == Init /\ [][Next]_naming
=============================================================================

------------------------------- MODULE MCStream -------------------------------
(***************************************************************************)
(* The streaming path, part by part: the loop and its windows, one window  *)
(* over every text, and the fields no window holds.  The parts share no    *)
(* state here (the loop abstracts the text, a window and a field see one   *)
(* channel), so a behaviour moves one and leaves the others as they start. *)
(*                                                                         *)
(* The loop: two choices with prose and a tool call each, or a prose block *)
(* and two tool blocks, so four channels for two windows.  The window:     *)
(* every reply of up to MaxReply characters of a small alphabet, cut in    *)
(* every way; the vault holds two structural tags, one a prefix of the     *)
(* other up to its bracket, and two stand-ins that are words, one of them  *)
(* restored to a value too long for MaxOutput; the canary begins like a    *)
(* tag.                                                                    *)
(***************************************************************************)
EXTENDS StreamControl, RehydrationBuffer, SiblingScan

CONSTANT MaxReply

Chars == {"[", "1", "]", "o"}
Vault == << [token |-> <<"[", "1", "]">>, original |-> <<"-">>],
            [token |-> <<"[", "1", "1", "]">>, original |-> <<"-", "k", "k", "k", "-">>],
            [token |-> <<"o", "1">>, original |-> <<"k", "k", "k">>],
            [token |-> <<"1", "1">>, original |-> <<"k", "k", "k", "k", "k", "k">>] >>
CanaryToken == <<"[", "o", "]">>

WordChars == {"1", "o", "k"}

(* Replies in which no word runs on into a stand-in: the left edge of      *)
(* every stand-in is a word boundary.                                      *)
SpacedReplies ==
  {r \in BoundedSeq(Chars, MaxReply) :
     \A i \in 2 .. Len(r), e \in EntrySet :
       OccursAt(e.token, r, i) /\ Head(e.token) \in WordChars => r[i - 1] \notin WordChars}

VARIABLE part

mcvars == <<vars, bufferVars, tvars, part>>

(* A part that does not move starts in one state of its own. *)
MCInit ==
  /\ part \in {"loop", "window", "fields"}
  /\ shape \in IF part = "loop" THEN {"chat", "completions", "anthropic"} ELSE {"chat"}
  /\ reply \in IF part = "window" THEN Replies ELSE {Empty}
  /\ Init /\ BufferInit /\ TInit

LoopStep == part = "loop" /\ Next /\ UNCHANGED <<part, bufferVars, tvars>>
WindowStep == part = "window" /\ BufferNext /\ UNCHANGED <<part, vars, tvars>>
FieldStep == part = "fields" /\ TNext /\ UNCHANGED <<part, vars, bufferVars>>

MCNext == LoopStep \/ WindowStep \/ FieldStep

MCSpec == MCInit /\ [][MCNext]_mcvars
=============================================================================

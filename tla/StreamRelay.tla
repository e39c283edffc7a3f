----------------------------- MODULE StreamRelay -----------------------------
(***************************************************************************)
(* What a streamed reply promises its client, whatever the framing: text   *)
(* fed into a channel comes out of that channel, in order, no other text   *)
(* does, and a stream that ends of itself has shown all of it.             *)
(***************************************************************************)
EXTENDS Integers, Sequences, SequencesExt

VARIABLES fed,     \* the channel of each fragment, in order of arrival
          shown,   \* the numbers of the fragments shown, by channel
          ending   \* "" while it runs, then "complete" or "cut"

vars == <<fed, shown, ending>>

(* The numbers of a channel's fragments among those that came. *)
NumbersOf(came, channel) ==
  LET upTo[n \in 0 .. Len(came)] ==
        IF n = 0 THEN <<>>
        ELSE IF came[n] = channel THEN Append(upTo[n - 1], n) ELSE upTo[n - 1]
  IN  upTo[Len(came)]

FedTo(channel) == NumbersOf(fed, channel)

Init ==
  /\ fed = <<>>
  /\ \A channel \in DOMAIN shown : shown[channel] = <<>>
  /\ ending = ""

(* A fragment may come in, and any channel may show more of its own. *)
Pass ==
  /\ ending = ""
  /\ IsPrefix(fed, fed') /\ Len(fed') <= Len(fed) + 1
  /\ DOMAIN shown' = DOMAIN shown
  /\ \A channel \in DOMAIN shown :
       IsPrefix(shown[channel], shown'[channel]) /\ IsPrefix(shown'[channel], FedTo(channel)')
  /\ UNCHANGED ending

End ==
  /\ ending = ""
  /\ \/ ending' = "cut"
     \/ ending' = "complete" /\ \A channel \in DOMAIN shown : shown[channel] = FedTo(channel)
  /\ UNCHANGED <<fed, shown>>

Next == Pass \/ End

Spec == Init /\ [][Next]_vars
=============================================================================

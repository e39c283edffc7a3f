----------------------------- MODULE StreamProofs -----------------------------
(***************************************************************************)
(* A streamed reply, for every value of the constants: what ends it for    *)
(* its client (StreamControl), and the fields beside its text              *)
(* (SiblingScan).                                                          *)
(***************************************************************************)
EXTENDS StreamControl, SiblingScan, SequenceLemmas, FunctionTheorems, FiniteSetTheorems

(***************************************************************************)
(* The loop of a streamed reply (StreamControl).  While it reads, a        *)
(* fragment that came is in a piece of the output or held by the window of *)
(* its channel; so once a channel's window is empty, all of it is in the   *)
(* output.                                                                 *)
(***************************************************************************)
Texts == UNION {[D -> Seq(Nat)] : D \in {E \in SUBSET Key : IsFiniteSet(E)}}
Kinds == {"text", "finish", "stop", "done", "watermark", "error", "raw"}
Pieces == [kind : Kinds, choice : Nat, text : Texts, asOf : Nat]

(* The text of a channel. *)
Part(text, key) == IF key \in DOMAIN text THEN text[key] ELSE <<>>

(* All that is shown of a channel. *)
Shown(pieces, key) == UNION {Range(TextOf(pieces[j], key)) : j \in DOMAIN pieces}

OrdinalTypes ==
  /\ IsFiniteSet(DOMAIN ordinals) /\ Cardinality(DOMAIN ordinals) \in 0 .. MaxOrdinals
  /\ \A b \in DOMAIN ordinals : ordinals[b] \in Nat /\ ordinals[b] < Cardinality(DOMAIN ordinals)

LoopTypes ==
  /\ shape \in {"chat", "completions", "anthropic"} /\ watermark \in BOOLEAN
  /\ status \in {"reading", "chunk", "open", "closing", "ended"}
  /\ fed \in Seq(Key) /\ windows \in Texts /\ sent \in Seq(Pieces) /\ outgoing \in Seq(Pieces)
  /\ OrdinalTypes

(* No fragment came yet for a tool block without a number. *)
OrdinalsAreFresh ==
  /\ shape = "anthropic" =>
       \A n \in DOMAIN fed : fed[n][2] = Prose \/ fed[n][2] < Cardinality(DOMAIN ordinals)
  /\ shape # "anthropic" => \A i \in DOMAIN Output : Output[i].kind # "stop"

PiecesAreDated == \A i \in DOMAIN Output : Output[i].asOf <= Len(fed)

NothingIsLost ==
  status \in {"reading", "chunk"} =>
    \A n \in DOMAIN fed : n \in Shown(Output, fed[n]) \cup Range(Part(windows, fed[n]))

SoFar ==
  /\ status \in {"reading", "chunk", "open"} =>
       /\ ending = ""
       /\ watermark => \A i \in DOMAIN Output : Output[i].kind \notin {"done", "watermark"}
  /\ status \in {"reading", "chunk"} => \A i \in DOMAIN Output : Output[i].kind \notin {"error", "raw"}
  /\ status \in {"reading", "open", "ended"} => outgoing = <<>>

LoopInv ==
  LoopTypes /\ OrdinalsAreFresh /\ PiecesAreDated /\ NothingIsLost /\ SoFar /\ EndsAreComplete

-----------------------------------------------------------------------------
(* Texts and pieces *)

LEMMA TextIs ==
  ASSUME NEW t \in Texts
  PROVE  /\ DOMAIN t \subseteq Key /\ IsFiniteSet(DOMAIN t) /\ t = [w \in DOMAIN t |-> t[w]] /\ \A w \in DOMAIN t : t[w] \in Seq(Nat)
         /\ \A key : Part(t, key) \in Seq(Nat)
<1>1. PICK D \in SUBSET Key : IsFiniteSet(D) /\ t \in [D -> Seq(Nat)]
  BY DEF Texts
<1>2. <<>> \in Seq(Nat)
  OBVIOUS
<1>. QED
  BY <1>1, <1>2 DEF Part

LEMMA IsText ==
  ASSUME NEW D \in SUBSET Key, IsFiniteSet(D), NEW t \in [D -> Seq(Nat)]
  PROVE  t \in Texts
BY DEF Texts

LEMMA NoTextIs == NoText \in Texts /\ \A key : Part(NoText, key) = <<>>
<1>1. NoText = [w \in {} |-> <<>>] /\ DOMAIN NoText = {}
  BY DEF NoText
<1>2. [w \in {} |-> <<>>] \in [{} -> Seq(Nat)]
  OBVIOUS
<1>. QED
  BY <1>1, <1>2, IsText, FS_EmptySet DEF Part

LEMMA BareIs ==
  ASSUME fed \in Seq(Key), NEW kind \in Kinds
  PROVE  /\ Bare(kind) \in Pieces /\ Bare(kind).kind = kind /\ Bare(kind).asOf = Len(fed)
         /\ Bare(kind).choice = 0 /\ Bare(kind).text = NoText
<1>1. Len(fed) \in Nat
  BY LenProperties
<1>. QED
  BY <1>1, NoTextIs DEF Bare, Piece, Pieces

LEMMA PieceIs ==
  ASSUME NEW kind \in Kinds, NEW choice \in Nat, NEW text \in Texts, NEW asOf \in Nat
  PROVE  LET p == Piece(kind, choice, text, asOf)
         IN  p \in Pieces /\ p.kind = kind /\ p.choice = choice /\ p.text = text /\ p.asOf = asOf
BY DEF Piece, Pieces

LEMMA ShownOfJoin ==
  ASSUME NEW s \in Seq(Pieces), NEW ps \in Seq(Pieces), NEW key
  PROVE  Shown(s \o ps, key) = Shown(s, key) \cup Shown(ps, key)
<1>1. /\ Len(s) \in Nat /\ Len(ps) \in Nat /\ DOMAIN s = 1 .. Len(s) /\ DOMAIN ps = 1 .. Len(ps)
      /\ DOMAIN (s \o ps) = 1 .. Len(s) + Len(ps)
      /\ \A j \in 1 .. Len(s) + Len(ps) :
           (s \o ps)[j] = IF j <= Len(s) THEN s[j] ELSE ps[j - Len(s)]
  BY ConcatProperties, LenProperties
<1>2. ASSUME NEW j \in DOMAIN (s \o ps)
      PROVE  \/ \E k \in DOMAIN s : (s \o ps)[j] = s[k]
             \/ \E k \in DOMAIN ps : (s \o ps)[j] = ps[k]
  BY <1>1, <1>2
<1>3. ASSUME NEW k \in DOMAIN s PROVE k \in DOMAIN (s \o ps) /\ (s \o ps)[k] = s[k]
  BY <1>1, <1>3
<1>4. ASSUME NEW k \in DOMAIN ps
      PROVE  k + Len(s) \in DOMAIN (s \o ps) /\ (s \o ps)[k + Len(s)] = ps[k]
  BY <1>1, <1>4
<1>5. Shown(s \o ps, key) \subseteq Shown(s, key) \cup Shown(ps, key)
  BY <1>2 DEF Shown
<1>6. Shown(s, key) \subseteq Shown(s \o ps, key)
  BY <1>3 DEF Shown
<1>7. Shown(ps, key) \subseteq Shown(s \o ps, key)
  BY <1>4 DEF Shown
<1>. QED
  BY <1>5, <1>6, <1>7

(* What is joined to a sequence of pieces. *)
LEMMA Joined ==
  ASSUME NEW s \in Seq(Pieces), NEW ps \in Seq(Pieces)
  PROVE  /\ s \o ps \in Seq(Pieces) /\ Len(s) \in Nat /\ Len(ps) \in Nat
         /\ Len(s \o ps) = Len(s) + Len(ps)
         /\ DOMAIN s = 1 .. Len(s) /\ DOMAIN ps = 1 .. Len(ps) /\ DOMAIN (s \o ps) = 1 .. Len(s) + Len(ps)
         /\ \A i \in DOMAIN s : i \in DOMAIN (s \o ps) /\ (s \o ps)[i] = s[i]
         /\ \A j \in DOMAIN ps : Len(s) + j \in DOMAIN (s \o ps) /\ (s \o ps)[Len(s) + j] = ps[j]
         /\ \A i \in DOMAIN (s \o ps) : i \in DOMAIN s \/ i - Len(s) \in DOMAIN ps
<1>1. /\ Len(s) \in Nat /\ Len(ps) \in Nat /\ DOMAIN s = 1 .. Len(s) /\ DOMAIN ps = 1 .. Len(ps)
      /\ DOMAIN (s \o ps) = 1 .. Len(s) + Len(ps) /\ Len(s \o ps) = Len(s) + Len(ps)
      /\ s \o ps \in Seq(Pieces)
      /\ \A j \in 1 .. Len(s) + Len(ps) :
           (s \o ps)[j] = IF j <= Len(s) THEN s[j] ELSE ps[j - Len(s)]
  BY ConcatProperties, LenProperties
<1>2. \A i \in DOMAIN s : i \in DOMAIN (s \o ps) /\ (s \o ps)[i] = s[i]
  BY <1>1
<1>3. ASSUME NEW j \in DOMAIN ps
      PROVE  Len(s) + j \in DOMAIN (s \o ps) /\ (s \o ps)[Len(s) + j] = ps[j]
  <2>1. j \in 1 .. Len(ps) /\ j \in Nat /\ Len(s) + j \in 1 .. Len(s) + Len(ps) /\ ~(Len(s) + j <= Len(s))
        /\ (Len(s) + j) - Len(s) = j
    BY <1>1, <1>3
  <2>. QED
    BY <1>1, <2>1
<1>4. \A i \in DOMAIN (s \o ps) : i \in DOMAIN s \/ i - Len(s) \in DOMAIN ps
  BY <1>1
<1>. QED
  BY <1>1, <1>2, <1>3, <1>4

(* The coalescer loses no piece and changes no order. *)
LEMMA QueuedOut ==
  ASSUME LoopTypes, NEW ps \in Seq(Pieces), Queue(ps)
  PROVE  /\ sent' \in Seq(Pieces) /\ outgoing' \in Seq(Pieces) /\ Output' = Output \o ps
         /\ \E written \in Seq(Pieces) : Write(written)
<1>. DEFINE all  == outgoing \o ps
            stay == IF Len(all) <= Budget THEN Len(all) ELSE ((Len(all) - 1) % Budget) + 1
<1>1. /\ sent \in Seq(Pieces) /\ outgoing \in Seq(Pieces) /\ all \in Seq(Pieces) /\ Len(all) \in Nat
      /\ Budget \in Nat /\ Budget > 0
  BY ConcatProperties, LenProperties, StreamAssumption DEF LoopTypes
<1>2. /\ sent' = sent \o SubSeq(all, 1, Len(all) - stay)
      /\ outgoing' = SubSeq(all, Len(all) - stay + 1, Len(all))
  BY DEF Queue, Write
<1>3. stay \in 0 .. Len(all)
  <2>1. CASE Len(all) <= Budget
    BY <1>1, <2>1
  <2>2. CASE ~(Len(all) <= Budget)
    <3>1. (Len(all) - 1) % Budget \in 0 .. Budget - 1
      BY <1>1, <2>2
    <3>2. stay = ((Len(all) - 1) % Budget) + 1
      BY <2>2
    <3>. HIDE DEF all, stay
    <3>. QED
      BY <1>1, <2>2, <3>1, <3>2
  <2>. QED
    BY <2>1, <2>2
<1>. HIDE DEF all, stay
<1>. DEFINE m == Len(all) - stay
<1>4. m \in 0 .. Len(all)
  BY <1>1, <1>3
<1>. HIDE DEF m
<1>5. sent' = sent \o SubSeq(all, 1, m) /\ outgoing' = SubSeq(all, m + 1, Len(all))
  BY <1>2 DEF m
<1>6. SubSeq(all, 1, m) \in Seq(Pieces) /\ SubSeq(all, m + 1, Len(all)) \in Seq(Pieces)
  BY <1>1, <1>4, SubSeqProperties, ElementOfSeq
<1>7. SubSeq(all, 1, m) \o SubSeq(all, m + 1, Len(all)) = all
  <2>1. 1 \in 1 .. Len(all) + 1 /\ m \in 1 - 1 .. Len(all) /\ Len(all) \in m .. Len(all)
    BY <1>1, <1>4
  <2>2. SubSeq(all, 1, m) \o SubSeq(all, m + 1, Len(all)) = SubSeq(all, 1, Len(all))
    BY <1>1, <2>1, ConcatAdjacentSubSeq
  <2>. QED
    BY <1>1, <2>2, SubSeqFull
<1>8. Output' = sent \o all
  <2>1. (sent \o SubSeq(all, 1, m)) \o SubSeq(all, m + 1, Len(all))
          = sent \o (SubSeq(all, 1, m) \o SubSeq(all, m + 1, Len(all)))
    <3>. DEFINE a == SubSeq(all, 1, m)
                b == SubSeq(all, m + 1, Len(all))
    <3>1. a \in Seq(Pieces) /\ b \in Seq(Pieces) /\ sent \in Seq(Pieces)
      BY <1>1, <1>6
    <3>. HIDE DEF a, b
    <3>2. (sent \o a) \o b = sent \o (a \o b)
      BY <3>1, ConcatAssociative, SMTT(30)
    <3>. QED
      BY <3>2 DEF a, b
  <2>. QED
    BY <1>5, <1>7, <2>1 DEF Output
<1>9. sent \o all = Output \o ps
  BY <1>1, ConcatAssociative, SMTT(30) DEF Output, all
<1>10. Write(SubSeq(all, 1, m))
  BY DEF Queue, all, stay, m
<1>. QED
  BY <1>1, <1>5, <1>6, <1>8, <1>9, <1>10, ConcatProperties

LEMMA Queued ==
  ASSUME LoopInv, NEW ps \in Seq(Pieces), Queue(ps)
  PROVE  sent' \in Seq(Pieces) /\ outgoing' \in Seq(Pieces) /\ Output' = Output \o ps
BY QueuedOut DEF LoopInv

-----------------------------------------------------------------------------
(* What a piece says stays true of it. *)

FedGrows ==
  shape' = shape /\ fed' \in Seq(Key) /\ \A n \in DOMAIN fed : n \in DOMAIN fed' /\ fed'[n] = fed[n]

OrdinalsStay ==
  \A b \in DOMAIN ordinals' : \/ b \in DOMAIN ordinals /\ ordinals'[b] = ordinals[b]
                              \/ \A n \in DOMAIN fed : fed[n] # <<0, ordinals'[b]>>

Finished(choice) == Finishing([k \in Key |-> <<>>], choice)

Settled(i) ==
  /\ Output[i].kind = "finish" => \A key \in Finished(Output[i].choice) : ShownBy(i, key)
  /\ Output[i].kind = "stop" =>
       \A b \in {Output[i].choice} \cap DOMAIN ordinals : ShownBy(i, <<0, ordinals[b]>>)
  /\ Output[i].kind = "done" /\ (i = 1 \/ Output[i - 1].kind # "error") => \A key \in Key : ShownBy(i, key)

LEMMA AllSettled == (FinishIsComplete /\ DoneIsComplete) <=> \A i \in DOMAIN Output : Settled(i)
BY DEF FinishIsComplete, DoneIsComplete, Settled, Finished

LEMMA FedIs ==
  ASSUME NEW f \in Seq(Key)
  PROVE  Len(f) \in Nat /\ DOMAIN f = 1 .. Len(f) /\ \A n \in DOMAIN f : f[n] \in Key
BY LenProperties, ElementOfSeq

LEMMA StaysShown ==
  ASSUME fed \in Seq(Key), FedGrows, NEW i \in Nat, Output[i].asOf \in Nat, Output[i].asOf <= Len(fed),
         i >= 1, \A j \in 1 .. i : Output'[j] = Output[j], NEW key, ShownBy(i, key)
  PROVE  ShownBy(i, key)'
<1>1. Output'[i] = Output[i]
  OBVIOUS
<1>2. ASSUME NEW n \in 1 .. Output[i].asOf PROVE fed'[n] = fed[n]
  <2>1. n \in 1 .. Len(fed)
    BY FedIs
  <2>. QED
    BY <2>1, FedIs DEF FedGrows
<1>3. UNION {Range(TextOf(Output'[j], key)) : j \in 1 .. i} = UNION {Range(TextOf(Output[j], key)) : j \in 1 .. i}
  OBVIOUS
<1>. QED
  BY <1>1, <1>2, <1>3 DEF ShownBy, TextOf

LEMMA StaysSettled ==
  ASSUME fed \in Seq(Key), FedGrows, OrdinalsStay, NEW i \in Nat, Output[i].asOf \in Nat,
         Output[i].asOf <= Len(fed), i >= 1, \A j \in 1 .. i : Output'[j] = Output[j], Settled(i)
  PROVE  Settled(i)'
<1>1. \A key : ShownBy(i, key) => ShownBy(i, key)'
  BY StaysShown
<1>2. Output'[i] = Output[i] /\ shape' = shape
  BY DEF FedGrows
<1>3. i # 1 => Output'[i - 1] = Output[i - 1]
  <2>1. i # 1 => i - 1 \in 1 .. i
    OBVIOUS
  <2>. QED
    BY <2>1
<1>4. \A c : Finished(c)' = Finished(c)
  BY <1>2 DEF Finished, Finishing
<1>5. ASSUME NEW key, \A n \in DOMAIN fed : fed[n] # key PROVE ShownBy(i, key)'
  <2>1. ASSUME NEW n \in 1 .. Output[i].asOf PROVE fed'[n] # key
    <3>1. n \in 1 .. Len(fed)
      BY FedIs
    <3>. QED
      BY <1>5, <3>1, FedIs DEF FedGrows
  <2>2. {n \in 1 .. Output'[i].asOf : fed'[n] = key} = {}
    BY <1>2, <2>1
  <2>. QED
    BY <2>2 DEF ShownBy
<1>6. Output'[i].kind = "stop" =>
        \A b \in {Output'[i].choice} \cap DOMAIN ordinals' : ShownBy(i, <<0, ordinals[b]>>)'
  <2>. SUFFICES ASSUME Output'[i].kind = "stop", NEW b \in {Output'[i].choice} \cap DOMAIN ordinals'
                PROVE  ShownBy(i, <<0, ordinals[b]>>)'
    OBVIOUS
  <2>0. PICK key : key = <<0, ordinals'[b]>>
    OBVIOUS
  <2>1. CASE b \in DOMAIN ordinals /\ ordinals'[b] = ordinals[b]
    <3>1. ShownBy(i, <<0, ordinals[b]>>)
      BY <1>2, <2>1 DEF Settled
    <3>2. ShownBy(i, key)'
      BY <1>1, <2>0, <2>1, <3>1
    <3>. QED
      BY <2>0, <3>2 DEF ShownBy
  <2>2. CASE \A n \in DOMAIN fed : fed[n] # <<0, ordinals'[b]>>
    <3>2. ShownBy(i, key)'
      BY <1>5, <2>0, <2>2
    <3>. QED
      BY <2>0, <3>2 DEF ShownBy
  <2>. QED
    BY <2>1, <2>2 DEF OrdinalsStay
<1>. QED
  BY <1>1, <1>2, <1>3, <1>4, <1>6 DEF Settled

LEMMA OutputIs ==
  ASSUME LoopInv
  PROVE  /\ Output \in Seq(Pieces) /\ Len(Output) \in Nat /\ DOMAIN Output = 1 .. Len(Output)
         /\ \A i \in DOMAIN Output : /\ Output[i] \in Pieces /\ Output[i].asOf \in Nat
                                     /\ Output[i].asOf <= Len(fed) /\ Settled(i)
         /\ fed \in Seq(Key)
<1>1. Output \in Seq(Pieces)
  BY ConcatProperties DEF LoopInv, LoopTypes, Output
<1>2. Len(Output) \in Nat /\ DOMAIN Output = 1 .. Len(Output) /\ \A i \in DOMAIN Output : Output[i] \in Pieces
  BY <1>1, LenProperties, ElementOfSeq
<1>3. \A i \in DOMAIN Output : Settled(i)
  BY AllSettled DEF LoopInv, EndsAreComplete
<1>. QED
  BY <1>1, <1>2, <1>3 DEF LoopInv, LoopTypes, PiecesAreDated, Pieces

(* Pieces are put out: if all that is not shown is in the windows, then    *)
(* what they end is complete.                                              *)
LEMMA PutOut ==
  ASSUME LoopInv, NEW ps \in Seq(Pieces), NEW e \in DOMAIN ps, e = Len(ps),
         Output' = Output \o ps, FedGrows, OrdinalsStay, windows' \in Texts,
         \A n \in DOMAIN fed' :
           n \in Shown(Output, fed'[n]) \cup Shown(ps, fed'[n]) \cup Range(Part(windows', fed'[n])),
         \A j \in DOMAIN ps : ps[j].asOf <= Len(fed') /\ (j # e => ps[j].kind \in {"text", "watermark"}),
         ps[e].kind = "finish" => \A key \in Finished(ps[e].choice) : Part(windows', key) = <<>>,
         ps[e].kind = "stop" =>
           \A b \in {ps[e].choice} \cap DOMAIN ordinals' : Part(windows', <<0, ordinals'[b]>>) = <<>>,
         ps[e].kind = "done" => \A key \in Key : Part(windows', key) = <<>>
  PROVE  /\ FinishIsComplete' /\ DoneIsComplete' /\ PiecesAreDated'
         /\ \A n \in DOMAIN fed' : n \in Shown(Output', fed'[n]) \cup Range(Part(windows', fed'[n]))
<1>1. /\ Output \in Seq(Pieces) /\ Len(Output) \in Nat /\ DOMAIN Output = 1 .. Len(Output)
      /\ fed \in Seq(Key) /\ fed' \in Seq(Key) /\ Len(fed) \in Nat /\ Len(fed') \in Nat
      /\ DOMAIN fed = 1 .. Len(fed) /\ DOMAIN fed' = 1 .. Len(fed')
  BY OutputIs, FedIs DEF FedGrows
<1>2. /\ Len(ps) \in Nat /\ DOMAIN ps = 1 .. Len(ps)
      /\ Output' \in Seq(Pieces) /\ DOMAIN Output' = 1 .. Len(Output) + Len(ps)
      /\ \A i \in DOMAIN Output : i \in DOMAIN Output' /\ Output'[i] = Output[i]
      /\ \A j \in DOMAIN ps : Len(Output) + j \in DOMAIN Output' /\ Output'[Len(Output) + j] = ps[j]
      /\ \A i \in DOMAIN Output' : i \in DOMAIN Output \/ i - Len(Output) \in DOMAIN ps
  BY <1>1, Joined
<1>3. \A n \in DOMAIN fed' : n \in Shown(Output', fed'[n]) \cup Range(Part(windows', fed'[n]))
  BY <1>1, ShownOfJoin
<1>4. PICK last \in Nat : /\ last = Len(Output) + e /\ last \in DOMAIN Output' /\ Output'[last] = ps[e]
                         /\ DOMAIN Output' = 1 .. last
  <2>1. Len(Output) + e \in DOMAIN Output' /\ Output'[Len(Output) + e] = ps[e]
    BY <1>2
  <2>2. e \in Nat /\ Len(Output) + e \in Nat /\ Len(Output) + Len(ps) = Len(Output) + e
    BY <1>1, <1>2
  <2>3. DOMAIN Output' = 1 .. Len(Output) + e
    BY <1>2, <2>2
  <2>. QED
    BY <2>1, <2>2, <2>3
<1>5. ASSUME NEW key, Part(windows', key) = <<>> PROVE ShownBy(last, key)'
  <2>1. Shown(Output', key) = UNION {Range(TextOf(Output'[j], key)) : j \in 1 .. last}
    BY <1>4 DEF Shown
  <2>2. ASSUME NEW n \in 1 .. Output'[last].asOf, fed'[n] = key PROVE n \in Shown(Output', key)
    <3>1. ps[e].asOf \in Nat /\ ps[e].asOf <= Len(fed')
      <4>1. ps[e] \in Pieces
        BY <1>2, ElementOfSeq
      <4>. QED
        BY <4>1 DEF Pieces
    <3>2. n \in DOMAIN fed'
      BY <1>1, <1>4, <3>1
    <3>3. Range(Part(windows', key)) = {}
      BY <1>5 DEF Range
    <3>. QED
      BY <1>3, <2>2, <3>2, <3>3
  <2>. QED
    BY <2>1, <2>2 DEF ShownBy, TextOf
<1>6. Settled(last)'
  <2>1. shape' = shape /\ \A c : Finished(c)' = Finished(c)
    BY DEF FedGrows, Finished, Finishing
  <2>2. Output'[last].kind = "finish" => \A key \in Finished(Output[last].choice)' : ShownBy(last, key)'
    BY <1>4, <1>5, <2>1
  <2>3. Output'[last].kind = "done" => \A key \in Key : ShownBy(last, key)'
    BY <1>4, <1>5
  <2>4. Output'[last].kind = "stop" =>
          \A b \in {Output'[last].choice} \cap DOMAIN ordinals' : ShownBy(last, <<0, ordinals[b]>>)'
    <3>. SUFFICES ASSUME Output'[last].kind = "stop", NEW b \in {Output'[last].choice} \cap DOMAIN ordinals'
                  PROVE  ShownBy(last, <<0, ordinals[b]>>)'
      OBVIOUS
    <3>0. PICK key : key = <<0, ordinals'[b]>>
      OBVIOUS
    <3>1. ShownBy(last, key)'
      BY <1>4, <1>5, <3>0
    <3>. QED
      BY <3>0, <3>1 DEF ShownBy
  <2>. QED
    BY <2>2, <2>3, <2>4 DEF Settled
<1>7. ASSUME NEW i \in DOMAIN Output'
      PROVE  Settled(i)' /\ Output'[i].asOf <= Len(fed')
  <2>1. CASE i \in DOMAIN Output
    <3>1. i \in Nat /\ i >= 1 /\ \A j \in 1 .. i : Output'[j] = Output[j]
      BY <1>1, <1>2, <2>1
    <3>2. Output[i].asOf \in Nat /\ Output[i].asOf <= Len(fed) /\ Settled(i)
      BY <2>1, OutputIs
    <3>3. Settled(i)'
      BY <1>1, <3>1, <3>2, StaysSettled
    <3>4. Len(fed) <= Len(fed')
      <4>1. Len(fed) # 0 => Len(fed) \in DOMAIN fed /\ Len(fed) \in DOMAIN fed'
        <5>1. Len(fed) # 0 => Len(fed) \in DOMAIN fed
          BY <1>1
        <5>. QED
          BY <5>1 DEF FedGrows
      <4>. QED
        BY <1>1, <4>1
    <3>. QED
      BY <1>1, <1>2, <2>1, <3>2, <3>3, <3>4
  <2>2. CASE i - Len(Output) \in DOMAIN ps
    <3>. DEFINE j == i - Len(Output)
    <3>1. j \in DOMAIN ps /\ i = Len(Output) + j /\ Output'[i] = ps[j]
      BY <1>1, <1>2, <2>2
    <3>2. CASE j = e
      <4>1. i = last
        BY <1>4, <3>1, <3>2
      <4>. QED
        BY <1>4, <1>6, <4>1
    <3>3. CASE j # e
      <4>1. Output'[i].kind \in {"text", "watermark"}
        BY <3>1, <3>3
      <4>. QED
        BY <3>1, <4>1 DEF Settled
    <3>. QED
      BY <3>2, <3>3
  <2>. QED
    BY <1>2, <2>1, <2>2
<1>8. FinishIsComplete' /\ DoneIsComplete'
  <2>1. (FinishIsComplete' /\ DoneIsComplete') <=> \A i \in DOMAIN Output' : Settled(i)'
    BY DEF FinishIsComplete, DoneIsComplete, Settled, Finished
  <2>. QED
    BY <1>7, <2>1
<1>. QED
  BY <1>3, <1>7, <1>8 DEF PiecesAreDated

(* The watermark *)

LEMMA NoSecondWatermark ==
  ASSUME LoopInv, NEW ps \in Seq(Pieces), Output' = Output \o ps,
         \A j \in DOMAIN ps : ps[j].kind # "watermark"
  PROVE  WatermarkOnce'
<1>1. /\ Output \in Seq(Pieces) /\ Len(Output) \in Nat /\ DOMAIN Output = 1 .. Len(Output) /\ WatermarkOnce
  BY OutputIs DEF LoopInv, EndsAreComplete
<1>2. /\ DOMAIN Output' = 1 .. Len(Output) + Len(ps) /\ Len(ps) \in Nat
      /\ \A i \in DOMAIN Output : Output'[i] = Output[i]
      /\ \A j \in DOMAIN ps : Output'[Len(Output) + j] = ps[j]
      /\ \A i \in DOMAIN Output' : i \in DOMAIN Output \/ i - Len(Output) \in DOMAIN ps
  BY <1>1, Joined
<1>3. ASSUME NEW i \in DOMAIN Output', i \notin DOMAIN Output
      PROVE  Output'[i].kind # "watermark" /\ i > Len(Output)
  <2>1. i - Len(Output) \in DOMAIN ps /\ Len(Output) + (i - Len(Output)) = i /\ i > Len(Output)
    BY <1>1, <1>2, <1>3
  <2>. QED
    BY <1>2, <2>1
<1>4. ASSUME NEW i \in DOMAIN Output, NEW j \in DOMAIN Output' PROVE j \in DOMAIN Output \/ i < j
  BY <1>1, <1>2, <1>3
<1>. QED
  BY <1>1, <1>2, <1>3, <1>4 DEF WatermarkOnce

LEMMA FirstWatermark ==
  ASSUME LoopInv, NEW ps \in Seq(Pieces), Output' = Output \o ps,
         \A i \in DOMAIN Output : Output[i].kind \notin {"done", "watermark"},
         \A i, j \in DOMAIN ps : ps[i].kind = "watermark" =>
           (ps[j].kind = "watermark" => i = j) /\ (ps[j].kind = "done" => i < j)
  PROVE  WatermarkOnce'
<1>1. /\ Output \in Seq(Pieces) /\ Len(Output) \in Nat /\ DOMAIN Output = 1 .. Len(Output)
  BY OutputIs
<1>2. /\ DOMAIN Output' = 1 .. Len(Output) + Len(ps) /\ Len(ps) \in Nat
      /\ \A i \in DOMAIN Output : Output'[i] = Output[i]
      /\ \A j \in DOMAIN ps : Output'[Len(Output) + j] = ps[j]
      /\ \A i \in DOMAIN Output' : i \in DOMAIN Output \/ i - Len(Output) \in DOMAIN ps
  BY <1>1, Joined
<1>3. ASSUME NEW i \in DOMAIN Output', Output'[i].kind \in {"done", "watermark"}
      PROVE  \E k \in DOMAIN ps : i = Len(Output) + k /\ Output'[i] = ps[k] /\ k \in Nat
  <2>1. i - Len(Output) \in DOMAIN ps
    BY <1>2, <1>3
  <2>2. Len(Output) + (i - Len(Output)) = i /\ i - Len(Output) \in Nat
    BY <1>1, <1>2, <2>1, LenProperties
  <2>. QED
    BY <1>2, <2>1, <2>2
<1>4. ASSUME NEW i \in DOMAIN Output', NEW j \in DOMAIN Output', Output'[i].kind = "watermark",
             Output'[j].kind \in {"done", "watermark"}
      PROVE  (Output'[j].kind = "watermark" => i = j) /\ (Output'[j].kind = "done" => i < j)
  <2>1. PICK k \in DOMAIN ps : i = Len(Output) + k /\ Output'[i] = ps[k] /\ k \in Nat
    BY <1>3, <1>4
  <2>2. PICK l \in DOMAIN ps : j = Len(Output) + l /\ Output'[j] = ps[l] /\ l \in Nat
    BY <1>3, <1>4
  <2>3. (ps[l].kind = "watermark" => k = l) /\ (ps[l].kind = "done" => k < l)
    BY <1>4, <2>1, <2>2
  <2>. QED
    BY <1>1, <2>1, <2>2, <2>3
<1>. QED
  BY <1>4 DEF WatermarkOnce

-----------------------------------------------------------------------------
(* What the handler of an event puts out. *)

LEMMA Handled ==
  ASSUME LoopInv, status = "chunk", NEW ps \in Seq(Pieces), NEW e \in DOMAIN ps, e = Len(ps), Queue(ps),
         FedGrows, OrdinalsStay, OrdinalTypes', windows' \in Texts,
         \A n \in DOMAIN fed' :
           n \in Shown(Output, fed'[n]) \cup Shown(ps, fed'[n]) \cup Range(Part(windows', fed'[n])),
         \A j \in DOMAIN ps : ps[j].asOf <= Len(fed') /\ (j # e => ps[j].kind \in {"text", "watermark"}),
         ps[e].kind \in {"text", "finish", "stop", "done"},
         ps[e].kind = "finish" => \A key \in Finished(ps[e].choice) : Part(windows', key) = <<>>,
         ps[e].kind = "stop" =>
           \A b \in {ps[e].choice} \cap DOMAIN ordinals' : Part(windows', <<0, ordinals'[b]>>) = <<>>,
         ps[e].kind = "done" => \A key \in Key : Part(windows', key) = <<>>,
         shape = "anthropic" =>
           \A n \in DOMAIN fed' : fed'[n][2] = Prose \/ fed'[n][2] < Cardinality(DOMAIN ordinals'),
         shape # "anthropic" => ps[e].kind # "stop",
         UNCHANGED <<status, ending>>,
         \/ /\ watermark' = watermark /\ ps[e].kind # "done"
            /\ \A j \in DOMAIN ps : ps[j].kind # "watermark"
         \/ watermark' = FALSE /\ WatermarkOnce'
  PROVE  LoopInv'
<1>1. sent' \in Seq(Pieces) /\ outgoing' \in Seq(Pieces) /\ Output' = Output \o ps
  BY Queued
<1>2. LoopTypes'
  BY <1>1 DEF LoopInv, LoopTypes, FedGrows
<1>3. /\ FinishIsComplete' /\ DoneIsComplete' /\ PiecesAreDated'
      /\ \A n \in DOMAIN fed' : n \in Shown(Output', fed'[n]) \cup Range(Part(windows', fed'[n]))
  BY <1>1, PutOut
<1>4. ASSUME NEW i \in DOMAIN Output'
      PROVE  (i \in DOMAIN Output /\ Output'[i] = Output[i]) \/ \E j \in DOMAIN ps : Output'[i] = ps[j]
  <2>1. /\ Output \in Seq(Pieces) /\ Len(Output) \in Nat /\ DOMAIN Output = 1 .. Len(Output)
    BY OutputIs
  <2>2. /\ DOMAIN Output' = 1 .. Len(Output) + Len(ps)
        /\ \A k \in DOMAIN Output : Output'[k] = Output[k]
        /\ \A j \in DOMAIN ps : Output'[Len(Output) + j] = ps[j]
        /\ \A k \in DOMAIN Output' : k \in DOMAIN Output \/ k - Len(Output) \in DOMAIN ps
    BY <1>1, <2>1, Joined, SMTT(30)
  <2>3. CASE i \in DOMAIN Output
    BY <2>2, <2>3
  <2>4. CASE i - Len(Output) \in DOMAIN ps
    <3>1. Len(Output) + (i - Len(Output)) = i
      BY <2>1, <2>2
    <3>. QED
      BY <2>2, <2>4, <3>1
  <2>. QED
    BY <2>2, <2>3, <2>4
<1>5. \A j \in DOMAIN ps : ps[j].kind \in {"text", "watermark", "finish", "stop", "done"}
  OBVIOUS
<1>6. OrdinalsAreFresh'
  <2>1. shape # "anthropic" => \A j \in DOMAIN ps : ps[j].kind # "stop"
    OBVIOUS
  <2>2. shape # "anthropic" => \A i \in DOMAIN Output' : Output'[i].kind # "stop"
    BY <1>4, <2>1 DEF LoopInv, OrdinalsAreFresh
  <2>. QED
    BY <2>2 DEF OrdinalsAreFresh, FedGrows
<1>7. SoFar'
  <2>1. ending = "" /\ \A i \in DOMAIN Output : Output[i].kind \notin {"error", "raw"}
    BY DEF LoopInv, SoFar
  <2>2. \A i \in DOMAIN Output' : Output'[i].kind \notin {"error", "raw"}
    BY <1>4, <1>5, <2>1
  <2>3. watermark' => \A i \in DOMAIN Output' : Output'[i].kind \notin {"done", "watermark"}
    <3>1. watermark' => /\ watermark /\ \A j \in DOMAIN ps : ps[j].kind \notin {"done", "watermark"}
      OBVIOUS
    <3>. QED
      BY <1>4, <3>1 DEF LoopInv, SoFar
  <2>. QED
    BY <2>1, <2>2, <2>3 DEF SoFar
<1>8. WatermarkOnce'
  BY <1>1, NoSecondWatermark
<1>9. AbortEndsTheReply'
  BY DEF LoopInv, SoFar, AbortEndsTheReply
<1>. QED
  BY <1>2, <1>3, <1>6, <1>7, <1>8, <1>9 DEF LoopInv, EndsAreComplete, NothingIsLost

-----------------------------------------------------------------------------
(* What an event does to the windows. *)

LEMMA Opening ==
  ASSUME windows \in Texts, NEW key \in Key
  PROVE  Opened(key) \in Texts /\ \A w : Part(Opened(key), w) = Part(windows, w)
<1>1. /\ DOMAIN windows \subseteq Key /\ IsFiniteSet(DOMAIN windows) /\ \A w : Held(w) \in Seq(Nat) /\ Held(w) = Part(windows, w)
  BY TextIs DEF Held, Part
<1>2. Opened(key) \in [DOMAIN windows \cup {key} -> Seq(Nat)] /\ DOMAIN windows \cup {key} \subseteq Key
  BY <1>1 DEF Opened
<1>3. \A w : Part(Opened(key), w) = Held(w)
  BY DEF Opened, Held, Part
<1>. QED
  BY <1>1, <1>2, <1>3, IsText, FS_AddElement

LEMMA ProseIsAKey == \A c \in Choice : <<c, Prose>> \in Key
BY DEF Key

LEMMA Borrowing ==
  ASSUME windows \in Texts
  PROVE  Borrowed \in Texts /\ \A w : Part(Borrowed, w) = Part(windows, w)
BY Opening, ProseIsAKey, StreamAssumption DEF Borrowed

LEMMA Draining ==
  ASSUME NEW ws \in Texts, NEW keys
  PROVE  /\ Drained(ws, keys) \in Texts
         /\ \A w : Part(Drained(ws, keys), w) = IF w \in keys THEN <<>> ELSE Part(ws, w)
<1>1. DOMAIN ws \subseteq Key /\ IsFiniteSet(DOMAIN ws) /\ \A w \in DOMAIN ws : ws[w] \in Seq(Nat)
  BY TextIs
<1>2. <<>> \in Seq(Nat)
  OBVIOUS
<1>3. Drained(ws, keys) \in [DOMAIN ws -> Seq(Nat)]
  BY <1>1, <1>2 DEF Drained
<1>. QED
  BY <1>1, <1>3, IsText DEF Drained, Part

(* What a window takes it lets out or keeps. *)
LEMMA Taking ==
  ASSUME windows \in Texts, fed \in Seq(Key), NEW key \in Key, NEW k \in 0 .. Len(Takes(key))
  PROVE  /\ Kept(key, k) \in Texts /\ LetOut(key, k) \in Seq(Nat)
         /\ Range(LetOut(key, k)) \cup Range(Part(Kept(key, k), key))
              = Range(Part(windows, key)) \cup {Len(fed) + 1}
         /\ \A w : w # key => Part(Kept(key, k), w) = Part(windows, w)
         /\ LetOut(key, k) \o Part(Kept(key, k), key) = Part(windows, key) \o <<Len(fed) + 1>>
<1>1. /\ DOMAIN windows \subseteq Key /\ \A w \in DOMAIN windows : windows[w] \in Seq(Nat)
      /\ Held(key) \in Seq(Nat) /\ Held(key) = Part(windows, key) /\ Len(fed) + 1 \in Nat
  BY TextIs, FedIs DEF Held, Part
<1>2. PICK t \in Seq(Nat) : t = Takes(key) /\ t = Held(key) \o <<Len(fed) + 1>>
  <2>1. PICK h \in Seq(Nat), n \in Nat : h = Held(key) /\ n = Len(fed) + 1
    BY <1>1
  <2>2. Append(h, n) \in Seq(Nat) /\ Append(h, n) = h \o <<n>>
    BY AppendProperties, AppendIsConcat
  <2>. QED
    BY <2>1, <2>2 DEF Takes
<1>3. Range(t) = Range(Part(windows, key)) \cup {Len(fed) + 1}
  <2>1. <<Len(fed) + 1>> \in Seq(Nat) /\ Range(<<Len(fed) + 1>>) = {Len(fed) + 1}
    BY <1>1 DEF Range
  <2>2. PICK h \in Seq(Nat), u \in Seq(Nat) : h = Held(key) /\ u = <<Len(fed) + 1>>
    BY <1>1, <2>1
  <2>3. Range(h \o u) = Range(h) \cup Range(u)
    BY RangeConcatenation
  <2>. QED
    BY <1>1, <1>2, <2>1, <2>2, <2>3
<1>. DEFINE a == SubSeq(t, 1, k)
            b == SubSeq(t, k + 1, Len(t))
<1>4. a \in Seq(Nat) /\ b \in Seq(Nat) /\ a \o b = t
  <2>0. Len(t) \in Nat /\ k \in 0 .. Len(t) /\ \A i \in 1 .. Len(t) : t[i] \in Nat
    BY <1>2, LenProperties, ElementOfSeq
  <2>1. 1 \in 1 .. Len(t) + 1 /\ k \in 1 - 1 .. Len(t) /\ Len(t) \in k .. Len(t)
    BY <2>0
  <2>2. a \o b = SubSeq(t, 1, Len(t))
    BY <2>1, ConcatAdjacentSubSeq
  <2>3. a \in Seq(Nat) /\ b \in Seq(Nat)
    BY <2>0, SubSeqProperties
  <2>. QED
    BY <2>2, <2>3, SubSeqFull
<1>5. Range(a) \cup Range(b) = Range(t)
  <2>1. PICK x \in Seq(Nat), y \in Seq(Nat) : x = a /\ y = b
    BY <1>4
  <2>2. Range(x \o y) = Range(x) \cup Range(y)
    BY RangeConcatenation
  <2>. QED
    BY <1>4, <2>1, <2>2
<1>6. LetOut(key, k) = a /\ Part(Kept(key, k), key) = b
  BY <1>2 DEF LetOut, Kept, Part
<1>7. \A w : w # key => Part(Kept(key, k), w) = Part(windows, w)
  BY DEF Kept, Part
<1>8. Kept(key, k) \in [DOMAIN windows \cup {key} -> Seq(Nat)]
  BY <1>1, <1>2, <1>4 DEF Kept
<1>9. DOMAIN windows \cup {key} \in SUBSET Key /\ IsFiniteSet(DOMAIN windows \cup {key})
  BY <1>1, TextIs, FS_AddElement
<1>10. LetOut(key, k) \o Part(Kept(key, k), key) = Part(windows, key) \o <<Len(fed) + 1>>
  BY <1>1, <1>2, <1>4, <1>6, Zenon
<1>. QED
  BY <1>3, <1>4, <1>5, <1>6, <1>7, <1>8, <1>9, <1>10, IsText

(* A fragment that comes is let out, or kept, and no other is lost. *)
LEMMA Feeding ==
  ASSUME LoopInv, status = "chunk", NEW key \in Key, NEW k \in 0 .. Len(Takes(key)),
         fed' = Append(fed, key), shape' = shape, NEW out, out = [w \in {key} |-> LetOut(key, k)]
  PROVE  /\ FedGrows /\ Len(fed') = Len(fed) + 1 /\ out \in Texts /\ Kept(key, k) \in Texts
         /\ DOMAIN fed' = 1 .. Len(fed) + 1 /\ fed'[Len(fed) + 1] = key
         /\ \A n \in DOMAIN fed' :
              n \in Shown(Output, fed'[n]) \cup Range(Part(Kept(key, k), fed'[n])) \cup Range(Part(out, fed'[n]))
<1>1. /\ fed \in Seq(Key) /\ windows \in Texts /\ Len(fed) \in Nat /\ DOMAIN fed = 1 .. Len(fed)
      /\ \A n \in DOMAIN fed : n \in Shown(Output, fed[n]) \cup Range(Part(windows, fed[n]))
  BY FedIs DEF LoopInv, LoopTypes, NothingIsLost
<1>2. /\ fed' \in Seq(Key) /\ Len(fed') = Len(fed) + 1 /\ DOMAIN fed' = 1 .. Len(fed) + 1
      /\ \A n \in DOMAIN fed : n \in DOMAIN fed' /\ fed'[n] = fed[n]
      /\ fed'[Len(fed) + 1] = key
  <2>1. /\ fed' \in Seq(Key) /\ Len(fed') = Len(fed) + 1 /\ fed'[Len(fed) + 1] = key
        /\ \A n \in 1 .. Len(fed) : fed'[n] = fed[n]
    BY <1>1, AppendProperties
  <2>2. DOMAIN fed' = 1 .. Len(fed) + 1
    BY <2>1, LenProperties
  <2>. QED
    BY <1>1, <2>1, <2>2
<1>3. /\ Kept(key, k) \in Texts /\ LetOut(key, k) \in Seq(Nat)
      /\ Range(LetOut(key, k)) \cup Range(Part(Kept(key, k), key))
           = Range(Part(windows, key)) \cup {Len(fed) + 1}
      /\ \A w : w # key => Part(Kept(key, k), w) = Part(windows, w)
  BY <1>1, Taking
<1>4. Part(out, key) = LetOut(key, k)
  BY DEF Part
<1>5. out \in Texts
  <2>1. out \in [{key} -> Seq(Nat)] /\ {key} \in SUBSET Key /\ IsFiniteSet({key})
    BY <1>3, FS_Singleton
  <2>. QED
    BY <2>1, IsText
<1>6. ASSUME NEW n \in DOMAIN fed'
      PROVE  n \in Shown(Output, fed'[n]) \cup Range(Part(Kept(key, k), fed'[n])) \cup Range(Part(out, fed'[n]))
  <2>1. CASE n = Len(fed) + 1
    BY <1>2, <1>3, <1>4, <2>1
  <2>2. CASE n \in DOMAIN fed
    <3>1. fed'[n] = fed[n]
      BY <1>2, <2>2
    <3>2. CASE fed[n] = key
      BY <1>1, <1>3, <1>4, <2>2, <3>1, <3>2
    <3>3. CASE fed[n] # key
      BY <1>1, <1>3, <2>2, <3>1, <3>3
    <3>. QED
      BY <3>2, <3>3
  <2>3. n = Len(fed) + 1 \/ n \in DOMAIN fed
    BY <1>1, <1>2
  <2>. QED
    BY <2>1, <2>2, <2>3
<1>. QED
  BY <1>2, <1>3, <1>5, <1>6 DEF FedGrows

(* One piece is put out. *)
LEMMA OnePiece ==
  ASSUME NEW p \in Pieces
  PROVE  /\ <<p>> \in Seq(Pieces) /\ Len(<<p>>) = 1 /\ DOMAIN <<p>> = {1} /\ <<p>>[1] = p
         /\ \A key : Shown(<<p>>, key) = Range(Part(p.text, key))
<1>1. <<p>> \in Seq(Pieces) /\ Len(<<p>>) = 1 /\ DOMAIN <<p>> = {1} /\ <<p>>[1] = p
  OBVIOUS
<1>2. \A key : TextOf(p, key) = Part(p.text, key)
  BY DEF TextOf, Part
<1>. QED
  BY <1>1, <1>2 DEF Shown

(* The text of a channel in a sequence of pieces. *)
LEMMA TextsAre ==
  ASSUME NEW s \in Seq(Pieces), NEW key
  PROVE  LET texts == [i \in DOMAIN s |-> TextOf(s[i], key)] IN
         /\ texts \in Seq(Seq(Nat)) /\ Len(texts) = Len(s) /\ DOMAIN texts = 1 .. Len(s)
         /\ \A i \in 1 .. Len(s) : texts[i] = Part(s[i].text, key)
<1>1. /\ Len(s) \in Nat /\ DOMAIN s = 1 .. Len(s) /\ \A i \in 1 .. Len(s) : s[i].text \in Texts
  <2>1. \A i \in 1 .. Len(s) : s[i] \in Pieces
    BY ElementOfSeq
  <2>. QED
    BY <2>1, LenProperties DEF Pieces
<1>2. \A i \in 1 .. Len(s) : TextOf(s[i], key) = Part(s[i].text, key) /\ Part(s[i].text, key) \in Seq(Nat)
  BY <1>1, TextIs DEF TextOf, Part
<1>. DEFINE texts == [i \in DOMAIN s |-> TextOf(s[i], key)]
<1>3. texts \in [1 .. Len(s) -> Seq(Nat)] /\ \A i \in 1 .. Len(s) : texts[i] = Part(s[i].text, key)
  BY <1>1, <1>2
<1>. HIDE DEF texts
<1>4. texts \in Seq(Seq(Nat)) /\ Len(texts) = Len(s) /\ DOMAIN texts = 1 .. Len(s)
  BY <1>1, <1>3, SeqDef, LenProperties
<1>. QED
  BY <1>3, <1>4 DEF texts

LEMMA TextInIs ==
  ASSUME NEW s \in Seq(Pieces), NEW key
  PROVE  TextIn(s, key) \in Seq(Nat)
BY TextsAre, FlattenType DEF TextIn

LEMMA TextInJoin ==
  ASSUME NEW s \in Seq(Pieces), NEW ps \in Seq(Pieces), NEW key
  PROVE  TextIn(s \o ps, key) = TextIn(s, key) \o TextIn(ps, key)
<1>1. PICK x \in Seq(Seq(Nat)) :
        /\ x = [i \in DOMAIN s |-> TextOf(s[i], key)] /\ Len(x) = Len(s)
        /\ \A i \in 1 .. Len(s) : x[i] = Part(s[i].text, key)
  BY TextsAre
<1>2. PICK y \in Seq(Seq(Nat)) :
        /\ y = [i \in DOMAIN ps |-> TextOf(ps[i], key)] /\ Len(y) = Len(ps)
        /\ \A i \in 1 .. Len(ps) : y[i] = Part(ps[i].text, key)
  BY TextsAre
<1>3. PICK all \in Seq(Pieces) :
        /\ all = s \o ps /\ Len(s) \in Nat /\ Len(ps) \in Nat /\ Len(all) = Len(s) + Len(ps)
        /\ \A i \in 1 .. Len(s) : all[i] = s[i]
        /\ \A j \in 1 .. Len(ps) : all[Len(s) + j] = ps[j]
  <2>1. /\ s \o ps \in Seq(Pieces) /\ Len(s) \in Nat /\ Len(ps) \in Nat
        /\ Len(s \o ps) = Len(s) + Len(ps)
        /\ \A i \in 1 .. Len(s) : (s \o ps)[i] = s[i]
        /\ \A j \in 1 .. Len(ps) : (s \o ps)[Len(s) + j] = ps[j]
    BY Joined
  <2>. QED
    BY <2>1
<1>4. PICK z \in Seq(Seq(Nat)) :
        /\ z = [i \in DOMAIN all |-> TextOf(all[i], key)] /\ Len(z) = Len(all)
        /\ \A i \in 1 .. Len(all) : z[i] = Part(all[i].text, key)
  BY TextsAre
<1>5. PICK xy \in Seq(Seq(Nat)) :
        /\ xy = x \o y /\ Len(xy) = Len(x) + Len(y)
        /\ \A i \in 1 .. Len(x) + Len(y) : xy[i] = IF i <= Len(x) THEN x[i] ELSE y[i - Len(x)]
  <2>1. /\ x \o y \in Seq(Seq(Nat)) /\ Len(x \o y) = Len(x) + Len(y)
        /\ \A i \in 1 .. Len(x) + Len(y) : (x \o y)[i] = IF i <= Len(x) THEN x[i] ELSE y[i - Len(x)]
    BY ConcatProperties
  <2>. QED
    BY <2>1
<1>6. z = xy
  <2>1. ASSUME NEW i \in 1 .. Len(z) PROVE z[i] = xy[i]
    <3>1. CASE i <= Len(s)
      <4>1. i \in 1 .. Len(s) /\ i \in 1 .. Len(all)
        BY <1>3, <1>4, <3>1
      <4>2. z[i] = Part(s[i].text, key) /\ xy[i] = x[i]
        BY <1>1, <1>2, <1>3, <1>4, <1>5, <3>1, <4>1
      <4>. QED
        BY <1>1, <4>1, <4>2
    <3>2. CASE ~(i <= Len(s))
      <4>1. i - Len(s) \in 1 .. Len(ps) /\ i \in 1 .. Len(all) /\ Len(s) + (i - Len(s)) = i
        BY <1>3, <1>4, <3>2
      <4>2. all[i] = ps[i - Len(s)]
        BY <1>3, <4>1
      <4>3. xy[i] = y[i - Len(s)]
        BY <1>1, <1>2, <1>3, <1>5, <3>2, <4>1
      <4>. QED
        BY <1>2, <1>4, <4>1, <4>2, <4>3
    <3>. QED
      BY <3>1, <3>2
  <2>2. Len(z) = Len(xy)
    BY <1>1, <1>2, <1>3, <1>4, <1>5
  <2>. QED
    BY <2>1, <2>2, SeqEqual
<1>7. FlattenSeq(x \o y) = FlattenSeq(x) \o FlattenSeq(y)
  BY FlattenConcat
<1>8. TextIn(all, key) = FlattenSeq(z) /\ TextIn(s, key) = FlattenSeq(x) /\ TextIn(ps, key) = FlattenSeq(y)
  BY <1>1, <1>2, <1>4 DEF TextIn
<1>. QED
  BY <1>3, <1>5, <1>6, <1>7, <1>8

LEMMA TextInOne ==
  ASSUME NEW p \in Pieces, NEW key
  PROVE  TextIn(<<p>>, key) = Part(p.text, key)
<1>1. PICK s \in Seq(Pieces) : s = <<p>> /\ Len(s) = 1 /\ s[1] = p
  BY OnePiece
<1>2. PICK x \in Seq(Seq(Nat)) :
        /\ x = [i \in DOMAIN s |-> TextOf(s[i], key)] /\ Len(x) = 1
        /\ \A i \in 1 .. 1 : x[i] = Part(s[i].text, key)
  BY <1>1, TextsAre
<1>3. 1 \in 1 .. Len(x) /\ \A j \in 1 .. Len(x) : j # 1 => x[j] = <<>>
  BY <1>2
<1>4. FlattenSeq(x) = x[1]
  BY <1>3, FlattenOnly
<1>. QED
  BY <1>1, <1>2, <1>4 DEF TextIn

LEMMA HandledOne ==
  ASSUME LoopInv, status = "chunk", NEW p \in Pieces, Queue(<<p>>), FedGrows, OrdinalsStay, OrdinalTypes',
         windows' \in Texts,
         \A n \in DOMAIN fed' :
           n \in Shown(Output, fed'[n]) \cup Range(Part(p.text, fed'[n])) \cup Range(Part(windows', fed'[n])),
         p.asOf = Len(fed'), p.kind \in {"text", "finish"},
         p.kind = "finish" => \A key \in Finished(p.choice) : Part(windows', key) = <<>>,
         shape = "anthropic" =>
           \A n \in DOMAIN fed' : fed'[n][2] = Prose \/ fed'[n][2] < Cardinality(DOMAIN ordinals'),
         UNCHANGED <<status, ending, watermark>>
  PROVE  LoopInv'
<1>. DEFINE ps == <<p>>
<1>1. /\ ps \in Seq(Pieces) /\ Len(ps) = 1 /\ DOMAIN ps = {1} /\ ps[1] = p
      /\ \A key : Shown(ps, key) = Range(Part(p.text, key))
  BY OnePiece
<1>2. Queue(ps)
  OBVIOUS
<1>. HIDE DEF ps
<1>3. Len(fed') \in Nat
  BY FedIs DEF FedGrows
<1>4. \A n \in DOMAIN fed' :
        n \in Shown(Output, fed'[n]) \cup Shown(ps, fed'[n]) \cup Range(Part(windows', fed'[n]))
  BY <1>1
<1>5. 1 \in DOMAIN ps /\ 1 = Len(ps)
  BY <1>1
<1>6. \A j \in DOMAIN ps : ps[j].asOf <= Len(fed') /\ (j # 1 => ps[j].kind \in {"text", "watermark"})
  BY <1>1, <1>3
<1>7. \A j \in DOMAIN ps : ps[j].kind # "watermark"
  BY <1>1
<1>. QED
  BY <1>1, <1>2, <1>4, <1>5, <1>6, <1>7, Handled

(* What an event of a choice puts out; its finish empties the windows it   *)
(* ends.                                                                   *)
Emission(choice, finish, ws, out) ==
  LET done == IF finish THEN Finishing(ws, choice) ELSE {}
      text == [w \in done \cup DOMAIN out |->
                 (IF w \in DOMAIN out THEN out[w] ELSE <<>>) \o (IF w \in done THEN ws[w] ELSE <<>>)]
  IN  Piece(IF finish THEN "finish" ELSE "text", choice, text, Len(fed'))

LEMMA EmittedPiece ==
  ASSUME NEW choice \in Choice, NEW finish \in BOOLEAN, fed' \in Seq(Key),
         NEW ws \in Texts, NEW out \in Texts, EmitsFor(choice, finish, ws, out)
  PROVE  LET done == IF finish THEN Finishing(ws, choice) ELSE {}
             p    == Emission(choice, finish, ws, out)
         IN  /\ windows' \in Texts /\ \A w : Part(windows', w) = IF w \in done THEN <<>> ELSE Part(ws, w)
             /\ p \in Pieces /\ Queue(<<p>>)
             /\ p.kind = (IF finish THEN "finish" ELSE "text") /\ p.choice = choice /\ p.asOf = Len(fed')
             /\ \A key : Part(p.text, key) = Part(out, key) \o (IF key \in done THEN Part(ws, key) ELSE <<>>)
<1>. DEFINE done == IF finish THEN Finishing(ws, choice) ELSE {}
            text == [w \in done \cup DOMAIN out |->
                      (IF w \in DOMAIN out THEN out[w] ELSE <<>>) \o (IF w \in done THEN ws[w] ELSE <<>>)]
            p    == Piece(IF finish THEN "finish" ELSE "text", choice, text, Len(fed'))
<1>1. windows' = Drained(ws, done) /\ Queue(<<p>>)
  BY DEF EmitsFor
<1>2. done \subseteq DOMAIN ws
  BY DEF Finishing
<1>3. /\ DOMAIN ws \subseteq Key /\ \A w \in DOMAIN ws : ws[w] \in Seq(Nat)
      /\ IsFiniteSet(DOMAIN ws) /\ IsFiniteSet(DOMAIN out)
      /\ DOMAIN out \subseteq Key /\ \A w \in DOMAIN out : out[w] \in Seq(Nat) /\ <<>> \in Seq(Nat)
      /\ \A w : Part(ws, w) \in Seq(Nat) /\ Part(out, w) \in Seq(Nat)
  BY TextIs
<1>4. \A key : Part(text, key) = Part(out, key) \o (IF key \in done THEN Part(ws, key) ELSE <<>>)
  <2>. SUFFICES ASSUME NEW key
                PROVE  Part(text, key) = Part(out, key) \o (IF key \in done THEN Part(ws, key) ELSE <<>>)
    OBVIOUS
  <2>1. CASE key \in done \cup DOMAIN out
    BY <1>2, <2>1 DEF Part
  <2>2. CASE key \notin done \cup DOMAIN out
    <3>1. <<>> \o <<>> = <<>>
      OBVIOUS
    <3>. QED
      BY <2>2, <3>1 DEF Part
  <2>. QED
    BY <2>1, <2>2
<1>5. text \in Texts
  <2>1. ASSUME NEW w \in done \cup DOMAIN out PROVE text[w] \in Seq(Nat)
    <3>1. PICK x \in Seq(Nat), y \in Seq(Nat) :
            x = (IF w \in DOMAIN out THEN out[w] ELSE <<>>) /\ y = (IF w \in done THEN ws[w] ELSE <<>>)
      <4>1. <<>> \in Seq(Nat)
        OBVIOUS
      <4>. QED
        BY <1>2, <1>3, <4>1
    <3>2. x \o y \in Seq(Nat)
      BY ConcatProperties
    <3>. QED
      BY <3>1, <3>2
  <2>2. done \cup DOMAIN out \in SUBSET Key /\ IsFiniteSet(done \cup DOMAIN out)
    BY <1>2, <1>3, FS_Subset, FS_Union
  <2>3. text \in [done \cup DOMAIN out -> Seq(Nat)]
    BY <2>1
  <2>. QED
    BY <2>2, <2>3, IsText
<1>. HIDE DEF text
<1>7. /\ windows' \in Texts
      /\ \A w : Part(windows', w) = IF w \in done THEN <<>> ELSE Part(ws, w)
  BY <1>1, Draining
<1>8. Len(fed') \in Nat /\ choice \in Nat
  BY FedIs, StreamAssumption
<1>9. /\ p \in Pieces /\ p.kind = (IF finish THEN "finish" ELSE "text") /\ p.choice = choice
      /\ p.text = text /\ p.asOf = Len(fed')
  <2>1. (IF finish THEN "finish" ELSE "text") \in Kinds
    BY DEF Kinds
  <2>. QED
    BY <1>5, <1>8, <2>1, PieceIs
<1>10. p = Emission(choice, finish, ws, out)
  BY DEF Emission, text
<1>. HIDE DEF p, done
<1>. QED
  BY <1>1, <1>4, <1>7, <1>9, <1>10 DEF done

LEMMA Emitted ==
  ASSUME LoopInv, status = "chunk", shape # "anthropic", NEW choice \in Choice, NEW finish \in BOOLEAN,
         NEW ws \in Texts, NEW out \in Texts, EmitsFor(choice, finish, ws, out), FedGrows,
         \A n \in DOMAIN fed' :
           n \in Shown(Output, fed'[n]) \cup Range(Part(ws, fed'[n])) \cup Range(Part(out, fed'[n])),
         UNCHANGED <<status, ending, ordinals, watermark>>
  PROVE  LoopInv'
<1>. DEFINE done == IF finish THEN Finishing(ws, choice) ELSE {}
            p    == Emission(choice, finish, ws, out)
<1>1. fed' \in Seq(Key)
  BY DEF FedGrows
<1>2. /\ windows' \in Texts /\ \A w : Part(windows', w) = IF w \in done THEN <<>> ELSE Part(ws, w)
      /\ p \in Pieces /\ Queue(<<p>>)
      /\ p.kind = (IF finish THEN "finish" ELSE "text") /\ p.choice = choice /\ p.asOf = Len(fed')
      /\ \A key : Part(p.text, key) = Part(out, key) \o (IF key \in done THEN Part(ws, key) ELSE <<>>)
  BY <1>1, EmittedPiece
<1>. HIDE DEF p
<1>3. \A w : Part(ws, w) \in Seq(Nat) /\ Part(out, w) \in Seq(Nat)
  BY TextIs
<1>4. ASSUME NEW key PROVE Range(Part(p.text, key)) = Range(Part(out, key)) \cup
                             (IF key \in done THEN Range(Part(ws, key)) ELSE {})
  <2>1. PICK x \in Seq(Nat), y \in Seq(Nat) :
          x = Part(out, key) /\ y = (IF key \in done THEN Part(ws, key) ELSE <<>>)
    <3>1. <<>> \in Seq(Nat)
      OBVIOUS
    <3>. QED
      BY <1>3, <3>1
  <2>2. Range(x \o y) = Range(x) \cup Range(y)
    BY RangeConcatenation
  <2>3. Range(<<>>) = {}
    BY DEF Range
  <2>. QED
    BY <1>2, <2>1, <2>2, <2>3
<1>5. /\ windows' \in Texts
      /\ \A w : Part(windows', w) = IF w \in done THEN <<>> ELSE Part(ws, w)
  BY <1>2
<1>6. finish => \A key \in Finished(choice) : Part(windows', key) = <<>>
  <2>. SUFFICES ASSUME finish, NEW key \in Finished(choice) PROVE Part(windows', key) = <<>>
    OBVIOUS
  <2>1. CASE key \in DOMAIN ws
    <3>1. key \in done
      BY <2>1 DEF Finished, Finishing
    <3>. QED
      BY <1>5, <3>1
  <2>2. CASE key \notin DOMAIN ws
    BY <1>5, <2>2 DEF Part
  <2>. QED
    BY <2>1, <2>2
<1>. HIDE DEF done
<1>7. \A n \in DOMAIN fed' :
         n \in Shown(Output, fed'[n]) \cup Range(Part(p.text, fed'[n])) \cup Range(Part(windows', fed'[n]))
  BY <1>4, <1>5
<1>8. OrdinalsStay /\ OrdinalTypes'
  BY DEF LoopInv, LoopTypes, OrdinalTypes, OrdinalsStay
<1>. QED
  BY <1>2, <1>5, <1>6, <1>7, <1>8, HandledOne

-----------------------------------------------------------------------------
(* The events *)

LEMMA ChatEvent ==
  ASSUME LoopInv, NEW c \in Choice, NEW finish \in BOOLEAN,
         \/ Plain(c, finish)
         \/ \E part \in Tool \cup {Prose} : Opens(c, part, finish) \/ Delta(c, part, finish)
  PROVE  LoopInv'
<1>1. /\ status = "chunk" /\ shape # "anthropic" /\ UNCHANGED <<shape, status, ending, ordinals, watermark>>
  BY DEF Plain, Opens, Delta, Handles
<1>2. /\ fed \in Seq(Key) /\ windows \in Texts
      /\ \A n \in DOMAIN fed : n \in Shown(Output, fed[n]) \cup Range(Part(windows, fed[n]))
  BY <1>1 DEF LoopInv, LoopTypes, NothingIsLost
<1>3. ASSUME NEW ws \in Texts, \A w : Part(ws, w) = Part(windows, w), fed' = fed,
             EmitsFor(c, finish, ws, NoText)
      PROVE  LoopInv'
  <2>1. FedGrows
    BY <1>1, <1>2, <1>3 DEF FedGrows
  <2>2. NoText \in Texts
    BY NoTextIs
  <2>3. \A n \in DOMAIN fed' :
          n \in Shown(Output, fed'[n]) \cup Range(Part(ws, fed'[n])) \cup Range(Part(NoText, fed'[n]))
    BY <1>2, <1>3
  <2>. QED
    BY <1>1, <1>3, <2>1, <2>2, <2>3, Emitted
<1>4. CASE Plain(c, finish)
  BY <1>2, <1>3, <1>4, Borrowing DEF Plain
<1>5. ASSUME NEW part \in Tool \cup {Prose}, Opens(c, part, finish) PROVE LoopInv'
  <2>1. <<c, part>> \in Key
    BY DEF Key
  <2>. QED
    BY <1>2, <1>3, <1>5, <2>1, Opening DEF Opens
<1>6. ASSUME NEW part \in Tool \cup {Prose}, Delta(c, part, finish) PROVE LoopInv'
  <2>1. PICK key \in Key : key = <<c, part>>
    BY DEF Key
  <2>2. fed' = Append(fed, key)
    BY <1>6, <2>1 DEF Delta
  <2>3. PICK k \in 0 .. Len(Takes(key)) : EmitsFor(c, finish, Kept(key, k), [w \in {key} |-> LetOut(key, k)])
    BY <1>6, <2>1 DEF Delta
  <2>4. PICK out : out = [w \in {key} |-> LetOut(key, k)]
    OBVIOUS
  <2>5. /\ FedGrows /\ out \in Texts /\ Kept(key, k) \in Texts
        /\ \A n \in DOMAIN fed' :
             n \in Shown(Output, fed'[n]) \cup Range(Part(Kept(key, k), fed'[n])) \cup Range(Part(out, fed'[n]))
    BY <1>1, <2>2, <2>4, Feeding
  <2>6. EmitsFor(c, finish, Kept(key, k), out)
    BY <2>3, <2>4
  <2>. QED
    BY <1>1, <2>5, <2>6, Emitted
<1>. QED
  BY <1>4, <1>5, <1>6

LEMMA ProseOfABlock ==
  ASSUME LoopInv, NEW block \in TextBlock, AnthropicText(block)
  PROVE  LoopInv'
<1>1. /\ status = "chunk" /\ shape = "anthropic"
      /\ UNCHANGED <<shape, status, ending, ordinals, watermark>> /\ block \in Nat
  BY StreamAssumption DEF AnthropicText, Handles
<1>2. PICK key \in Key : key = <<0, Prose>>
  BY ProseIsAKey, StreamAssumption
<1>3. fed' = Append(fed, key)
  BY <1>2 DEF AnthropicText
<1>4. PICK k \in 0 .. Len(Takes(key)) :
        /\ windows' = Kept(key, k)
        /\ Queue(<<Piece("text", block, [w \in {key} |-> LetOut(w, k)], Len(fed) + 1)>>)
  BY <1>2 DEF AnthropicText
<1>5. PICK out : out = [w \in {key} |-> LetOut(key, k)] /\ out = [w \in {key} |-> LetOut(w, k)]
  OBVIOUS
<1>6. /\ FedGrows /\ Len(fed') = Len(fed) + 1 /\ out \in Texts /\ Kept(key, k) \in Texts
      /\ DOMAIN fed' = 1 .. Len(fed) + 1 /\ fed'[Len(fed) + 1] = key
      /\ \A n \in DOMAIN fed' :
           n \in Shown(Output, fed'[n]) \cup Range(Part(Kept(key, k), fed'[n])) \cup Range(Part(out, fed'[n]))
  BY <1>1, <1>3, <1>5, Feeding
<1>7. Len(fed) \in Nat /\ DOMAIN fed = 1 .. Len(fed)
  BY FedIs DEF LoopInv, LoopTypes
<1>8. PICK p \in Pieces : /\ p = Piece("text", block, out, Len(fed) + 1) /\ p.kind = "text"
                          /\ p.text = out /\ p.asOf = Len(fed')
  <2>1. "text" \in Kinds /\ Len(fed) + 1 \in Nat
    BY <1>7 DEF Kinds
  <2>. QED
    BY <1>1, <1>6, <2>1, PieceIs
<1>9. Queue(<<p>>) /\ windows' \in Texts
  BY <1>4, <1>5, <1>6, <1>8
<1>10. OrdinalsStay /\ OrdinalTypes'
  BY <1>1 DEF LoopInv, LoopTypes, OrdinalTypes, OrdinalsStay
<1>11. \A n \in DOMAIN fed' : fed'[n][2] = Prose \/ fed'[n][2] < Cardinality(DOMAIN ordinals')
  <2>1. \A n \in DOMAIN fed : fed[n][2] = Prose \/ fed[n][2] < Cardinality(DOMAIN ordinals')
    BY <1>1 DEF LoopInv, OrdinalsAreFresh
  <2>2. fed'[Len(fed) + 1][2] = Prose
    BY <1>2, <1>6
  <2>3. \A n \in DOMAIN fed' : n \in DOMAIN fed \/ n = Len(fed) + 1
    BY <1>6, <1>7
  <2>. QED
    BY <1>6, <2>1, <2>2, <2>3 DEF FedGrows
<1>12. \A n \in DOMAIN fed' :
         n \in Shown(Output, fed'[n]) \cup Range(Part(p.text, fed'[n])) \cup Range(Part(windows', fed'[n]))
  BY <1>4, <1>6, <1>8
<1>. QED
  BY <1>1, <1>6, <1>8, <1>9, <1>10, <1>11, <1>12, HandledOne

(* A tool block is numbered once, in the order they come. *)
LEMMA Numbering ==
  ASSUME OrdinalTypes, NEW block, MayNumber(block), ordinals' = WithOrdinal(block)
  PROVE  /\ OrdinalTypes' /\ Ordinal(block) \in 0 .. MaxOrdinals - 1
         /\ Cardinality(DOMAIN ordinals) <= Cardinality(DOMAIN ordinals')
         /\ Cardinality(DOMAIN ordinals) \in Nat /\ Cardinality(DOMAIN ordinals') \in Nat
         /\ Ordinal(block) < Cardinality(DOMAIN ordinals')
         /\ \A b \in DOMAIN ordinals' : \/ b \in DOMAIN ordinals /\ ordinals'[b] = ordinals[b]
                                        \/ ordinals'[b] = Cardinality(DOMAIN ordinals)
<1>1. /\ DOMAIN ordinals' = DOMAIN ordinals \cup {block}
      /\ \A b \in DOMAIN ordinals' : ordinals'[b] = Ordinal(b)
      /\ IsFiniteSet(DOMAIN ordinals) /\ Cardinality(DOMAIN ordinals) \in 0 .. MaxOrdinals /\ MaxOrdinals \in Nat
      /\ \A b \in DOMAIN ordinals : ordinals[b] \in Nat /\ ordinals[b] < Cardinality(DOMAIN ordinals)
  BY StreamAssumption DEF WithOrdinal, OrdinalTypes
<1>2. CASE block \in DOMAIN ordinals
  <2>1. DOMAIN ordinals' = DOMAIN ordinals /\ \A b \in DOMAIN ordinals : ordinals'[b] = ordinals[b]
    BY <1>1, <1>2 DEF Ordinal
  <2>2. Ordinal(block) = ordinals[block]
    BY <1>2 DEF Ordinal
  <2>3. Ordinal(block) \in Nat /\ Ordinal(block) < Cardinality(DOMAIN ordinals)
    BY <1>1, <1>2, <2>2
  <2>4. Cardinality(DOMAIN ordinals') = Cardinality(DOMAIN ordinals)
    BY <2>1
  <2>5. Cardinality(DOMAIN ordinals) \in Nat /\ Ordinal(block) \in 0 .. MaxOrdinals - 1
    BY <1>1, <2>3
  <2>6. OrdinalTypes'
    BY <1>1, <2>1, <2>4 DEF OrdinalTypes
  <2>. QED
    BY <2>1, <2>3, <2>4, <2>5, <2>6
<1>3. CASE block \notin DOMAIN ordinals
  <2>1. /\ IsFiniteSet(DOMAIN ordinals') /\ Cardinality(DOMAIN ordinals') = Cardinality(DOMAIN ordinals) + 1
    BY <1>1, <1>3, FS_AddElement
  <2>2. Ordinal(block) = Cardinality(DOMAIN ordinals) /\ Cardinality(DOMAIN ordinals) < MaxOrdinals
    BY <1>3 DEF Ordinal, MayNumber
  <2>3. \A b \in DOMAIN ordinals : ordinals'[b] = ordinals[b]
    BY <1>1 DEF Ordinal
  <2>4. \A b \in DOMAIN ordinals' : b \in DOMAIN ordinals \/ b = block
    BY <1>1
  <2>5. ordinals'[block] = Cardinality(DOMAIN ordinals)
    BY <1>1, <2>2
  <2>. QED
    BY <1>1, <2>1, <2>2, <2>3, <2>4, <2>5 DEF OrdinalTypes
<1>. QED
  BY <1>2, <1>3

(* The fragments of a channel are numbered below the count of the blocks;  *)
(* the count only rises.                                                   *)
LEMMA Raised ==
  ASSUME NEW c \in Nat, NEW d \in Nat, c <= d,
         \A n \in DOMAIN fed : fed[n] \in Key,
         \A n \in DOMAIN fed : fed[n][2] = Prose \/ fed[n][2] < c
  PROVE  \A n \in DOMAIN fed : fed[n][2] = Prose \/ fed[n][2] < d
<1>. SUFFICES ASSUME NEW n \in DOMAIN fed, fed[n][2] # Prose PROVE fed[n][2] < d
  OBVIOUS
<1>1. fed[n][2] \in Tool \cup {Prose} \cup 0 .. MaxOrdinals - 1
  BY DEF Key
<1>2. PICK x : x = fed[n][2]
  OBVIOUS
<1>3. x \in Int
  <2>1. x \in Tool => x \in Int
    BY StreamAssumption
  <2>2. x \in 0 .. MaxOrdinals - 1 => x \in Int
    BY StreamAssumption
  <2>3. x = Prose => x \in Int
    BY DEF Prose
  <2>. QED
    BY <1>1, <1>2, <2>1, <2>2, <2>3
<1>. QED
  BY <1>2, <1>3

LEMMA Unnumbered ==
  ASSUME NEW c \in Nat,
         \A n \in DOMAIN fed : fed[n][2] = Prose \/ fed[n][2] < c,
         \A b \in DOMAIN ordinals' : (b \in DOMAIN ordinals /\ ordinals'[b] = ordinals[b]) \/ ordinals'[b] = c
  PROVE  OrdinalsStay
<1>. SUFFICES ASSUME NEW b \in DOMAIN ordinals', ordinals'[b] = c, NEW n \in DOMAIN fed,
                     fed[n] = <<0, ordinals'[b]>>
              PROVE  FALSE
  BY DEF OrdinalsStay
<1>1. fed[n][2] = c
  OBVIOUS
<1>. QED
  BY <1>1 DEF Prose

LEMMA ToolStarts ==
  ASSUME LoopInv, NEW block \in ToolBlock, AnthropicToolStart(block)
  PROVE  LoopInv'
<1>1. /\ status = "chunk" /\ shape = "anthropic"
      /\ UNCHANGED <<shape, status, ending, fed, windows, watermark>>
      /\ MayNumber(block) /\ ordinals' = WithOrdinal(block) /\ Queue(<<Bare("text")>>)
  BY DEF AnthropicToolStart, Handles
<1>2. /\ fed \in Seq(Key) /\ windows \in Texts
      /\ \A n \in DOMAIN fed : n \in Shown(Output, fed[n]) \cup Range(Part(windows, fed[n]))
      /\ \A n \in DOMAIN fed : fed[n][2] = Prose \/ fed[n][2] < Cardinality(DOMAIN ordinals)
      /\ \A n \in DOMAIN fed : fed[n] \in Key
  BY <1>1, FedIs DEF LoopInv, LoopTypes, NothingIsLost, OrdinalsAreFresh
<1>3. /\ OrdinalTypes'
      /\ Cardinality(DOMAIN ordinals) <= Cardinality(DOMAIN ordinals')
      /\ Cardinality(DOMAIN ordinals) \in Nat /\ Cardinality(DOMAIN ordinals') \in Nat
      /\ \A b \in DOMAIN ordinals' : \/ b \in DOMAIN ordinals /\ ordinals'[b] = ordinals[b]
                                     \/ ordinals'[b] = Cardinality(DOMAIN ordinals)
  BY <1>1, Numbering DEF LoopInv, LoopTypes
<1>4. OrdinalsStay
  BY <1>2, <1>3, Unnumbered
<1>5. \A n \in DOMAIN fed' : fed'[n][2] = Prose \/ fed'[n][2] < Cardinality(DOMAIN ordinals')
  BY <1>1, <1>2, <1>3, Raised
<1>6. PICK p \in Pieces : p = Bare("text") /\ p.kind = "text" /\ p.asOf = Len(fed')
  BY <1>1, <1>2, BareIs DEF Kinds
<1>7. FedGrows
  BY <1>1, <1>2 DEF FedGrows
<1>8. Queue(<<p>>) /\ windows' \in Texts
  BY <1>1, <1>2, <1>6
<1>9. \A n \in DOMAIN fed' :
        n \in Shown(Output, fed'[n]) \cup Range(Part(p.text, fed'[n])) \cup Range(Part(windows', fed'[n]))
  BY <1>1, <1>2
<1>. QED
  BY <1>1, <1>3, <1>4, <1>5, <1>6, <1>7, <1>8, <1>9, HandledOne

LEMMA ArgumentsCome ==
  ASSUME LoopInv, NEW block \in ToolBlock, AnthropicArguments(block)
  PROVE  LoopInv'
<1>1. /\ status = "chunk" /\ shape = "anthropic" /\ UNCHANGED <<shape, status, ending, watermark>>
      /\ MayNumber(block) /\ ordinals' = WithOrdinal(block)
  BY DEF AnthropicArguments, Handles
<1>2. /\ OrdinalTypes' /\ Ordinal(block) \in 0 .. MaxOrdinals - 1
      /\ Cardinality(DOMAIN ordinals) <= Cardinality(DOMAIN ordinals')
      /\ Cardinality(DOMAIN ordinals) \in Nat /\ Cardinality(DOMAIN ordinals') \in Nat
      /\ Ordinal(block) < Cardinality(DOMAIN ordinals')
      /\ \A b \in DOMAIN ordinals' : \/ b \in DOMAIN ordinals /\ ordinals'[b] = ordinals[b]
                                     \/ ordinals'[b] = Cardinality(DOMAIN ordinals)
  BY <1>1, Numbering DEF LoopInv, LoopTypes
<1>3. PICK key \in Key : key = <<0, Ordinal(block)>>
  BY <1>2, StreamAssumption DEF Key
<1>4. fed' = Append(fed, key)
  BY <1>3 DEF AnthropicArguments
<1>5. PICK k \in 0 .. Len(Takes(key)) :
        /\ windows' = Kept(key, k)
        /\ Queue(<<Piece("text", 0, [w \in {key} |-> LetOut(w, k)], Len(fed) + 1)>>)
  BY <1>3 DEF AnthropicArguments
<1>6. PICK out : out = [w \in {key} |-> LetOut(key, k)] /\ out = [w \in {key} |-> LetOut(w, k)]
  OBVIOUS
<1>7. /\ FedGrows /\ Len(fed') = Len(fed) + 1 /\ out \in Texts /\ Kept(key, k) \in Texts
      /\ DOMAIN fed' = 1 .. Len(fed) + 1 /\ fed'[Len(fed) + 1] = key
      /\ \A n \in DOMAIN fed' :
           n \in Shown(Output, fed'[n]) \cup Range(Part(Kept(key, k), fed'[n])) \cup Range(Part(out, fed'[n]))
  BY <1>1, <1>4, <1>6, Feeding
<1>8. /\ Len(fed) \in Nat /\ DOMAIN fed = 1 .. Len(fed)
      /\ \A n \in DOMAIN fed : fed[n] \in Key
      /\ \A n \in DOMAIN fed : fed[n][2] = Prose \/ fed[n][2] < Cardinality(DOMAIN ordinals)
  BY <1>1, FedIs DEF LoopInv, LoopTypes, OrdinalsAreFresh
<1>9. PICK p \in Pieces : /\ p = Piece("text", 0, out, Len(fed) + 1) /\ p.kind = "text"
                          /\ p.text = out /\ p.asOf = Len(fed')
  <2>1. "text" \in Kinds /\ Len(fed) + 1 \in Nat
    BY <1>8 DEF Kinds
  <2>. QED
    BY <1>7, <2>1, PieceIs
<1>10. Queue(<<p>>) /\ windows' \in Texts
  BY <1>5, <1>6, <1>7, <1>9
<1>11. OrdinalsStay
  BY <1>2, <1>8, Unnumbered
<1>12. \A n \in DOMAIN fed' : fed'[n][2] = Prose \/ fed'[n][2] < Cardinality(DOMAIN ordinals')
  <2>1. \A n \in DOMAIN fed : fed[n][2] = Prose \/ fed[n][2] < Cardinality(DOMAIN ordinals')
    BY <1>2, <1>8, Raised
  <2>2. fed'[Len(fed) + 1][2] < Cardinality(DOMAIN ordinals')
    BY <1>2, <1>3, <1>7
  <2>3. \A n \in DOMAIN fed' : n \in DOMAIN fed \/ n = Len(fed) + 1
    BY <1>7, <1>8
  <2>. QED
    BY <1>7, <2>1, <2>2, <2>3 DEF FedGrows
<1>13. \A n \in DOMAIN fed' :
         n \in Shown(Output, fed'[n]) \cup Range(Part(p.text, fed'[n])) \cup Range(Part(windows', fed'[n]))
  BY <1>5, <1>7, <1>9
<1>. QED
  BY <1>1, <1>2, <1>7, <1>9, <1>10, <1>11, <1>12, <1>13, HandledOne

(* A tool block stops: what its window held goes before.                   *)
LEMMA BlockStops ==
  ASSUME LoopInv, NEW block \in ToolBlock, AnthropicStop(block)
  PROVE  LoopInv'
<1>1. /\ status = "chunk" /\ shape = "anthropic" /\ block \in Nat
      /\ UNCHANGED <<shape, status, ending, fed, ordinals, watermark>>
  BY StreamAssumption DEF AnthropicStop, Handles
<1>2. /\ fed \in Seq(Key) /\ windows \in Texts /\ Len(fed) \in Nat
      /\ \A n \in DOMAIN fed : n \in Shown(Output, fed[n]) \cup Range(Part(windows, fed[n]))
      /\ \A n \in DOMAIN fed : fed[n][2] = Prose \/ fed[n][2] < Cardinality(DOMAIN ordinals)
      /\ DOMAIN windows \subseteq Key /\ IsFiniteSet(DOMAIN windows)
      /\ \A w \in DOMAIN windows : windows[w] \in Seq(Nat)
  BY <1>1, FedIs, TextIs DEF LoopInv, LoopTypes, NothingIsLost, OrdinalsAreFresh
<1>3. PICK keys : keys = {<<0, ordinals[b]>> : b \in {block} \cap DOMAIN ordinals} \cap DOMAIN windows
  OBVIOUS
<1>4. /\ windows' \in {Drained(windows, keys), Drained(Borrowed, keys)}
      /\ Queue((IF \E w \in keys : windows[w] # <<>>
                  THEN <<Piece("text", 0, [w \in keys |-> windows[w]], Len(fed))>> ELSE <<>>)
               \o <<[Bare("stop") EXCEPT !.choice = block]>>)
  BY <1>3 DEF AnthropicStop
<1>5. windows' \in Texts /\ \A w : Part(windows', w) = IF w \in keys THEN <<>> ELSE Part(windows, w)
  <2>1. Borrowed \in Texts /\ \A w : Part(Borrowed, w) = Part(windows, w)
    BY <1>2, Borrowing
  <2>2. CASE windows' = Drained(windows, keys)
    BY <1>2, <2>2, Draining
  <2>3. CASE windows' = Drained(Borrowed, keys)
    BY <2>1, <2>3, Draining
  <2>. QED
    BY <1>4, <2>2, <2>3
<1>6. PICK stop \in Pieces : /\ stop = [Bare("stop") EXCEPT !.choice = block] /\ stop.kind = "stop"
                             /\ stop.choice = block /\ stop.asOf = Len(fed)
  <2>1. [Bare("stop") EXCEPT !.choice = block] = Piece("stop", block, NoText, Len(fed))
    BY DEF Bare, Piece
  <2>2. "stop" \in Kinds /\ NoText \in Texts
    BY NoTextIs DEF Kinds
  <2>. QED
    BY <1>1, <1>2, <2>1, <2>2, PieceIs
<1>7. [w \in keys |-> windows[w]] \in Texts
  <2>1. keys \in SUBSET Key /\ IsFiniteSet(keys) /\ [w \in keys |-> windows[w]] \in [keys -> Seq(Nat)]
    BY <1>2, <1>3, FS_Subset
  <2>. QED
    BY <2>1, IsText
<1>8. PICK t \in Pieces : /\ t = Piece("text", 0, [w \in keys |-> windows[w]], Len(fed)) /\ t.kind = "text"
                          /\ t.text = [w \in keys |-> windows[w]] /\ t.asOf = Len(fed)
  <2>1. PICK x \in Texts : x = [w \in keys |-> windows[w]]
    BY <1>7
  <2>2. "text" \in Kinds /\ 0 \in Nat
    BY DEF Kinds
  <2>3. PICK m \in Nat : m = Len(fed)
    BY <1>2
  <2>4. LET p == Piece("text", 0, x, m) IN p \in Pieces /\ p.kind = "text" /\ p.text = x /\ p.asOf = m
    BY <2>2, PieceIs
  <2>. QED
    BY <2>1, <2>3, <2>4
<1>9. PICK ps \in Seq(Pieces), e \in Nat :
        /\ e \in DOMAIN ps /\ e = Len(ps) /\ ps[e] = stop /\ Queue(ps)
        /\ \A j \in DOMAIN ps : j # e => ps[j] = t
        /\ \A key \in keys : windows[key] # <<>> => Range(windows[key]) \subseteq Shown(ps, key)
  <2>1. CASE \E w \in keys : windows[w] # <<>>
    <3>1. Queue(<<t>> \o <<stop>>)
      BY <1>4, <1>6, <1>8, <2>1
    <3>2. PICK a \in Seq(Pieces), z \in Seq(Pieces) : a = <<t>> /\ z = <<stop>>
      BY OnePiece
    <3>3. /\ Len(a) = 1 /\ DOMAIN a = {1} /\ a[1] = t /\ \A key : Shown(a, key) = Range(Part(t.text, key))
          /\ Len(z) = 1 /\ DOMAIN z = {1} /\ z[1] = stop
      BY <3>2, OnePiece
    <3>4. /\ a \o z \in Seq(Pieces) /\ Len(a \o z) = 2 /\ DOMAIN (a \o z) = 1 .. 2
          /\ (a \o z)[1] = t /\ (a \o z)[2] = stop
      <4>1. /\ a \o z \in Seq(Pieces) /\ Len(a \o z) = Len(a) + Len(z) /\ DOMAIN (a \o z) = 1 .. Len(a) + Len(z)
            /\ \A i \in DOMAIN a : (a \o z)[i] = a[i]
            /\ \A j \in DOMAIN z : (a \o z)[Len(a) + j] = z[j]
        BY Joined
      <4>. QED
        BY <3>3, <4>1
    <3>5. \A key \in keys : Range(windows[key]) \subseteq Shown(a \o z, key)
      BY <1>8, <3>3, ShownOfJoin DEF Part
    <3>6. Queue(a \o z)
      BY <3>1, <3>2
    <3>7. 2 \in DOMAIN (a \o z) /\ \A j \in DOMAIN (a \o z) : j # 2 => j = 1
      BY <3>4
    <3>. QED
      BY <3>4, <3>5, <3>6, <3>7
  <2>2. CASE ~ \E w \in keys : windows[w] # <<>>
    <3>1. <<>> \o <<stop>> = <<stop>>
      OBVIOUS
    <3>2. PICK z \in Seq(Pieces) : z = <<stop>>
      BY OnePiece
    <3>3. Queue(z)
      BY <1>4, <1>6, <2>2, <3>1, <3>2
    <3>4. Len(z) = 1 /\ DOMAIN z = {1} /\ z[1] = stop
      BY <3>2, OnePiece
    <3>. QED
      BY <2>2, <3>3, <3>4
  <2>. QED
    BY <2>1, <2>2
<1>10. FedGrows /\ OrdinalsStay /\ OrdinalTypes'
  BY <1>1, <1>2 DEF FedGrows, OrdinalsStay, LoopInv, LoopTypes, OrdinalTypes
<1>11. \A n \in DOMAIN fed' :
         n \in Shown(Output, fed'[n]) \cup Shown(ps, fed'[n]) \cup Range(Part(windows', fed'[n]))
  <2>. SUFFICES ASSUME NEW n \in DOMAIN fed, n \in Range(Part(windows, fed[n]))
                PROVE  n \in Shown(ps, fed[n]) \cup Range(Part(windows', fed[n]))
    BY <1>1, <1>2
  <2>1. CASE fed[n] \in keys
    <3>1. Part(windows, fed[n]) = windows[fed[n]]
      BY <1>3, <2>1 DEF Part
    <3>2. windows[fed[n]] # <<>>
      BY <3>1 DEF Range
    <3>. QED
      BY <1>9, <2>1, <3>1, <3>2
  <2>2. CASE fed[n] \notin keys
    BY <1>5, <2>2
  <2>. QED
    BY <2>1, <2>2
<1>12. \A b \in {block} \cap DOMAIN ordinals' : Part(windows', <<0, ordinals'[b]>>) = <<>>
  <2>. SUFFICES ASSUME NEW b \in {block} \cap DOMAIN ordinals PROVE Part(windows', <<0, ordinals[b]>>) = <<>>
    BY <1>1
  <2>0. PICK key : key = <<0, ordinals[b]>>
    OBVIOUS
  <2>1. CASE key \in DOMAIN windows
    <3>1. key \in keys
      BY <1>3, <2>0, <2>1
    <3>. QED
      BY <1>5, <2>0, <3>1
  <2>2. CASE key \notin DOMAIN windows
    <3>1. key \notin keys /\ Part(windows, key) = <<>>
      BY <1>3, <2>2 DEF Part
    <3>. QED
      BY <1>5, <2>0, <3>1
  <2>. QED
    BY <2>1, <2>2
<1>13. \A j \in DOMAIN ps : /\ ps[j].asOf <= Len(fed') /\ (j # e => ps[j].kind \in {"text", "watermark"})
                            /\ ps[j].kind # "watermark"
  <2>1. Len(fed') = Len(fed) /\ Len(fed) <= Len(fed)
    BY <1>1, <1>2
  <2>. QED
    BY <1>6, <1>8, <1>9, <2>1
<1>. QED
  BY <1>1, <1>2, <1>5, <1>6, <1>9, <1>10, <1>11, <1>12, <1>13, Handled

-----------------------------------------------------------------------------
(* [DONE], and the ends of the stream *)

(* The flush: one piece of text for each channel that holds some.          *)
LEMMA Flushing ==
  ASSUME windows \in Texts, fed \in Seq(Key), NEW order \in FlushOrders
  PROVE  /\ FlushAll(order) \in Seq(Pieces)
         /\ \A j \in DOMAIN FlushAll(order) :
              FlushAll(order)[j].kind = "text" /\ FlushAll(order)[j].asOf = Len(fed)
         /\ \A key : Range(Part(windows, key)) \subseteq Shown(FlushAll(order), key)
         /\ \A key : TextIn(FlushAll(order), key) = Part(windows, key)
<1>1. /\ DOMAIN windows \subseteq Key /\ IsFiniteSet(DOMAIN windows) /\ Len(fed) \in Nat
      /\ \A w \in DOMAIN windows : windows[w] \in Seq(Nat)
  BY TextIs, FedIs
<1>2. PICK holding : /\ holding = {key \in DOMAIN windows : windows[key] # <<>>}
                    /\ order \in Bijection(1 .. Cardinality(holding), holding)
  BY DEF FlushOrders
<1>3. PICK c \in Nat : c = Cardinality(holding)
  BY <1>1, <1>2, FS_Subset, FS_CardinalityType
<1>4. /\ order \in [1 .. c -> holding] /\ \A w \in holding : \E i \in 1 .. c : order[i] = w
      /\ \A i, j \in 1 .. c : order[i] = order[j] => i = j
  BY <1>2, <1>3 DEF Bijection, Surjection, Injection, IsInjective
<1>5. ASSUME NEW i \in 1 .. c
      PROVE  LET p == Piece("text", order[i][1], [w \in {order[i]} |-> windows[w]], Len(fed))
             IN  /\ p \in Pieces /\ p.kind = "text" /\ p.asOf = Len(fed)
                 /\ p.text = [w \in {order[i]} |-> windows[w]]
  <2>0. order[i] \in holding
    BY <1>4
  <2>1. order[i] \in DOMAIN windows /\ order[i] \in Key /\ order[i][1] \in Nat
    <3>1. order[i] \in DOMAIN windows /\ order[i] \in Key
      BY <1>1, <1>2, <2>0
    <3>2. order[i][1] \in Choice
      BY <3>1 DEF Key
    <3>. QED
      BY <3>1, <3>2, StreamAssumption
  <2>2. [w \in {order[i]} |-> windows[w]] \in Texts
    <3>1. /\ {order[i]} \in SUBSET Key /\ IsFiniteSet({order[i]})
          /\ [w \in {order[i]} |-> windows[w]] \in [{order[i]} -> Seq(Nat)]
      BY <1>1, <2>1, FS_Singleton
    <3>. QED
      BY <3>1, IsText
  <2>3. PICK x \in Texts : x = [w \in {order[i]} |-> windows[w]]
    BY <2>2
  <2>4. "text" \in Kinds
    BY DEF Kinds
  <2>. QED
    BY <1>1, <2>1, <2>3, <2>4, PieceIs
<1>6. PICK ps : ps = FlushAll(order)
  OBVIOUS
<1>7. /\ DOMAIN ps = 1 .. c /\ \A i \in 1 .. c : /\ ps[i] \in Pieces /\ ps[i].kind = "text" /\ ps[i].asOf = Len(fed)
                                                /\ ps[i].text = [w \in {order[i]} |-> windows[w]]
      /\ ps = [i \in 1 .. c |-> ps[i]]
  <2>1. ps = [i \in 1 .. c |-> Piece("text", order[i][1], [w \in {order[i]} |-> windows[w]], Len(fed))]
    BY <1>4, <1>6 DEF FlushAll
  <2>. QED
    BY <1>5, <2>1
<1>8. ps \in Seq(Pieces)
  <2>1. ps \in [1 .. c -> Pieces]
    BY <1>7
  <2>. QED
    BY <1>3, <2>1, SeqDef
<1>9. ASSUME NEW key PROVE Range(Part(windows, key)) \subseteq Shown(ps, key)
  <2>1. CASE key \in holding
    <3>1. PICK i \in 1 .. c : order[i] = key
      BY <1>4, <2>1
    <3>2. TextOf(ps[i], key) = windows[key]
      <4>1. ps[i].text = [w \in {key} |-> windows[w]]
        BY <1>7, <3>1
      <4>2. key \in DOMAIN ps[i].text /\ ps[i].text[key] = windows[key]
        BY <4>1
      <4>. QED
        BY <4>2 DEF TextOf
    <3>3. Part(windows, key) = windows[key]
      BY <1>2, <2>1 DEF Part
    <3>. QED
      BY <1>7, <3>2, <3>3 DEF Shown
  <2>2. CASE key \notin holding
    <3>1. Part(windows, key) = <<>>
      BY <1>2, <2>2 DEF Part
    <3>. QED
      BY <3>1 DEF Range
  <2>. QED
    BY <2>1, <2>2
<1>10. Len(ps) = c
  BY <1>3, <1>7, <1>8
<1>11. ASSUME NEW key PROVE TextIn(ps, key) = Part(windows, key)
  <2>1. PICK x \in Seq(Seq(Nat)) :
          /\ x = [i \in DOMAIN ps |-> TextOf(ps[i], key)] /\ Len(x) = c
          /\ \A i \in 1 .. c : x[i] = Part(ps[i].text, key)
    BY <1>8, <1>10, TextsAre
  <2>2. \A i \in 1 .. c : x[i] = IF order[i] = key THEN windows[key] ELSE <<>>
    <3>1. ASSUME NEW i \in 1 .. c PROVE Part(ps[i].text, key) = IF order[i] = key THEN windows[key] ELSE <<>>
      <4>1. ps[i].text = [w \in {order[i]} |-> windows[w]]
        BY <1>7
      <4>. QED
        BY <4>1 DEF Part
    <3>. QED
      BY <2>1, <3>1
  <2>3. CASE key \in holding
    <3>1. PICK i \in 1 .. c : order[i] = key
      BY <1>4, <2>3
    <3>2. \A j \in 1 .. Len(x) : j # i => x[j] = <<>>
      <4>1. \A j \in 1 .. c : j # i => order[j] # key
        BY <1>4, <3>1
      <4>. QED
        BY <2>1, <2>2, <4>1
    <3>3. FlattenSeq(x) = x[i]
      BY <2>1, <3>2, FlattenOnly
    <3>. QED
      BY <1>2, <2>1, <2>2, <2>3, <3>1, <3>3 DEF Part, TextIn
  <2>4. CASE key \notin holding
    <3>1. \A j \in 1 .. Len(x) : x[j] = <<>>
      <4>1. \A i \in 1 .. c : order[i] \in holding
        BY <1>4
      <4>. QED
        BY <2>1, <2>2, <2>4, <4>1
    <3>2. FlattenSeq(x) = <<>>
      BY <3>1, FlattenNothing
    <3>. QED
      BY <1>2, <2>1, <2>4, <3>2 DEF Part, TextIn
  <2>. QED
    BY <2>3, <2>4
<1>. QED
  BY <1>6, <1>7, <1>8, <1>9, <1>11

(* What a stream that ends puts out: the flush, the watermark if it is     *)
(* still owed, and perhaps a last piece.                                   *)
LEMMA Signing ==
  ASSUME LoopInv, NEW order \in FlushOrders, NEW ps, ps = FlushAll(order) \o Watermark
  PROVE  /\ ps \in Seq(Pieces)
         /\ \A j \in DOMAIN ps : ps[j].kind \in {"text", "watermark"} /\ ps[j].asOf <= Len(fed)
         /\ \A key : Range(Part(windows, key)) \subseteq Shown(ps, key)
         /\ ~watermark => \A j \in DOMAIN ps : ps[j].kind # "watermark"
         /\ \A i, j \in DOMAIN ps : ps[i].kind = "watermark" /\ ps[j].kind = "watermark" => i = j
<1>1. fed \in Seq(Key) /\ windows \in Texts /\ Len(fed) \in Nat
  BY FedIs DEF LoopInv, LoopTypes
<1>2. PICK f \in Seq(Pieces) :
        /\ f = FlushAll(order) /\ \A j \in DOMAIN f : f[j].kind = "text" /\ f[j].asOf = Len(fed)
        /\ \A key : Range(Part(windows, key)) \subseteq Shown(f, key)
  BY <1>1, Flushing
<1>3. PICK m \in Seq(Pieces) :
        /\ m = Watermark /\ (~watermark => m = <<>>)
        /\ Len(m) <= 1 /\ \A j \in DOMAIN m : m[j].kind = "watermark" /\ m[j].asOf = Len(fed)
  <2>1. PICK p \in Pieces : p = Bare("watermark") /\ p.kind = "watermark" /\ p.asOf = Len(fed)
    BY <1>1, BareIs DEF Kinds
  <2>2. PICK u \in Seq(Pieces) : /\ u = <<p>> /\ Len(u) <= 1
                                 /\ \A j \in DOMAIN u : u[j].kind = "watermark" /\ u[j].asOf = Len(fed)
    <3>1. /\ <<p>> \in Seq(Pieces) /\ Len(<<p>>) = 1 /\ DOMAIN <<p>> = {1} /\ <<p>>[1] = p
      BY OnePiece
    <3>2. PICK w \in Seq(Pieces) : w = <<p>> /\ Len(w) = 1 /\ DOMAIN w = {1} /\ w[1] = p
      BY <3>1
    <3>3. Len(w) <= 1 /\ \A j \in DOMAIN w : w[j].kind = "watermark" /\ w[j].asOf = Len(fed)
      BY <2>1, <3>2
    <3>. QED
      BY <3>2, <3>3, Zenon
  <2>3. PICK v \in Seq(Pieces) : v = <<>> /\ Len(v) = 0 /\ DOMAIN v = {}
    <3>1. <<>> \in Seq(Pieces) /\ Len(<<>>) = 0 /\ DOMAIN <<>> = {}
      OBVIOUS
    <3>. QED
      BY <3>1
  <2>4. (watermark => Watermark = u) /\ (~watermark => Watermark = v) /\ Watermark \in {u, v}
    BY <2>1, <2>2, <2>3 DEF Watermark
  <2>5. /\ Watermark \in Seq(Pieces) /\ Len(Watermark) <= 1
        /\ \A j \in DOMAIN Watermark : Watermark[j].kind = "watermark" /\ Watermark[j].asOf = Len(fed)
    <3>1. Len(v) <= 1 /\ \A j \in DOMAIN v : v[j].kind = "watermark" /\ v[j].asOf = Len(fed)
      BY <2>3
    <3>. QED
      BY <2>2, <2>4, <3>1, Zenon
  <2>6. ~watermark => Watermark = <<>>
    BY <2>3, <2>4
  <2>. QED
    BY <2>5, <2>6, Zenon
<1>4. /\ ps = f \o m /\ f \o m \in Seq(Pieces) /\ Len(f) \in Nat /\ Len(m) \in Nat
      /\ DOMAIN f = 1 .. Len(f) /\ DOMAIN m = 1 .. Len(m) /\ DOMAIN (f \o m) = 1 .. Len(f) + Len(m)
      /\ \A i \in DOMAIN f : (f \o m)[i] = f[i]
      /\ \A j \in DOMAIN m : (f \o m)[Len(f) + j] = m[j]
      /\ \A i \in DOMAIN (f \o m) : i \in DOMAIN f \/ i - Len(f) \in DOMAIN m
  BY <1>2, <1>3, Joined
<1>5. ASSUME NEW i \in DOMAIN ps
      PROVE  \/ ps[i].kind = "text" /\ ps[i].asOf = Len(fed)
             \/ ps[i].kind = "watermark" /\ ps[i].asOf = Len(fed) /\ i = Len(f) + 1 /\ watermark
  <2>1. CASE i \in DOMAIN f
    BY <1>2, <1>4, <2>1
  <2>2. CASE i - Len(f) \in DOMAIN m
    <3>1. i - Len(f) = 1 /\ Len(f) + 1 = i
      BY <1>3, <1>4, <2>2
    <3>2. watermark
      <4>1. m # <<>>
        BY <1>4, <2>2
      <4>. QED
        BY <1>3, <4>1
    <3>. QED
      BY <1>3, <1>4, <2>2, <3>1, <3>2
  <2>. QED
    BY <1>4, <2>1, <2>2
<1>6. \A key : Range(Part(windows, key)) \subseteq Shown(ps, key)
  BY <1>2, <1>4, ShownOfJoin
<1>. QED
  BY <1>1, <1>4, <1>5, <1>6, SMTT(30)

(* Pieces that end nothing, or the error and what follows it.              *)
LEMMA PutAside ==
  ASSUME LoopInv, NEW ps \in Seq(Pieces), Output' = Output \o ps, UNCHANGED <<shape, fed, ordinals>>,
         \A j \in DOMAIN ps :
           /\ ps[j].asOf <= Len(fed) /\ ps[j].kind \notin {"finish", "stop"}
           /\ ps[j].kind = "done" => j - 1 \in DOMAIN ps /\ ps[j - 1].kind = "error"
  PROVE  FinishIsComplete' /\ DoneIsComplete' /\ PiecesAreDated'
<1>1. /\ Output \in Seq(Pieces) /\ Len(Output) \in Nat /\ DOMAIN Output = 1 .. Len(Output)
      /\ fed \in Seq(Key)
      /\ \A i \in DOMAIN Output : Output[i].asOf \in Nat /\ Output[i].asOf <= Len(fed) /\ Settled(i)
  BY OutputIs
<1>2. /\ Len(ps) \in Nat /\ DOMAIN ps = 1 .. Len(ps)
      /\ Output' \in Seq(Pieces) /\ DOMAIN Output' = 1 .. Len(Output) + Len(ps)
      /\ \A i \in DOMAIN Output : i \in DOMAIN Output' /\ Output'[i] = Output[i]
      /\ \A j \in DOMAIN ps : Len(Output) + j \in DOMAIN Output' /\ Output'[Len(Output) + j] = ps[j]
      /\ \A i \in DOMAIN Output' : i \in DOMAIN Output \/ i - Len(Output) \in DOMAIN ps
  BY <1>1, Joined
<1>3. FedGrows /\ OrdinalsStay
  BY <1>1 DEF FedGrows, OrdinalsStay
<1>4. ASSUME NEW i \in DOMAIN Output'
      PROVE  Settled(i)' /\ Output'[i].asOf <= Len(fed')
  <2>1. CASE i \in DOMAIN Output
    <3>1. i \in Nat /\ i >= 1 /\ \A j \in 1 .. i : Output'[j] = Output[j]
      BY <1>1, <1>2, <2>1
    <3>2. Settled(i)'
      BY <1>1, <1>3, <2>1, <3>1, StaysSettled
    <3>. QED
      BY <1>1, <1>2, <2>1, <3>2
  <2>2. CASE i - Len(Output) \in DOMAIN ps
    <3>1. PICK j \in DOMAIN ps : j = i - Len(Output) /\ j \in Nat /\ i = Len(Output) + j
      BY <1>1, <1>2, <2>2
    <3>2. Output'[i] = ps[j]
      BY <1>2, <3>1
    <3>3. Output'[i].kind = "done" => i # 1 /\ Output'[i - 1].kind = "error"
      <4>. SUFFICES ASSUME ps[j].kind = "done" PROVE i # 1 /\ Output'[i - 1].kind = "error"
        BY <3>2
      <4>1. j - 1 \in DOMAIN ps /\ ps[j - 1].kind = "error"
        OBVIOUS
      <4>2. Len(Output) + (j - 1) = i - 1 /\ i # 1
        BY <1>1, <1>2, <3>1, <4>1
      <4>3. Output'[Len(Output) + (j - 1)] = ps[j - 1]
        BY <1>2, <4>1
      <4>. QED
        BY <4>1, <4>2, <4>3
    <3>. QED
      BY <3>2, <3>3 DEF Settled
  <2>. QED
    BY <1>2, <2>1, <2>2
<1>5. (FinishIsComplete' /\ DoneIsComplete') <=> \A i \in DOMAIN Output' : Settled(i)'
  BY DEF FinishIsComplete, DoneIsComplete, Settled, Finished
<1>. QED
  BY <1>4, <1>5 DEF PiecesAreDated

(* data: [DONE], spelled with its space                                    *)
LEMMA DoneComes ==
  ASSUME LoopInv, Done("spaced")
  PROVE  LoopInv'
<1>1. /\ status = "chunk" /\ UNCHANGED <<shape, status, ending, fed, ordinals>>
      /\ windows' = Drained(windows, DOMAIN windows) /\ watermark' = FALSE
  BY DEF Done, Handles
<1>2. PICK order \in FlushOrders : Queue(FlushAll(order) \o Watermark \o <<Bare("done")>>)
  BY DEF Done
<1>3. PICK s \in Seq(Pieces) :
        /\ s = FlushAll(order) \o Watermark
        /\ \A j \in DOMAIN s : s[j].kind \in {"text", "watermark"} /\ s[j].asOf <= Len(fed)
        /\ \A key : Range(Part(windows, key)) \subseteq Shown(s, key)
        /\ ~watermark => \A j \in DOMAIN s : s[j].kind # "watermark"
        /\ \A i, j \in DOMAIN s : s[i].kind = "watermark" /\ s[j].kind = "watermark" => i = j
  BY Signing
<1>4. /\ fed \in Seq(Key) /\ windows \in Texts /\ Len(fed) \in Nat
      /\ \A n \in DOMAIN fed : n \in Shown(Output, fed[n]) \cup Range(Part(windows, fed[n]))
  BY <1>1, FedIs DEF LoopInv, LoopTypes, NothingIsLost
<1>5. PICK d \in Pieces : d = Bare("done") /\ d.kind = "done" /\ d.asOf = Len(fed)
  BY <1>4, BareIs DEF Kinds
<1>6. PICK z \in Seq(Pieces) : z = <<d>> /\ Len(z) = 1 /\ DOMAIN z = {1} /\ z[1] = d
  BY OnePiece
<1>7. PICK ps \in Seq(Pieces) : ps = s \o z /\ Queue(ps)
  BY <1>2, <1>3, <1>5, <1>6, Joined
<1>8. PICK e \in Nat :
        /\ e \in DOMAIN ps /\ e = Len(ps) /\ ps[e] = d
        /\ \A j \in DOMAIN ps : j # e => j \in DOMAIN s /\ ps[j] = s[j] /\ j < e
  <2>1. /\ Len(s) \in Nat /\ DOMAIN s = 1 .. Len(s) /\ DOMAIN ps = 1 .. Len(s) + 1 /\ Len(ps) = Len(s) + 1
        /\ \A i \in DOMAIN s : ps[i] = s[i]
        /\ ps[Len(s) + 1] = d
    BY <1>6, <1>7, Joined
  <2>. QED
    BY <2>1
<1>9. FedGrows /\ OrdinalsStay /\ OrdinalTypes'
  BY <1>1, <1>4 DEF FedGrows, OrdinalsStay, LoopInv, LoopTypes, OrdinalTypes
<1>10. windows' \in Texts /\ \A key : Part(windows', key) = <<>>
  <2>1. /\ windows' \in Texts
        /\ \A key : Part(windows', key) = IF key \in DOMAIN windows THEN <<>> ELSE Part(windows, key)
    BY <1>1, <1>4, Draining
  <2>. QED
    BY <2>1 DEF Part
<1>11. \A n \in DOMAIN fed' :
         n \in Shown(Output, fed'[n]) \cup Shown(ps, fed'[n]) \cup Range(Part(windows', fed'[n]))
  <2>1. \A key : Range(Part(windows, key)) \subseteq Shown(ps, key)
    <3>. SUFFICES ASSUME NEW key PROVE Range(Part(windows, key)) \subseteq Shown(ps, key)
      OBVIOUS
    <3>1. Shown(s \o z, key) = Shown(s, key) \cup Shown(z, key)
      BY ShownOfJoin
    <3>2. Range(Part(windows, key)) \subseteq Shown(s, key)
      BY <1>3
    <3>. QED
      BY <1>7, <3>1, <3>2
  <2>. QED
    BY <1>1, <1>4, <2>1
<1>12. \A j \in DOMAIN ps : ps[j].asOf <= Len(fed') /\ (j # e => ps[j].kind \in {"text", "watermark"})
  <2>1. fed' = fed /\ Len(fed) <= Len(fed)
    BY <1>1, <1>4
  <2>. SUFFICES ASSUME NEW j \in DOMAIN ps
                PROVE  ps[j].asOf <= Len(fed) /\ (j # e => ps[j].kind \in {"text", "watermark"})
    BY <2>1
  <2>2. CASE j = e
    BY <1>5, <1>8, <2>1, <2>2
  <2>3. CASE j # e
    BY <1>3, <1>8, <2>3
  <2>. QED
    BY <2>2, <2>3
<1>13. WatermarkOnce'
  <2>1. Output' = Output \o ps
    BY <1>7, Queued
  <2>2. CASE watermark
    <3>1. \A i \in DOMAIN Output : Output[i].kind \notin {"done", "watermark"}
      BY <1>1, <2>2 DEF LoopInv, SoFar
    <3>2. ASSUME NEW i \in DOMAIN ps, NEW j \in DOMAIN ps, ps[i].kind = "watermark"
          PROVE  (ps[j].kind = "watermark" => i = j) /\ (ps[j].kind = "done" => i < j)
      <4>1. i \in DOMAIN s /\ ps[i] = s[i] /\ i < e
        BY <1>5, <1>8, <3>2
      <4>2. CASE j = e
        BY <1>5, <1>8, <4>1, <4>2
      <4>3. CASE j # e
        BY <1>3, <1>8, <3>2, <4>1, <4>3
      <4>. QED
        BY <4>2, <4>3
    <3>. QED
      BY <2>1, <3>1, <3>2, FirstWatermark
  <2>3. CASE ~watermark
    <3>1. \A j \in DOMAIN ps : ps[j].kind # "watermark"
      BY <1>3, <1>5, <1>8, <2>3
    <3>. QED
      BY <2>1, <3>1, NoSecondWatermark
  <2>. QED
    BY <2>2, <2>3
<1>14. shape = "anthropic" =>
         \A n \in DOMAIN fed' : fed'[n][2] = Prose \/ fed'[n][2] < Cardinality(DOMAIN ordinals')
  BY <1>1 DEF LoopInv, OrdinalsAreFresh
<1>. QED
  BY <1>1, <1>5, <1>7, <1>8, <1>9, <1>10, <1>11, <1>12, <1>13, <1>14, Handled, ZenonT(60)

(* The output is what it was.                                              *)
LEMMA SameOutput ==
  ASSUME LoopInv, Output' = Output, UNCHANGED <<shape, fed, ordinals>>,
         ending' = ending \/ ending' # "aborted"
  PROVE  OrdinalsAreFresh' /\ PiecesAreDated' /\ EndsAreComplete'
<1>1. OrdinalsAreFresh' /\ PiecesAreDated'
  BY DEF LoopInv, OrdinalsAreFresh, PiecesAreDated
<1>2. FinishIsComplete' /\ DoneIsComplete'
  BY DEF LoopInv, EndsAreComplete, FinishIsComplete, DoneIsComplete, ShownBy, Finishing
<1>3. AbortEndsTheReply' /\ WatermarkOnce'
  BY DEF LoopInv, EndsAreComplete, AbortEndsTheReply, WatermarkOnce
<1>. QED
  BY <1>1, <1>2, <1>3 DEF EndsAreComplete

LEMMA ChunkComesOrEnds ==
  ASSUME LoopInv, ChunkArrives \/ ChunkEnds
  PROVE  LoopInv'
<1>1. sent \in Seq(Pieces) /\ outgoing \in Seq(Pieces) /\ <<>> \in Seq(Pieces)
  BY DEF LoopInv, LoopTypes
<1>2. /\ sent' \in Seq(Pieces) /\ outgoing' \in Seq(Pieces) /\ Output' = Output
      /\ status \in {"reading", "chunk"} /\ status' \in {"reading", "chunk"}
      /\ UNCHANGED <<shape, fed, windows, ordinals, watermark, ending>>
      /\ status' = "reading" => outgoing' = <<>>
  <2>1. CASE ChunkArrives
    BY <1>1, <2>1 DEF ChunkArrives, Output
  <2>2. CASE ChunkEnds
    <3>1. sent' = sent \o outgoing /\ outgoing' = <<>>
      BY <2>2 DEF ChunkEnds, Write
    <3>2. (sent \o outgoing) \o <<>> = sent \o outgoing /\ sent \o outgoing \in Seq(Pieces)
      BY <1>1, ConcatProperties, ConcatEmptySeq
    <3>. QED
      BY <1>1, <2>2, <3>1, <3>2 DEF ChunkEnds, Output
  <2>. QED
    BY <2>1, <2>2
<1>3. LoopTypes' /\ NothingIsLost' /\ SoFar'
  <2>1. LoopTypes'
    BY <1>2 DEF LoopInv, LoopTypes, OrdinalTypes
  <2>2. NothingIsLost'
    BY <1>2 DEF LoopInv, NothingIsLost
  <2>3. SoFar'
    BY <1>2 DEF LoopInv, SoFar
  <2>. QED
    BY <2>1, <2>2, <2>3
<1>. QED
  BY <1>2, <1>3, SameOutput DEF LoopInv

(* The error and the [DONE] after it are the end.                          *)
LEMMA Aborted ==
  ASSUME LoopInv, status = "chunk", Abort
  PROVE  LoopInv'
<1>1. /\ sent \in Seq(Pieces) /\ outgoing \in Seq(Pieces) /\ fed \in Seq(Key) /\ Len(fed) \in Nat
      /\ \A i \in DOMAIN Output : Output[i].kind \notin {"error", "raw"}
  BY FedIs DEF LoopInv, LoopTypes, SoFar
<1>2. /\ ending' = "aborted" /\ status' = "closing" /\ outgoing' = outgoing \o <<Bare("error"), Bare("done")>>
      /\ UNCHANGED <<shape, fed, windows, ordinals, sent, watermark>>
  BY DEF Abort, Close
<1>3. PICK x \in Pieces, y \in Pieces :
        /\ x = Bare("error") /\ y = Bare("done") /\ x.kind = "error" /\ y.kind = "done"
        /\ x.asOf = Len(fed) /\ y.asOf = Len(fed)
  BY <1>1, BareIs DEF Kinds
<1>4. PICK ps \in Seq(Pieces) :
        ps = <<x, y>> /\ Len(ps) = 2 /\ DOMAIN ps = 1 .. 2 /\ ps[1] = x /\ ps[2] = y
  <2>1. <<x, y>> \in Seq(Pieces) /\ Len(<<x, y>>) = 2 /\ DOMAIN <<x, y>> = 1 .. 2
    OBVIOUS
  <2>. QED
    BY <2>1
<1>5. /\ outgoing' \in Seq(Pieces) /\ Output' = Output \o ps
  <2>1. outgoing' = outgoing \o ps /\ sent' = sent
    BY <1>2, <1>3, <1>4
  <2>. QED
    BY <1>1, <2>1, ConcatProperties, ConcatAssociative, SMTT(30) DEF Output
<1>6. \A j \in DOMAIN ps :
        /\ ps[j].asOf <= Len(fed) /\ ps[j].kind \notin {"finish", "stop"}
        /\ ps[j].kind # "watermark"
        /\ ps[j].kind = "done" => j - 1 \in DOMAIN ps /\ ps[j - 1].kind = "error"
  <2>1. ASSUME NEW j \in DOMAIN ps PROVE j = 1 \/ j = 2
    BY <1>4
  <2>2. 1 \in DOMAIN ps /\ 2 - 1 = 1
    BY <1>4
  <2>. QED
    BY <1>1, <1>3, <1>4, <2>1, <2>2
<1>7. FinishIsComplete' /\ DoneIsComplete' /\ PiecesAreDated'
  <2>1. Output' = Output \o ps /\ UNCHANGED <<shape, fed, ordinals>>
    BY <1>2, <1>5
  <2>. QED
    BY <1>6, <2>1, PutAside
<1>8. WatermarkOnce'
  <2>1. \A j \in DOMAIN ps : ps[j].kind # "watermark"
    BY <1>6
  <2>. QED
    BY <1>5, <2>1, NoSecondWatermark
<1>9. /\ Len(Output) \in Nat /\ DOMAIN Output = 1 .. Len(Output)
      /\ Len(Output') = Len(Output) + 2 /\ DOMAIN Output' = 1 .. Len(Output) + 2
      /\ \A i \in DOMAIN Output : Output'[i] = Output[i]
      /\ Output'[Len(Output) + 1] = x /\ Output'[Len(Output) + 2] = y
  <2>1. Output \in Seq(Pieces)
    BY OutputIs
  <2>. QED
    BY <1>4, <1>5, <2>1, Joined
<1>10. AbortEndsTheReply'
  <2>1. Len(Output') >= 2 /\ Len(Output') - 1 = Len(Output) + 1 /\ Len(Output') - 2 = Len(Output)
    BY <1>9
  <2>2. \A i \in 1 .. Len(Output) : Output'[i].kind \notin {"error", "raw"}
    BY <1>1, <1>9
  <2>. QED
    BY <1>3, <1>9, <2>1, <2>2 DEF AbortEndsTheReply
<1>11. OrdinalsAreFresh'
  <2>1. \A i \in DOMAIN Output' : i \in DOMAIN Output \/ i = Len(Output) + 1 \/ i = Len(Output) + 2
    BY <1>9
  <2>. QED
    BY <1>2, <1>3, <1>9, <2>1 DEF LoopInv, OrdinalsAreFresh
<1>12. LoopTypes' /\ NothingIsLost' /\ SoFar'
  BY <1>2, <1>5 DEF LoopInv, LoopTypes, OrdinalTypes, NothingIsLost, SoFar
<1>. QED
  BY <1>7, <1>8, <1>10, <1>11, <1>12 DEF LoopInv, EndsAreComplete

(* Fail open: what comes is passed on.                                     *)
LEMMA PassedOn ==
  ASSUME LoopInv, FailOpen \/ PassRaw
  PROVE  LoopInv'
<1>1. /\ sent \in Seq(Pieces) /\ outgoing \in Seq(Pieces) /\ fed \in Seq(Key) /\ Len(fed) \in Nat
      /\ <<>> \in Seq(Pieces)
  BY FedIs DEF LoopInv, LoopTypes
<1>2. /\ status \in {"chunk", "open"} /\ status' = "open" /\ outgoing' = <<>>
      /\ UNCHANGED <<shape, fed, windows, ordinals, watermark, ending>>
  BY DEF FailOpen, PassRaw, LoopInv, SoFar
<1>3. PICK x \in Pieces : x = Bare("raw") /\ x.kind = "raw" /\ x.asOf = Len(fed)
  BY <1>1, BareIs DEF Kinds
<1>4. PICK ps \in Seq(Pieces) : ps = <<x>> /\ Len(ps) = 1 /\ DOMAIN ps = {1} /\ ps[1] = x
  BY OnePiece
<1>5. /\ sent' \in Seq(Pieces) /\ Output' = Output \o ps
  <2>1. sent' = sent \o (outgoing \o ps)
    <3>1. CASE FailOpen
      <4>1. sent' = sent \o Append(outgoing, x)
        BY <1>3, <3>1 DEF FailOpen, Write
      <4>2. Append(outgoing, x) = outgoing \o ps
        BY <1>1, <1>4, AppendIsConcat
      <4>. QED
        BY <4>1, <4>2
    <3>2. CASE PassRaw
      <4>1. sent' = sent \o ps /\ outgoing = <<>>
        BY <1>3, <1>4, <3>2 DEF PassRaw, Write, LoopInv, SoFar
      <4>2. <<>> \o ps = ps
        BY ConcatEmptySeq
      <4>. QED
        BY <4>1, <4>2
    <3>. QED
      BY <3>1, <3>2
  <2>2. sent \o (outgoing \o ps) = Output \o ps /\ sent \o (outgoing \o ps) \in Seq(Pieces)
    BY <1>1, ConcatProperties, ConcatAssociative, SMTT(30) DEF Output
  <2>3. sent' \in Seq(Pieces) /\ sent' \o <<>> = sent'
    BY <2>1, <2>2, ConcatEmptySeq
  <2>. QED
    BY <1>2, <2>1, <2>2, <2>3 DEF Output
<1>6. \A j \in DOMAIN ps : ps[j].asOf <= Len(fed) /\ ps[j].kind = "raw"
  BY <1>1, <1>3, <1>4
<1>7. FinishIsComplete' /\ DoneIsComplete' /\ PiecesAreDated'
  BY <1>2, <1>5, <1>6, PutAside
<1>8. WatermarkOnce'
  BY <1>5, <1>6, NoSecondWatermark
<1>9. /\ DOMAIN Output' = 1 .. Len(Output) + 1 /\ Len(Output) \in Nat /\ DOMAIN Output = 1 .. Len(Output)
      /\ \A i \in DOMAIN Output : Output'[i] = Output[i]
      /\ Output'[Len(Output) + 1] = x
  <2>1. Output \in Seq(Pieces)
    BY OutputIs
  <2>. QED
    BY <1>4, <1>5, <2>1, Joined
<1>10. \A i \in DOMAIN Output' : i \in DOMAIN Output \/ i = Len(Output) + 1
  BY <1>9
<1>11. OrdinalsAreFresh'
  BY <1>2, <1>3, <1>9, <1>10 DEF LoopInv, OrdinalsAreFresh
<1>12. ending = "" /\ SoFar'
  <2>1. ending = "" /\ (watermark => \A i \in DOMAIN Output : Output[i].kind \notin {"done", "watermark"})
    BY <1>2 DEF LoopInv, SoFar
  <2>2. watermark' => \A i \in DOMAIN Output' : Output'[i].kind \notin {"done", "watermark"}
    BY <1>2, <1>3, <1>9, <1>10, <2>1
  <2>. QED
    BY <1>2, <2>1, <2>2 DEF SoFar
<1>13. LoopTypes' /\ NothingIsLost' /\ AbortEndsTheReply'
  BY <1>1, <1>2, <1>5, <1>12 DEF LoopInv, LoopTypes, OrdinalTypes, NothingIsLost, AbortEndsTheReply
<1>. QED
  BY <1>7, <1>8, <1>11, <1>12, <1>13 DEF LoopInv, EndsAreComplete

(* The last pieces are fixed; they are written, or lost with the client.   *)
LEMMA Closing ==
  ASSUME LoopInv, Canary \/ StopsOpen \/ WriteLast
  PROVE  LoopInv'
<1>1. sent \in Seq(Pieces) /\ outgoing \in Seq(Pieces) /\ <<>> \in Seq(Pieces)
  BY DEF LoopInv, LoopTypes
<1>2. /\ sent' \in Seq(Pieces) /\ outgoing' \in Seq(Pieces) /\ Output' = Output
      /\ status' \in {"closing", "ended"} /\ UNCHANGED <<shape, fed, windows, ordinals, watermark>>
      /\ status' = "ended" => outgoing' = <<>>
      /\ ending' = ending \/ ending' # "aborted"
  <2>1. CASE Canary
    BY <1>1, <2>1 DEF Canary, Close, Output
  <2>2. CASE StopsOpen
    BY <1>1, <2>2 DEF StopsOpen, Close, Output, LoopInv, SoFar
  <2>3. CASE WriteLast
    <3>1. CASE outgoing = <<>>
      BY <1>1, <2>3, <3>1 DEF WriteLast, Output
    <3>2. CASE outgoing # <<>>
      <4>1. /\ sent' = sent \o <<Head(outgoing)>> /\ outgoing' = Tail(outgoing) /\ status' = "closing"
            /\ UNCHANGED <<shape, fed, windows, ordinals, watermark, ending>>
        BY <2>3, <3>2 DEF WriteLast, Write
      <4>2. Head(outgoing) \in Pieces /\ Tail(outgoing) \in Seq(Pieces)
        BY <1>1, <3>2, HeadTailProperties
      <4>3. PICK h \in Seq(Pieces) : h = <<Head(outgoing)>>
        BY <4>2, OnePiece
      <4>4. h \o Tail(outgoing) = outgoing
        <5>1. Len(outgoing) \in Nat /\ Len(outgoing) >= 1 /\ Head(outgoing) = outgoing[1]
          BY <1>1, <3>2
        <5>2. SubSeq(outgoing, 1, Len(outgoing)) = <<outgoing[1]>> \o SubSeq(outgoing, 1 + 1, Len(outgoing))
          BY <1>1, <5>1, SubSeqRecursiveFirst
        <5>3. /\ SubSeq(outgoing, 1, Len(outgoing)) = outgoing
              /\ SubSeq(outgoing, 1 + 1, Len(outgoing)) = Tail(outgoing)
          BY <1>1, <3>2, TailIsSubSeq, SubSeqFull
        <5>. QED
          BY <4>3, <5>1, <5>2, <5>3
      <4>5. sent \o h \in Seq(Pieces) /\ (sent \o h) \o Tail(outgoing) = sent \o (h \o Tail(outgoing))
        BY <1>1, <4>2, <4>3, ConcatProperties, ConcatAssociative
      <4>. QED
        BY <4>1, <4>2, <4>3, <4>4, <4>5 DEF Output
    <3>. QED
      BY <3>1, <3>2
  <2>. QED
    BY <2>1, <2>2, <2>3
<1>3. LoopTypes' /\ NothingIsLost' /\ SoFar'
  BY <1>2 DEF LoopInv, LoopTypes, OrdinalTypes, NothingIsLost, SoFar
<1>. QED
  BY <1>2, <1>3, SameOutput DEF LoopInv

LEMMA Stopped ==
  ASSUME LoopInv, Stops
  PROVE  LoopInv'
<1>1. /\ status = "reading" /\ status' = "closing" /\ ending' = "complete" /\ watermark' = FALSE
      /\ windows' = Drained(windows, DOMAIN windows)
      /\ UNCHANGED <<shape, fed, ordinals, sent>>
  BY DEF Stops, Close
<1>2. PICK order \in FlushOrders : outgoing' = FlushAll(order) \o Watermark
  BY DEF Stops, Close
<1>3. PICK ps \in Seq(Pieces) :
        /\ ps = FlushAll(order) \o Watermark
        /\ \A j \in DOMAIN ps : ps[j].kind \in {"text", "watermark"} /\ ps[j].asOf <= Len(fed)
        /\ ~watermark => \A j \in DOMAIN ps : ps[j].kind # "watermark"
        /\ \A i, j \in DOMAIN ps : ps[i].kind = "watermark" /\ ps[j].kind = "watermark" => i = j
  BY Signing
<1>4. /\ sent \in Seq(Pieces) /\ outgoing = <<>> /\ windows \in Texts
      /\ Output \in Seq(Pieces)
  BY <1>1, OutputIs DEF LoopInv, LoopTypes, SoFar
<1>5. outgoing' \in Seq(Pieces) /\ Output' = Output \o ps
  <2>1. Output = sent
    BY <1>4, ConcatEmptySeq DEF Output
  <2>. QED
    BY <1>1, <1>2, <1>3, <2>1 DEF Output
<1>6. windows' \in Texts
  BY <1>1, <1>4, Draining
<1>7. FinishIsComplete' /\ DoneIsComplete' /\ PiecesAreDated'
  <2>1. \A j \in DOMAIN ps : /\ ps[j].asOf <= Len(fed) /\ ps[j].kind \notin {"finish", "stop"}
                             /\ ps[j].kind # "done"
    BY <1>3
  <2>. QED
    BY <1>1, <1>5, <2>1, PutAside
<1>8. WatermarkOnce'
  <2>1. CASE watermark
    <3>1. \A i \in DOMAIN Output : Output[i].kind \notin {"done", "watermark"}
      BY <1>1, <2>1 DEF LoopInv, SoFar
    <3>2. \A j \in DOMAIN ps : ps[j].kind # "done"
      BY <1>3
    <3>. QED
      BY <1>3, <1>5, <3>1, <3>2, FirstWatermark
  <2>2. CASE ~watermark
    BY <1>3, <1>5, <2>2, NoSecondWatermark
  <2>. QED
    BY <2>1, <2>2
<1>9. OrdinalsAreFresh'
  <2>1. /\ \A i \in DOMAIN Output : Output'[i] = Output[i]
        /\ \A j \in DOMAIN ps : Output'[Len(Output) + j] = ps[j]
        /\ \A i \in DOMAIN Output' : i \in DOMAIN Output \/ i - Len(Output) \in DOMAIN ps
        /\ Len(Output) \in Nat /\ DOMAIN Output' = 1 .. Len(Output) + Len(ps) /\ Len(ps) \in Nat
    BY <1>4, <1>5, Joined, SMTT(30)
  <2>2. ASSUME shape # "anthropic", NEW i \in DOMAIN Output' PROVE Output'[i].kind # "stop"
    <3>1. CASE i \in DOMAIN Output
      BY <2>1, <2>2, <3>1 DEF LoopInv, OrdinalsAreFresh
    <3>2. CASE i - Len(Output) \in DOMAIN ps
      <4>1. Len(Output) + (i - Len(Output)) = i
        BY <2>1, <2>2
      <4>2. Output'[i] = ps[i - Len(Output)]
        BY <2>1, <3>2, <4>1
      <4>. QED
        BY <1>3, <3>2, <4>2
    <3>. QED
      BY <2>1, <2>2, <3>1, <3>2
  <2>. QED
    BY <1>1, <2>2 DEF LoopInv, OrdinalsAreFresh
<1>10. LoopTypes' /\ NothingIsLost' /\ SoFar' /\ AbortEndsTheReply'
  BY <1>1, <1>5, <1>6 DEF LoopInv, LoopTypes, OrdinalTypes, NothingIsLost, SoFar, AbortEndsTheReply
<1>. QED
  BY <1>7, <1>8, <1>9, <1>10 DEF LoopInv, EndsAreComplete

LEMMA ClientLeaves ==
  ASSUME LoopInv, Disconnect
  PROVE  LoopInv'
<1>1. /\ status' = "ended" /\ ending' = "disconnected" /\ outgoing' = <<>>
      /\ UNCHANGED <<shape, fed, windows, ordinals, sent, watermark>>
  BY DEF Disconnect
<1>2. /\ sent \in Seq(Pieces) /\ outgoing \in Seq(Pieces) /\ <<>> \in Seq(Pieces)
      /\ \A i \in DOMAIN Output : Output[i].asOf \in Nat /\ Output[i].asOf <= Len(fed) /\ Settled(i)
      /\ fed \in Seq(Key)
  BY OutputIs DEF LoopInv, LoopTypes
<1>3. Output' = sent
  BY <1>1, <1>2, ConcatEmptySeq DEF Output
<1>4. /\ Len(sent) \in Nat /\ DOMAIN sent = 1 .. Len(sent)
      /\ \A i \in DOMAIN sent : i \in DOMAIN Output /\ Output[i] = sent[i]
  BY <1>2, Joined DEF Output
<1>5. FedGrows /\ OrdinalsStay
  BY <1>1, <1>2 DEF FedGrows, OrdinalsStay
<1>6. ASSUME NEW i \in DOMAIN Output'
      PROVE  Settled(i)' /\ Output'[i].asOf <= Len(fed') /\ i \in DOMAIN Output /\ Output'[i] = Output[i]
  <2>1. i \in Nat /\ i >= 1 /\ \A j \in 1 .. i : Output'[j] = Output[j]
    BY <1>3, <1>4
  <2>2. i \in DOMAIN Output /\ Output'[i] = Output[i]
    BY <1>3, <1>4
  <2>3. Settled(i)'
    BY <1>2, <1>5, <2>1, <2>2, StaysSettled
  <2>. QED
    BY <1>1, <1>2, <2>2, <2>3
<1>7. FinishIsComplete' /\ DoneIsComplete' /\ PiecesAreDated'
  <2>1. (FinishIsComplete' /\ DoneIsComplete') <=> \A i \in DOMAIN Output' : Settled(i)'
    BY DEF FinishIsComplete, DoneIsComplete, Settled, Finished
  <2>. QED
    BY <1>6, <2>1 DEF PiecesAreDated
<1>8. WatermarkOnce' /\ OrdinalsAreFresh'
  BY <1>1, <1>6 DEF LoopInv, EndsAreComplete, WatermarkOnce, OrdinalsAreFresh
<1>9. LoopTypes' /\ NothingIsLost' /\ SoFar' /\ AbortEndsTheReply'
  BY <1>1, <1>2 DEF LoopInv, LoopTypes, OrdinalTypes, NothingIsLost, SoFar, AbortEndsTheReply
<1>. QED
  BY <1>7, <1>8, <1>9 DEF LoopInv, EndsAreComplete

-----------------------------------------------------------------------------
LEMMA LoopBegins ==
  ASSUME Init
  PROVE  LoopInv
<1>1. /\ <<>> \in Seq(Key) /\ <<>> \in Seq(Pieces) /\ NoText \in Texts /\ DOMAIN <<>> = {} /\ <<>> \o <<>> = <<>>
      /\ IsFiniteSet({}) /\ Cardinality({}) = 0 /\ Len(<<>>) = 0
  BY NoTextIs, FS_EmptySet
<1>2. /\ shape \in {"chat", "completions", "anthropic"} /\ watermark = TRUE
      /\ status = "reading" /\ ending = ""
      /\ fed = <<>> /\ windows = NoText /\ ordinals = <<>> /\ outgoing = <<>> /\ sent = <<>>
  BY DEF Init, NoText
<1>3. Output = <<>> /\ DOMAIN Output = {}
  BY <1>1, <1>2 DEF Output
<1>4. LoopTypes
  <2>1. OrdinalTypes
    <3>1. DOMAIN ordinals = {} /\ IsFiniteSet(DOMAIN ordinals) /\ Cardinality(DOMAIN ordinals) = 0
      BY <1>1, <1>2
    <3>2. 0 \in 0 .. MaxOrdinals
      BY StreamAssumption
    <3>. QED
      BY <3>1, <3>2 DEF OrdinalTypes
  <2>2. fed \in Seq(Key) /\ windows \in Texts /\ sent \in Seq(Pieces) /\ outgoing \in Seq(Pieces)
    BY <1>1, <1>2
  <2>. QED
    BY <1>2, <2>1, <2>2, Zenon DEF LoopTypes
<1>. QED
  BY <1>1, <1>2, <1>3, <1>4 DEF LoopInv, OrdinalsAreFresh, PiecesAreDated, NothingIsLost, SoFar, EndsAreComplete,
    FinishIsComplete, DoneIsComplete, AbortEndsTheReply, WatermarkOnce

LEMMA LoopGoesOn ==
  ASSUME LoopInv, "unspaced" \notin Spacing, [Next]_vars
  PROVE  LoopInv'
<1>1. CASE ChunkArrives \/ ChunkEnds
  BY <1>1, ChunkComesOrEnds
<1>2. CASE Event
  <2>1. CASE \E c \in Choice, finish \in BOOLEAN :
               \/ Plain(c, finish)
               \/ \E part \in Tool \cup {Prose} : Opens(c, part, finish) \/ Delta(c, part, finish)
    BY <2>1, ChatEvent
  <2>2. CASE \E b \in TextBlock : AnthropicText(b)
    BY <2>2, ProseOfABlock
  <2>3. CASE \E b \in ToolBlock : AnthropicToolStart(b) \/ AnthropicArguments(b) \/ AnthropicStop(b)
    BY <2>3, ToolStarts, ArgumentsCome, BlockStops
  <2>4. CASE \E spacing \in Spacing : Done(spacing)
    <3>1. PICK spacing \in Spacing : Done(spacing)
      BY <2>4
    <3>2. spacing = "spaced"
      BY StreamAssumption
    <3>. QED
      BY <3>1, <3>2, DoneComes
  <2>. QED
    BY <1>2, <2>1, <2>2, <2>3, <2>4 DEF Event
<1>3. CASE CapacityBreach \/ FailClosed
  BY <1>3, Aborted DEF CapacityBreach, FailClosed
<1>4. CASE FailOpen \/ PassRaw
  BY <1>4, PassedOn
<1>5. CASE Canary \/ StopsOpen \/ WriteLast
  BY <1>5, Closing
<1>6. CASE Stops
  BY <1>6, Stopped
<1>7. CASE Disconnect
  BY <1>7, ClientLeaves
<1>8. CASE UNCHANGED vars
  <2>1. UNCHANGED <<shape, fed, windows, ordinals, outgoing, sent, watermark, status, ending>> /\ Output' = Output
    BY <1>8 DEF vars, Output
  <2>2. OrdinalsAreFresh' /\ PiecesAreDated' /\ EndsAreComplete'
    BY <2>1, SameOutput
  <2>3. LoopTypes' /\ NothingIsLost' /\ SoFar'
    BY <2>1 DEF LoopInv, LoopTypes, OrdinalTypes, NothingIsLost, SoFar
  <2>. QED
    BY <2>2, <2>3 DEF LoopInv
<1>. QED
  BY <1>1, <1>2, <1>3, <1>4, <1>5, <1>6, <1>7, <1>8 DEF Next

(* Where the upstream spells its [DONE] with a space, as the loop looks    *)
(* for it, whatever ends a choice, a tool block or the reply follows all   *)
(* the text it ends, an aborted reply says so and ends there, and the      *)
(* watermark is written once at most, before the [DONE].                   *)
THEOREM StreamEndsAreComplete ==
  ASSUME "unspaced" \notin Spacing
  PROVE  Spec => []EndsAreComplete
<1>1. Init => LoopInv
  BY LoopBegins
<1>2. LoopInv /\ [Next]_vars => LoopInv'
  BY LoopGoesOn
<1>3. LoopInv => EndsAreComplete
  BY DEF LoopInv
<1>. QED
  BY <1>1, <1>2, <1>3, PTL DEF Spec

-----------------------------------------------------------------------------
(* What is in the output of a channel and in its window, one after the     *)
(* other, is what was fed into it; and the client has what was sent.  So   *)
(* the loop implements StreamRelay, however the upstream spells [DONE].    *)
Accounted ==
  \A key \in Key : TextIn(Output, key) \o Part(windows, key) = Relay!NumbersOf(fed, key)

EndsOnce ==
  /\ status \in {"reading", "chunk", "open"} => ending = ""
  /\ status \in {"reading", "open"} => outgoing = <<>>
  /\ ending = "disconnected" => status = "ended"
  /\ ending = "complete" => status \in {"closing", "ended"} /\ \A key \in Key : Part(windows, key) = <<>>

RelayInv ==
  /\ LoopTypes /\ EndsOnce
  /\ client = [key \in Key |-> TextIn(sent, key)]
  /\ ending # "disconnected" => Accounted

(* A step of StreamRelay, or none. *)
RelayMoves == [Relay!Next]_(Relay!vars)

(* At most one fragment comes. *)
FedOne == UNCHANGED fed \/ \E key \in Key : fed' = Append(fed, key)
Came(key) == IF fed' = Append(fed, key) THEN <<Len(fed) + 1>> ELSE <<>>

LEMMA NumbersSteps ==
  ASSUME NEW came \in Seq(Key), NEW key
  PROVE  \E f \in [0 .. Len(came) -> Seq(Nat)] :
           /\ f[0] = <<>>
           /\ \A k \in 1 .. Len(came) :
                f[k] = IF came[k] = key THEN Append(f[k - 1], k) ELSE f[k - 1]
           /\ Relay!NumbersOf(came, key) = f[Len(came)]
<1>1. Len(came) \in Nat /\ <<>> \in Seq(Nat)
  OBVIOUS
<1>. DEFINE step == [k \in Nat |-> [q \in Seq(Nat) |-> IF came[k] = key THEN Append(q, k) ELSE q]]
<1>2. step \in [Nat -> [Seq(Nat) -> Seq(Nat)]]
  OBVIOUS
<1>. HIDE DEF step
<1>3. PICK f \in [0 .. Len(came) -> Seq(Nat)] : Follows(f, Len(came), <<>>, step)
  BY <1>1, <1>2, Recursion
<1>4. f[0] = <<>>
  BY <1>3 DEF Follows
<1>5. ASSUME NEW k \in 1 .. Len(came)
      PROVE  f[k] = IF came[k] = key THEN Append(f[k - 1], k) ELSE f[k - 1]
  <2>1. k - 1 \in 0 .. Len(came) /\ k \in Nat /\ f[k - 1] \in Seq(Nat)
    OBVIOUS
  <2>2. f[k] = step[k][f[k - 1]]
    BY <1>3 DEF Follows
  <2>. QED
    BY <2>1, <2>2 DEF step
<1>6. Relay!NumbersOf(came, key) = f[Len(came)]
  <2>. DEFINE Shape(g) == [n \in 0 .. Len(came) |->
                IF n = 0 THEN <<>>
                ELSE IF came[n] = key THEN Append(g[n - 1], n) ELSE g[n - 1]]
              upTo == CHOOSE g : g = Shape(g)
  <2>1. f = Shape(f)
    <3>1. ASSUME NEW n \in 0 .. Len(came) PROVE f[n] = Shape(f)[n]
      <4>1. CASE n = 0
        BY <1>4, <4>1
      <4>2. CASE n # 0
        <5>1. n \in 1 .. Len(came)
          BY <4>2
        <5>2. f[n] = IF came[n] = key THEN Append(f[n - 1], n) ELSE f[n - 1]
          BY <1>5, <5>1
        <5>. QED
          BY <4>2, <5>2, Zenon
      <4>. QED
        BY <4>1, <4>2
    <3>. QED
      BY <3>1
  <2>2. upTo = Shape(upTo)
    <3>. HIDE DEF Shape
    <3>. QED
      BY <2>1
  <2>3. Relay!NumbersOf(came, key) = upTo[Len(came)]
    BY DEF Relay!NumbersOf
  <2>. HIDE DEF upTo
  <2>. DEFINE Same == {k \in 0 .. Len(came) : upTo[k] = f[k]}
  <2>4. 0 \in Same
    BY <1>1, <1>4, <2>2
  <2>5. ASSUME NEW k \in 0 .. Len(came) - 1, k \in Same PROVE k + 1 \in Same
    <3>1. k + 1 \in 1 .. Len(came) /\ k + 1 \in 0 .. Len(came) /\ (k + 1) - 1 = k /\ k + 1 # 0
      BY <1>1
    <3>2. upTo[k + 1] = IF came[k + 1] = key THEN Append(upTo[k], k + 1) ELSE upTo[k]
      <4>1. upTo[k + 1] = Shape(upTo)[k + 1]
        BY <2>2
      <4>2. Shape(upTo)[k + 1] = IF came[k + 1] = key THEN Append(upTo[(k + 1) - 1], k + 1)
                                 ELSE upTo[(k + 1) - 1]
        BY <3>1, Zenon
      <4>. QED
        BY <3>1, <4>1, <4>2, Zenon
    <3>3. f[k + 1] = IF came[k + 1] = key THEN Append(f[k], k + 1) ELSE f[k]
      BY <1>5, <3>1
    <3>. QED
      BY <2>5, <3>1, <3>2, <3>3
  <2>6. 0 .. Len(came) \subseteq Same
    <3>. HIDE DEF Same
    <3>. QED
      BY <1>1, <2>4, <2>5, UpTo
  <2>7. Len(came) \in 0 .. Len(came)
    BY <1>1
  <2>8. Len(came) \in Same
    <3>. HIDE DEF Same
    <3>. QED
      BY <2>6, <2>7
  <2>. QED
    BY <2>3, <2>8
<1>. QED
  BY <1>4, <1>5, <1>6

LEMMA NumbersType ==
  ASSUME NEW came \in Seq(Key), NEW key PROVE Relay!NumbersOf(came, key) \in Seq(Nat)
<1>1. PICK f \in [0 .. Len(came) -> Seq(Nat)] : Relay!NumbersOf(came, key) = f[Len(came)]
  BY NumbersSteps
<1>2. Len(came) \in 0 .. Len(came)
  BY LenProperties
<1>. QED
  BY <1>1, <1>2

LEMMA NumbersAppend ==
  ASSUME NEW came \in Seq(Key), NEW last \in Key, NEW key
  PROVE  Relay!NumbersOf(Append(came, last), key) =
           IF last = key THEN Append(Relay!NumbersOf(came, key), Len(came) + 1) ELSE Relay!NumbersOf(came, key)
<1>. DEFINE all == Append(came, last)
<1>1. /\ all \in Seq(Key) /\ Len(all) = Len(came) + 1 /\ Len(came) \in Nat
      /\ all[Len(came) + 1] = last /\ \A k \in 1 .. Len(came) : all[k] = came[k]
  BY AppendProperties
<1>. HIDE DEF all
<1>2. PICK f \in [0 .. Len(came) -> Seq(Nat)] :
         /\ f[0] = <<>>
         /\ \A k \in 1 .. Len(came) : f[k] = IF came[k] = key THEN Append(f[k - 1], k) ELSE f[k - 1]
         /\ Relay!NumbersOf(came, key) = f[Len(came)]
  BY NumbersSteps
<1>3. PICK g \in [0 .. Len(all) -> Seq(Nat)] :
         /\ g[0] = <<>>
         /\ \A k \in 1 .. Len(all) : g[k] = IF all[k] = key THEN Append(g[k - 1], k) ELSE g[k - 1]
         /\ Relay!NumbersOf(all, key) = g[Len(all)]
  BY <1>1, NumbersSteps
<1>. DEFINE Same == {k \in 0 .. Len(came) : f[k] = g[k]}
<1>4. ASSUME NEW k \in 0 .. Len(came) - 1, k \in Same PROVE k + 1 \in Same
  <2>1. /\ k + 1 \in 1 .. Len(came) /\ k + 1 \in 1 .. Len(all) /\ (k + 1) - 1 = k
        /\ all[k + 1] = came[k + 1]
    BY <1>1, SMTT(30)
  <2>2. f[k + 1] = IF came[k + 1] = key THEN Append(f[k], k + 1) ELSE f[k]
    BY <1>2, <2>1
  <2>3. g[k + 1] = IF all[k + 1] = key THEN Append(g[k], k + 1) ELSE g[k]
    BY <1>3, <2>1
  <2>. QED
    BY <1>4, <2>1, <2>2, <2>3
<1>5. 0 \in Same
  BY <1>1, <1>2, <1>3
<1>6. Len(came) \in Same
  <2>. HIDE DEF Same
  <2>1. 0 .. Len(came) \subseteq Same
    BY <1>1, <1>4, <1>5, UpTo
  <2>. QED
    BY <1>1, <2>1
<1>7. g[Len(all)] = IF last = key THEN Append(g[Len(came)], Len(came) + 1) ELSE g[Len(came)]
  BY <1>1, <1>3
<1>. QED
  BY <1>2, <1>3, <1>6, <1>7 DEF all

LEMMA NumbersCome ==
  ASSUME fed \in Seq(Key), FedOne, NEW key \in Key
  PROVE  /\ fed' \in Seq(Key) /\ Len(fed') <= Len(fed) + 1
         /\ Len(fed) <= Len(fed') /\ SubSeq(fed, 1, Len(fed)) = SubSeq(fed', 1, Len(fed))
         /\ Came(key) \in Seq(Nat)
         /\ Relay!NumbersOf(fed', key) = Relay!NumbersOf(fed, key) \o Came(key)
<1>1. Len(fed) \in Nat /\ <<Len(fed) + 1>> \in Seq(Nat) /\ <<>> \in Seq(Nat)
  BY FedIs
<1>2. PICK q \in Seq(Nat) : q = Relay!NumbersOf(fed, key)
  BY NumbersType
<1>3. CASE UNCHANGED fed
  <2>1. fed' # Append(fed, key)
    <3>1. Len(Append(fed, key)) = Len(fed) + 1
      BY AppendProperties
    <3>. QED
      BY <1>1, <1>3, <3>1
  <2>2. Came(key) = <<>> /\ q \o <<>> = q
    BY <2>1, ConcatEmptySeq DEF Came
  <2>3. Len(fed') <= Len(fed) + 1
    BY <1>1, <1>3
  <2>. QED
    BY <1>1, <1>2, <1>3, <2>2, <2>3
<1>4. ASSUME NEW last \in Key, fed' = Append(fed, last)
      PROVE  /\ fed' \in Seq(Key) /\ Len(fed') <= Len(fed) + 1
             /\ Len(fed) <= Len(fed') /\ SubSeq(fed, 1, Len(fed)) = SubSeq(fed', 1, Len(fed))
             /\ Came(key) \in Seq(Nat)
             /\ Relay!NumbersOf(fed', key) = Relay!NumbersOf(fed, key) \o Came(key)
  <2>1. fed' \in Seq(Key) /\ Len(fed') = Len(fed) + 1 /\ fed'[Len(fed) + 1] = last
        /\ Append(fed, key)[Len(fed) + 1] = key
    BY <1>4, AppendProperties
  <2>2. SubSeq(fed, 1, Len(fed)) = SubSeq(fed', 1, Len(fed))
    <3>1. fed' = fed \o <<last>> /\ <<last>> \in Seq(Key)
      BY <1>4, AppendIsConcat
    <3>. QED
      BY <3>1, PrefixOfJoin
  <2>3. Relay!NumbersOf(fed', key) = IF last = key THEN Append(q, Len(fed) + 1) ELSE q
    BY <1>2, <1>4, NumbersAppend
  <2>4. Append(q, Len(fed) + 1) = q \o <<Len(fed) + 1>> /\ q \o <<>> = q
    BY <1>1, AppendIsConcat, ConcatEmptySeq
  <2>5. Came(key) = IF last = key THEN <<Len(fed) + 1>> ELSE <<>>
    BY <1>4, <2>1 DEF Came
  <2>. QED
    BY <1>1, <1>2, <2>1, <2>2, <2>3, <2>4, <2>5
<1>. QED
  BY <1>3, <1>4 DEF FedOne

LEMMA Writing ==
  ASSUME sent \in Seq(Pieces), client = [key \in Key |-> TextIn(sent, key)],
         NEW written \in Seq(Pieces), Write(written)
  PROVE  /\ sent' \in Seq(Pieces) /\ client' = [key \in Key |-> TextIn(sent', key)]
         /\ DOMAIN client' = DOMAIN client
         /\ \A key \in DOMAIN client : Relay!IsPrefix(client[key], client'[key])
<1>1. sent' = sent \o written /\ client' = [key \in Key |-> client[key] \o TextIn(written, key)]
  BY DEF Write
<1>2. sent' \in Seq(Pieces)
  BY <1>1, ConcatProperties
<1>3. ASSUME NEW key \in Key
      PROVE  /\ client[key] \in Seq(Nat) /\ client'[key] = TextIn(sent', key)
             /\ Relay!IsPrefix(client[key], client'[key])
  <2>1. PICK x \in Seq(Nat), y \in Seq(Nat) : x = client[key] /\ x = TextIn(sent, key) /\ y = TextIn(written, key)
    BY TextInIs
  <2>2. client'[key] = x \o y
    BY <1>1, <2>1
  <2>4. TextIn(sent', key) = x \o y
    <3>1. TextIn(sent \o written, key) = TextIn(sent, key) \o TextIn(written, key)
      BY TextInJoin
    <3>. QED
      BY <1>1, <2>1, <3>1, Zenon
  <2>3. Len(x) <= Len(x \o y) /\ SubSeq(x, 1, Len(x)) = SubSeq(x \o y, 1, Len(x))
    BY PrefixOfJoin
  <2>. QED
    BY <2>1, <2>2, <2>3, <2>4 DEF Relay!IsPrefix
<1>4. client' = [key \in Key |-> TextIn(sent', key)]
  <2>1. client' = [key \in Key |-> client'[key]]
    BY <1>1
  <2>. QED
    BY <1>3, <2>1, Zenon
<1>. QED
  BY <1>1, <1>2, <1>3, <1>4

LEMMA PiecesJoin ==
  \A x, y, z \in Seq(Pieces) : (x \o y) \o z = x \o (y \o z)
OBVIOUS

LEMMA NumbersJoin ==
  \A x, y, z \in Seq(Nat) : (x \o y) \o z = x \o (y \o z)
OBVIOUS

(* What was sent of a channel is a beginning of what was fed into it.      *)
LEMMA ShownIsFed ==
  ASSUME NEW written \in Seq(Pieces), NEW waiting \in Seq(Pieces), NEW ws \in Texts, NEW came, NEW key,
         TextIn(written \o waiting, key) \o Part(ws, key) = Relay!NumbersOf(came, key)
  PROVE  Relay!IsPrefix(TextIn(written, key), Relay!NumbersOf(came, key))
<1>1. PICK x \in Seq(Nat), y \in Seq(Nat), z \in Seq(Nat) :
        x = TextIn(written, key) /\ y = TextIn(waiting, key) /\ z = Part(ws, key)
  BY TextInIs, TextIs
<1>2. TextIn(written \o waiting, key) = x \o y
  BY <1>1, TextInJoin
<1>3. (x \o y) \o z = x \o (y \o z)
  BY NumbersJoin, Zenon
<1>4. y \o z \in Seq(Nat)
  BY ConcatProperties
<1>5. Len(x) <= Len(x \o (y \o z)) /\ SubSeq(x, 1, Len(x)) = SubSeq(x \o (y \o z), 1, Len(x))
  BY <1>4, PrefixOfJoin
<1>6. Relay!NumbersOf(came, key) = x \o (y \o z)
  BY <1>1, <1>2, <1>3, Zenon
<1>. QED
  BY <1>1, <1>5, <1>6 DEF Relay!IsPrefix

LEMMA Passes ==
  ASSUME RelayInv, RelayInv', status # "ended", status' # "ended", FedOne,
         \E written \in Seq(Pieces) : Write(written)
  PROVE  RelayMoves
<1>1. /\ sent \in Seq(Pieces) /\ fed \in Seq(Key) /\ client = [key \in Key |-> TextIn(sent, key)]
  BY DEF RelayInv, LoopTypes
<1>2. PICK written \in Seq(Pieces) : Write(written)
  OBVIOUS
<1>3. /\ DOMAIN client' = DOMAIN client /\ DOMAIN client = Key
      /\ \A key \in DOMAIN client : Relay!IsPrefix(client[key], client'[key])
  BY <1>1, <1>2, Writing
<1>4. \A key \in Key : Relay!IsPrefix(client'[key], Relay!NumbersOf(fed', key))
  <2>. SUFFICES ASSUME NEW key \in Key PROVE Relay!IsPrefix(client'[key], Relay!NumbersOf(fed', key))
    OBVIOUS
  <2>1. /\ sent' \in Seq(Pieces) /\ outgoing' \in Seq(Pieces) /\ windows' \in Texts
        /\ client'[key] = TextIn(sent', key)
        /\ TextIn(sent' \o outgoing', key) \o Part(windows', key) = Relay!NumbersOf(fed', key)
    BY DEF RelayInv, LoopTypes, EndsOnce, Accounted, Output
  <2>. QED
    BY <2>1, ShownIsFed
<1>5. Relay!IsPrefix(fed, fed') /\ Len(fed') <= Len(fed) + 1
  <2>1. <<0, Prose>> \in Key
    BY ProseIsAKey, StreamAssumption
  <2>. QED
    BY <1>1, <2>1, NumbersCome DEF Relay!IsPrefix
<1>6. Relay!Pass
  BY <1>3, <1>4, <1>5 DEF Relay!Pass, Relay!FedTo
<1>. QED
  BY <1>6 DEF RelayMoves, Relay!Next

(* What comes in goes to the output or stays in the windows.               *)
LEMMA Accounts ==
  ASSUME LoopTypes, Accounted, FedOne, windows' \in Texts,
         NEW ps \in Seq(Pieces), Output' = Output \o ps,
         \A key \in Key : TextIn(ps, key) \o Part(windows', key) = Part(windows, key) \o Came(key)
  PROVE  Accounted'
<1>1. Output \in Seq(Pieces) /\ windows \in Texts /\ fed \in Seq(Key)
  BY ConcatProperties DEF LoopTypes, Output
<1>. SUFFICES ASSUME NEW key \in Key
              PROVE  TextIn(Output', key) \o Part(windows', key) = Relay!NumbersOf(fed', key)
  BY DEF Accounted
<1>2. PICK x \in Seq(Nat), y \in Seq(Nat), z \in Seq(Nat), w \in Seq(Nat), c \in Seq(Nat) :
        /\ x = TextIn(Output, key) /\ y = TextIn(ps, key) /\ z = Part(windows', key)
        /\ w = Part(windows, key) /\ c = Came(key)
  BY <1>1, TextInIs, TextIs, NumbersCome
<1>3. TextIn(Output', key) = x \o y /\ y \o z = w \o c
  BY <1>1, <1>2, TextInJoin
<1>4. (x \o y) \o z = x \o (y \o z) /\ (x \o w) \o c = x \o (w \o c)
  BY NumbersJoin, ZenonT(60)
<1>5. Relay!NumbersOf(fed', key) = (x \o w) \o c
  <2>1. Relay!NumbersOf(fed, key) = x \o w
    BY <1>2 DEF Accounted
  <2>. QED
    BY <1>1, <1>2, <2>1, NumbersCome
<1>. QED
  BY <1>2, <1>3, <1>4, <1>5, Zenon

LEMMA EventRelayed ==
  ASSUME RelayInv, status = "chunk", UNCHANGED <<shape, status, ending>>,
         watermark' \in BOOLEAN, OrdinalTypes', windows' \in Texts, FedOne,
         NEW ps \in Seq(Pieces), Queue(ps),
         \A key \in Key : TextIn(ps, key) \o Part(windows', key) = Part(windows, key) \o Came(key)
  PROVE  RelayInv' /\ RelayMoves
<1>1. LoopTypes /\ ending = "" /\ Accounted /\ sent \in Seq(Pieces) /\ fed \in Seq(Key)
  BY DEF RelayInv, EndsOnce, LoopTypes
<1>2. /\ sent' \in Seq(Pieces) /\ outgoing' \in Seq(Pieces) /\ Output' = Output \o ps
      /\ \E written \in Seq(Pieces) : Write(written)
  BY <1>1, QueuedOut
<1>3. Accounted'
  BY <1>1, <1>2, Accounts
<1>4. client' = [key \in Key |-> TextIn(sent', key)]
  BY <1>1, <1>2, Writing DEF RelayInv
<1>5. fed' \in Seq(Key)
  <2>1. <<0, Prose>> \in Key
    BY ProseIsAKey, StreamAssumption
  <2>. QED
    BY <1>1, <2>1, NumbersCome
<1>6. RelayInv'
  <2>1. LoopTypes'
    BY <1>1, <1>2, <1>5 DEF LoopTypes
  <2>2. EndsOnce'
    BY <1>1 DEF EndsOnce
  <2>. QED
    BY <1>3, <1>4, <2>1, <2>2 DEF RelayInv
<1>. QED
  BY <1>2, <1>6, Passes

LEMMA OneRelayed ==
  ASSUME RelayInv, status = "chunk", UNCHANGED <<shape, status, ending, watermark>>,
         OrdinalTypes', windows' \in Texts, FedOne, NEW p \in Pieces, Queue(<<p>>),
         \A key \in Key : Part(p.text, key) \o Part(windows', key) = Part(windows, key) \o Came(key)
  PROVE  RelayInv' /\ RelayMoves
<1>1. PICK ps \in Seq(Pieces) : ps = <<p>> /\ Queue(ps) /\ \A key : TextIn(ps, key) = Part(p.text, key)
  BY OnePiece, TextInOne
<1>2. watermark' \in BOOLEAN
  BY DEF RelayInv, LoopTypes
<1>3. \A key \in Key : TextIn(ps, key) \o Part(windows', key) = Part(windows, key) \o Came(key)
  BY <1>1
<1>. QED
  BY <1>1, <1>2, <1>3, EventRelayed

LEMMA NothingCame ==
  ASSUME RelayInv, UNCHANGED fed, NEW key \in Key
  PROVE  Came(key) = <<>> /\ Part(windows, key) \o Came(key) = Part(windows, key)
<1>1. Part(windows, key) \in Seq(Nat) /\ fed \in Seq(Key) /\ Len(fed) \in Nat
  BY TextIs, FedIs DEF RelayInv, LoopTypes
<1>2. Append(fed, key) # fed
  <2>1. Len(Append(fed, key)) = Len(fed) + 1
    BY <1>1, AppendProperties
  <2>. QED
    BY <1>1, <2>1
<1>. QED
  BY <1>1, <1>2, ConcatEmptySeq DEF Came

LEMMA EmittedRelayed ==
  ASSUME RelayInv, status = "chunk", UNCHANGED <<shape, status, ending, ordinals, watermark>>, FedOne,
         NEW choice \in Choice, NEW finish \in BOOLEAN, NEW ws \in Texts, NEW out \in Texts,
         EmitsFor(choice, finish, ws, out),
         \A key \in Key : Part(out, key) \o Part(ws, key) = Part(windows, key) \o Came(key)
  PROVE  RelayInv' /\ RelayMoves
<1>. DEFINE done == IF finish THEN Finishing(ws, choice) ELSE {}
            p    == Emission(choice, finish, ws, out)
<1>1. fed' \in Seq(Key)
  <2>1. <<0, Prose>> \in Key /\ fed \in Seq(Key)
    BY ProseIsAKey, StreamAssumption DEF RelayInv, LoopTypes
  <2>. QED
    BY <2>1, NumbersCome
<1>2. /\ windows' \in Texts /\ \A w : Part(windows', w) = IF w \in done THEN <<>> ELSE Part(ws, w)
      /\ p \in Pieces /\ Queue(<<p>>)
      /\ \A key : Part(p.text, key) = Part(out, key) \o (IF key \in done THEN Part(ws, key) ELSE <<>>)
  BY <1>1, EmittedPiece
<1>. HIDE DEF p, done
<1>3. ASSUME NEW key \in Key
      PROVE  Part(p.text, key) \o Part(windows', key) = Part(windows, key) \o Came(key)
  <2>1. PICK x \in Seq(Nat), y \in Seq(Nat) : x = Part(out, key) /\ y = Part(ws, key)
    BY TextIs
  <2>2. x \o <<>> = x /\ (x \o y) \o <<>> = x \o y
    BY ConcatEmptySeq, ConcatProperties
  <2>3. x \o y = Part(windows, key) \o Came(key)
    BY <2>1
  <2>4. CASE key \in done
    <3>1. Part(p.text, key) = x \o y /\ Part(windows', key) = <<>>
      BY <1>2, <2>1, <2>4
    <3>. QED
      BY <2>2, <2>3, <3>1
  <2>5. CASE key \notin done
    <3>1. Part(p.text, key) = x \o <<>> /\ Part(windows', key) = y
      BY <1>2, <2>1, <2>5
    <3>. QED
      BY <2>2, <2>3, <3>1
  <2>. QED
    BY <2>4, <2>5
<1>4. OrdinalTypes'
  BY DEF RelayInv, LoopTypes, OrdinalTypes
<1>. QED
  BY <1>2, <1>3, <1>4, OneRelayed

(* What comes for a channel is taken by its window, which lets some out.   *)
LEMMA TakenRelayed ==
  ASSUME RelayInv, NEW key \in Key, NEW k \in 0 .. Len(Takes(key)), fed' = Append(fed, key),
         NEW out, out = [w \in {key} |-> LetOut(key, k)]
  PROVE  /\ FedOne /\ out \in Texts /\ Kept(key, k) \in Texts /\ Len(fed) + 1 \in Nat
         /\ \A c \in Key : Part(out, c) \o Part(Kept(key, k), c) = Part(windows, c) \o Came(c)
<1>1. fed \in Seq(Key) /\ windows \in Texts /\ Len(fed) \in Nat
  BY FedIs DEF RelayInv, LoopTypes
<1>2. /\ Kept(key, k) \in Texts /\ LetOut(key, k) \in Seq(Nat)
      /\ \A w : w # key => Part(Kept(key, k), w) = Part(windows, w)
      /\ LetOut(key, k) \o Part(Kept(key, k), key) = Part(windows, key) \o <<Len(fed) + 1>>
  BY <1>1, Taking
<1>3. out \in Texts
  <2>1. {key} \in SUBSET Key /\ IsFiniteSet({key}) /\ out \in [{key} -> Seq(Nat)]
    BY <1>2, FS_Singleton
  <2>. QED
    BY <2>1, IsText
<1>4. ASSUME NEW c \in Key PROVE Part(out, c) \o Part(Kept(key, k), c) = Part(windows, c) \o Came(c)
  <2>1. Came(c) = IF c = key THEN <<Len(fed) + 1>> ELSE <<>>
    <3>1. Append(fed, key)[Len(fed) + 1] = key /\ Append(fed, c)[Len(fed) + 1] = c
      BY <1>1, AppendProperties
    <3>. QED
      BY <3>1 DEF Came
  <2>2. CASE c = key
    <3>1. Part(out, c) = LetOut(key, k)
      BY <2>2 DEF Part
    <3>. QED
      BY <1>2, <2>1, <2>2, <3>1
  <2>3. CASE c # key
    <3>1. Part(out, c) = <<>> /\ Part(Kept(key, k), c) = Part(windows, c)
      BY <1>2, <2>3 DEF Part
    <3>2. PICK x \in Seq(Nat) : x = Part(windows, c)
      BY <1>1, TextIs
    <3>3. <<>> \o x = x /\ x \o <<>> = x
      BY ConcatEmptySeq
    <3>. QED
      BY <2>1, <2>3, <3>1, <3>2, <3>3
  <2>. QED
    BY <2>2, <2>3
<1>5. FedOne
  BY DEF FedOne
<1>6. Len(fed) + 1 \in Nat
  BY <1>1
<1>. QED
  BY <1>2, <1>3, <1>4, <1>5, <1>6, Zenon

LEMMA ChatRelayed ==
  ASSUME RelayInv, NEW choice \in Choice, NEW finish \in BOOLEAN, NEW part \in Tool \cup {Prose},
         Plain(choice, finish) \/ Opens(choice, part, finish) \/ Delta(choice, part, finish)
  PROVE  RelayInv' /\ RelayMoves
<1>1. status = "chunk" /\ UNCHANGED <<shape, status, ending, ordinals, watermark>>
  BY DEF Plain, Opens, Delta, Handles
<1>2. windows \in Texts
  BY DEF RelayInv, LoopTypes
<1>3. PICK key \in Key : key = <<choice, part>>
  BY DEF Key
<1>4. ASSUME UNCHANGED fed, NEW ws \in Texts, \A w : Part(ws, w) = Part(windows, w),
             EmitsFor(choice, finish, ws, NoText)
      PROVE  RelayInv' /\ RelayMoves
  <2>1. FedOne
    BY <1>4 DEF FedOne
  <2>2. ASSUME NEW c \in Key PROVE Part(NoText, c) \o Part(ws, c) = Part(windows, c) \o Came(c)
    <3>1. PICK x \in Seq(Nat) : x = Part(windows, c) /\ x = Part(ws, c)
      BY <1>2, <1>4, TextIs
    <3>2. Part(NoText, c) = <<>> /\ <<>> \o x = x
      BY NoTextIs, ConcatEmptySeq
    <3>3. Part(windows, c) \o Came(c) = Part(windows, c)
      BY <1>4, NothingCame
    <3>. QED
      BY <3>1, <3>2, <3>3
  <2>3. NoText \in Texts
    BY NoTextIs
  <2>. QED
    BY <1>1, <1>4, <2>1, <2>2, <2>3, EmittedRelayed
<1>5. CASE Plain(choice, finish)
  <2>1. Borrowed \in Texts /\ \A w : Part(Borrowed, w) = Part(windows, w)
    BY <1>2, Borrowing
  <2>2. UNCHANGED fed /\ EmitsFor(choice, finish, Borrowed, NoText)
    BY <1>5 DEF Plain
  <2>. QED
    BY <1>4, <2>1, <2>2
<1>6. CASE Opens(choice, part, finish)
  <2>1. Opened(key) \in Texts /\ \A w : Part(Opened(key), w) = Part(windows, w)
    BY <1>2, Opening
  <2>2. UNCHANGED fed /\ EmitsFor(choice, finish, Opened(key), NoText)
    BY <1>3, <1>6 DEF Opens
  <2>. QED
    BY <1>4, <2>1, <2>2
<1>7. CASE Delta(choice, part, finish)
  <2>1. /\ fed' = Append(fed, key)
        /\ \E k \in 0 .. Len(Takes(key)) : EmitsFor(choice, finish, Kept(key, k), [w \in {key} |-> LetOut(key, k)])
    BY <1>3, <1>7 DEF Delta
  <2>2. PICK k \in 0 .. Len(Takes(key)) : EmitsFor(choice, finish, Kept(key, k), [w \in {key} |-> LetOut(key, k)])
    BY <2>1
  <2>3. PICK out : out = [w \in {key} |-> LetOut(key, k)]
    OBVIOUS
  <2>4. /\ FedOne /\ out \in Texts /\ Kept(key, k) \in Texts
        /\ \A c \in Key : Part(out, c) \o Part(Kept(key, k), c) = Part(windows, c) \o Came(c)
    BY <2>1, <2>3, TakenRelayed
  <2>5. EmitsFor(choice, finish, Kept(key, k), out)
    BY <2>2, <2>3
  <2>. QED
    BY <1>1, <2>4, <2>5, EmittedRelayed
<1>. QED
  BY <1>5, <1>6, <1>7

LEMMA SinglePiece ==
  ASSUME NEW p \in Pieces
  PROVE  \E s \in Seq(Pieces) : s = <<p>> /\ \A key : TextIn(s, key) = Part(p.text, key)
<1>1. <<p>> \in Seq(Pieces)
  BY OnePiece
<1>2. \A key : TextIn(<<p>>, key) = Part(p.text, key)
  BY TextInOne
<1>. QED
  BY <1>1, <1>2

(* Anthropic's prose and its tool blocks. *)
LEMMA BlockRelayed ==
  ASSUME RelayInv, NEW block \in TextBlock, AnthropicText(block)
  PROVE  RelayInv' /\ RelayMoves
<1>1. status = "chunk" /\ UNCHANGED <<shape, status, ending, ordinals, watermark>> /\ block \in Nat
  BY StreamAssumption DEF AnthropicText, Handles
<1>2. PICK key \in Key : key = <<0, Prose>>
  BY ProseIsAKey, StreamAssumption
<1>3. /\ fed' = Append(fed, key)
      /\ \E k \in 0 .. Len(Takes(key)) :
           /\ windows' = Kept(key, k)
           /\ Queue(<<Piece("text", block, [w \in {key} |-> LetOut(w, k)], Len(fed) + 1)>>)
  BY <1>2 DEF AnthropicText
<1>4. PICK k \in 0 .. Len(Takes(key)) :
        /\ windows' = Kept(key, k)
        /\ Queue(<<Piece("text", block, [w \in {key} |-> LetOut(w, k)], Len(fed) + 1)>>)
  BY <1>3
<1>5. PICK out : out = [w \in {key} |-> LetOut(key, k)] /\ out = [w \in {key} |-> LetOut(w, k)]
  OBVIOUS
<1>6. /\ FedOne /\ out \in Texts /\ Kept(key, k) \in Texts /\ Len(fed) + 1 \in Nat
      /\ \A c \in Key : Part(out, c) \o Part(Kept(key, k), c) = Part(windows, c) \o Came(c)
  BY <1>3, <1>5, TakenRelayed
<1>7. PICK p \in Pieces : p = Piece("text", block, out, Len(fed) + 1) /\ p.text = out
  <2>1. "text" \in Kinds
    BY DEF Kinds
  <2>. QED
    BY <1>1, <1>6, <2>1, PieceIs
<1>8. Queue(<<p>>) /\ windows' \in Texts
  BY <1>4, <1>5, <1>6, <1>7
<1>9. OrdinalTypes'
  BY <1>1 DEF RelayInv, LoopTypes, OrdinalTypes
<1>10. \A c \in Key : Part(p.text, c) \o Part(windows', c) = Part(windows, c) \o Came(c)
  BY <1>4, <1>6, <1>7
<1>. QED
  BY <1>1, <1>6, <1>8, <1>9, <1>10, OneRelayed

LEMMA StartRelayed ==
  ASSUME RelayInv, NEW block \in ToolBlock, AnthropicToolStart(block)
  PROVE  RelayInv' /\ RelayMoves
<1>1. /\ status = "chunk" /\ UNCHANGED <<shape, status, ending, fed, windows, watermark>>
      /\ MayNumber(block) /\ ordinals' = WithOrdinal(block) /\ Queue(<<Bare("text")>>)
  BY DEF AnthropicToolStart, Handles
<1>2. fed \in Seq(Key) /\ windows \in Texts /\ OrdinalTypes
  BY DEF RelayInv, LoopTypes
<1>3. OrdinalTypes'
  BY <1>1, <1>2, Numbering
<1>4. PICK p \in Pieces : p = Bare("text") /\ p.text = NoText
  BY <1>2, BareIs DEF Kinds
<1>5. Queue(<<p>>) /\ windows' \in Texts /\ FedOne
  BY <1>1, <1>2, <1>4 DEF FedOne
<1>6. ASSUME NEW key \in Key PROVE Part(p.text, key) \o Part(windows', key) = Part(windows, key) \o Came(key)
  <2>1. PICK x \in Seq(Nat) : x = Part(windows, key)
    BY <1>2, TextIs
  <2>2. <<>> \o x = x /\ Part(p.text, key) = <<>>
    BY <1>4, NoTextIs, ConcatEmptySeq
  <2>3. Part(windows, key) \o Came(key) = Part(windows, key)
    BY <1>1, NothingCame
  <2>. QED
    BY <1>1, <2>1, <2>2, <2>3
<1>. QED
  BY <1>1, <1>3, <1>5, <1>6, OneRelayed

LEMMA ArgumentsRelayed ==
  ASSUME RelayInv, NEW block \in ToolBlock, AnthropicArguments(block)
  PROVE  RelayInv' /\ RelayMoves
<1>1. /\ status = "chunk" /\ UNCHANGED <<shape, status, ending, watermark>>
      /\ MayNumber(block) /\ ordinals' = WithOrdinal(block)
  BY DEF AnthropicArguments, Handles
<1>2. OrdinalTypes' /\ Ordinal(block) \in 0 .. MaxOrdinals - 1
  BY <1>1, Numbering DEF RelayInv, LoopTypes
<1>3. PICK key \in Key : key = <<0, Ordinal(block)>>
  BY <1>2, StreamAssumption DEF Key
<1>4. /\ fed' = Append(fed, key)
      /\ \E k \in 0 .. Len(Takes(key)) :
           /\ windows' = Kept(key, k)
           /\ Queue(<<Piece("text", 0, [w \in {key} |-> LetOut(w, k)], Len(fed) + 1)>>)
  BY <1>3 DEF AnthropicArguments
<1>5. PICK k \in 0 .. Len(Takes(key)) :
        /\ windows' = Kept(key, k)
        /\ Queue(<<Piece("text", 0, [w \in {key} |-> LetOut(w, k)], Len(fed) + 1)>>)
  BY <1>4
<1>6. PICK out : out = [w \in {key} |-> LetOut(key, k)] /\ out = [w \in {key} |-> LetOut(w, k)]
  OBVIOUS
<1>7. /\ FedOne /\ out \in Texts /\ Kept(key, k) \in Texts /\ Len(fed) + 1 \in Nat
      /\ \A c \in Key : Part(out, c) \o Part(Kept(key, k), c) = Part(windows, c) \o Came(c)
  BY <1>4, <1>6, TakenRelayed
<1>8. PICK p \in Pieces : p = Piece("text", 0, out, Len(fed) + 1) /\ p.text = out
  <2>1. "text" \in Kinds
    BY DEF Kinds
  <2>. QED
    BY <1>7, <2>1, PieceIs
<1>9. Queue(<<p>>) /\ windows' \in Texts
  BY <1>5, <1>6, <1>7, <1>8
<1>10. \A c \in Key : Part(p.text, c) \o Part(windows', c) = Part(windows, c) \o Came(c)
  BY <1>5, <1>7, <1>8
<1>. QED
  BY <1>1, <1>2, <1>7, <1>9, <1>10, OneRelayed

LEMMA StopRelayed ==
  ASSUME RelayInv, NEW block \in ToolBlock, AnthropicStop(block)
  PROVE  RelayInv' /\ RelayMoves
<1>1. /\ status = "chunk" /\ block \in Nat /\ UNCHANGED <<shape, status, ending, fed, ordinals, watermark>>
  BY StreamAssumption DEF AnthropicStop, Handles
<1>2. /\ fed \in Seq(Key) /\ windows \in Texts /\ Len(fed) \in Nat /\ OrdinalTypes /\ watermark \in BOOLEAN
      /\ DOMAIN windows \subseteq Key /\ IsFiniteSet(DOMAIN windows)
      /\ \A w \in DOMAIN windows : windows[w] \in Seq(Nat)
  BY FedIs, TextIs DEF RelayInv, LoopTypes
<1>3. PICK keys : keys = {<<0, ordinals[b]>> : b \in {block} \cap DOMAIN ordinals} \cap DOMAIN windows
  OBVIOUS
<1>4. /\ windows' \in {Drained(windows, keys), Drained(Borrowed, keys)}
      /\ Queue((IF \E w \in keys : windows[w] # <<>>
                  THEN <<Piece("text", 0, [w \in keys |-> windows[w]], Len(fed))>> ELSE <<>>)
               \o <<[Bare("stop") EXCEPT !.choice = block]>>)
  BY <1>3 DEF AnthropicStop
<1>5. windows' \in Texts /\ \A w : Part(windows', w) = IF w \in keys THEN <<>> ELSE Part(windows, w)
  <2>1. Borrowed \in Texts /\ \A w : Part(Borrowed, w) = Part(windows, w)
    BY <1>2, Borrowing
  <2>2. CASE windows' = Drained(windows, keys)
    BY <1>2, <2>2, Draining
  <2>3. CASE windows' = Drained(Borrowed, keys)
    BY <2>1, <2>3, Draining
  <2>. QED
    BY <1>4, <2>2, <2>3
<1>6. PICK stop \in Pieces : stop = [Bare("stop") EXCEPT !.choice = block] /\ stop.text = NoText
  <2>1. [Bare("stop") EXCEPT !.choice = block] = Piece("stop", block, NoText, Len(fed))
    BY DEF Bare, Piece
  <2>2. "stop" \in Kinds /\ NoText \in Texts
    BY NoTextIs DEF Kinds
  <2>. QED
    BY <1>1, <1>2, <2>1, <2>2, PieceIs
<1>7. PICK held \in Texts : held = [w \in keys |-> windows[w]]
  <2>1. keys \in SUBSET Key /\ IsFiniteSet(keys) /\ [w \in keys |-> windows[w]] \in [keys -> Seq(Nat)]
    BY <1>2, <1>3, FS_Subset
  <2>. QED
    BY <2>1, IsText
<1>8. PICK t \in Pieces : t = Piece("text", 0, held, Len(fed)) /\ t.text = held
  <2>1. "text" \in Kinds
    BY DEF Kinds
  <2>. QED
    BY <1>2, <2>1, PieceIs
<1>9. PICK z \in Seq(Pieces) : z = <<stop>> /\ \A key : TextIn(z, key) = <<>>
  <2>1. PICK z \in Seq(Pieces) : z = <<stop>> /\ \A key : TextIn(z, key) = Part(stop.text, key)
    BY SinglePiece
  <2>. QED
    BY <1>6, <2>1, NoTextIs
<1>10. \A key : Part(held, key) = IF key \in keys THEN Part(windows, key) ELSE <<>>
  BY <1>3, <1>7 DEF Part
<1>11. PICK ps \in Seq(Pieces) : Queue(ps) /\ \A key : TextIn(ps, key) = Part(held, key)
  <2>1. CASE \E w \in keys : windows[w] # <<>>
    <3>1. PICK a \in Seq(Pieces) : a = <<t>> /\ \A key : TextIn(a, key) = Part(held, key)
      <4>1. PICK a \in Seq(Pieces) : a = <<t>> /\ \A key : TextIn(a, key) = Part(t.text, key)
        BY SinglePiece
      <4>. QED
        BY <1>8, <4>1
    <3>2. Queue(a \o z)
      BY <1>4, <1>6, <1>7, <1>8, <1>9, <2>1, <3>1
    <3>3. a \o z \in Seq(Pieces)
      BY ConcatProperties
    <3>4. ASSUME NEW key PROVE TextIn(a \o z, key) = Part(held, key)
      <4>1. TextIn(a \o z, key) = TextIn(a, key) \o TextIn(z, key)
        BY TextInJoin
      <4>2. PICK x \in Seq(Nat) : x = Part(held, key)
        BY TextIs
      <4>3. x \o <<>> = x
        BY ConcatEmptySeq
      <4>. QED
        BY <1>9, <3>1, <4>1, <4>2, <4>3
    <3>. QED
      BY <3>2, <3>3, <3>4
  <2>2. CASE ~ \E w \in keys : windows[w] # <<>>
    <3>1. <<>> \o <<stop>> = <<stop>>
      OBVIOUS
    <3>2. Queue(z)
      BY <1>4, <1>6, <1>9, <2>2, <3>1
    <3>3. \A key : Part(held, key) = <<>>
      BY <1>7, <2>2 DEF Part
    <3>. QED
      BY <1>9, <3>2, <3>3
  <2>. QED
    BY <2>1, <2>2
<1>12. ASSUME NEW key \in Key PROVE TextIn(ps, key) \o Part(windows', key) = Part(windows, key) \o Came(key)
  <2>1. PICK x \in Seq(Nat) : x = Part(windows, key)
    BY <1>2, TextIs
  <2>2. <<>> \o x = x /\ x \o <<>> = x
    BY ConcatEmptySeq
  <2>3. Part(windows, key) \o Came(key) = Part(windows, key)
    BY <1>1, NothingCame
  <2>. QED
    BY <1>5, <1>10, <1>11, <2>1, <2>2, <2>3
<1>13. FedOne /\ OrdinalTypes' /\ watermark' \in BOOLEAN
  BY <1>1, <1>2 DEF FedOne, OrdinalTypes
<1>. QED
  BY <1>1, <1>5, <1>11, <1>12, <1>13, EventRelayed

-----------------------------------------------------------------------------
(* [DONE], and the ends of the stream *)
LEMMA NoPieces == <<>> \in Seq(Pieces) /\ \A key : TextIn(<<>>, key) = <<>>
<1>1. PICK s \in Seq(Pieces) : s = <<>> /\ Len(s) = 0
  <2>1. <<>> \in Seq(Pieces) /\ Len(<<>>) = 0
    OBVIOUS
  <2>. QED
    BY <2>1
<1>2. ASSUME NEW key PROVE TextIn(s, key) = <<>>
  <2>1. PICK x \in Seq(Seq(Nat)) : x = [i \in DOMAIN s |-> TextOf(s[i], key)] /\ Len(x) = Len(s)
    <3>1. LET texts == [i \in DOMAIN s |-> TextOf(s[i], key)] IN texts \in Seq(Seq(Nat)) /\ Len(texts) = Len(s)
      BY TextsAre
    <3>. QED
      BY <3>1
  <2>2. \A j \in 1 .. Len(x) : x[j] = <<>>
    BY <1>1, <2>1
  <2>3. FlattenSeq(x) = <<>>
    BY <2>2, FlattenNothing
  <2>. QED
    BY <2>1, <2>3 DEF TextIn
<1>. QED
  BY <1>1, <1>2

LEMMA BarePiece ==
  ASSUME fed \in Seq(Key), NEW kind \in Kinds
  PROVE  \E s \in Seq(Pieces) : s = <<Bare(kind)>> /\ \A key : TextIn(s, key) = <<>>
<1>1. PICK p \in Pieces : p = Bare(kind) /\ p.text = NoText
  BY BareIs
<1>2. PICK s \in Seq(Pieces) : s = <<p>> /\ \A key : TextIn(s, key) = Part(p.text, key)
  BY SinglePiece
<1>. QED
  BY <1>1, <1>2, NoTextIs

LEMMA WatermarkIs ==
  ASSUME fed \in Seq(Key)
  PROVE  \E s \in Seq(Pieces) : s = Watermark /\ \A key : TextIn(s, key) = <<>>
<1>1. PICK s \in Seq(Pieces) : s = <<Bare("watermark")>> /\ \A key : TextIn(s, key) = <<>>
  BY BarePiece DEF Kinds
<1>2. PICK n \in Seq(Pieces) : n = <<>> /\ \A key : TextIn(n, key) = <<>>
  BY NoPieces
<1>. QED
  BY <1>1, <1>2 DEF Watermark

LEMMA SilentAfter ==
  ASSUME NEW s \in Seq(Pieces), NEW ps \in Seq(Pieces), \A key : TextIn(ps, key) = <<>>
  PROVE  s \o ps \in Seq(Pieces) /\ \A key : TextIn(s \o ps, key) = TextIn(s, key)
<1>1. ASSUME NEW key PROVE TextIn(s \o ps, key) = TextIn(s, key)
  <2>1. PICK x \in Seq(Nat) : x = TextIn(s, key)
    BY TextInIs
  <2>2. TextIn(s \o ps, key) = TextIn(s, key) \o TextIn(ps, key)
    BY TextInJoin
  <2>3. x \o <<>> = x
    BY ConcatEmptySeq
  <2>. QED
    BY <2>1, <2>2, <2>3
<1>. QED
  BY <1>1, ConcatProperties

(* What the flush puts out is what the windows held. *)
LEMMA FlushIs ==
  ASSUME RelayInv, NEW order \in FlushOrders
  PROVE  /\ \E s \in Seq(Pieces) : s = FlushAll(order) \o Watermark /\ \A key : TextIn(s, key) = Part(windows, key)
         /\ Drained(windows, DOMAIN windows) \in Texts
         /\ \A key : Part(Drained(windows, DOMAIN windows), key) = <<>>
<1>1. windows \in Texts /\ fed \in Seq(Key)
  BY DEF RelayInv, LoopTypes
<1>2. PICK f \in Seq(Pieces) : f = FlushAll(order) /\ \A key : TextIn(f, key) = Part(windows, key)
  <2>1. FlushAll(order) \in Seq(Pieces) /\ \A key : TextIn(FlushAll(order), key) = Part(windows, key)
    BY <1>1, Flushing
  <2>. QED
    BY <2>1
<1>3. PICK m \in Seq(Pieces) : m = Watermark /\ \A key : TextIn(m, key) = <<>>
  BY <1>1, WatermarkIs
<1>4. f \o m \in Seq(Pieces) /\ \A key : TextIn(f \o m, key) = TextIn(f, key)
  BY <1>3, SilentAfter
<1>5. /\ Drained(windows, DOMAIN windows) \in Texts
      /\ \A w : Part(Drained(windows, DOMAIN windows), w) = IF w \in DOMAIN windows THEN <<>> ELSE Part(windows, w)
  BY <1>1, Draining
<1>6. \A key : Part(Drained(windows, DOMAIN windows), key) = <<>>
  BY <1>5 DEF Part
<1>7. \A key : TextIn(f \o m, key) = Part(windows, key)
  BY <1>2, <1>4
<1>8. f \o m = FlushAll(order) \o Watermark
  BY <1>2, <1>3
<1>. QED
  BY <1>4, <1>5, <1>6, <1>7, <1>8, Zenon

LEMMA DoneRelayed ==
  ASSUME RelayInv, NEW spacing \in Spacing, Done(spacing)
  PROVE  RelayInv' /\ RelayMoves
<1>1. status = "chunk" /\ UNCHANGED <<shape, status, ending, fed, ordinals>>
  BY DEF Done, Handles
<1>2. fed \in Seq(Key) /\ windows \in Texts /\ OrdinalTypes /\ watermark \in BOOLEAN
  BY DEF RelayInv, LoopTypes
<1>3. PICK d \in Seq(Pieces) : d = <<Bare("done")>> /\ \A key : TextIn(d, key) = <<>>
  BY <1>2, BarePiece DEF Kinds
<1>4. FedOne /\ OrdinalTypes'
  BY <1>1, <1>2 DEF FedOne, OrdinalTypes
<1>5. \A key \in Key : Part(windows, key) \o Came(key) = Part(windows, key)
  BY <1>1, NothingCame
<1>6. \A key : Part(windows, key) \in Seq(Nat)
  BY <1>2, TextIs
<1>7. CASE spacing = "spaced"
  <2>1. PICK order \in FlushOrders : /\ Queue(FlushAll(order) \o Watermark \o <<Bare("done")>>)
                                     /\ windows' = Drained(windows, DOMAIN windows) /\ watermark' = FALSE
    BY <1>7 DEF Done
  <2>2. PICK s \in Seq(Pieces) : s = FlushAll(order) \o Watermark /\ \A key : TextIn(s, key) = Part(windows, key)
    BY FlushIs
  <2>3. windows' \in Texts /\ \A key : Part(windows', key) = <<>>
    BY <2>1, FlushIs
  <2>4. PICK ps \in Seq(Pieces) : Queue(ps) /\ \A key : TextIn(ps, key) = Part(windows, key)
    <3>1. s \o d \in Seq(Pieces) /\ \A key : TextIn(s \o d, key) = TextIn(s, key)
      BY <1>3, SilentAfter
    <3>2. Queue(s \o d)
      BY <1>3, <2>1, <2>2
    <3>. QED
      BY <2>2, <3>1, <3>2
  <2>5. ASSUME NEW key \in Key PROVE TextIn(ps, key) \o Part(windows', key) = Part(windows, key) \o Came(key)
    <3>1. PICK x \in Seq(Nat) : x = Part(windows, key)
      BY <1>6
    <3>2. x \o <<>> = x
      BY ConcatEmptySeq
    <3>. QED
      BY <1>5, <2>3, <2>4, <3>1, <3>2
  <2>6. watermark' \in BOOLEAN
    BY <2>1
  <2>. QED
    BY <1>1, <1>4, <2>3, <2>4, <2>5, <2>6, EventRelayed
<1>8. CASE spacing # "spaced"
  <2>1. Queue(d) /\ UNCHANGED <<windows, watermark>>
    BY <1>3, <1>8 DEF Done
  <2>2. ASSUME NEW key \in Key PROVE TextIn(d, key) \o Part(windows', key) = Part(windows, key) \o Came(key)
    <3>1. PICK x \in Seq(Nat) : x = Part(windows, key)
      BY <1>6
    <3>2. <<>> \o x = x
      BY ConcatEmptySeq
    <3>. QED
      BY <1>3, <1>5, <2>1, <3>1, <3>2
  <2>3. watermark' \in BOOLEAN /\ windows' \in Texts
    BY <1>2, <2>1
  <2>. QED
    BY <1>1, <1>4, <2>1, <2>2, <2>3, EventRelayed
<1>. QED
  BY <1>7, <1>8

(* The steps that handle no event. *)
LEMMA StepRelayed ==
  ASSUME RelayInv, status # "ended", status' # "ended", UNCHANGED <<shape, fed, ordinals>>,
         watermark' \in BOOLEAN, windows' \in Texts, sent' \in Seq(Pieces), outgoing' \in Seq(Pieces),
         status' \in {"reading", "chunk", "open", "closing"}, EndsOnce',
         \E written \in Seq(Pieces) : Write(written),
         NEW ps \in Seq(Pieces), Output' = Output \o ps,
         \A key \in Key : TextIn(ps, key) \o Part(windows', key) = Part(windows, key)
  PROVE  RelayInv' /\ RelayMoves
<1>1. LoopTypes /\ Accounted /\ sent \in Seq(Pieces)
  BY DEF RelayInv, EndsOnce, LoopTypes
<1>2. FedOne
  BY DEF FedOne
<1>3. \A key \in Key : TextIn(ps, key) \o Part(windows', key) = Part(windows, key) \o Came(key)
  BY NothingCame
<1>4. Accounted'
  BY <1>1, <1>2, <1>3, Accounts
<1>5. client' = [key \in Key |-> TextIn(sent', key)]
  BY <1>1, Writing DEF RelayInv
<1>6. LoopTypes'
  BY <1>1 DEF LoopTypes, OrdinalTypes
<1>7. RelayInv'
  BY <1>4, <1>5, <1>6 DEF RelayInv
<1>. QED
  BY <1>2, <1>7, Passes

LEMMA WriteNothing ==
  ASSUME RelayInv, UNCHANGED <<sent, client>>
  PROVE  sent' \in Seq(Pieces) /\ \E written \in Seq(Pieces) : Write(written)
<1>1. sent \in Seq(Pieces) /\ client = [key \in Key |-> TextIn(sent, key)]
  BY DEF RelayInv, LoopTypes
<1>2. sent \o <<>> = sent /\ <<>> \in Seq(Pieces)
  BY <1>1, ConcatEmptySeq
<1>3. [key \in Key |-> client[key] \o TextIn(<<>>, key)] = client
  <2>1. ASSUME NEW key \in Key PROVE client[key] \o TextIn(<<>>, key) = client[key]
    <3>1. PICK x \in Seq(Nat) : x = client[key]
      BY <1>1, TextInIs
    <3>2. x \o <<>> = x /\ TextIn(<<>>, key) = <<>>
      BY NoPieces, ConcatEmptySeq
    <3>. QED
      BY <3>1, <3>2
  <2>2. client = [key \in Key |-> client[key]]
    BY <1>1
  <2>. QED
    BY <2>1, <2>2, Zenon
<1>4. Write(<<>>)
  BY <1>2, <1>3 DEF Write
<1>. QED
  BY <1>1, <1>2, <1>4

LEMMA ChunkRelayed ==
  ASSUME RelayInv, ChunkArrives \/ ChunkEnds
  PROVE  RelayInv' /\ RelayMoves
<1>1. /\ sent \in Seq(Pieces) /\ outgoing \in Seq(Pieces) /\ windows \in Texts /\ watermark \in BOOLEAN
      /\ status # "ended" /\ status' \in {"reading", "chunk"} /\ UNCHANGED <<shape, fed, windows, ordinals, watermark>>
      /\ <<>> \in Seq(Pieces)
  BY NoPieces DEF RelayInv, LoopTypes, ChunkArrives, ChunkEnds
<1>2. Output \in Seq(Pieces) /\ Output \o <<>> = Output
  BY <1>1, ConcatProperties, ConcatEmptySeq DEF Output
<1>3. /\ sent' \in Seq(Pieces) /\ outgoing' \in Seq(Pieces) /\ Output' = Output
      /\ \E written \in Seq(Pieces) : Write(written)
  <2>1. CASE ChunkArrives
    <3>1. UNCHANGED <<sent, client, outgoing>>
      BY <2>1 DEF ChunkArrives
    <3>. QED
      BY <1>1, <3>1, WriteNothing DEF Output
  <2>2. CASE ChunkEnds
    <3>1. Write(outgoing) /\ outgoing' = <<>> /\ sent' = sent \o outgoing
      BY <2>2 DEF ChunkEnds, Write
    <3>. QED
      BY <1>1, <1>2, <3>1 DEF Output
  <2>. QED
    BY <2>1, <2>2
<1>4. EndsOnce'
  BY DEF RelayInv, EndsOnce, ChunkArrives, ChunkEnds
<1>5. \A key \in Key : TextIn(<<>>, key) \o Part(windows', key) = Part(windows, key)
  <2>. SUFFICES ASSUME NEW key \in Key PROVE TextIn(<<>>, key) \o Part(windows, key) = Part(windows, key)
    BY <1>1
  <2>1. PICK x \in Seq(Nat) : x = Part(windows, key)
    BY <1>1, TextIs
  <2>. QED
    BY <2>1, NoPieces, ConcatEmptySeq
<1>6. Output' = Output \o <<>> /\ windows' \in Texts /\ watermark' \in BOOLEAN /\ status' # "ended"
      /\ status' \in {"reading", "chunk", "open", "closing"}
  BY <1>1, <1>2, <1>3
<1>. QED
  BY <1>1, <1>3, <1>4, <1>5, <1>6, StepRelayed

(* What is put after the output, and carries no text. *)
LEMMA SilentRelayed ==
  ASSUME RelayInv, status # "ended", status' # "ended", UNCHANGED <<shape, fed, windows, ordinals, watermark>>,
         sent' \in Seq(Pieces), outgoing' \in Seq(Pieces),
         status' \in {"reading", "chunk", "open", "closing"}, EndsOnce',
         \E written \in Seq(Pieces) : Write(written),
         NEW ps \in Seq(Pieces), Output' = Output \o ps, \A key : TextIn(ps, key) = <<>>
  PROVE  RelayInv' /\ RelayMoves
<1>1. windows \in Texts /\ watermark \in BOOLEAN
  BY DEF RelayInv, LoopTypes
<1>2. \A key \in Key : TextIn(ps, key) \o Part(windows', key) = Part(windows, key)
  <2>. SUFFICES ASSUME NEW key \in Key PROVE <<>> \o Part(windows, key) = Part(windows, key)
    OBVIOUS
  <2>1. PICK x \in Seq(Nat) : x = Part(windows, key)
    BY <1>1, TextIs
  <2>. QED
    BY <2>1, ConcatEmptySeq
<1>3. windows' \in Texts /\ watermark' \in BOOLEAN
  BY <1>1
<1>. QED
  BY <1>2, <1>3, StepRelayed

LEMMA AbortRelayed ==
  ASSUME RelayInv, CapacityBreach \/ FailClosed
  PROVE  RelayInv' /\ RelayMoves
<1>1. /\ status = "chunk" /\ status' = "closing" /\ ending' = "aborted"
      /\ outgoing' = outgoing \o <<Bare("error"), Bare("done")>>
      /\ UNCHANGED <<shape, fed, windows, ordinals, sent, client, watermark>>
  BY DEF CapacityBreach, FailClosed, Abort, Close
<1>2. sent \in Seq(Pieces) /\ outgoing \in Seq(Pieces) /\ fed \in Seq(Key)
  BY DEF RelayInv, LoopTypes
<1>3. PICK e \in Seq(Pieces) : e = <<Bare("error")>> /\ \A key : TextIn(e, key) = <<>>
  BY <1>2, BarePiece DEF Kinds
<1>4. PICK d \in Seq(Pieces) : d = <<Bare("done")>> /\ \A key : TextIn(d, key) = <<>>
  BY <1>2, BarePiece DEF Kinds
<1>5. PICK ps \in Seq(Pieces) : ps = <<Bare("error"), Bare("done")>> /\ \A key : TextIn(ps, key) = <<>>
  <2>1. e \o d \in Seq(Pieces) /\ \A key : TextIn(e \o d, key) = TextIn(e, key)
    BY <1>4, SilentAfter
  <2>2. e \o d = <<Bare("error"), Bare("done")>>
    <3>1. PICK a \in Pieces, b \in Pieces : a = Bare("error") /\ b = Bare("done")
      BY <1>2, BareIs DEF Kinds
    <3>2. PICK x \in Seq(Pieces), y \in Seq(Pieces), z \in Seq(Pieces) :
            /\ x = <<a>> /\ y = <<b>> /\ z = <<a, b>>
            /\ Len(x) = 1 /\ x[1] = a /\ Len(y) = 1 /\ y[1] = b /\ Len(z) = 2 /\ z[1] = a /\ z[2] = b
      <4>1. <<a>> \in Seq(Pieces) /\ Len(<<a>>) = 1 /\ <<a>>[1] = a
        OBVIOUS
      <4>2. <<b>> \in Seq(Pieces) /\ Len(<<b>>) = 1 /\ <<b>>[1] = b
        OBVIOUS
      <4>3. <<a, b>> \in Seq(Pieces) /\ Len(<<a, b>>) = 2 /\ <<a, b>>[1] = a /\ <<a, b>>[2] = b
        OBVIOUS
      <4>. QED
        BY <4>1, <4>2, <4>3, Zenon
    <3>3. /\ x \o y \in Seq(Pieces) /\ Len(x \o y) = 2
          /\ \A i \in 1 .. 2 : (x \o y)[i] = z[i]
      BY <3>2, ConcatProperties
    <3>4. x \o y = z
      BY <3>2, <3>3, SeqEqual, ZenonT(60)
    <3>. QED
      BY <1>3, <1>4, <3>1, <3>2, <3>4
  <2>. QED
    BY <1>3, <2>1, <2>2
<1>6. outgoing' \in Seq(Pieces) /\ Output' = Output \o ps
  <2>1. outgoing' = outgoing \o ps /\ Output' = sent \o (outgoing \o ps)
    BY <1>1, <1>5 DEF Output
  <2>2. (sent \o outgoing) \o ps = sent \o (outgoing \o ps)
    BY <1>2, ConcatAssociative, SMTT(30)
  <2>. QED
    BY <1>2, <2>1, <2>2, ConcatProperties DEF Output
<1>7. EndsOnce'
  BY <1>1 DEF EndsOnce
<1>8. sent' \in Seq(Pieces) /\ \E written \in Seq(Pieces) : Write(written)
  BY <1>1, WriteNothing
<1>. QED
  BY <1>1, <1>5, <1>6, <1>7, <1>8, SilentRelayed

LEMMA RawRelayed ==
  ASSUME RelayInv, FailOpen \/ PassRaw
  PROVE  RelayInv' /\ RelayMoves
<1>1. /\ sent \in Seq(Pieces) /\ outgoing \in Seq(Pieces) /\ fed \in Seq(Key) /\ <<>> \in Seq(Pieces)
      /\ status \in {"chunk", "open"} /\ status' = "open" /\ ending = "" /\ ending' = ending
      /\ UNCHANGED <<shape, fed, windows, ordinals, watermark>>
  BY NoPieces DEF RelayInv, LoopTypes, EndsOnce, FailOpen, PassRaw
<1>2. PICK r \in Seq(Pieces) : r = <<Bare("raw")>> /\ \A key : TextIn(r, key) = <<>>
  BY <1>1, BarePiece DEF Kinds
<1>3. Bare("raw") \in Pieces
  BY <1>1, BareIs DEF Kinds
<1>4. PICK w \in Seq(Pieces) : w = outgoing \o r /\ Write(w) /\ outgoing' = <<>>
  <2>1. outgoing \o r \in Seq(Pieces)
    BY <1>1, ConcatProperties
  <2>2. CASE FailOpen
    <3>1. Append(outgoing, Bare("raw")) = outgoing \o r
      BY <1>1, <1>2, <1>3, AppendIsConcat
    <3>. QED
      BY <2>1, <2>2, <3>1 DEF FailOpen
  <2>3. CASE PassRaw
    <3>1. outgoing = <<>> /\ outgoing' = outgoing /\ Write(r)
      BY <1>2, <2>3 DEF RelayInv, EndsOnce, PassRaw
    <3>2. <<>> \o r = r
      BY ConcatEmptySeq
    <3>. QED
      BY <2>1, <3>1, <3>2
  <2>. QED
    BY <2>2, <2>3
<1>5. sent' \in Seq(Pieces) /\ outgoing' \in Seq(Pieces) /\ Output' = Output \o r
  <2>1. sent' = sent \o w /\ sent \o w \in Seq(Pieces)
    BY <1>1, <1>4, ConcatProperties DEF Write
  <2>2. (sent \o w) \o <<>> = sent \o w
    BY <2>1, ConcatEmptySeq
  <2>3. sent \o (outgoing \o r) = (sent \o outgoing) \o r
    <3>1. sent \in Seq(Pieces) /\ outgoing \in Seq(Pieces)
      BY <1>1
    <3>. QED
      BY <3>1, PiecesJoin, ZenonT(60)
  <2>. QED
    BY <1>1, <1>4, <2>1, <2>2, <2>3 DEF Output
<1>6. EndsOnce'
  BY <1>1, <1>4 DEF EndsOnce
<1>. QED
  BY <1>1, <1>2, <1>4, <1>5, <1>6, SilentRelayed

LEMMA ClosingRelayed ==
  ASSUME RelayInv, Canary \/ StopsOpen
  PROVE  RelayInv' /\ RelayMoves
<1>1. /\ status \in {"chunk", "open"} /\ status' = "closing" /\ ending' \in {"canary", "open"} /\ outgoing' = outgoing
      /\ UNCHANGED <<shape, fed, windows, ordinals, sent, client, watermark>>
  BY DEF RelayInv, EndsOnce, Canary, StopsOpen, Close
<1>2. sent \in Seq(Pieces) /\ outgoing \in Seq(Pieces)
  BY DEF RelayInv, LoopTypes
<1>3. Output \in Seq(Pieces) /\ Output \o <<>> = Output
  BY <1>2, ConcatProperties, ConcatEmptySeq DEF Output
<1>4. Output' = Output \o <<>> /\ outgoing' \in Seq(Pieces)
  BY <1>1, <1>2, <1>3 DEF Output
<1>5. EndsOnce'
  BY <1>1 DEF EndsOnce
<1>6. sent' \in Seq(Pieces) /\ \E written \in Seq(Pieces) : Write(written)
  BY <1>1, WriteNothing
<1>7. <<>> \in Seq(Pieces) /\ \A key : TextIn(<<>>, key) = <<>>
  BY NoPieces
<1>. QED
  BY <1>1, <1>4, <1>5, <1>6, <1>7, SilentRelayed

LEMMA StopsRelayed ==
  ASSUME RelayInv, Stops
  PROVE  RelayInv' /\ RelayMoves
<1>1. /\ status = "reading" /\ status' = "closing" /\ ending' = "complete" /\ watermark' = FALSE
      /\ windows' = Drained(windows, DOMAIN windows) /\ UNCHANGED <<shape, fed, ordinals, sent, client>>
  BY DEF Stops, Close
<1>2. PICK order \in FlushOrders : outgoing' = FlushAll(order) \o Watermark
  BY DEF Stops, Close
<1>3. windows' \in Texts /\ \A key : Part(windows', key) = <<>>
  BY <1>1, <1>2, FlushIs
<1>4. PICK ps \in Seq(Pieces) : ps = FlushAll(order) \o Watermark /\ \A key : TextIn(ps, key) = Part(windows, key)
  BY FlushIs
<1>5. outgoing' \in Seq(Pieces) /\ Output' = Output \o ps
  <2>1. outgoing = <<>> /\ sent \in Seq(Pieces)
    BY <1>1 DEF RelayInv, EndsOnce, LoopTypes
  <2>2. sent \o <<>> = sent
    BY <2>1, ConcatEmptySeq
  <2>. QED
    BY <1>1, <1>2, <1>4, <2>1, <2>2 DEF Output
<1>6. \A key \in Key : TextIn(ps, key) \o Part(windows', key) = Part(windows, key)
  <2>. SUFFICES ASSUME NEW key \in Key PROVE Part(windows, key) \o <<>> = Part(windows, key)
    BY <1>3, <1>4
  <2>1. PICK x \in Seq(Nat) : x = Part(windows, key)
    BY TextIs DEF RelayInv, LoopTypes
  <2>. QED
    BY <2>1, ConcatEmptySeq
<1>7. EndsOnce'
  BY <1>1, <1>3 DEF EndsOnce
<1>8. sent' \in Seq(Pieces) /\ \E written \in Seq(Pieces) : Write(written)
  BY <1>1, WriteNothing
<1>9. watermark' \in BOOLEAN
  BY <1>1
<1>. QED
  BY <1>1, <1>3, <1>5, <1>6, <1>7, <1>8, <1>9, StepRelayed

(* The end: a stream that completed has shown all of each channel.         *)
LEMMA EndRelayed ==
  ASSUME RelayInv, status # "ended", status' = "ended", UNCHANGED <<fed, client>>,
         \/ ending' = "disconnected"
         \/ ending' = ending /\ outgoing = <<>>
  PROVE  RelayMoves
<1>1. CASE ending' = "complete"
  <2>1. /\ ending = "complete" /\ outgoing = <<>> /\ sent \in Seq(Pieces) /\ Accounted
        /\ client = [key \in Key |-> TextIn(sent, key)]
        /\ \A key \in Key : Part(windows, key) = <<>>
    BY <1>1 DEF RelayInv, LoopTypes, EndsOnce
  <2>2. ASSUME NEW key \in Key PROVE client[key] = Relay!NumbersOf(fed, key)
    <3>1. PICK x \in Seq(Nat) : x = TextIn(sent, key)
      BY <2>1, TextInIs
    <3>2. Output = sent /\ x \o <<>> = x
      BY <2>1, ConcatEmptySeq DEF Output
    <3>. QED
      BY <2>1, <3>1, <3>2 DEF Accounted
  <2>3. DOMAIN client = Key
    BY <2>1
  <2>4. Relay!End
    BY <1>1, <2>2, <2>3 DEF Relay!End, Relay!FedTo
  <2>. QED
    BY <2>4 DEF RelayMoves, Relay!Next
<1>2. CASE ending' # "complete"
  <2>1. Relay!End
    BY <1>2 DEF Relay!End
  <2>. QED
    BY <2>1 DEF RelayMoves, Relay!Next
<1>. QED
  BY <1>1, <1>2

LEMMA LastRelayed ==
  ASSUME RelayInv, WriteLast
  PROVE  RelayInv' /\ RelayMoves
<1>1. /\ status = "closing" /\ UNCHANGED <<shape, fed, windows, ordinals, watermark, ending>>
      /\ sent \in Seq(Pieces) /\ outgoing \in Seq(Pieces) /\ windows \in Texts /\ <<>> \in Seq(Pieces)
  BY NoPieces DEF RelayInv, LoopTypes, WriteLast
<1>2. CASE outgoing = <<>>
  <2>1. status' = "ended" /\ UNCHANGED <<sent, client, outgoing>>
    BY <1>2 DEF WriteLast
  <2>2. RelayInv'
    BY <1>1, <2>1 DEF RelayInv, LoopTypes, OrdinalTypes, EndsOnce, Accounted, Output
  <2>3. RelayMoves
    BY <1>1, <1>2, <2>1, EndRelayed
  <2>. QED
    BY <2>2, <2>3
<1>3. CASE outgoing # <<>>
  <2>1. status' = status /\ Write(<<Head(outgoing)>>) /\ outgoing' = Tail(outgoing)
    BY <1>3 DEF WriteLast
  <2>2. PICK h \in Seq(Pieces), t \in Seq(Pieces) : h = <<Head(outgoing)>> /\ t = Tail(outgoing) /\ h \o t = outgoing
    <3>1. /\ <<Head(outgoing)>> \in Seq(Pieces) /\ Tail(outgoing) \in Seq(Pieces)
          /\ <<Head(outgoing)>> \o Tail(outgoing) = outgoing
      BY <1>1, <1>3, HeadTailProperties
    <3>. QED
      BY <3>1
  <2>3. sent' = sent \o h /\ sent \o h \in Seq(Pieces) /\ (sent \o h) \o t = sent \o (h \o t)
    <3>1. sent \o h \in Seq(Pieces)
      BY <1>1, ConcatProperties
    <3>2. (sent \o h) \o t = sent \o (h \o t)
      BY <1>1, ConcatAssociative, SMTT(30)
    <3>. QED
      BY <2>1, <2>2, <3>1, <3>2 DEF Write
  <2>4. Output \in Seq(Pieces) /\ Output \o <<>> = Output
    BY <1>1, ConcatProperties, ConcatEmptySeq DEF Output
  <2>5. Output' = Output \o <<>> /\ sent' \in Seq(Pieces) /\ outgoing' \in Seq(Pieces)
    BY <2>1, <2>2, <2>3, <2>4 DEF Output
  <2>6. EndsOnce'
    BY <1>1, <2>1 DEF RelayInv, EndsOnce
  <2>7. \A key : TextIn(<<>>, key) = <<>>
    BY NoPieces
  <2>8. \E written \in Seq(Pieces) : Write(written)
    BY <2>1, <2>2
  <2>. QED
    BY <1>1, <2>1, <2>5, <2>6, <2>7, <2>8, SilentRelayed
<1>. QED
  BY <1>2, <1>3

LEMMA DisconnectRelayed ==
  ASSUME RelayInv, Disconnect
  PROVE  RelayInv' /\ RelayMoves
<1>1. /\ status # "ended" /\ status' = "ended" /\ ending' = "disconnected" /\ outgoing' = <<>>
      /\ UNCHANGED <<shape, fed, windows, ordinals, sent, client, watermark>>
  BY DEF Disconnect
<1>2. RelayInv'
  BY <1>1, NoPieces DEF RelayInv, LoopTypes, OrdinalTypes, EndsOnce
<1>. QED
  BY <1>1, <1>2, EndRelayed

LEMMA RelayBegins == Init => RelayInv /\ Relay!Init
<1>. SUFFICES ASSUME Init PROVE RelayInv /\ Relay!Init
  OBVIOUS
<1>1. /\ fed = <<>> /\ windows = <<>> /\ ordinals = <<>> /\ outgoing = <<>> /\ sent = <<>>
      /\ client = [key \in Key |-> <<>>] /\ status = "reading" /\ ending = ""
      /\ shape \in {"chat", "completions", "anthropic"} /\ watermark \in BOOLEAN
  BY DEF Init
<1>2. /\ windows \in Texts /\ \A key : Part(windows, key) = <<>>
  BY <1>1, NoTextIs DEF NoText
<1>4. LoopTypes
  BY LoopBegins DEF LoopInv
<1>5. ASSUME NEW key \in Key
      PROVE  TextIn(Output, key) \o Part(windows, key) = Relay!NumbersOf(fed, key) /\ TextIn(sent, key) = <<>>
  <2>1. <<>> \o <<>> = <<>> /\ <<>> \in Seq(Key) /\ Len(<<>>) = 0
    OBVIOUS
  <2>2. Relay!NumbersOf(fed, key) = <<>>
    <3>1. PICK came \in Seq(Key) : came = fed /\ Len(came) = 0
      BY <1>1, <2>1
    <3>2. PICK f \in [0 .. Len(came) -> Seq(Nat)] : f[0] = <<>> /\ Relay!NumbersOf(came, key) = f[Len(came)]
      BY NumbersSteps
    <3>. QED
      BY <3>1, <3>2
  <2>. QED
    BY <1>1, <1>2, <2>1, <2>2, NoPieces DEF Output
<1>6. client = [key \in Key |-> TextIn(sent, key)]
  BY <1>1, <1>5
<1>7. EndsOnce
  BY <1>1 DEF EndsOnce
<1>8. Relay!Init
  BY <1>1 DEF Relay!Init
<1>. QED
  BY <1>4, <1>5, <1>6, <1>7, <1>8 DEF RelayInv, Accounted

LEMMA RelayGoesOn == RelayInv /\ [Next]_vars => RelayInv' /\ RelayMoves
<1>. SUFFICES ASSUME RelayInv, [Next]_vars PROVE RelayInv' /\ RelayMoves
  OBVIOUS
<1>1. CASE UNCHANGED vars
  <2>1. UNCHANGED <<shape, fed, windows, ordinals, outgoing, sent, client, watermark, status, ending>>
    BY <1>1 DEF vars
  <2>2. RelayInv'
    BY <2>1 DEF RelayInv, LoopTypes, OrdinalTypes, EndsOnce, Accounted, Output
  <2>3. RelayMoves
    BY <2>1 DEF RelayMoves, Relay!vars
  <2>. QED
    BY <2>2, <2>3
<1>2. CASE Event
  <2>1. ASSUME NEW c \in Choice, NEW finish \in BOOLEAN, Plain(c, finish)
        PROVE  RelayInv' /\ RelayMoves
    <3>1. Prose \in Tool \cup {Prose}
      OBVIOUS
    <3>. QED
      BY <2>1, <3>1, ChatRelayed
  <2>2. ASSUME NEW c \in Choice, NEW finish \in BOOLEAN, NEW part \in Tool \cup {Prose},
               Opens(c, part, finish) \/ Delta(c, part, finish)
        PROVE  RelayInv' /\ RelayMoves
    BY <2>2, ChatRelayed
  <2>. QED
    BY <1>2, <2>1, <2>2, BlockRelayed, StartRelayed, ArgumentsRelayed, StopRelayed, DoneRelayed DEF Event
<1>3. CASE ChunkArrives \/ ChunkEnds
  BY <1>3, ChunkRelayed
<1>4. CASE CapacityBreach \/ FailClosed
  BY <1>4, AbortRelayed
<1>5. CASE FailOpen \/ PassRaw
  BY <1>5, RawRelayed
<1>6. CASE Canary \/ StopsOpen
  BY <1>6, ClosingRelayed
<1>7. CASE Stops
  BY <1>7, StopsRelayed
<1>8. CASE WriteLast
  BY <1>8, LastRelayed
<1>9. CASE Disconnect
  BY <1>9, DisconnectRelayed
<1>. QED
  BY <1>1, <1>2, <1>3, <1>4, <1>5, <1>6, <1>7, <1>8, <1>9 DEF Next

(* However a stream is framed and ends, and however its upstream spells    *)
(* [DONE], each channel's text reaches the client in order and no other    *)
(* does, and a stream that ends of itself has shown all of it.             *)
THEOREM StreamImplementsRelay == Spec => ImplementsRelay
<1>1. Init => RelayInv /\ Relay!Init
  BY RelayBegins
<1>2. RelayInv /\ [Next]_vars => RelayInv' /\ [Relay!Next]_(Relay!vars)
  BY RelayGoesOn DEF RelayMoves
<1>. QED
  BY <1>1, <1>2, PTL DEF Spec, ImplementsRelay, Relay!Spec

(***************************************************************************)
(* The fields beside the text of a stream (SiblingScan).  What the client  *)
(* joined up on a field that is still remembered ends as the memory does,  *)
(* so a value it would complete is a value the detectors see across the    *)
(* join.                                                                   *)
(***************************************************************************)
FieldPaths == Paths \cup OtherPaths

Memory == FieldPaths \X Seq(Nat)

SiblingTypes ==
  /\ tails \in Seq(Memory) /\ joined \in [FieldPaths -> Seq(Nat)]
  /\ leaked \subseteq FieldPaths /\ evicted \subseteq FieldPaths

PathsAreDistinct(ts) == \A i, j \in 1 .. Len(ts) : ts[i][1] = ts[j][1] => i = j

(* Of a path not evicted, the memory and what was joined end alike. *)
Remembered(ts, p, says) ==
  \/ \E i \in 1 .. Len(ts) : ts[i][1] = p /\ says = Ending(ts[i][2], ValueLength - 1)
  \/ says = <<>> /\ \A i \in 1 .. Len(ts) : ts[i][1] # p

SiblingInv ==
  /\ SiblingTypes /\ PathsAreDistinct(tails)
  /\ \A p \in FieldPaths \ evicted : Remembered(tails, p, joined[p])
  /\ SplitValuesStayApart

(* The last n of a text. *)
LEMMA EndingIs ==
  ASSUME NEW t \in Seq(Nat), NEW n \in Nat
  PROVE  /\ Ending(t, n) \in Seq(Nat) /\ Len(Ending(t, n)) = IF Len(t) > n THEN n ELSE Len(t)
         /\ \A i \in 1 .. Len(Ending(t, n)) : Ending(t, n)[i] = t[Len(t) - Len(Ending(t, n)) + i]
<1>1. Len(t) \in Nat
  BY LenProperties
<1>2. CASE Len(t) > n
  <2>. DEFINE m == Len(t) - n + 1
  <2>1. /\ SubSeq(t, m, Len(t)) \in Seq(Nat) /\ Len(SubSeq(t, m, Len(t))) = n
        /\ \A i \in 1 .. n : SubSeq(t, m, Len(t))[i] = t[m + i - 1]
    <3>1. m \in Int /\ Len(t) \in Int /\ \A i \in m .. Len(t) : t[i] \in Nat
      BY <1>1, <1>2, ElementOfSeq
    <3>. QED
      BY <1>1, <1>2, <3>1, SubSeqProperties, SMTT(30)
  <2>2. Ending(t, n) = SubSeq(t, m, Len(t))
    BY <1>2 DEF Ending
  <2>. QED
    BY <1>1, <1>2, <2>1, <2>2
<1>3. CASE ~(Len(t) > n)
  BY <1>1, <1>3 DEF Ending
<1>. QED
  BY <1>2, <1>3

(* The last b of a text whose beginning was cut to its last a. *)
LEMMA EndingOfJoin ==
  ASSUME NEW t \in Seq(Nat), NEW u \in Seq(Nat), NEW a \in Nat, NEW b \in Nat, b <= a
  PROVE  Ending(Ending(t, a) \o u, b) = Ending(t \o u, b)
<1>. DEFINE s == Ending(t, a)
            x == s \o u
            y == t \o u
<1>1. /\ s \in Seq(Nat) /\ Len(t) \in Nat /\ Len(u) \in Nat /\ Len(s) \in Nat
      /\ Len(s) = IF Len(t) > a THEN a ELSE Len(t)
      /\ \A i \in 1 .. Len(s) : s[i] = t[Len(t) - Len(s) + i]
  BY EndingIs, LenProperties
<1>. HIDE DEF s
<1>2. /\ x \in Seq(Nat) /\ Len(x) = Len(s) + Len(u)
      /\ \A i \in 1 .. Len(x) : x[i] = IF i <= Len(s) THEN s[i] ELSE u[i - Len(s)]
  <2>1. /\ s \o u \in Seq(Nat) /\ Len(s \o u) = Len(s) + Len(u)
        /\ \A i \in 1 .. Len(s) + Len(u) : (s \o u)[i] = IF i <= Len(s) THEN s[i] ELSE u[i - Len(s)]
    BY <1>1, ConcatProperties
  <2>. QED
    BY <2>1
<1>3. /\ y \in Seq(Nat) /\ Len(y) = Len(t) + Len(u)
      /\ \A i \in 1 .. Len(y) : y[i] = IF i <= Len(t) THEN t[i] ELSE u[i - Len(t)]
  BY <1>1, ConcatProperties
<1>. HIDE DEF x, y
<1>4. Len(x) \in Nat /\ Len(y) \in Nat /\ Len(x) <= Len(y) /\ (Len(x) >= b \/ Len(x) = Len(y))
  BY <1>1, <1>2, <1>3
<1>4a. ASSUME NEW i \in 1 .. Len(x) PROVE x[i] = y[Len(y) - Len(x) + i]
  <2>0. /\ Len(t) \in Nat /\ Len(u) \in Nat /\ Len(s) \in Nat /\ Len(s) <= Len(t)
        /\ Len(x) = Len(s) + Len(u) /\ Len(y) = Len(t) + Len(u) /\ i \in Nat /\ 1 <= i /\ i <= Len(x)
    BY <1>1, <1>2, <1>3
  <2>1. Len(y) - Len(x) = Len(t) - Len(s) /\ Len(y) - Len(x) + i \in 1 .. Len(y)
    BY <2>0
  <2>2. CASE i <= Len(s)
    <3>1. i \in 1 .. Len(s) /\ Len(t) - Len(s) + i <= Len(t)
      BY <2>0, <2>2
    <3>2. x[i] = t[Len(t) - Len(s) + i]
      BY <1>1, <1>2, <2>2, <3>1
    <3>3. y[Len(t) - Len(s) + i] = t[Len(t) - Len(s) + i]
      BY <1>3, <2>1, <3>1
    <3>. QED
      BY <2>1, <3>2, <3>3
  <2>3. CASE ~(i <= Len(s))
    <3>1. x[i] = u[i - Len(s)]
      BY <1>1, <1>2, <2>3
    <3>2. ~(Len(y) - Len(x) + i <= Len(t)) /\ Len(y) - Len(x) + i - Len(t) = i - Len(s)
      BY <2>0, <2>1, <2>3
    <3>. DEFINE m == Len(y) - Len(x) + i
    <3>3. m \in 1 .. Len(y) /\ ~(m <= Len(t)) /\ m - Len(t) = i - Len(s)
      BY <2>1, <3>2
    <3>. HIDE DEF m
    <3>4. y[m] = u[i - Len(s)]
      BY <1>3, <3>3
    <3>. QED
      BY <3>1, <3>4 DEF m
  <2>. QED
    BY <2>2, <2>3
<1>5. /\ Ending(x, b) \in Seq(Nat) /\ Len(Ending(x, b)) = IF Len(x) > b THEN b ELSE Len(x)
      /\ \A i \in 1 .. Len(Ending(x, b)) : Ending(x, b)[i] = x[Len(x) - Len(Ending(x, b)) + i]
  BY <1>2, EndingIs
<1>6. /\ Ending(y, b) \in Seq(Nat) /\ Len(Ending(y, b)) = IF Len(y) > b THEN b ELSE Len(y)
      /\ \A i \in 1 .. Len(Ending(y, b)) : Ending(y, b)[i] = y[Len(y) - Len(Ending(y, b)) + i]
  BY <1>3, EndingIs
<1>7. Len(Ending(x, b)) = Len(Ending(y, b))
  BY <1>4, <1>5, <1>6
<1>8. ASSUME NEW i \in 1 .. Len(Ending(x, b)) PROVE Ending(x, b)[i] = Ending(y, b)[i]
  <2>. DEFINE j == Len(x) - Len(Ending(x, b)) + i
  <2>0. /\ Len(x) \in Nat /\ Len(Ending(x, b)) \in Nat /\ Len(Ending(x, b)) <= Len(x) /\ Len(y) \in Nat
        /\ Len(Ending(y, b)) = Len(Ending(x, b)) /\ i \in Nat /\ 1 <= i /\ i <= Len(Ending(x, b))
    BY <1>4, <1>5, <1>7
  <2>1. j \in 1 .. Len(x) /\ Len(y) - Len(x) + j = Len(y) - Len(Ending(y, b)) + i
    BY <2>0
  <2>2. Ending(x, b)[i] = x[j] /\ Ending(y, b)[i] = y[Len(y) - Len(Ending(y, b)) + i]
    BY <1>5, <1>6, <1>7
  <2>. HIDE DEF j
  <2>3. x[j] = y[Len(y) - Len(x) + j]
    BY <1>4a, <2>1
  <2>. QED
    BY <2>1, <2>2, <2>3
<1>9. Ending(x, b) = Ending(y, b)
  BY <1>5, <1>6, <1>7, <1>8, SeqEqual
<1>. QED
  BY <1>9 DEF x, y, s

LEMMA BeginningIs ==
  ASSUME NEW t \in Seq(Nat), NEW n \in Nat
  PROVE  /\ Beginning(t, n) \in Seq(Nat) /\ Len(Beginning(t, n)) = IF Len(t) > n THEN n ELSE Len(t)
         /\ \A i \in 1 .. Len(Beginning(t, n)) : Beginning(t, n)[i] = t[i]
<1>1. Len(t) \in Nat
  BY LenProperties
<1>2. CASE Len(t) > n
  <2>1. /\ SubSeq(t, 1, n) \in Seq(Nat) /\ Len(SubSeq(t, 1, n)) = n
        /\ \A i \in 1 .. n : SubSeq(t, 1, n)[i] = t[i]
    <3>1. 1 \in Int /\ n \in Int /\ \A i \in 1 .. n : t[i] \in Nat
      BY <1>1, <1>2, ElementOfSeq
    <3>. QED
      BY <1>1, <1>2, <3>1, SubSeqProperties
  <2>. QED
    BY <1>1, <1>2, <2>1 DEF Beginning
<1>3. CASE ~(Len(t) > n)
  BY <1>1, <1>3 DEF Beginning
<1>. QED
  BY <1>2, <1>3

LEMMA FragmentsAreTexts == Fragments \subseteq Seq(Nat)
<1>1. <<>> \in Seq(Nat)
  OBVIOUS
<1>2. ASSUME NEW from \in 1 .. ValueLength, NEW to \in 1 .. ValueLength
      PROVE  [i \in 1 .. to - from + 1 |-> from + i - 1] \in Seq(Nat)
  <2>. DEFINE f == [i \in 1 .. to - from + 1 |-> from + i - 1]
  <2>0. ValueLength \in Nat
    BY SiblingAssumption
  <2>1. CASE to - from + 1 \in Nat
    <3>1. f \in [1 .. to - from + 1 -> Nat]
      BY <2>0, <2>1
    <3>. QED
      BY <2>1, <3>1
  <2>2. CASE to - from + 1 \notin Nat
    <3>1. f \in [1 .. 0 -> Nat]
      BY <2>0, <2>2
    <3>. QED
      BY <3>1
  <2>. QED
    BY <2>1, <2>2
<1>3. ASSUME NEW f \in Fragments PROVE f \in Seq(Nat)
  <2>1. CASE f = <<>>
    BY <1>1, <2>1
  <2>2. CASE f # <<>>
    <3>1. PICK from \in 1 .. ValueLength, to \in 1 .. ValueLength :
            f = [i \in 1 .. to - from + 1 |-> from + i - 1]
      BY <2>2 DEF Fragments
    <3>. QED
      BY <1>2, <3>1
  <2>. QED
    BY <2>1, <2>2
<1>. QED
  BY <1>3

LEMMA LargestBelow ==
  ASSUME NEW S \in SUBSET Nat, NEW top \in Nat, \A e \in S : e <= top, S # {}
  PROVE  \E e \in S : \A f \in S : f <= e
<1>. DEFINE D == {d \in Nat : top - d \in S}
<1>1. D \in SUBSET Nat /\ D # {}
  <2>1. PICK e \in S : TRUE
    OBVIOUS
  <2>2. top - e \in Nat /\ top - (top - e) = e
    BY <2>1
  <2>. QED
    BY <2>1, <2>2
<1>2. PICK m \in D : \A k \in D : <<k, m>> \notin OpToRel(<, Nat)
  BY <1>1, WFMin, NatLessThanWellFounded, Zenon
<1>3. \A k \in D : ~(k < m)
  BY <1>1, <1>2, Zenon DEF OpToRel
<1>4. \A f \in S : f <= top - m
  <2>. SUFFICES ASSUME NEW f \in S PROVE f <= top - m
    OBVIOUS
  <2>1. top - f \in Nat /\ top - (top - f) = f
    OBVIOUS
  <2>2. top - f \in D
    BY <2>1
  <2>3. ~(top - f < m) /\ m \in Nat
    BY <1>3, <2>2
  <2>. QED
    BY <2>1, <2>3
<1>5. top - m \in S
  OBVIOUS
<1>. QED
  BY <1>4, <1>5

(* Where a value starts, it is all there. *)
LEMMA StartsIs ==
  ASSUME NEW t \in Seq(Nat), NEW i \in Starts(t)
  PROVE  /\ ValueLength \in Nat \ {0} /\ Len(t) \in Nat
         /\ i \in Nat /\ 1 <= i /\ i + ValueLength - 1 <= Len(t)
         /\ \A k \in 1 .. ValueLength : t[i + k - 1] = k
<1>1. Len(t) \in Nat /\ ValueLength \in Nat \ {0}
  BY LenProperties, SiblingAssumption
<1>. QED
  BY <1>1 DEF Starts

LEMMA StartsThere ==
  ASSUME NEW t \in Seq(Nat), NEW i \in Nat, 1 <= i, i + ValueLength - 1 <= Len(t),
         \A k \in 1 .. ValueLength : t[i + k - 1] = k
  PROVE  i \in Starts(t)
<1>1. Len(t) \in Nat /\ ValueLength \in Nat \ {0}
  BY LenProperties, SiblingAssumption
<1>. QED
  BY <1>1 DEF Starts

LEMMA FragmentIsScanned ==
  ASSUME NEW f \in Seq(Nat)
  PROVE  RedactModelOriginated(f) \in Seq(Nat) /\ Starts(RedactModelOriginated(f)) = {}
<1>1. CASE Starts(f) = {}
  BY <1>1 DEF RedactModelOriginated
<1>2. CASE Starts(f) # {}
  <2>1. RedactModelOriginated(f) = <<0>>
    BY <1>2 DEF RedactModelOriginated, Mark
  <2>2. <<0>> \in Seq(Nat) /\ Len(<<0>>) = 1 /\ <<0>>[1] = 0
    OBVIOUS
  <2>3. ASSUME NEW i \in Starts(<<Mark>>) PROVE FALSE
    <3>. DEFINE t == <<0>>
    <3>0. t \in Seq(Nat) /\ Len(t) = 1 /\ i \in Starts(t)
      BY <2>2, <2>3 DEF Mark
    <3>. HIDE DEF t
    <3>1. /\ ValueLength \in Nat \ {0} /\ i \in Nat /\ 1 <= i /\ i + ValueLength - 1 <= 1
          /\ \A k \in 1 .. ValueLength : t[i + k - 1] = k
      BY <3>0, StartsIs
    <3>3. i = 1 /\ 1 \in 1 .. ValueLength /\ i + 1 - 1 = 1
      BY <3>1
    <3>4. t[i + 1 - 1] = 1
      BY <3>1, <3>3
    <3>2. <<0>>[1] = 1
      BY <3>3, <3>4 DEF t
    <3>. QED
      BY <2>2, <3>2
  <2>. QED
    BY <2>1, <2>2, <2>3 DEF Mark
<1>. QED
  BY <1>1, <1>2

(* A value in a join whose first part is shorter lies in the second part   *)
(* or across the join.                                                     *)
LEMMA ValueInJoin ==
  ASSUME NEW s \in Seq(Nat), NEW w \in Seq(Nat), Len(s) <= ValueLength - 1, NEW i \in Starts(s \o w)
  PROVE  /\ i \in Nat /\ 1 <= i /\ i + ValueLength - 1 > Len(s) /\ i + ValueLength - 1 <= Len(s) + Len(w)
         /\ \A k \in 1 .. ValueLength : i + k - 1 <= Len(s) => s[i + k - 1] = k
         /\ \A k \in 1 .. ValueLength : i + k - 1 > Len(s) =>
              (i + k - 1) - Len(s) \in 1 .. Len(w) /\ w[(i + k - 1) - Len(s)] = k
<1>1. Len(s) \in Nat /\ Len(w) \in Nat
  BY LenProperties
<1>2. /\ s \o w \in Seq(Nat) /\ Len(s \o w) = Len(s) + Len(w)
      /\ \A x \in 1 .. Len(s) + Len(w) : (s \o w)[x] = IF x <= Len(s) THEN s[x] ELSE w[x - Len(s)]
  BY ConcatProperties
<1>3. /\ ValueLength \in Nat \ {0} /\ i \in Nat /\ 1 <= i /\ i + ValueLength - 1 <= Len(s) + Len(w)
      /\ \A k \in 1 .. ValueLength : (s \o w)[i + k - 1] = k
  BY <1>2, StartsIs
<1>4. i + ValueLength - 1 > Len(s)
  BY <1>1, <1>3
<1>5. ASSUME NEW k \in 1 .. ValueLength, NEW x, x = i + k - 1
      PROVE  /\ x <= Len(s) => s[x] = k
             /\ x > Len(s) => x - Len(s) \in 1 .. Len(w) /\ w[x - Len(s)] = k
  <2>1. x \in 1 .. Len(s) + Len(w) /\ x \in Nat /\ (x > Len(s) => x - Len(s) \in 1 .. Len(w))
    BY <1>1, <1>3, <1>5
  <2>2. (s \o w)[x] = k
    BY <1>3, <1>5
  <2>3. x <= Len(s) => s[x] = k
    BY <1>2, <2>1, <2>2
  <2>4. x > Len(s) => w[x - Len(s)] = k
    <3>1. x > Len(s) => ~(x <= Len(s))
      BY <1>1, <2>1
    <3>. QED
      BY <1>2, <2>1, <2>2, <3>1
  <2>5. x > Len(s) => x - Len(s) \in 1 .. Len(w) /\ w[x - Len(s)] = k
    BY <2>1, <2>4
  <2>. QED
    BY <2>3, <2>5
<1>. QED
  BY <1>3, <1>4, <1>5

(* The same place counted from the end of the kept tail instead of from the *)
(* start of the text before it.                                            *)
LEMMA PlaceInProbe ==
  ASSUME NEW i \in Nat, NEW n \in Nat, NEW tail \in Nat, NEW whole \in Nat,
         tail <= whole, 1 <= i, i <= tail, i + n - 1 > tail
  PROVE  LET j == i + whole - tail
         IN  j \in Nat /\ 1 <= j /\ j <= whole /\ j + n - 1 > whole
  OBVIOUS

(* A value that ends beyond the kept tail and starts no later than the mark *)
(* has a digit where the mark stands.                                      *)
LEMMA PlaceOfMark ==
  ASSUME NEW i \in Nat, NEW n \in Nat, NEW tail \in Nat,
         1 <= i, i <= tail + 1, i + n - 1 > tail
  PROVE  LET k == tail + 2 - i
         IN  k \in 1 .. n /\ i + k - 1 > tail /\ (i + k - 1) - tail = 1 /\ k # 0
  OBVIOUS

(* The detectors see both sides of the join as far as a value reaches, so  *)
(* what goes out completes none.                                           *)
LEMMA JoinIsApart ==
  ASSUME Window >= ValueLength - 1, NEW prev \in Seq(Nat), NEW own \in Seq(Nat), Starts(own) = {}
  PROVE  /\ RedactAcrossJoin(prev, own) \in Seq(Nat)
         /\ Starts(Ending(prev, ValueLength - 1) \o RedactAcrossJoin(prev, own)) = {}
<1>. DEFINE n == ValueLength
            s == Ending(prev, ValueLength - 1)
            out == RedactAcrossJoin(prev, own)
            head == Ending(prev, Window)
            fore == Beginning(own, Window)
            probe == head \o fore
            across == {i \in Starts(probe) : i <= Len(head) /\ i + n - 1 > Len(head)}
            straddling == {i + n - 1 : i \in across}
<1>1. n \in Nat \ {0} /\ Window \in Nat /\ n - 1 \in Nat
  BY SiblingAssumption
<1>2. /\ s \in Seq(Nat) /\ Len(prev) \in Nat /\ Len(s) \in Nat
      /\ Len(s) = IF Len(prev) > n - 1 THEN n - 1 ELSE Len(prev)
      /\ \A i \in 1 .. Len(s) : s[i] = prev[Len(prev) - Len(s) + i]
  BY <1>1, EndingIs, LenProperties
<1>3. /\ head \in Seq(Nat) /\ Len(head) \in Nat
      /\ Len(head) = IF Len(prev) > Window THEN Window ELSE Len(prev)
      /\ \A i \in 1 .. Len(head) : head[i] = prev[Len(prev) - Len(head) + i]
  BY <1>1, EndingIs, LenProperties
<1>4. /\ fore \in Seq(Nat) /\ Len(fore) \in Nat /\ Len(own) \in Nat
      /\ Len(fore) = IF Len(own) > Window THEN Window ELSE Len(own)
      /\ \A i \in 1 .. Len(fore) : fore[i] = own[i]
  BY <1>1, BeginningIs, LenProperties
<1>. HIDE DEF s, head, fore
<1>5. /\ probe \in Seq(Nat) /\ Len(probe) = Len(head) + Len(fore)
      /\ \A i \in 1 .. Len(head) + Len(fore) : probe[i] = IF i <= Len(head) THEN head[i] ELSE fore[i - Len(head)]
  BY <1>3, <1>4, ConcatProperties, ZenonT(60)
<1>6. /\ Len(s) <= n - 1 /\ Len(s) <= Len(head) /\ Len(head) <= Len(prev)
      /\ Len(fore) <= Len(own) /\ (Len(fore) >= n - 1 \/ Len(fore) = Len(own))
  BY <1>1, <1>2, <1>3, <1>4, SMTT(30)
<1>7. /\ n \in Nat \ {0} /\ Len(s) \in Nat /\ Len(prev) \in Nat /\ Len(head) \in Nat /\ Len(fore) \in Nat
      /\ Len(own) \in Nat
  BY <1>1, <1>2, <1>3, <1>4
<1>8. out = IF prev = <<>> \/ own = <<>> \/ straddling = {} THEN own
            ELSE <<Mark>> \o SubSeq(own, (CHOOSE e \in straddling : \A f \in straddling : f <= e) - Len(head) + 1,
                                    Len(own))
  BY Zenon DEF RedactAcrossJoin, head, fore
<1>. HIDE DEF probe, out
<1>9. CASE prev = <<>>
  <2>1. Len(s) = 0
    BY <1>1, <1>2, <1>9
  <2>2. s = <<>> /\ out = own
    BY <1>2, <1>8, <1>9, <2>1
  <2>3. s \o out = own
    BY <2>2, ConcatEmptySeq
  <2>. QED
    BY <2>2, <2>3 DEF s, out
<1>10. CASE own = <<>>
  <2>1. out = own /\ s \o out = s
    BY <1>2, <1>8, <1>10, ConcatEmptySeq
  <2>2. Starts(s) = {}
    BY <1>1, <1>2, StartsIs
  <2>. QED
    BY <2>1, <2>2 DEF s, out
<1>11. CASE prev # <<>> /\ own # <<>> /\ straddling = {}
  <2>1. out = own
    BY <1>8, <1>11
  <2>2. ASSUME NEW i \in Starts(s \o own) PROVE FALSE
    <3>1. /\ i \in Nat /\ 1 <= i /\ i + n - 1 > Len(s) /\ i + n - 1 <= Len(s) + Len(own)
          /\ \A k \in 1 .. n : i + k - 1 <= Len(s) => s[i + k - 1] = k
          /\ \A k \in 1 .. n : i + k - 1 > Len(s) =>
               (i + k - 1) - Len(s) \in 1 .. Len(own) /\ own[(i + k - 1) - Len(s)] = k
      BY <1>2, <1>6, <2>2, ValueInJoin, ZenonT(60)
    <3>2. CASE i > Len(s)
      <4>. DEFINE j == i - Len(s)
      <4>1. j \in Nat /\ 1 <= j /\ j + n - 1 <= Len(own)
        <5>1. i \in Nat /\ 1 <= i /\ i + n - 1 <= Len(s) + Len(own)
          BY <3>1
        <5>. QED
          BY <1>7, <3>2, <5>1
      <4>2. ASSUME NEW k \in 1 .. n PROVE own[j + k - 1] = k
        <5>1. i + k - 1 > Len(s) /\ (i + k - 1) - Len(s) = j + k - 1
          BY <1>1, <1>2, <3>1, <3>2
        <5>. QED
          BY <3>1, <5>1
      <4>. HIDE DEF j
      <4>3. j \in Starts(own)
        BY <4>1, <4>2, StartsThere
      <4>. QED
        BY <4>3
    <3>3. CASE i <= Len(s)
      <4>. DEFINE j == i + Len(head) - Len(s)
      <4>0. i \in Nat /\ 1 <= i /\ i + n - 1 > Len(s) /\ i + n - 1 <= Len(s) + Len(own)
        BY <3>1
      <4>1. j \in Nat /\ 1 <= j /\ j <= Len(head) /\ j + n - 1 > Len(head)
        <5>1. Len(s) <= Len(head) /\ n \in Nat /\ Len(s) \in Nat /\ Len(head) \in Nat
          BY <1>6, <1>7
        <5>. HIDE DEF n
        <5>. QED
          BY <3>3, <4>0, <5>1, PlaceInProbe
      <4>2. j + n - 1 <= Len(head) + Len(fore)
        BY <1>6, <1>7, <3>3, <4>0
      <4>3. ASSUME NEW k \in 1 .. n PROVE probe[j + k - 1] = k
        <5>0. k \in Nat /\ 1 <= k /\ k <= n
          BY <1>1
        <5>. DEFINE x == j + k - 1
                    y == i + k - 1
        <5>1. /\ x \in 1 .. Len(head) + Len(fore) /\ y \in Nat /\ 1 <= y /\ x = y + Len(head) - Len(s)
              /\ (x <= Len(head) <=> y <= Len(s))
          <6>1. x \in Nat /\ 1 <= x /\ x <= j + n - 1
            BY <1>7, <4>1, <5>0
          <6>2. y \in Nat /\ 1 <= y /\ x = y + Len(head) - Len(s)
            BY <1>7, <4>0, <5>0
          <6>3. x \in 1 .. Len(head) + Len(fore)
            <7>. HIDE DEF x, y
            <7>. QED
              BY <1>7, <4>1, <4>2, <6>1
          <6>4. x <= Len(head) <=> y <= Len(s)
            <7>. HIDE DEF x, y
            <7>. QED
              BY <1>7, <6>2
          <6>. QED
            BY <6>2, <6>3, <6>4
        <5>. HIDE DEF x
        <5>2. CASE y <= Len(s)
          <6>1. s[y] = k
            BY <3>1, <5>2
          <6>2. s[y] = prev[Len(prev) - Len(s) + y]
            <7>1. y \in 1 .. Len(s)
              BY <1>7, <5>1, <5>2
            <7>. HIDE DEF y
            <7>. QED
              BY <1>2, <7>1
          <6>3. Len(prev) - Len(head) + x = Len(prev) - Len(s) + y /\ x \in 1 .. Len(head)
            <7>1. x \in Nat /\ 1 <= x /\ y \in Nat /\ x = y + Len(head) - Len(s) /\ x <= Len(head)
              BY <5>1, <5>2
            <7>. QED
              BY <1>6, <1>7, <7>1, SMTT(30)
          <6>4. head[x] = prev[Len(prev) - Len(head) + x]
            BY <1>3, <6>3
          <6>5. probe[x] = head[x]
            BY <1>5, <5>1, <5>2
          <6>. QED
            BY <6>1, <6>2, <6>3, <6>4, <6>5 DEF x
        <5>3. CASE ~(y <= Len(s))
          <6>1. y - Len(s) \in 1 .. Len(own) /\ own[y - Len(s)] = k
            <7>1. i + k - 1 > Len(s)
              BY <1>7, <5>1, <5>3
            <7>. QED
              BY <3>1, <7>1
          <6>2. x - Len(head) = y - Len(s) /\ x - Len(head) \in 1 .. Len(fore)
            <7>. HIDE DEF y
            <7>. QED
              BY <1>6, <1>7, <5>1, <5>3
          <6>3. probe[x] = fore[x - Len(head)]
            BY <1>5, <5>1, <5>3
          <6>4. fore[x - Len(head)] = own[x - Len(head)]
            BY <1>4, <6>2
          <6>. QED
            BY <6>1, <6>2, <6>3, <6>4 DEF x
        <5>. QED
          BY <5>2, <5>3
      <4>. HIDE DEF j
      <4>4. j \in Starts(probe)
        BY <1>5, <4>1, <4>2, <4>3, StartsThere
      <4>5. j \in across
        BY <4>1, <4>4
      <4>. QED
        BY <1>11, <4>5
    <3>. QED
      BY <1>2, <3>1, <3>2, <3>3
  <2>. QED
    BY <2>1, <2>2 DEF s, out
<1>12. CASE prev # <<>> /\ own # <<>> /\ straddling # {}
  <2>. DEFINE end == CHOOSE e \in straddling : \A f \in straddling : f <= e
              m == end - Len(head) + 1
              rest == SubSeq(own, m, Len(own))
  <2>1. straddling \in SUBSET Nat /\ \A e \in straddling : e <= Len(probe) /\ e > Len(head)
    BY <1>1, <1>5, StartsIs, SMTT(30)
  <2>2. Len(probe) \in Nat
    BY <1>3, <1>4, <1>5
  <2>3. end \in straddling
    <3>1. \E e \in straddling : \A f \in straddling : f <= e
      BY <1>12, <2>1, <2>2, LargestBelow
    <3>. QED
      BY <3>1
  <2>4. m \in Nat /\ m >= 2
    <3>1. end \in Nat /\ end > Len(head)
      BY <2>1, <2>3
    <3>. QED
      BY <1>3, <3>1
  <2>5. out = <<0>> \o rest
    BY <1>8, <1>12 DEF Mark
  <2>. HIDE DEF end, m
  <2>6. /\ rest \in Seq(Nat) /\ Len(rest) = IF m <= Len(own) THEN Len(own) - m + 1 ELSE 0
        /\ \A x \in 1 .. Len(own) - m + 1 : rest[x] = own[m + x - 1]
    <3>1. m \in Int /\ Len(own) \in Int /\ \A x \in m .. Len(own) : own[x] \in Nat
      BY <1>4, <2>4, ElementOfSeq
    <3>. QED
      BY <3>1, SubSeqProperties
  <2>. HIDE DEF rest
  <2>7. /\ out \in Seq(Nat) /\ Len(out) = 1 + Len(rest) /\ Len(rest) \in Nat /\ out[1] = 0
        /\ \A x \in 2 .. Len(out) : out[x] = rest[x - 1]
    <3>. DEFINE z == <<0>>
    <3>1. z \in Seq(Nat) /\ Len(z) = 1 /\ z[1] = 0
      OBVIOUS
    <3>. HIDE DEF z
    <3>2. /\ z \o rest \in Seq(Nat) /\ Len(z \o rest) = Len(z) + Len(rest)
          /\ \A x \in 1 .. Len(z) + Len(rest) : (z \o rest)[x] = IF x <= Len(z) THEN z[x] ELSE rest[x - Len(z)]
      BY <2>6, <3>1, ConcatProperties
    <3>3. out = z \o rest /\ Len(rest) \in Nat
      BY <2>5, <2>6, LenProperties DEF z
    <3>. QED
      BY <3>1, <3>2, <3>3
  <2>8. /\ Len(rest) \in Nat /\ Len(out) \in Nat /\ Len(out) = 1 + Len(rest) /\ m \in Nat /\ m >= 2
        /\ Len(rest) = IF m <= Len(own) THEN Len(own) - m + 1 ELSE 0
    BY <2>4, <2>6, <2>7
  <2>9. ASSUME NEW i \in Starts(s \o out) PROVE FALSE
    <3>1. /\ i \in Nat /\ 1 <= i /\ i + n - 1 > Len(s) /\ i + n - 1 <= Len(s) + Len(out)
          /\ \A k \in 1 .. n : i + k - 1 > Len(s) =>
               (i + k - 1) - Len(s) \in 1 .. Len(out) /\ out[(i + k - 1) - Len(s)] = k
      BY <1>2, <1>6, <2>7, <2>9, ValueInJoin, ZenonT(60)
    <3>2. CASE i <= Len(s) + 1
      <4>. DEFINE k == Len(s) + 2 - i
      <4>1. k \in 1 .. n /\ i + k - 1 > Len(s) /\ (i + k - 1) - Len(s) = 1 /\ k # 0
        <5>1. /\ i \in Nat /\ 1 <= i /\ i + n - 1 > Len(s)
              /\ n \in Nat /\ Len(s) \in Nat
          BY <1>1, <1>2, <3>1
        <5>. HIDE DEF n
        <5>. QED
          BY <3>2, <5>1, PlaceOfMark
      <4>. HIDE DEF k
      <4>2. out[1] = k
        BY <3>1, <4>1
      <4>. QED
        BY <2>7, <4>1, <4>2
    <3>3. CASE i > Len(s) + 1
      <4>. DEFINE j == i - Len(s) - 1 + m - 1
      <4>1. j \in Nat /\ 1 <= j /\ j + n - 1 <= Len(own)
        <5>1. i \in Nat /\ 1 <= i /\ i + n - 1 <= Len(s) + Len(out)
          BY <3>1
        <5>2. Len(out) >= 2
          BY <1>7, <2>8, <3>3, <5>1
        <5>3. m <= Len(own) /\ Len(out) = Len(own) - m + 2
          BY <1>7, <2>8, <5>2
        <5>. QED
          BY <1>7, <2>8, <3>3, <5>1, <5>3, SMTT(30)
      <4>2. ASSUME NEW k \in 1 .. n PROVE own[j + k - 1] = k
        <5>0. k \in Nat /\ 1 <= k /\ k <= n
          BY <1>1
        <5>. DEFINE x == (i + k - 1) - Len(s)
        <5>1. i + k - 1 > Len(s)
          BY <1>1, <1>2, <3>1, <3>3, <5>0
        <5>2. x \in 1 .. Len(out) /\ out[x] = k
          BY <3>1, <5>1
        <5>3. x \in 2 .. Len(out) /\ x - 1 \in 1 .. Len(own) - m + 1 /\ m + (x - 1) - 1 = j + k - 1
          <6>1. i \in Nat /\ 1 <= i /\ i + n - 1 <= Len(s) + Len(out)
            BY <3>1
          <6>2. Len(out) >= 2
            BY <1>7, <2>8, <3>3, <6>1
          <6>3. m <= Len(own) /\ Len(out) = Len(own) - m + 2
            BY <1>7, <2>8, <6>2
          <6>. QED
            BY <1>7, <2>8, <3>3, <5>0, <6>1, <6>3, SMTT(30)
        <5>. HIDE DEF x
        <5>4. out[x] = rest[x - 1] /\ rest[x - 1] = own[m + (x - 1) - 1]
          BY <2>6, <2>7, <5>3
        <5>. QED
          BY <5>2, <5>3, <5>4
      <4>. HIDE DEF j
      <4>3. j \in Starts(own)
        BY <4>1, <4>2, StartsThere
      <4>. QED
        BY <4>3
    <3>. QED
      BY <1>2, <3>1, <3>2, <3>3
  <2>. QED
    BY <2>7, <2>9 DEF s, out
<1>. QED
  BY <1>9, <1>10, <1>11, <1>12

(* A path is taken out of the memory, and the others keep theirs. *)
LEMMA OthersAre ==
  ASSUME tails \in Seq(Memory), PathsAreDistinct(tails), NEW p
  PROVE  /\ Others(p) \in Seq(Memory) /\ PathsAreDistinct(Others(p))
         /\ \A j \in 1 .. Len(Others(p)) : Others(p)[j][1] # p
         /\ \A q, says : q # p /\ Remembered(tails, q, says) => Remembered(Others(p), q, says)
<1>1. Len(tails) \in Nat
  BY LenProperties
<1>2. CASE Tracked(p) = {}
  <2>1. Others(p) = tails
    BY <1>2 DEF Others
  <2>. QED
    BY <1>2, <2>1 DEF Tracked
<1>3. CASE Tracked(p) # {}
  <2>. DEFINE i == CHOOSE x \in Tracked(p) : TRUE
              a == SubSeq(tails, 1, i - 1)
              b == SubSeq(tails, i + 1, Len(tails))
              o == a \o b
              n == Len(tails)
  <2>1. i \in Nat /\ 1 <= i /\ i <= n /\ tails[i][1] = p
    BY <1>1, <1>3 DEF Tracked
  <2>2. Others(p) = o
    BY <1>3 DEF Others
  <2>. HIDE DEF i
  <2>3. /\ a \in Seq(Memory) /\ Len(a) = i - 1 /\ \A x \in 1 .. i - 1 : a[x] = tails[x]
    <3>1. 1 \in Int /\ i - 1 \in Int /\ \A x \in 1 .. i - 1 : tails[x] \in Memory
      BY <1>1, <2>1, ElementOfSeq
    <3>2. /\ a \in Seq(Memory) /\ Len(a) = IF 1 <= i - 1 THEN (i - 1) - 1 + 1 ELSE 0
          /\ \A x \in 1 .. (i - 1) - 1 + 1 : a[x] = tails[1 + x - 1]
      BY <3>1, SubSeqProperties
    <3>. QED
      BY <2>1, <3>2
  <2>4. /\ b \in Seq(Memory) /\ Len(b) = n - i /\ \A x \in 1 .. n - i : b[x] = tails[i + x]
    <3>1. i + 1 \in Int /\ n \in Int /\ \A x \in i + 1 .. n : tails[x] \in Memory
      BY <1>1, <2>1, ElementOfSeq
    <3>2. /\ b \in Seq(Memory) /\ Len(b) = IF i + 1 <= n THEN n - (i + 1) + 1 ELSE 0
          /\ \A x \in 1 .. n - (i + 1) + 1 : b[x] = tails[(i + 1) + x - 1]
      BY <3>1, SubSeqProperties
    <3>. QED
      BY <1>1, <2>1, <3>2
  <2>. HIDE DEF a, b
  <2>5. /\ o \in Seq(Memory) /\ Len(o) = n - 1
        /\ \A x \in 1 .. n - 1 : o[x] = IF x < i THEN tails[x] ELSE tails[x + 1]
    <3>1. /\ a \o b \in Seq(Memory) /\ Len(a \o b) = Len(a) + Len(b)
          /\ \A x \in 1 .. Len(a) + Len(b) : (a \o b)[x] = IF x <= Len(a) THEN a[x] ELSE b[x - Len(a)]
      BY <2>3, <2>4, ConcatProperties
    <3>2. Len(a) + Len(b) = n - 1
      BY <1>1, <2>1, <2>3, <2>4
    <3>3. ASSUME NEW x \in 1 .. n - 1 PROVE o[x] = IF x < i THEN tails[x] ELSE tails[x + 1]
      <4>1. x \in Nat /\ 1 <= x /\ x <= n - 1
        BY <1>1
      <4>2. CASE x < i
        <5>1. x <= Len(a) /\ x \in 1 .. i - 1
          BY <2>1, <2>3, <4>1, <4>2
        <5>. QED
          BY <2>3, <3>1, <3>2, <4>2, <5>1
      <4>3. CASE ~(x < i)
        <5>1. ~(x <= Len(a)) /\ x - Len(a) \in 1 .. n - i /\ i + (x - Len(a)) = x + 1
          BY <1>1, <2>1, <2>3, <4>1, <4>3
        <5>2. o[x] = b[x - Len(a)]
          BY <3>1, <3>2, <5>1
        <5>3. b[x - Len(a)] = tails[i + (x - Len(a))]
          BY <2>4, <5>1
        <5>. QED
          BY <4>3, <5>1, <5>2, <5>3
      <4>. QED
        BY <4>2, <4>3
    <3>. QED
      BY <3>1, <3>2, <3>3
  <2>. HIDE DEF o, n
  <2>6. n \in Nat /\ n = Len(tails)
    BY <1>1 DEF n
  <2>. DEFINE spot(x) == IF x < i THEN x ELSE x + 1
  <2>7. \A x \in 1 .. Len(o) : spot(x) \in 1 .. n /\ spot(x) # i /\ o[x] = tails[spot(x)]
    BY <2>1, <2>5, <2>6
  <2>8. \A x, y \in 1 .. Len(o) : spot(x) = spot(y) => x = y
    BY <2>1, <2>5, <2>6
  <2>9. \A x \in 1 .. n : x # i => \E y \in 1 .. Len(o) : spot(y) = x
    <3>. SUFFICES ASSUME NEW x \in 1 .. n, x # i PROVE \E y \in 1 .. Len(o) : spot(y) = x
      OBVIOUS
    <3>1. CASE x < i
      <4>1. x \in 1 .. Len(o) /\ spot(x) = x
        BY <2>1, <2>5, <2>6, <3>1
      <4>. QED
        BY <4>1
    <3>2. CASE x > i
      <4>1. x - 1 \in 1 .. Len(o) /\ spot(x - 1) = x
        BY <2>1, <2>5, <2>6, <3>2
      <4>. QED
        BY <4>1
    <3>. QED
      BY <2>1, <2>6, <3>1, <3>2
  <2>. HIDE DEF spot
  <2>10. PathsAreDistinct(o)
    BY <2>6, <2>7, <2>8 DEF PathsAreDistinct
  <2>11. \A x \in 1 .. Len(o) : o[x][1] # p
    <3>. SUFFICES ASSUME NEW x \in 1 .. Len(o), o[x][1] = p PROVE FALSE
      OBVIOUS
    <3>1. spot(x) \in 1 .. n /\ spot(x) # i /\ tails[spot(x)][1] = p
      BY <2>7
    <3>2. i \in 1 .. n
      BY <2>1, <2>6
    <3>. QED
      BY <2>1, <2>6, <3>1, <3>2 DEF PathsAreDistinct
  <2>12. ASSUME NEW q, NEW says, q # p, Remembered(tails, q, says) PROVE Remembered(o, q, says)
    <3>1. CASE \E x \in 1 .. n : tails[x][1] = q /\ says = Ending(tails[x][2], ValueLength - 1)
      <4>1. PICK x \in 1 .. n : tails[x][1] = q /\ says = Ending(tails[x][2], ValueLength - 1)
        BY <3>1
      <4>2. x # i
        BY <2>1, <2>12, <4>1
      <4>3. PICK y \in 1 .. Len(o) : spot(y) = x
        BY <2>9, <4>2
      <4>4. o[y] = tails[x]
        BY <2>7, <4>3
      <4>. QED
        BY <4>1, <4>4 DEF Remembered
    <3>2. CASE says = <<>> /\ \A x \in 1 .. n : tails[x][1] # q
      BY <2>7, <3>2 DEF Remembered
    <3>. QED
      BY <2>6, <2>12, <3>1, <3>2 DEF Remembered
  <2>. QED
    BY <2>2, <2>5, <2>10, <2>11, <2>12
<1>. QED
  BY <1>2, <1>3

(* What is recorded of a path is what it remembers, and the oldest goes.   *)
LEMMA RecordedIs ==
  ASSUME tails \in Seq(Memory), PathsAreDistinct(tails), NEW p \in FieldPaths, NEW t \in Seq(Nat)
  PROVE  /\ Recorded(p, t) \in Seq(Memory) /\ PathsAreDistinct(Recorded(p, t)) /\ Recorded(p, t) # <<>>
         /\ Remembered(Recorded(p, t), p, Ending(t, ValueLength - 1))
         /\ \A q, says : q # p /\ Remembered(tails, q, says) => Remembered(Recorded(p, t), q, says)
<1>. DEFINE o == Others(p)
            e == <<p, t>>
            rec == Append(o, e)
<1>1. /\ o \in Seq(Memory) /\ PathsAreDistinct(o) /\ \A j \in 1 .. Len(o) : o[j][1] # p
      /\ \A q, says : q # p /\ Remembered(tails, q, says) => Remembered(o, q, says)
  BY OthersAre
<1>2. Recorded(p, t) = rec
  BY DEF Recorded
<1>3. e \in Memory /\ e[1] = p /\ e[2] = t
  BY DEF Memory
<1>. HIDE DEF o, e
<1>4. /\ rec \in Seq(Memory) /\ Len(rec) = Len(o) + 1 /\ Len(o) \in Nat /\ rec[Len(o) + 1] = e
      /\ \A j \in 1 .. Len(o) : rec[j] = o[j]
  BY <1>1, <1>3, AppendProperties, LenProperties
<1>. HIDE DEF rec
<1>5. \A j \in 1 .. Len(rec) : j \in 1 .. Len(o) \/ j = Len(o) + 1
  BY <1>4
<1>6. \A j \in 1 .. Len(o) : j \in 1 .. Len(rec)
  BY <1>4
<1>7. Len(o) + 1 \in 1 .. Len(rec) /\ rec # <<>>
  <2>1. Len(o) + 1 \in 1 .. Len(rec)
    BY <1>4
  <2>. QED
    BY <1>4, <2>1
<1>8. PathsAreDistinct(rec)
  <2>. SUFFICES ASSUME NEW i \in 1 .. Len(rec), NEW j \in 1 .. Len(rec), rec[i][1] = rec[j][1] PROVE i = j
    BY DEF PathsAreDistinct
  <2>1. CASE i \in 1 .. Len(o) /\ j \in 1 .. Len(o)
    BY <1>1, <1>4, <2>1 DEF PathsAreDistinct
  <2>2. CASE i \in 1 .. Len(o) /\ j = Len(o) + 1
    BY <1>1, <1>3, <1>4, <2>2
  <2>3. CASE i = Len(o) + 1 /\ j \in 1 .. Len(o)
    BY <1>1, <1>3, <1>4, <2>3
  <2>. QED
    BY <1>5, <2>1, <2>2, <2>3
<1>9. Remembered(rec, p, Ending(t, ValueLength - 1))
  BY <1>3, <1>4, <1>7 DEF Remembered
<1>10. ASSUME NEW q, NEW says, q # p, Remembered(o, q, says) PROVE Remembered(rec, q, says)
  <2>1. CASE \E x \in 1 .. Len(o) : o[x][1] = q /\ says = Ending(o[x][2], ValueLength - 1)
    BY <1>4, <1>6, <2>1 DEF Remembered
  <2>2. CASE says = <<>> /\ \A x \in 1 .. Len(o) : o[x][1] # q
    BY <1>3, <1>4, <1>5, <1>10, <2>2 DEF Remembered
  <2>. QED
    BY <1>10, <2>1, <2>2 DEF Remembered
<1>. QED
  BY <1>1, <1>2, <1>4, <1>7, <1>8, <1>9, <1>10

LEMMA OldestGoes ==
  ASSUME NEW ts \in Seq(Memory), PathsAreDistinct(ts), ts # <<>>
  PROVE  /\ Tail(ts) \in Seq(Memory) /\ PathsAreDistinct(Tail(ts)) /\ ts[1][1] \in FieldPaths
         /\ \A q, says : q # ts[1][1] /\ Remembered(ts, q, says) => Remembered(Tail(ts), q, says)
<1>. DEFINE u == Tail(ts)
<1>1. /\ u \in Seq(Memory) /\ Len(u) = Len(ts) - 1 /\ Len(ts) \in Nat \ {0}
      /\ \A i \in 1 .. Len(u) : u[i] = ts[i + 1]
  BY HeadTailProperties, EmptySeq
<1>. HIDE DEF u
<1>2. \A i \in 1 .. Len(u) : i + 1 \in 1 .. Len(ts)
  BY <1>1
<1>3. \A i \in 1 .. Len(ts) : i # 1 => i - 1 \in 1 .. Len(u) /\ (i - 1) + 1 = i
  BY <1>1
<1>4. PathsAreDistinct(u)
  <2>. SUFFICES ASSUME NEW i \in 1 .. Len(u), NEW j \in 1 .. Len(u), u[i][1] = u[j][1] PROVE i = j
    BY DEF PathsAreDistinct
  <2>1. i + 1 = j + 1
    BY <1>1, <1>2 DEF PathsAreDistinct
  <2>. QED
    BY <1>1, <2>1
<1>5. ts[1][1] \in FieldPaths
  <2>1. 1 \in 1 .. Len(ts)
    BY <1>1
  <2>. QED
    BY <2>1, ElementOfSeq DEF Memory
<1>6. ASSUME NEW q, NEW says, q # ts[1][1], Remembered(ts, q, says) PROVE Remembered(u, q, says)
  <2>1. CASE \E x \in 1 .. Len(ts) : ts[x][1] = q /\ says = Ending(ts[x][2], ValueLength - 1)
    <3>1. PICK x \in 1 .. Len(ts) : ts[x][1] = q /\ says = Ending(ts[x][2], ValueLength - 1)
      BY <2>1
    <3>2. x - 1 \in 1 .. Len(u) /\ u[x - 1] = ts[x]
      BY <1>1, <1>3, <1>6, <3>1
    <3>. QED
      BY <3>1, <3>2 DEF Remembered
  <2>2. CASE says = <<>> /\ \A x \in 1 .. Len(ts) : ts[x][1] # q
    BY <1>1, <1>2, <2>2 DEF Remembered
  <2>. QED
    BY <1>6, <2>1, <2>2 DEF Remembered
<1>. QED
  BY <1>1, <1>4, <1>5, <1>6 DEF u

LEMMA PreviousIs ==
  ASSUME SiblingInv, NEW p \in FieldPaths
  PROVE  /\ Previous(p) \in Seq(Nat)
         /\ p \notin evicted => joined[p] = Ending(Previous(p), ValueLength - 1)
<1>1. CASE Tracked(p) = {}
  <2>1. Previous(p) = <<>> /\ <<>> \in Seq(Nat) /\ Len(<<>>) = 0
    BY <1>1 DEF Previous
  <2>2. Ending(<<>>, ValueLength - 1) = <<>>
    BY <2>1, SiblingAssumption DEF Ending
  <2>3. p \notin evicted => joined[p] = <<>>
    BY <1>1 DEF SiblingInv, Remembered, Tracked
  <2>. QED
    BY <2>1, <2>2, <2>3
<1>2. CASE Tracked(p) # {}
  <2>1. PICK i \in Tracked(p) : Previous(p) = tails[i][2]
    BY <1>2 DEF Previous
  <2>2. i \in 1 .. Len(tails) /\ tails[i][1] = p
    BY <2>1 DEF Tracked
  <2>3. tails[i] \in Memory
    BY <2>2, ElementOfSeq DEF SiblingInv, SiblingTypes
  <2>4. p \notin evicted => joined[p] = Ending(tails[i][2], ValueLength - 1)
    BY <2>2 DEF SiblingInv, Remembered, PathsAreDistinct
  <2>. QED
    BY <2>1, <2>3, <2>4 DEF Memory
<1>. QED
  BY <1>1, <1>2

LEMMA ScanStep ==
  ASSUME Window >= ValueLength - 1, SiblingInv, NEW p \in FieldPaths, NEW f \in Seq(Nat), Scans(p, f)
  PROVE  SiblingInv'
<1>. DEFINE n == ValueLength - 1
            own == RedactModelOriginated(f)
            out == RedactAcrossJoin(Previous(p), own)
            t == Remembers(p, out)
            kept == Recorded(p, t)
            full == Len(kept) > MaxPaths
            lost == IF f # <<>> /\ full THEN evicted \cup {kept[1][1]} ELSE evicted
<1>1. /\ tails' = IF f = <<>> THEN tails ELSE IF full THEN Tail(kept) ELSE kept
      /\ evicted' = lost
      /\ leaked' = IF Starts(joined[p] \o out) # {} THEN leaked \cup {p} ELSE leaked
      /\ joined' = [q \in DOMAIN joined |->
                     IF q \in lost THEN <<>>
                     ELSE IF q = p THEN Ending(joined[p] \o out, n) ELSE joined[q]]
  BY Zenon DEF Scans
<1>2. /\ tails \in Seq(Memory) /\ joined \in [FieldPaths -> Seq(Nat)] /\ joined[p] \in Seq(Nat)
      /\ leaked \subseteq FieldPaths /\ evicted \subseteq FieldPaths
      /\ PathsAreDistinct(tails) /\ leaked \subseteq evicted
      /\ \A q \in FieldPaths \ evicted : Remembered(tails, q, joined[q])
  BY DEF SiblingInv, SiblingTypes, SplitValuesStayApart
<1>3. n \in Nat /\ Window \in Nat /\ n <= Window
  BY SiblingAssumption
<1>4. Previous(p) \in Seq(Nat) /\ (p \notin evicted => joined[p] = Ending(Previous(p), n))
  BY PreviousIs
<1>5. own \in Seq(Nat) /\ Starts(own) = {}
  BY FragmentIsScanned
<1>. HIDE DEF own
<1>6. out \in Seq(Nat) /\ Starts(Ending(Previous(p), n) \o out) = {}
  BY <1>4, <1>5, JoinIsApart
<1>7. f = <<>> => out = <<>>
  <2>. SUFFICES ASSUME f = <<>> PROVE out = <<>>
    OBVIOUS
  <2>1. Starts(<<>>) = {}
    <3>. DEFINE z == <<>>
    <3>1. z \in Seq(Nat) /\ Len(z) = 0
      OBVIOUS
    <3>. HIDE DEF z
    <3>2. ASSUME NEW i \in Starts(z) PROVE FALSE
      <4>1. ValueLength \in Nat \ {0} /\ i \in Nat /\ 1 <= i /\ i + ValueLength - 1 <= 0
        BY <3>1, StartsIs
      <4>. QED
        BY <4>1
    <3>. QED
      BY <3>2 DEF z
  <2>2. own = <<>>
    BY <2>1 DEF own, RedactModelOriginated
  <2>. QED
    BY <2>2, Zenon DEF RedactAcrossJoin
<1>. HIDE DEF out
<1>8. Previous(p) \o out \in Seq(Nat)
  BY <1>4, <1>6, ConcatProperties
<1>9. t \in Seq(Nat) /\ Ending(t, n) = Ending(Previous(p) \o out, n)
  <2>1. t = Ending(Previous(p) \o out, Window)
    BY DEF Remembers
  <2>2. <<>> \in Seq(Nat)
    OBVIOUS
  <2>3. t \in Seq(Nat)
    BY <1>3, <1>8, <2>1, EndingIs
  <2>4. Ending(t \o <<>>, n) = Ending((Previous(p) \o out) \o <<>>, n)
    <3>. DEFINE v == Previous(p) \o out
                z == <<>>
    <3>1. v \in Seq(Nat) /\ z \in Seq(Nat) /\ t = Ending(v, Window)
      BY <1>8, <2>1, <2>2
    <3>. HIDE DEF v, z
    <3>2. Ending(Ending(v, Window) \o z, n) = Ending(v \o z, n)
      BY <1>3, <3>1, EndingOfJoin
    <3>. QED
      BY <3>1, <3>2 DEF v, z
  <2>. QED
    BY <1>8, <2>3, <2>4, ConcatEmptySeq
<1>. HIDE DEF t
<1>10. p \notin evicted => Ending(joined[p] \o out, n) = Ending(Previous(p) \o out, n)
  BY <1>3, <1>4, <1>6, EndingOfJoin
<1>11. /\ kept \in Seq(Memory) /\ PathsAreDistinct(kept) /\ kept # <<>>
       /\ Remembered(kept, p, Ending(t, n))
       /\ \A q, says : q # p /\ Remembered(tails, q, says) => Remembered(kept, q, says)
  BY <1>2, <1>9, RecordedIs
<1>. HIDE DEF kept
<1>12. /\ Tail(kept) \in Seq(Memory) /\ PathsAreDistinct(Tail(kept)) /\ kept[1][1] \in FieldPaths
       /\ \A q, says : q # kept[1][1] /\ Remembered(kept, q, says) => Remembered(Tail(kept), q, says)
  BY <1>11, OldestGoes
<1>. HIDE DEF full
<1>13. /\ lost \subseteq FieldPaths /\ evicted \subseteq lost
       /\ f # <<>> /\ full => kept[1][1] \in lost
  BY <1>2, <1>12
<1>. HIDE DEF lost
<1>14. tails' \in Seq(Memory) /\ PathsAreDistinct(tails')
  BY <1>1, <1>2, <1>11, <1>12
<1>15. joined' \in [FieldPaths -> Seq(Nat)]
  <2>1. Ending(joined[p] \o out, n) \in Seq(Nat)
    BY <1>2, <1>3, <1>6, ConcatProperties, EndingIs
  <2>2. <<>> \in Seq(Nat)
    OBVIOUS
  <2>. QED
    BY <1>1, <1>2, <2>1, <2>2
<1>16. leaked' \subseteq evicted' /\ leaked' \subseteq FieldPaths /\ evicted' \subseteq FieldPaths
  <2>1. p \notin evicted => leaked' = leaked
    BY <1>1, <1>4, <1>6
  <2>2. leaked' \subseteq leaked \cup {p}
    BY <1>1
  <2>. QED
    BY <1>1, <1>2, <1>13, <2>1, <2>2
<1>17. ASSUME NEW q \in FieldPaths, q \notin evicted' PROVE Remembered(tails', q, joined'[q])
  <2>1. q \notin lost /\ q \notin evicted
    BY <1>1, <1>13, <1>17
  <2>2. CASE f = <<>>
    <3>1. joined'[q] = joined[q]
      <4>1. CASE q # p
        BY <1>1, <1>2, <2>1, <4>1
      <4>2. CASE q = p
        <5>1. joined'[p] = Ending(Previous(p) \o <<>>, n)
          BY <1>1, <1>2, <1>7, <1>10, <2>1, <2>2, <4>2
        <5>2. Previous(p) \o <<>> = Previous(p)
          BY <1>4, ConcatEmptySeq
        <5>. QED
          BY <1>4, <2>1, <4>2, <5>1, <5>2
      <4>. QED
        BY <4>1, <4>2
    <3>. QED
      BY <1>1, <1>2, <2>1, <2>2, <3>1
  <2>3. CASE f # <<>>
    <3>1. Remembered(kept, q, joined'[q])
      <4>1. CASE q # p
        <5>1. joined'[q] = joined[q]
          BY <1>1, <1>2, <2>1, <4>1
        <5>. QED
          BY <1>2, <1>11, <2>1, <4>1, <5>1
      <4>2. CASE q = p
        <5>1. joined'[p] = Ending(t, n)
          BY <1>1, <1>2, <1>9, <1>10, <2>1, <4>2
        <5>. QED
          BY <1>11, <4>2, <5>1
      <4>. QED
        BY <4>1, <4>2
    <3>2. full => q # kept[1][1]
      BY <1>13, <2>1, <2>3
    <3>. QED
      BY <1>1, <1>12, <2>3, <3>1, <3>2
  <2>. QED
    BY <2>2, <2>3
<1>. QED
  BY <1>14, <1>15, <1>16, <1>17 DEF SiblingInv, SiblingTypes, SplitValuesStayApart

LEMMA SiblingInit == TInit => SiblingInv
<1>. SUFFICES ASSUME TInit PROVE SiblingInv
  OBVIOUS
<1>1. tails = <<>> /\ tails \in Seq(Memory) /\ Len(tails) = 0 /\ <<>> \in Seq(Nat)
  BY EmptySeq DEF TInit
<1>2. \A p \in FieldPaths : Remembered(tails, p, joined[p])
  BY <1>1 DEF TInit, FieldPaths, Remembered
<1>. QED
  BY <1>1, <1>2 DEF TInit, SiblingInv, SiblingTypes, PathsAreDistinct, SplitValuesStayApart, FieldPaths

LEMMA SiblingStep ==
  ASSUME Window >= ValueLength - 1
  PROVE  SiblingInv /\ [TNext]_tvars => SiblingInv'
<1>. SUFFICES ASSUME SiblingInv, [TNext]_tvars PROVE SiblingInv'
  OBVIOUS
<1>1. CASE UNCHANGED tvars
  BY <1>1 DEF tvars, SiblingInv, SiblingTypes, PathsAreDistinct, Remembered, SplitValuesStayApart
<1>2. ASSUME NEW p \in Paths, NEW f \in Fragments, Scans(p, f) PROVE SiblingInv'
  BY <1>2, FragmentsAreTexts, ScanStep DEF FieldPaths
<1>3. ASSUME NEW p \in OtherPaths, Scans(p, <<ValueLength>>) PROVE SiblingInv'
  <2>1. <<ValueLength>> \in Seq(Nat)
    BY SiblingAssumption
  <2>. QED
    BY <1>3, <2>1, ScanStep DEF FieldPaths
<1>. QED
  BY <1>1, <1>2, <1>3 DEF TNext

(* When the window reaches as far as a value is long, a value cut over the *)
(* events of a field is never joined up by the client while the field is   *)
(* remembered, whatever the number of fields, cuts and fields between      *)
(* (streaming.py:237-284, 319-343).                                        *)
THEOREM StreamSplitValuesStayApart ==
  ASSUME Window >= ValueLength - 1
  PROVE  TSpec => []SplitValuesStayApart
<1>1. SiblingInv => SplitValuesStayApart
  BY DEF SiblingInv
<1>. QED
  BY <1>1, SiblingInit, SiblingStep, PTL DEF TSpec
=============================================================================

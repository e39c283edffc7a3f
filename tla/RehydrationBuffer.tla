------------------------- MODULE RehydrationBuffer -------------------------
(***************************************************************************)
(* The retention window that restores tokens in a streamed reply:          *)
(* SSERehydrationBuffer of streaming/streaming.py over Vault.rehydrate of  *)
(* engines/vault.py.  A reply reaches the buffer in deltas the provider    *)
(* cut anywhere; the buffer emits restored text and holds back a tail that *)
(* may still grow into a token or into the canary.                         *)
(*                                                                         *)
(* Text is a sequence of characters, one byte each.  The optional          *)
(* response-PII scan, the Markdown-image rewrite and the stateless vault's *)
(* own tokens are not modelled.                                            *)
(***************************************************************************)
EXTENDS Integers, Sequences, SequencesExt

CONSTANTS Entries,     \* the vault: a sequence of [token, original], oldest first
          WordChar,    \* characters for which _is_word_char holds
          Tripwire,    \* the canary token, <<>> when the tripwire is off
          Replies,     \* the replies the provider may stream
          MaxBuffer,   \* 64 * 1024 in the code
          MaxOutput    \* max_output_bytes, or None

None == -1
Empty == <<>>

VARIABLES reply,       \* the whole reply, fixed
          consumed,    \* how much of it has arrived
          held,        \* content_buffer
          emitted,     \* what the client has been sent
          outcome      \* "streaming", "done", or the exception that ended it

bufferVars == <<reply, consumed, held, emitted, outcome>>

EntrySet == ToSet(Entries)
LongestToken == Max({Len(e.token) : e \in EntrySet} \cup {0})

(* The text at one place, and anywhere. *)
OccursAt(token, text, i) ==
  /\ i + Len(token) - 1 <= Len(text)
  /\ SubSeq(text, i, i + Len(token) - 1) = token
Occurs(token, text) == \E i \in 1 .. Len(text) : OccursAt(token, text, i)

-----------------------------------------------------------------------------
(* sorted(tokens, key=len, reverse=True): stable, longest first. *)
ByLength ==
  FlattenSeq([d \in 1 .. LongestToken |->
                SelectSeq(Entries, LAMBDA e : Len(e.token) = LongestToken + 1 - d)])

(* _is_boundary_safe_chars: `before` and `after` are <<>> at an edge. *)
BoundarySafe(token, before, after) ==
  /\ ~(Head(token) \in WordChar /\ before # Empty /\ Last(before) \in WordChar)
  /\ ~(Last(token) \in WordChar /\ after # Empty /\ Head(after) \in WordChar)

Exceeds(n, limit) == limit # None /\ n > limit
TooLong == <<"too long">>        \* stands for the ValueError

RECURSIVE Pass(_, _, _, _, _, _)

(* One left-to-right pass of one token: `out` is the output so far and i   *)
(* the place reached in src.  A match that reaches the last `retention`    *)
(* characters stops the pass.                                              *)
Pass(entry, src, retention, limit, i, out) ==
  LET end  == i + Len(entry.token) - 1
      rest == SubSeq(src, end + 1, Len(src))
  IN  IF i > Len(src) THEN out
      ELSE IF \/ ~OccursAt(entry.token, src, i)
              \/ ~BoundarySafe(entry.token, out, rest)
        THEN Pass(entry, src, retention, limit, i + 1, Append(out, src[i]))
      ELSE IF retention > 0 /\ end > Len(src) - retention
        THEN out \o SubSeq(src, i, Len(src))
      ELSE IF Exceeds(Len(out) + Len(entry.original) + Len(rest), limit)
        THEN TooLong
      ELSE Pass(entry, src, retention, limit, end + 1, out \o entry.original)

(* Vault.rehydrate *)
Rehydrate(text, retention, limit) ==
  IF text = Empty \/ Entries = <<>> THEN text
  ELSE IF Exceeds(Len(text), limit) THEN TooLong
  ELSE FoldLeft(LAMBDA src, entry : IF src = TooLong
                                      THEN TooLong
                                      ELSE Pass(entry, src, retention, limit, 1, Empty),
                text, ByLength)

-----------------------------------------------------------------------------
(* Mutant: a canary prefix at the tail is not held back. *)
RetentionNoCanary(text) ==
  Max({0} \cup
      {k \in 1 .. Len(text) :
         LET tail == SubSeq(text, Len(text) - k + 1, Len(text))
         IN  \E e \in EntrySet :
               \/ k < Len(e.token) /\ IsPrefix(tail, e.token)
               \/ tail = e.token /\ Last(e.token) \in WordChar})

(* Mutant: the longest prefix of a token is one character short. *)
RetentionShort(text) ==
  Max({0} \cup
      {k \in 1 .. Len(text) :
         LET tail == SubSeq(text, Len(text) - k + 1, Len(text))
         IN  \/ \E e \in EntrySet :
                  \/ k < Len(e.token) - 1 /\ IsPrefix(tail, e.token)
                  \/ tail = e.token /\ Last(e.token) \in WordChar
             \/ k < Len(Tripwire) /\ IsPrefix(tail, Tripwire)})

(* Mutant: everything from the first opening bracket on is held back too. *)
RetentionFromBracket(text) ==
  Max({0} \cup
      {k \in 1 .. Len(text) :
         LET tail == SubSeq(text, Len(text) - k + 1, Len(text))
         IN  \/ Head(tail) = "["
             \/ \E e \in EntrySet :
                  \/ k < Len(e.token) /\ IsPrefix(tail, e.token)
                  \/ tail = e.token /\ Last(e.token) \in WordChar
             \/ k < Len(Tripwire) /\ IsPrefix(tail, Tripwire)})

(* _calculate_retention_length: the longest tail that is a proper prefix   *)
(* of a token or of the canary, or a whole token whose last character a    *)
(* later delta could continue into a longer word.                          *)
Retention(text) ==
  Max({0} \cup
      {k \in 1 .. Len(text) :
         LET tail == SubSeq(text, Len(text) - k + 1, Len(text))
         IN  \/ \E e \in EntrySet :
                  \/ k < Len(e.token) /\ IsPrefix(tail, e.token)
                  \/ tail = e.token /\ Last(e.token) \in WordChar
             \/ k < Len(Tripwire) /\ IsPrefix(tail, Tripwire)})

(* process_delta_text, one outcome each. *)
Fail(how, buffer) ==
  /\ outcome' = how
  /\ held' = buffer
  /\ UNCHANGED emitted

(* Mutant: the ceiling is not checked on the last piece. *)
FlushUnchecked(ready, tail) ==
  /\ emitted' = emitted \o ready \o Rehydrate(tail, 0, MaxOutput)
  /\ held' = Empty
  /\ outcome' = "done"

Flush(ready, tail) ==
  LET restored == Rehydrate(tail, 0, MaxOutput)
  IN  IF restored = TooLong
        THEN Fail("amplified", tail)      \* what was ready is lost with the call
        ELSE /\ emitted' = emitted \o ready \o restored
             /\ held' = Empty
             /\ outcome' = "done"

Emit(text, final) ==
  LET kept  == Retention(text)
      ready == SubSeq(text, 1, Len(text) - kept)
      tail  == SubSeq(text, Len(text) - kept + 1, Len(text))
  IN  IF final
        THEN Flush(ready, tail)
        ELSE /\ emitted' = emitted \o ready
             /\ held' = tail
             /\ UNCHANGED outcome

ProcessDelta(delta, final) ==
  LET buffer   == held \o delta
      restored == Rehydrate(buffer, Retention(buffer), MaxOutput)
  IN  CASE delta = Empty -> Flush(Empty, held)
        [] delta # Empty /\ Tripwire # Empty /\ Occurs(Tripwire, buffer) ->
             Fail("tripped", buffer)
        [] delta # Empty /\ ~(Tripwire # Empty /\ Occurs(Tripwire, buffer)) ->
             IF Len(buffer) > MaxBuffer THEN Fail("overflow", buffer)
             ELSE IF restored = TooLong THEN Fail("amplified", buffer)
             ELSE Emit(restored, final)

BufferInit ==
  /\ reply \in Replies
  /\ consumed = 0
  /\ held = Empty
  /\ emitted = Empty
  /\ outcome = "streaming"

(* The next n characters arrive; the last call of a stream says so. *)
Receive(n, final) ==
  /\ outcome = "streaming"
  /\ consumed + n <= Len(reply)
  /\ n = 0 => final
  /\ final => consumed + n = Len(reply)
  /\ ProcessDelta(SubSeq(reply, consumed + 1, consumed + n), final)
  /\ consumed' = consumed + n
  /\ UNCHANGED reply

BufferNext == \E n \in 0 .. Len(reply), final \in BOOLEAN : Receive(n, final)

BufferSpec == BufferInit /\ [][BufferNext]_bufferVars

-----------------------------------------------------------------------------
Whole == Rehydrate(reply, 0, None)

(* However the provider cut the reply, what the client has is a prefix of  *)
(* the restored whole, and all of it when the stream has ended well; and   *)
(* what is held back meanwhile never outgrows the longest token or canary, *)
(* so only a single delta can reach the overflow limit, however long the   *)
(* stream (process_delta_text, _calculate_retention_length).               *)
ChunkInvariance ==
  /\ IsPrefix(emitted, Whole)
  /\ outcome = "streaming" => Len(held) <= Max({LongestToken, Len(Tripwire) - 1})
  /\ outcome = "done" => emitted = Whole

(* The client never gets a character of a canary in the reply, nor         *)
(* anything after it, and such a reply never ends well.                    *)
CanaryNeverEmitted ==
  \A i \in 1 .. Len(reply) :
    Tripwire # Empty /\ OccursAt(Tripwire, reply, i) =>
      /\ outcome # "done"
      /\ IsPrefix(emitted, Rehydrate(SubSeq(reply, 1, i - 1), 0, None))
=============================================================================

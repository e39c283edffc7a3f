--------------------------- MODULE LiteLLMGuardrail ---------------------------
(***************************************************************************)
(* The LiteLLM guardrail (examples/integrations/litellm) over the guard    *)
(* API (api/guard_router.py): what it redacts before a call, in which      *)
(* vault, and how it restores the reply, whole or as a stream of any of    *)
(* the three shapes, through one window for each channel.                  *)
(*                                                                         *)
(* A chat has at most one value the caller wrote and one the application   *)
(* wrote.  A piece of a reply echoes the placeholder of one of the two (of *)
(* the second, without tags, it is as good as any word).  What a window    *)
(* must keep is RehydrationBuffer's subject: here it lets any beginning    *)
(* out.                                                                    *)
(***************************************************************************)
EXTENDS Naturals, Sequences, FiniteSets

CONSTANTS
  Chats,        \* requests through the proxy
  MaxOpen,      \* _MAX_STREAM_WINDOWS
  MaxPieces     \* bound of the runs: the pieces of text of all replies

ASSUME GuardrailAssumption == MaxOpen \in Nat /\ MaxPieces \in Nat /\ "elsewhere" \notin Chats

Channels == {"prose", "tool", "other"}       \* of choice 0, 0 and 1, or three blocks
ChoiceOf(k) == IF k = "other" THEN 1 ELSE 0
Streams == {"chat", "frames", "events"}      \* chunks, Anthropic SSE, Responses events

(* Vault ids, and whose value a vault holds. *)
Reply(c) == <<c, "reply">>
Hidden(c) == <<c, "hidden">>
Unused(c) == <<c, "unused">>
Elsewhere == <<"elsewhere", "reply">>        \* somebody else's use of the guard API
Unnamed == <<"none", "none">>

Silence == [k \in Channels |-> <<>>]

VARIABLES
  tagged,    \* whether the shield masks with structural tags, numbered by vault
  shield,    \* the vaults the guard API holds: id -> the value behind its placeholder
  provider,  \* the raw values that left for the provider
  said,      \* how many pieces were read
  lite       \* the chats

lvars == <<tagged, shield, provider, said, lite>>

NewChat ==
  [at |-> "new", raw |-> {}, meta |-> Unnamed, shape |-> "whole",
   fed |-> Silence, held |-> Silence, open |-> {}, chunk |-> Silence, got |-> Silence,
   closing |-> {}, closed |-> {}, late |-> FALSE, bare |-> FALSE, lost |-> {}]

LInit ==
  /\ tagged \in BOOLEAN
  /\ shield = [s \in {Elsewhere} |-> "theirs"]
  /\ provider = {} /\ said = 0
  /\ lite = [c \in Chats |-> NewChat]

Chat(c, update) == lite' = [lite EXCEPT ![c] = update]
Gets(c, at) == Chat(c, [lite[c] EXCEPT !.at = at])

(* What the client has stays with it. *)
Blocks(c) ==
  Chat(c, [NewChat EXCEPT !.at = "blocked", !.fed = lite[c].fed, !.got = lite[c].got])

-----------------------------------------------------------------------------
(* The guard API *)

(* A vault is dropped by its age or under pressure; to lose one that no    *)
(* reply is restored against changes nothing.                              *)
Forgets(c) ==
  /\ Reply(c) \in DOMAIN shield /\ lite[c].at \notin {"over", "blocked"}
  /\ shield' = [v \in DOMAIN shield \ {Reply(c)} |-> shield[v]]
  /\ UNCHANGED <<tagged, provider, said, lite>>

(* redact: the vault is made if it is not there. *)
Holding(s, value) == [v \in DOMAIN shield \cup {s} |-> IF v = s THEN value ELSE shield[v]]

(* rehydrate: an id with no vault restores nothing.  With tags, the echo   *)
(* of the first placeholder of one vault reads as that of another.         *)
Shown(s, of) ==
  IF s \in DOMAIN shield /\ (of = "own" \/ (of = "hidden" /\ tagged))
  THEN shield[s] ELSE "as it came"

-----------------------------------------------------------------------------
(* Before the call *)

(* The caller may put an id of its own where the guardrail keeps its own. *)
Posts(c) ==
  /\ lite[c].at = "new"
  /\ \E raw \in SUBSET {"own", "hidden"}, meta \in {Unnamed, Elsewhere} :
       Chat(c, [lite[c] EXCEPT !.at = "arrived", !.raw = raw, !.meta = meta])
  /\ UNCHANGED <<tagged, shield, provider, said>>

(* async_pre_call_hook: the spans are located; with none, nothing is       *)
(* minted.                                                                 *)
Mints(c) ==
  /\ lite[c].at = "arrived"
  /\ IF lite[c].raw = {} THEN Gets(c, "redacted")
     ELSE Chat(c, [lite[c] EXCEPT !.at = "minted", !.meta = Reply(c)])
  /\ UNCHANGED <<tagged, shield, provider, said>>

(* Two batches, what the application wrote first, under an id that is      *)
(* kept nowhere.                                                           *)
RedactsHidden(c) ==
  /\ lite[c].at = "minted" /\ "hidden" \in lite[c].raw
  /\ shield' = Holding(Hidden(c), "hidden of " \o c)
  /\ Chat(c, [lite[c] EXCEPT !.raw = @ \ {"hidden"}])
  /\ UNCHANGED <<tagged, provider, said>>

RedactsOwn(c) ==
  /\ lite[c].at = "minted" /\ lite[c].raw = {"own"}
  /\ shield' = Holding(Reply(c), "own of " \o c)
  /\ Chat(c, [lite[c] EXCEPT !.raw = {}])
  /\ UNCHANGED <<tagged, provider, said>>

RedactsAll(c) ==
  /\ lite[c].at = "minted" /\ lite[c].raw = {}
  /\ Gets(c, "redacted")
  /\ UNCHANGED <<tagged, shield, provider, said>>

(* Refused, unreachable, too slow, another number of texts: the request    *)
(* is blocked, also when the first batch was written back and when the     *)
(* shield had registered the value.                                        *)
RedactFails(c) ==
  /\ lite[c].at = "minted" /\ lite[c].raw # {}
  /\ shield' \in {shield, Holding(Reply(c), "own of " \o c)}
  /\ Blocks(c)
  /\ UNCHANGED <<tagged, provider, said>>

GoesOut(c) ==
  /\ lite[c].at = "redacted"
  /\ provider' = provider \cup lite[c].raw
  /\ \E shape \in {"whole"} \cup Streams :
       Chat(c, [lite[c] EXCEPT !.at = "reading", !.shape = shape])
  /\ UNCHANGED <<tagged, shield, said>>

-----------------------------------------------------------------------------
(* The reply *)

(* Mutant: any id found there is used. *)
SessionIdAsGiven(c) == IF lite[c].meta # Unnamed THEN lite[c].meta ELSE Unused(c)

(* An id without this process's prefix was not put there by it. *)
SessionId(c) == IF lite[c].meta = Reply(c) THEN Reply(c) ELSE Unused(c)

Restored(c, text) ==
  [i \in 1 .. Len(text) |-> [at |-> text[i].at, of |-> text[i].of,
                             shown |-> Shown(SessionId(c), text[i].of)]]

(* async_post_call_success_hook: every span in one batch. *)
RestoresWhole(c, of) ==
  /\ lite[c].at = "reading" /\ lite[c].shape = "whole" /\ said < MaxPieces
  /\ said' = said + 1
  /\ LET piece == [at |-> said, of |-> of]
     IN  Chat(c, [lite[c] EXCEPT !.at = "over", !.fed["prose"] = <<piece>>,
                                 !.got["prose"] = Restored(c, <<piece>>)])
  /\ UNCHANGED <<tagged, shield, provider>>

IsStreaming(c) == lite[c].at = "reading" /\ lite[c].shape \in Streams

(* A delta: one step of its channel's window, and the chunk goes out.  A   *)
(* window too many blocks the stream.                                      *)
RestoresDelta(c, k, of) ==
  /\ IsStreaming(c) /\ k \notin lite[c].closed /\ said < MaxPieces
  /\ said' = said + 1
  /\ IF k \notin lite[c].open /\ Cardinality(lite[c].open) >= MaxOpen
     THEN Blocks(c)
     ELSE LET piece == [at |-> said, of |-> of]
              text == Append(lite[c].held[k], piece)
          IN  \E n \in 0 .. Len(text) :
                Chat(c, [lite[c] EXCEPT
                  !.open = @ \cup {k}, !.bare = FALSE,
                  !.fed[k] = Append(@, piece),
                  !.got[k] = @ \o Restored(c, SubSeq(text, 1, n)),
                  !.held[k] = SubSeq(text, n + 1, Len(text))])
  /\ UNCHANGED <<tagged, shield, provider>>

(* A chunk without choices, of usage for one, is the last chunk too. *)
BareChunk(c) ==
  /\ IsStreaming(c) /\ lite[c].shape = "chat"
  /\ Chat(c, [lite[c] EXCEPT !.bare = TRUE])
  /\ UNCHANGED <<tagged, shield, provider, said>>

(* What an event that ends text ends: a finish_reason all of its choice, a *)
(* stop its block, a done its stream, a message_stop everything.           *)
Ends(c) ==
  CASE lite[c].shape = "chat" -> {{k \in Channels : ChoiceOf(k) = i} : i \in {0, 1}}
    [] lite[c].shape = "frames" -> {{k} : k \in Channels} \cup {Channels}
    [] OTHER -> {{k} : k \in Channels}

(* Mutant: the closing event goes out at once, the rest at the end. *)
ClosesUnflushed(c) ==
  /\ IsStreaming(c)
  /\ \E ks \in Ends(c) : ks \ lite[c].closed # {} /\
       Chat(c, [lite[c] EXCEPT !.closed = @ \cup ks, !.bare = FALSE])
  /\ UNCHANGED <<tagged, shield, provider, said>>

Closes(c) ==
  /\ IsStreaming(c)
  /\ \E ks \in Ends(c) : ks \ lite[c].closed # {} /\
       Chat(c, [lite[c] EXCEPT !.at = "closing", !.closing = ks, !.bare = FALSE])
  /\ UNCHANGED <<tagged, shield, provider, said>>

(* What each of them holds is put into the chunk, or ahead of the event:   *)
(* one call of the shield for each.                                        *)
FlushesIntoChunk(c, k) ==
  /\ lite[c].at = "closing" /\ k \in lite[c].closing /\ lite[c].held[k] # <<>>
  /\ Chat(c, [lite[c] EXCEPT !.chunk[k] = Restored(c, lite[c].held[k]), !.held[k] = <<>>])
  /\ UNCHANGED <<tagged, shield, provider, said>>

(* The chat path keeps its windows; the native ones drop them. *)
DeliversChunk(c) ==
  /\ lite[c].at = "closing" /\ \A k \in lite[c].closing : lite[c].held[k] = <<>>
  /\ Chat(c, [lite[c] EXCEPT
       !.at = "reading", !.closing = {}, !.chunk = Silence,
       !.got = [k \in Channels |-> @[k] \o lite[c].chunk[k]],
       !.closed = @ \cup lite[c].closing,
       !.open = IF lite[c].shape = "chat" THEN @ ELSE @ \ lite[c].closing])
  /\ UNCHANGED <<tagged, shield, provider, said>>

UpstreamEnds(c) ==
  /\ IsStreaming(c)
  /\ Gets(c, "ending")
  /\ UNCHANGED <<tagged, shield, provider, said>>

(* The net below: finish of the native restorers; _flush_trailing, which   *)
(* copies the last chunk, and drops the text when that has no choices.     *)
FlushesTrailing(c, k) ==
  /\ lite[c].at = "ending" /\ lite[c].held[k] # <<>>
  /\ Chat(c, IF lite[c].bare
             THEN [lite[c] EXCEPT !.held[k] = <<>>, !.lost = @ \cup {k}]
             ELSE [lite[c] EXCEPT !.held[k] = <<>>,
                                  !.got[k] = @ \o Restored(c, lite[c].held[k]),
                                  !.late = @ \/ k \in lite[c].closed])
  /\ UNCHANGED <<tagged, shield, provider, said>>

IsDone(c) ==
  /\ lite[c].at = "ending" /\ lite[c].held = Silence
  /\ Gets(c, "over")
  /\ UNCHANGED <<tagged, shield, provider, said>>

(* The shield fails, or upstream does, or an event is too long: what was   *)
(* not yielded is not yielded.                                             *)
ReplyFails(c) ==
  /\ lite[c].at \in {"reading", "closing", "ending"}
  /\ Blocks(c)
  /\ UNCHANGED <<tagged, shield, provider, said>>

LNext ==
  \E c \in Chats :
    \/ Forgets(c)
    \/ Posts(c) \/ Mints(c) \/ RedactsHidden(c) \/ RedactsOwn(c) \/ RedactsAll(c)
    \/ RedactFails(c) \/ GoesOut(c)
    \/ BareChunk(c) \/ Closes(c) \/ DeliversChunk(c) \/ UpstreamEnds(c) \/ IsDone(c)
    \/ ReplyFails(c)
    \/ \E of \in {"own", "hidden"} :
         RestoresWhole(c, of) \/ \E k \in Channels : RestoresDelta(c, k, of)
    \/ \E k \in Channels : FlushesIntoChunk(c, k) \/ FlushesTrailing(c, k)

LSpec == LInit /\ [][LNext]_lvars

-----------------------------------------------------------------------------
(* Nothing raw reaches the provider, and whatever placeholder a reply      *)
(* echoes and whatever id its caller supplied, the caller is shown its own *)
(* value or the placeholder: never another's value, never one the          *)
(* application wrote (litellm_guardrail.py:832-922).              *)
ValuesComeHome ==
  /\ provider = {}
  /\ \A c \in Chats, k \in Channels : \A i \in 1 .. Len(lite[c].got[k]) :
       lite[c].got[k][i].shown \in {"as it came", "own of " \o c}

Received(c, k) == [i \in 1 .. Len(lite[c].got[k]) |-> lite[c].got[k][i].at]
Told(c, k) == [i \in 1 .. Len(lite[c].fed[k]) |-> lite[c].fed[k][i].at]

(* However its windows hold text back, a channel gives the client what it  *)
(* was given in its order, nothing of another channel and nothing after    *)
(* the event that ends it; a reply that ended whole is complete, but for a *)
(* stream that was cut short behind a chunk without choices                *)
(* (litellm_guardrail.py:567-638, 666-717, 1057-1283).          *)
RepliesAreWhole ==
  \A c \in Chats :
    /\ ~lite[c].late
    /\ \A k \in Channels :
         /\ k \in lite[c].closed => lite[c].held[k] = <<>>
         /\ Len(Received(c, k)) <= Len(Told(c, k))
         /\ Received(c, k) = SubSeq(Told(c, k), 1, Len(Received(c, k)))
         /\ lite[c].at = "over" /\ k \notin lite[c].lost => Received(c, k) = Told(c, k)

(* A chat's values come home, and its reply whole                          *)
(* (litellm_guardrail.py:832-922, 1057-1283).                              *)
GuardrailIsFaithful == ValuesComeHome /\ RepliesAreWhole
=============================================================================

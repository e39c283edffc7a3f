------------------------------ MODULE CaptureRun ------------------------------
(***************************************************************************)
(* One run of the leak benchmark against a gateway                         *)
(* (pii_leak_benchmark/http_profile.py): a capture server stands where the *)
(* gateway's model provider would, records every request in a thread of    *)
(* its own and answers it; the run sends a prompt with generated values    *)
(* through the gateway, and judges what the server has on record.          *)
(*                                                                         *)
(* A value is the two pieces "h1" and "h2" next to each other.  A request  *)
(* is what its headers and its body are made of, what the decoders make of *)
(* it, whether it shows the token and the run's marker, and whether the    *)
(* server can read it to the end.                                          *)
(***************************************************************************)
EXTENDS Naturals, Sequences, FiniteSets, SequencesExt

CONSTANTS
  Loads,         \* [head, body, hidden : Seq(pieces), token, marked, sound : BOOLEAN]
  MaxRequests,   \* bound of the runs: requests that reach the address
  Iterations     \* bound of the runs: prompts sent through the gateway

RequestType == [head : Seq(STRING), body : Seq(STRING), hidden : Seq(STRING),
                token : BOOLEAN, marked : BOOLEAN, sound : BOOLEAN]

ASSUME CaptureAssumption ==
  Loads \subseteq RequestType /\ MaxRequests \in Nat /\ Iterations \in Nat \ {0}

VARIABLES
  mode,      \* loopback, or public with a token
  address,   \* who answers at the address the gateway is given, seen from here
  session,   \* bound, probed, open, ended
  reached,   \* what the report says of the address
  reqs,      \* the requests in the order they were sent, how far each is, those answered before
  records,   \* those on record, in order
  run,       \* idle, running, judged
  left,      \* prompts still to be sent
  verdict

cvars == <<mode, address, session, reached, reqs, records, run, left, verdict>>

NoVerdict == [is |-> "none", seen |-> {}]
Requests == DOMAIN reqs
Answered == {i \in Requests : reqs[i].at = "answered"}

CInit ==
  /\ mode \in {"loopback", "public"}
  /\ address \in {"us", "other", "unreachable"}
  /\ mode = "loopback" => address # "unreachable"
  /\ session = "bound" /\ reached = "unknown"
  /\ reqs = <<>> /\ records = <<>> /\ run = "idle" /\ left = Iterations
  /\ verdict = NoVerdict

-----------------------------------------------------------------------------
(* The session *)

(* The bind address answers, with the record's secret, and the token was   *)
(* seen.  Then the address the gateway is given: another answerer ends it, *)
(* nobody answering is put in the report.                                  *)
ProbesItself ==
  /\ session = "bound"
  /\ IF address = "other"
     THEN session' = "ended" /\ UNCHANGED reached
     ELSE session' = "open" /\ reached' = (IF address = "us" THEN "yes" ELSE "no")
  /\ UNCHANGED <<mode, address, reqs, records, run, left, verdict>>

(* A session is taken for one run: its records are never divided. *)
Claims ==
  /\ session = "open" /\ run = "idle"
  /\ run' = "running"
  /\ UNCHANGED <<mode, address, session, reached, reqs, records, left, verdict>>

(* The caller leaves it; without a verdict when its target does not start. *)
SessionEnds ==
  /\ session = "open" /\ run # "running"
  /\ session' = "ended"
  /\ UNCHANGED <<mode, address, reached, reqs, records, run, left, verdict>>

-----------------------------------------------------------------------------
(* Requests *)

(* The gateway's, at startup or for a prompt, or anybody's when the        *)
(* address is public.                                                      *)
Sends(load) ==
  /\ session # "ended" /\ Len(reqs) < MaxRequests
  /\ session = "bound" => mode = "public" /\ ~load.token
  /\ mode = "loopback" => load.token          \* nobody looks at it
  /\ reqs' = Append(reqs, [load |-> load, at |-> "sent", after |-> Answered])
  /\ UNCHANGED <<mode, address, session, reached, records, run, left, verdict>>

Moves(i, at) == reqs' = [reqs EXCEPT ![i].at = at]

(* Mutant: answered first, recorded when the answer is out. *)
RecordsLate(i) ==
  /\ session # "ended"
  /\ \/ reqs[i].at = "sent" /\ Moves(i, "answered") /\ UNCHANGED records
     \/ /\ reqs[i].at = "answered" /\ \A k \in DOMAIN records : records[k] # i
        /\ records' = Append(records, i) /\ UNCHANGED reqs
  /\ UNCHANGED <<mode, address, session, reached, run, left, verdict>>

(* Mutant: a request that cannot be read is only refused. *)
RecordsSoundOnly(i) ==
  /\ session # "ended" /\ reqs[i].at = "sent"
  /\ Moves(i, "recorded")
  /\ records' = IF reqs[i].load.sound THEN Append(records, i) ELSE records
  /\ UNCHANGED <<mode, address, session, reached, run, left, verdict>>

(* Read under either framing, walked and put on record, readable or not,   *)
(* before anything is answered.  A request the server cannot even parse is *)
(* on record with its line and headers.                                    *)
Records(i) ==
  /\ session # "ended" /\ reqs[i].at = "sent"
  /\ Moves(i, "recorded")
  /\ records' = Append(records, i)
  /\ UNCHANGED <<mode, address, session, reached, run, left, verdict>>

(* The connection is reset while the body is read: nothing is recorded. *)
Resets(i) ==
  /\ reqs[i].at = "sent" /\ Moves(i, "gone")
  /\ UNCHANGED <<mode, address, session, reached, records, run, left, verdict>>

(* A stream of the last message, a list of models, or a refusal. *)
Answers(i) ==
  /\ session # "ended" /\ reqs[i].at = "recorded" /\ Moves(i, "answered")
  /\ UNCHANGED <<mode, address, session, reached, records, run, left, verdict>>

-----------------------------------------------------------------------------
(* The run *)

(* The gateway's answer to a prompt has come, or an error. *)
IterationEnds ==
  /\ run = "running" /\ left > 0 /\ left' = left - 1
  /\ UNCHANGED <<mode, address, session, reached, reqs, records, run, verdict>>

Attributed(i) == mode = "loopback" \/ reqs[i].load.token

Surfaces == {"head", "body"}

(* Pieces in the order they were sent in, and then what decoders found. *)
Adjacent(s) == \E k \in 1 .. Len(s) - 1 : s[k] = "h1" /\ s[k + 1] = "h2"
Found(verbatim, decoded) == Adjacent(verbatim) \/ Adjacent(verbatim \o decoded)

(* Mutant: what does not carry the marker is not the run's. *)
SnapshotOfMarked == SelectSeq(records, LAMBDA i : reqs[i].load.marked)

Snapshot == records

(* Mutant: what decoders found is kept where it was found. *)
JoinedInPlace(ids, ch) ==
  FlattenSeq([k \in DOMAIN Snapshot |->
                LET i == Snapshot[k]
                IN IF i \in ids THEN reqs[i].load[ch] \o reqs[i].load.hidden ELSE <<>>])

(* A channel of successive requests. *)
Joined(ids, ch) ==
  FlattenSeq([k \in DOMAIN Snapshot |->
                LET i == Snapshot[k] IN IF i \in ids THEN reqs[i].load[ch] ELSE <<>>])

(* What the walk over a request collects, and what it decodes on the way. *)
Verbatim(load) == load.head \o load.body
Decoded(load) == load.hidden

(* _leaked_entities *)
Leaked(ids) ==
  \/ \E i \in ids : Found(Verbatim(reqs[i].load), Decoded(reqs[i].load))
  \/ \E ch \in Surfaces : Adjacent(Joined(ids, ch))

(* Framing, encoding and content could be read to the end. *)
Readable(i) == reqs[i].load.sound

OnRecord == {Snapshot[k] : k \in DOMAIN Snapshot}
Captured == {i \in OnRecord : Attributed(i)}

Judge ==
  LET captured == Captured
      others == OnRecord \ captured
  IN IF Leaked(captured) \/ Leaked(others) THEN "leak"
     ELSE IF /\ \E i \in captured : reqs[i].load.marked
             /\ \A i \in captured : Readable(i)
          THEN "passed" ELSE "failed"

Judges ==
  /\ run = "running" /\ left = 0
  /\ run' = "judged"
  /\ verdict' = [is |-> Judge, seen |-> Answered]
  /\ UNCHANGED <<mode, address, session, reached, reqs, records, left>>

(* What comes after the verdict is in no verdict. *)
CNext ==
  \/ ProbesItself \/ Claims \/ SessionEnds \/ IterationEnds \/ Judges
  \/ run # "judged" /\ \E load \in Loads : Sends(load)
  \/ run # "judged" /\ \E i \in Requests : Records(i) \/ Resets(i) \/ Answers(i)

CSpec == CInit /\ [][CNext]_cvars

-----------------------------------------------------------------------------
Whole(load) == Found(load.head \o load.body, load.hidden)

(* Sent when the other had its answer. *)
SentAfter(j, i) == i \in reqs[j].after

(* The value is split over two requests, nothing of the kind in between. *)
SplitOver(i, j, ch) ==
  LET a == reqs[i].load[ch]
      b == reqs[j].load[ch]
  IN /\ SentAfter(j, i) /\ a # <<>> /\ b # <<>>
     /\ a[Len(a)] = "h1" /\ b[1] = "h2"
     /\ \A k \in Requests \ {i, j} :
          \/ reqs[k].load[ch] = <<>>
          \/ ~Attributed(k) \/ SentAfter(i, k) \/ SentAfter(k, j)

(* A gateway that passes sent a request of this run to the address, and    *)
(* nothing that it sent and had answered by then, at startup or for a      *)
(* prompt, held a value, plain, encoded, split over headers and body or    *)
(* over one request and the next, or could not be read; and the run is     *)
(* only judged where its address was not another's                         *)
(* (http_profile.py:625-743, 1002-1105, 1193-1269, 1620-1690).             *)
BoundaryVerdictIsSound ==
  /\ verdict.is = "passed" =>
       /\ \E i \in Requests : Attributed(i) /\ reqs[i].load.marked
       /\ \A i \in verdict.seen : ~Whole(reqs[i].load) /\ (Attributed(i) => reqs[i].load.sound)
       /\ \A i, j \in {k \in verdict.seen : Attributed(k)}, ch \in Surfaces : ~SplitOver(i, j, ch)
  /\ verdict.is # "none" => address = "us" \/ reached = "no"

=============================================================================

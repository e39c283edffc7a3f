----------------------------- MODULE AuditChain -----------------------------
(***************************************************************************)
(* The audit logger (class AuditLogger of observability/audit.py) with its *)
(* durable file (JSONLFileAuditSink of observability/audit_sink.py) and    *)
(* the verdict of verify_worm_log (compliance/report.py) on that file.     *)
(* Request handlers put events on a bounded queue; one worker thread links *)
(* each to its predecessor by hash and appends it.  The process crashes    *)
(* and restarts; a write may fail.                                         *)
(*                                                                         *)
(* A record's hash covers its whole content, and no two records have the   *)
(* same, so the hash is the identity of what was logged.  A chain id is    *)
(* the number of the boot that drew it.  Signatures and the copy of each   *)
(* record on stdout are not modelled.                                      *)
(***************************************************************************)
EXTENDS Integers, Sequences

CONSTANTS Event,           \* the events request handlers log, each once
          Unserialisable,  \* those json.dumps refuses
          Modes,           \* the values AUDIT_DURABILITY may have
          QueueBound,      \* maxsize of _log_queue, 10_000 in the code
          SinkFaults,      \* how an append may fail
          MaxFaults,       \* bound on failed appends
          MaxBoots         \* bound on process starts

(* A failed append leaves nothing, part of a line, or (flushed, but not    *)
(* synced) the whole line in the file.                                     *)
ASSUME AuditAssumption ==
  /\ Unserialisable \subseteq Event
  /\ Modes \subseteq {"best_effort", "durable", "required"}
  /\ QueueBound \in Nat \ {0}
  /\ SinkFaults \subseteq {"unwritten", "torn", "unsynced"}
  /\ MaxFaults \in Nat
  /\ MaxBoots \in Nat

Missing == 0                    \* no chain_id, no sequence in the record
Garbage == [garbage |-> TRUE]   \* a line that is no JSON object
Idle == [idle |-> TRUE]

VARIABLES mode,     \* _durability; never changes
          log,      \* the complete lines of the file
          torn,     \* whether the file ends in part of a line
          proc,     \* "down", "starting", "up", "refused"
          memory,   \* [lastHash, sequence, chain]: _last_hash, _sequence, _chain_id
          queue,    \* _log_queue
          current,  \* the worker's item, or Idle
          outcome,  \* what each event's caller knows
          boots, faults

vars == <<mode, log, torn, proc, memory, queue, current, outcome, boots, faults>>

Acknowledged == mode # "best_effort"

EventItem(e) == [kind |-> "event", of |-> e]
StartItem(n) == [kind |-> "start", of |-> n]
Seed(n) == [kind |-> "seed", of |-> n]     \* secrets.token_hex at boot n

-----------------------------------------------------------------------------
(* The record of an item, linked to what memory says came before.  One     *)
(* that cannot be serialised is replaced by a record of the failure.       *)
Linked(item) ==
  [hash   |-> item,
   prev   |-> memory.lastHash,
   seq    |-> memory.sequence + 1,
   chain  |-> memory.chain,
   anchor |-> item.kind = "start"]      \* initial_hash = previous_hash

FailureRecord ==
  [hash   |-> [kind |-> "failure", of |-> memory.lastHash],
   prev   |-> memory.lastHash,
   seq    |-> Missing,
   chain  |-> Missing,
   anchor |-> FALSE]

RecordOf(item) ==
  IF item.kind = "event" /\ item.of \in Unserialisable THEN FailureRecord ELSE Linked(item)

(* The file's lines after `line` was written: it continues a torn line. *)
Written(line) == Append(log, IF torn THEN Garbage ELSE line)

(* last_record: a line that is no JSON refuses recovery. *)
Unreadable == torn \/ \E i \in 1 .. Len(log) : log[i] = Garbage

(* Mutant: the sequence is not recovered. *)
RecoveredNoSequence(n) ==
  IF log = <<>>
    THEN [lastHash |-> Seed(n), sequence |-> 0, chain |-> n]
    ELSE [lastHash |-> log[Len(log)].hash, sequence |-> 0, chain |-> log[Len(log)].chain]

(* configure_durability, and log_startup_event's seed for a fresh chain. *)
Recovered(n) ==
  IF log = <<>>
    THEN [lastHash |-> Seed(n), sequence |-> 0, chain |-> n]
    ELSE LET last == log[Len(log)]
         IN  [lastHash |-> last.hash,
              sequence |-> last.seq,
              chain    |-> IF last.chain = Missing THEN n ELSE last.chain]

(* What verify_worm_log says of the file: one anchored chain from sequence *)
(* 1 on, every record linked to the one before.                            *)
Verified ==
  /\ log # <<>> /\ ~Unreadable
  /\ log[1].anchor /\ log[1].seq = 1 /\ log[1].chain # Missing
  /\ \A i \in 1 .. Len(log) - 1 :
       /\ log[i + 1].prev = log[i].hash
       /\ log[i + 1].seq = log[i].seq + 1
       /\ log[i + 1].chain = log[i].chain

-----------------------------------------------------------------------------
Init ==
  /\ mode \in Modes
  /\ log = <<>> /\ torn = FALSE
  /\ proc = "down"
  /\ memory = [lastHash |-> Seed(0), sequence |-> 0, chain |-> Missing]
  /\ queue = <<>> /\ current = Idle
  /\ outcome = [e \in Event |-> "new"]
  /\ boots = 0 /\ faults = 0

(* A process starts: configure_durability, then log_startup_event, which a *)
(* durable mode waits for before any request is served.                    *)
Start ==
  /\ proc = "down" /\ boots < MaxBoots
  /\ boots' = boots + 1
  /\ IF Unreadable
       THEN proc' = "refused" /\ UNCHANGED <<memory, queue>>
       ELSE /\ proc' = IF Acknowledged THEN "starting" ELSE "up"
            /\ memory' = Recovered(boots + 1)
            /\ queue' = <<StartItem(boots + 1)>>
  /\ UNCHANGED <<mode, log, torn, current, outcome, faults>>

(* _enqueue_log *)
Enqueue(e) ==
  /\ proc = "up" /\ outcome[e] = "new"
  /\ Len(queue) < QueueBound
  /\ queue' = Append(queue, EventItem(e))
  /\ outcome' = [outcome EXCEPT ![e] = IF Acknowledged THEN "waiting" ELSE "accepted"]
  /\ UNCHANGED <<mode, log, torn, proc, memory, current, boots, faults>>

(* Mutant: a full queue gives up its oldest item. *)
EnqueueFullReplaces(e) ==
  /\ proc = "up" /\ outcome[e] = "new"
  /\ Len(queue) >= QueueBound
  /\ queue' = Append(Tail(queue), EventItem(e))
  /\ outcome' = [outcome EXCEPT ![e] = IF Acknowledged THEN "waiting" ELSE "accepted"]
  /\ UNCHANGED <<mode, log, torn, proc, memory, current, boots, faults>>

(* The queue is full: best effort drops the event, a durable mode fails    *)
(* the caller when AUDIT_ENQUEUE_TIMEOUT_SECONDS have passed.              *)
EnqueueFull(e) ==
  /\ proc = "up" /\ outcome[e] = "new"
  /\ Len(queue) >= QueueBound
  /\ outcome' = [outcome EXCEPT ![e] = IF Acknowledged THEN "failed" ELSE "dropped"]
  /\ UNCHANGED <<mode, log, torn, proc, memory, queue, current, boots, faults>>

(* The caller gives up waiting; its item stays queued. *)
AckTimeout(e) ==
  /\ outcome[e] = "waiting"
  /\ outcome' = [outcome EXCEPT ![e] = "failed"]
  /\ UNCHANGED <<mode, log, torn, proc, memory, queue, current, boots, faults>>

(* The outcomes once the worker is done with an item, well or not. *)
Answered(item, well) ==
  IF item.kind # "event" THEN outcome
  ELSE [outcome EXCEPT ![item.of] =
          CASE @ = "waiting" -> IF well THEN "acked" ELSE "failed"
            [] @ = "accepted" /\ ~well -> "lost"
            [] OTHER -> @]

WorkerTake ==
  /\ proc \in {"starting", "up"} /\ current = Idle /\ queue # <<>>
  /\ current' = [item |-> Head(queue), written |-> FALSE]
  /\ queue' = Tail(queue)
  /\ UNCHANGED <<mode, log, torn, proc, memory, outcome, boots, faults>>

(* JSONLFileAuditSink.append succeeds. *)
WorkerAppend ==
  /\ current # Idle /\ ~current.written
  /\ log' = Written(RecordOf(current.item))
  /\ torn' = FALSE
  /\ current' = [current EXCEPT !.written = TRUE]
  /\ UNCHANGED <<mode, proc, memory, queue, outcome, boots, faults>>

(* Mutant: a handler that does not finish the item. *)
WorkerAppendFailsHangs(how) ==
  /\ current # Idle /\ ~current.written
  /\ faults < MaxFaults /\ how \in SinkFaults
  /\ log' = IF how = "unsynced" THEN Written(RecordOf(current.item)) ELSE log
  /\ torn' = (how = "torn" \/ (how = "unwritten" /\ torn))
  /\ current' = Idle
  /\ faults' = faults + 1
  /\ UNCHANGED <<mode, proc, memory, queue, outcome, boots>>

(* Mutant: the error is not recorded before the waiter is woken. *)
WorkerAppendFailsSilently(how) ==
  /\ current # Idle /\ ~current.written
  /\ faults < MaxFaults /\ how \in SinkFaults
  /\ log' = IF how = "unsynced" THEN Written(RecordOf(current.item)) ELSE log
  /\ torn' = (how = "torn" \/ (how = "unwritten" /\ torn))
  /\ outcome' = Answered(current.item, TRUE)
  /\ current' = Idle
  /\ faults' = faults + 1
  /\ proc' = IF proc = "starting" THEN "down" ELSE proc
  /\ UNCHANGED <<mode, memory, queue, boots>>

(* It raises: the item is answered with the error and the chain's state    *)
(* stays; a failed startup record ends the process.                        *)
WorkerAppendFails(how) ==
  /\ current # Idle /\ ~current.written
  /\ faults < MaxFaults /\ how \in SinkFaults
  /\ log' = IF how = "unsynced" THEN Written(RecordOf(current.item)) ELSE log
  /\ torn' = (how = "torn" \/ (how = "unwritten" /\ torn))
  /\ outcome' = Answered(current.item, FALSE)
  /\ current' = Idle
  /\ faults' = faults + 1
  /\ proc' = IF proc = "starting" THEN "down" ELSE proc
  /\ UNCHANGED <<mode, memory, queue, boots>>

(* Mutant: the item is processed once more. *)
WorkerAdvanceRetries ==
  /\ current # Idle /\ current.written
  /\ memory' = [memory EXCEPT !.lastHash = RecordOf(current.item).hash, !.sequence = @ + 1]
  /\ current' = [current EXCEPT !.written = FALSE]
  /\ outcome' = Answered(current.item, TRUE)
  /\ proc' = IF proc = "starting" THEN "up" ELSE proc
  /\ UNCHANGED <<mode, log, torn, queue, boots, faults>>

(* The chain's state moves on, and the caller is woken. *)
WorkerAdvance ==
  /\ current # Idle /\ current.written
  /\ memory' = [memory EXCEPT !.lastHash = RecordOf(current.item).hash, !.sequence = @ + 1]
  /\ current' = Idle
  /\ outcome' = Answered(current.item, TRUE)
  /\ proc' = IF proc = "starting" THEN "up" ELSE proc
  /\ UNCHANGED <<mode, log, torn, queue, boots, faults>>

(* The process dies, perhaps in the middle of a write; what was queued and *)
(* who waited is lost.                                                     *)
Crash ==
  /\ proc \in {"starting", "up"}
  /\ proc' = "down"
  /\ torn' \in BOOLEAN
  /\ torn => torn'
  /\ torn' => torn \/ (current # Idle /\ ~current.written)
  /\ queue' = <<>> /\ current' = Idle
  /\ outcome' = [e \in Event |->
       IF outcome[e] = "waiting" THEN "lost"
       ELSE IF /\ outcome[e] = "accepted"
               /\ \/ \E i \in 1 .. Len(queue) : queue[i] = EventItem(e)
                  \/ current # Idle /\ current.item = EventItem(e)
         THEN "lost" ELSE outcome[e]]
  /\ UNCHANGED <<mode, log, memory, boots, faults>>

Worker == WorkerTake \/ WorkerAppend \/ (\E how \in SinkFaults : WorkerAppendFails(how)) \/ WorkerAdvance

Next ==
  \/ Start \/ Crash \/ Worker
  \/ \E e \in Event : Enqueue(e) \/ EnqueueFull(e) \/ AckTimeout(e)

Spec == Init /\ [][Next]_vars

(* The worker is a thread of its own, blocked on nothing but the queue.    *)
FairSpec == Spec /\ WF_vars(Worker)

-----------------------------------------------------------------------------
TypeOK ==
  /\ torn \in BOOLEAN
  /\ proc \in {"down", "starting", "up", "refused"}
  /\ memory.sequence \in Nat /\ memory.chain \in Nat
  /\ Len(queue) <= QueueBound
  /\ outcome \in [Event -> {"new", "waiting", "accepted", "acked", "failed", "dropped", "lost"}]
  /\ boots \in 0 .. MaxBoots /\ faults \in 0 .. MaxFaults

Recorded(e) == \E i \in 1 .. Len(log) : log[i] # Garbage /\ log[i].hash = EventItem(e)

(* While a process of a durable mode serves requests, its file is one      *)
(* chain the verifier accepts, across failed appends, crashes and restarts. *)
LogVerifies == Acknowledged /\ proc = "up" => Verified

(* A caller that was told its event is persisted finds it in the file.     *)
AckedIsRecorded == \A e \in Event : outcome[e] = "acked" => Recorded(e)

(* An event taken in is on its way, recorded, or its loss is known: to the *)
(* caller, or by a crash or an error the worker logged.                    *)
EveryEventAccounted ==
  \A e \in Event : outcome[e] \in {"waiting", "accepted"} =>
    \/ \E i \in 1 .. Len(queue) : queue[i] = EventItem(e)
    \/ current # Idle /\ current.item = EventItem(e)
    \/ Recorded(e)

(* Nobody waits for the worker forever, whatever goes wrong with the item. *)
WaitersAreAnswered == \A e \in Event : outcome[e] = "waiting" ~> outcome[e] # "waiting"

(* An event has one fate: acknowledged it is in the file, taken in it is   *)
(* accounted for, and whoever waits is answered, through full queues,      *)
(* failed appends, crashes and restarts (AuditLogger, audit_sink.append).  *)
EventsAreSettled ==
  /\ [](AckedIsRecorded /\ EveryEventAccounted)
  /\ WaitersAreAnswered

IsEvent(line) == line # Garbage /\ line.hash.kind = "event"

(* The events among the lines of a file, in their order. *)
EventsOf(lines) ==
  LET upTo[n \in 0 .. Len(lines)] ==
        IF n = 0 THEN <<>>
        ELSE IF IsEvent(lines[n]) THEN Append(upTo[n - 1], lines[n].hash.of) ELSE upTo[n - 1]
  IN  upTo[Len(lines)]

Abstract == INSTANCE AuditTrail
              WITH trail <- EventsOf(log), told <- {e \in Event : outcome[e] = "acked"}

(* The logger implements AuditTrail: across crashes, restarts and failed   *)
(* appends no event is recorded twice, nothing recorded is lost, and an    *)
(* acknowledgement follows its record.                                     *)
ImplementsTrail == Abstract!Spec
=============================================================================

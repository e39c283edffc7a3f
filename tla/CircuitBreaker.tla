---------------------------- MODULE CircuitBreaker ----------------------------
(***************************************************************************)
(* The breaker that stops an agent repeating itself                        *)
(* (security/circuit_breaker.py), for one session: what its requests       *)
(* looked like, and how many in a row repeated.  With Redis every request  *)
(* loads, changes and writes back a copy; without, all of them change one  *)
(* object of the process, in worker threads.                               *)
(*                                                                         *)
(* A payload is its tool calls' hash, if it has any, and its text; two     *)
(* texts are similar when they are the same.                               *)
(***************************************************************************)
EXTENDS Naturals, Sequences, SequencesExt, FiniteSets

CONSTANTS
  Threshold,     \* AGENT_BREAKER_THRESHOLD
  Turns,         \* requests under way together
  MaxTurns       \* bound of the runs: requests in all

ASSUME BreakerAssumption == Threshold \in Nat \ {0} /\ MaxTurns \in Nat \ {0}

NoCalls == "no calls"
Short == "short"        \* fewer than 50 characters: not looked at
Payloads == [hash : {NoCalls, "calls"}, text : {"this", "that", Short}]

(* The end of tool_call_hashes, _last_bounded_payload, the count. *)
NewMetrics == [hash |-> NoCalls, text |-> "", count |-> 0]

Gone == [at |-> "gone"]

VARIABLES
  inRedis,    \* the store is Redis
  metrics,    \* SessionMetrics: the value in Redis, or the process's objects, the
              \* last of them the one in the cache
  turn,       \* what each request is at
  begun,      \* requests so far
  seen,       \* the payloads evaluated, in order, until disturbed
  disturbed   \* requests overlapped, or the metrics expired or were lost

kvars == <<inRedis, metrics, turn, begun, seen, disturbed>>

KInit ==
  /\ inRedis \in BOOLEAN
  /\ metrics = <<NewMetrics>> /\ turn = [t \in Turns |-> Gone]
  /\ begun = 0 /\ seen = <<>> /\ disturbed = FALSE

Disturbs == disturbed' = TRUE /\ seen' = <<>>
Evaluated(p) == seen' = IF disturbed THEN seen ELSE Append(seen, p)

Alone(t) == \A u \in Turns \ {t} : turn[u] = Gone

(* GET, or the cached object; a short payload returns at once. *)
Looks(t, p) ==
  /\ turn[t] = Gone /\ begun < MaxTurns /\ begun' = begun + 1
  /\ p.text # Short
  /\ turn' = [turn EXCEPT ![t] = [at |-> "loaded", payload |-> p, of |-> Len(metrics),
                                  own |-> Last(metrics), repeats |-> FALSE]]
  /\ IF Alone(t) THEN UNCHANGED <<seen, disturbed>> ELSE Disturbs
  /\ UNCHANGED <<inRedis, metrics>>

Known(t) == IF inRedis THEN turn[t].own ELSE metrics[turn[t].of]

(* Mutant: the tool calls decide whenever there are any. *)
RepeatsByCallsOnly(m, p) ==
  IF p.hash # NoCalls THEN p.hash = m.hash ELSE p.text = m.text

(* The same tool calls as the last request that had any, or the same text  *)
(* as the last.                                                            *)
Repeats(m, p) == (p.hash # NoCalls /\ p.hash = m.hash) \/ p.text = m.text

(* _evaluate_payload_duplicate, in a worker thread: first it compares, *)
Compares(t) ==
  /\ turn[t].at = "loaded"
  /\ turn' = [turn EXCEPT ![t].at = "compared",
                          ![t].repeats = Repeats(Known(t), turn[t].payload)]
  /\ UNCHANGED <<inRedis, metrics, begun, seen, disturbed>>

WithTurn(m, p, repeats) ==
  [hash |-> IF p.hash = NoCalls THEN m.hash ELSE p.hash,
   text |-> p.text,
   count |-> IF repeats THEN m.count + 1 ELSE 0]

(* ... then it counts. *)
Counts(t) ==
  LET m == WithTurn(Known(t), turn[t].payload, turn[t].repeats) IN
  /\ turn[t].at = "compared"
  /\ turn' = [turn EXCEPT ![t].at = IF inRedis THEN "counted" ELSE "written", ![t].own = m]
  /\ metrics' = IF inRedis THEN metrics ELSE [metrics EXCEPT ![turn[t].of] = m]
  /\ IF inRedis THEN UNCHANGED seen ELSE Evaluated(turn[t].payload)
  /\ UNCHANGED <<inRedis, begun, disturbed>>

(* Mutant: only what is let through is written back. *)
WritesAdmitted(t) ==
  /\ turn[t].at = "counted"
  /\ metrics' = IF turn[t].own.count >= Threshold - 1 THEN metrics ELSE <<turn[t].own>>
  /\ Evaluated(turn[t].payload)
  /\ turn' = [turn EXCEPT ![t].at = "written"]
  /\ UNCHANGED <<inRedis, begun, disturbed>>

(* SETEX *)
Writes(t) ==
  /\ turn[t].at = "counted"
  /\ metrics' = <<turn[t].own>>
  /\ Evaluated(turn[t].payload)
  /\ turn' = [turn EXCEPT ![t].at = "written"]
  /\ UNCHANGED <<inRedis, begun, disturbed>>

Trips(t) == Known(t).count >= Threshold - 1

(* The request goes on, or is answered 429. *)
Decides(t) ==
  /\ turn[t].at = "written"
  /\ turn' = [turn EXCEPT ![t] = [at |-> IF Trips(t) THEN "tripped" ELSE "let through",
                                  repeats |-> turn[t].repeats]]
  /\ UNCHANGED <<inRedis, metrics, begun, seen, disturbed>>

(* The error of a SETEX, which may have run, is nobody's to catch: 500. *)
StoreFails(t) ==
  /\ inRedis /\ turn[t].at = "counted"
  /\ metrics' \in {metrics, <<turn[t].own>>}
  /\ turn' = [turn EXCEPT ![t] = Gone]
  /\ Disturbs
  /\ UNCHANGED <<inRedis, begun>>

GoesOn(t) ==
  /\ turn[t].at \in {"tripped", "let through"}
  /\ turn' = [turn EXCEPT ![t] = Gone]
  /\ UNCHANGED <<inRedis, metrics, begun, seen, disturbed>>

(* After 600 s, or pushed out by other sessions.  Requests under way keep  *)
(* the object they have.                                                   *)
MetricsExpire ==
  /\ Last(metrics) # NewMetrics /\ Len(metrics) < 2
  /\ metrics' = IF inRedis THEN <<NewMetrics>> ELSE Append(metrics, NewMetrics)
  /\ Disturbs
  /\ UNCHANGED <<inRedis, turn, begun>>

KNext ==
  \/ MetricsExpire
  \/ \E t \in Turns : \/ \E p \in Payloads : Looks(t, p)
                      \/ Compares(t) \/ Counts(t) \/ Writes(t) \/ Decides(t)
                      \/ StoreFails(t) \/ GoesOn(t)

KSpec == KInit /\ [][KNext]_kvars

-----------------------------------------------------------------------------
(* Whether the i-th request of the session repeats what came before it. *)
RepeatAt(i) ==
  \/ \E j \in 1..(i - 1) : /\ seen[j].hash # NoCalls /\ seen[j].hash = seen[i].hash
                           /\ \A k \in (j + 1)..(i - 1) : seen[k].hash = NoCalls
  \/ i > 1 /\ seen[i - 1].text = seen[i].text

InALoop == /\ Len(seen) >= Threshold
           /\ \A i \in (Len(seen) - Threshold + 2)..Len(seen) : RepeatAt(i)

(* Requests that come one after the other are stopped exactly when the     *)
(* last Threshold of them form a loop, whichever store keeps the counts;   *)
(* through Redis a request that overlaps others is only stopped if it      *)
(* repeats itself (circuit_breaker.py:75-125, 172-191).                    *)
LoopsTrip ==
  \A t \in Turns :
    /\ turn[t].at \in {"tripped", "let through"} /\ ~disturbed =>
         (turn[t].at = "tripped" <=> InALoop)
    /\ turn[t].at = "tripped" /\ inRedis /\ Threshold > 1 => turn[t].repeats
=============================================================================

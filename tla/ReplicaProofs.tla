---------------------------- MODULE ReplicaProofs ----------------------------
(***************************************************************************)
(* The safety of what a replica keeps doing: the upstream call, the reload *)
(* of its settings, its own start, drain and end, and its audit file, for  *)
(* any retry limits, any number of edits and any set of requests.          *)
(*                                                                         *)
(* CallInv ties the call's variables to the attempts already made: how     *)
(* many there are, that each failed in a way worth another, whose response *)
(* and whose credential is kept, and who holds a connection.               *)
(***************************************************************************)
EXTENDS UpstreamCall, ConfigReload, Lifespan, AuditChain, SequenceLemmas, FiniteSetTheorems

Outcome == {"success", "refused", "redirect", "error", "unreachable"}

Settings ==
  /\ streaming \in BOOLEAN
  /\ maxRetries \in Nat
  /\ fallback \in {"off", "keyless", "keyed"}
  /\ caller \in {"virtual", "byok"}

Trying == stage \in {"send", "failed", "backoff"}
Deciding == stage \in {"failed", "backoff", "answer"}

(* The attempts made, by the loop's own counter. *)
AttemptsCounted ==
  /\ target = "fallback" => fallback # "off"
  /\ stage = "backoff" => attempt < maxRetries
  /\ Trying =>
       Len(tried) = (IF target = "primary" THEN 0 ELSE maxRetries + 1)
                    + attempt + (IF stage = "send" THEN 0 ELSE 1)

(* Where the credential at hand may go. *)
Provenance ==
  /\ target = "primary" => credential = OwnKey
  /\ credential = "provider key" => target = "primary"
  /\ credential = "fallback key" => target = "fallback"

WorthRetrying ==
  \A i \in 1 .. Len(tried) :
    i < Len(tried) \/ Trying => tried[i].outcome \notin {"success", "refused"}

(* What is kept of a provider's answer is of the latest one. *)
KeptOfLatest ==
  /\ \A i \in 1 .. Len(tried) : tried[i].outcome # "unreachable" => i <= response
  /\ stage \in {"send", "failed", "backoff", "answer"} =>
       /\ errorBody # None => errorBody = response
       /\ response # None => errorHeaders = tried[response].with
  /\ stage \in {"send", "failed", "backoff", "answer", "relay"} => reply = Silence

CallInv ==
  /\ CallTypeOK /\ Settings
  /\ AttemptsCounted /\ Provenance
  /\ KeysGoHome /\ FallbackIsLastResort /\ WorthRetrying
  /\ KeptOfLatest /\ ErrorIsOfOneAttempt
  /\ ConnectionsAreReturned

-----------------------------------------------------------------------------
LEMMA InitCall == UInit => CallInv
<1>. SUFFICES ASSUME UInit PROVE CallInv
  OBVIOUS
<1>. USE DEF UInit
<1>0. tried = <<>> /\ Len(tried) = 0 /\ tried \in Seq(Entry) /\ maxRetries \in Nat
  BY CallAssumption
<1>1. CallTypeOK /\ Settings
  <2>1. OwnKey \in Credential
    BY DEF OwnKey, Credential
  <2>2. response = 0 /\ errorBody = 0
    BY DEF None
  <2>3. Settings
    BY <1>0 DEF Settings
  <2>. QED
    BY <1>0, <2>1, <2>2, <2>3 DEF CallTypeOK
<1>2. AttemptsCounted /\ Provenance /\ WorthRetrying
  <2>1. AttemptsCounted
    BY <1>0 DEF AttemptsCounted
  <2>2. Provenance
    BY DEF Provenance, OwnKey
  <2>3. WorthRetrying
    BY <1>0 DEF WorthRetrying
  <2>. QED
    BY <2>1, <2>2, <2>3
<1>3. KeysGoHome /\ FallbackIsLastResort /\ ConnectionsAreReturned
  BY <1>0 DEF KeysGoHome, FallbackIsLastResort, ConnectionsAreReturned
<1>4. KeptOfLatest /\ ErrorIsOfOneAttempt
  BY <1>0 DEF KeptOfLatest, ErrorIsOfOneAttempt
<1>. QED
  BY <1>1, <1>2, <1>3, <1>4 DEF CallInv

(* An attempt adds one entry to tried and leaves the others alone. *)
LEMMA LogGrows ==
  ASSUME CallTypeOK, NEW how \in Outcome, Logs(how)
  PROVE  /\ stage = "send" /\ tried' \in Seq(Entry)
         /\ Len(tried') = Len(tried) + 1 /\ Len(tried) \in Nat
         /\ Number = Len(tried) + 1
         /\ \A i \in 1 .. Len(tried) : tried'[i] = tried[i]
         /\ tried'[Len(tried) + 1].to = target
         /\ tried'[Len(tried) + 1].with = credential
         /\ tried'[Len(tried) + 1].outcome = how
<1>1. [to |-> target, with |-> credential, outcome |-> how] \in Entry
  BY DEF CallTypeOK, Entry, Outcome
<1>2. tried'[Len(tried) + 1] = [to |-> target, with |-> credential, outcome |-> how]
  BY <1>1 DEF Logs, CallTypeOK
<1>. QED
  BY <1>1, <1>2 DEF Logs, CallTypeOK, Number

(* What an attempt does to the log's own invariants, whatever follows it. *)
LEMMA AttemptKeepsLog ==
  ASSUME CallInv, NEW how \in Outcome, Logs(how),
         UNCHANGED <<settings, target, attempt, credential>>
  PROVE  /\ KeysGoHome' /\ FallbackIsLastResort' /\ Provenance' /\ Settings'
         /\ stage' \in {"failed", "answer", "relay"} => AttemptsCounted'
         /\ (stage' = "failed" => how \notin {"success", "refused"})
              /\ stage' \in {"failed", "answer", "relay"} => WorthRetrying'
<1>1. CallTypeOK /\ Settings /\ AttemptsCounted /\ Provenance
  BY DEF CallInv
<1>2. /\ stage = "send" /\ Len(tried) \in Nat /\ Len(tried') = Len(tried) + 1
      /\ \A i \in 1 .. Len(tried) : tried'[i] = tried[i]
  BY <1>1, LogGrows
<1>3. /\ tried'[Len(tried) + 1].to = target
      /\ tried'[Len(tried) + 1].with = credential
      /\ tried'[Len(tried) + 1].outcome = how
  BY <1>1, LogGrows
<1>4. settings' = settings /\ target' = target /\ attempt' = attempt /\ credential' = credential
  OBVIOUS
<1>5. maxRetries' = maxRetries /\ fallback' = fallback /\ caller' = caller /\ streaming' = streaming
  BY <1>4 DEF settings
<1>6. attempt \in 0 .. maxRetries /\ target \in {"primary", "fallback"} /\ maxRetries \in Nat
  BY <1>1 DEF CallTypeOK, Settings
<1>7. KeysGoHome'
  <2>1. KeysGoHome
    BY DEF CallInv
  <2>2. /\ credential = "provider key" => target = "primary"
        /\ credential = "fallback key" => target = "fallback"
    BY <1>1 DEF Provenance
  <2>3. SUFFICES ASSUME NEW i \in 1 .. Len(tried')
                 PROVE  /\ tried'[i].with = "provider key" => tried'[i].to = "primary"
                        /\ tried'[i].with = "fallback key" => tried'[i].to = "fallback"
    BY DEF KeysGoHome
  <2>4. CASE i \in 1 .. Len(tried)
    BY <1>2, <2>1, <2>4 DEF KeysGoHome
  <2>5. CASE i = Len(tried) + 1
    BY <1>3, <2>2, <2>5
  <2>6. i \in 1 .. Len(tried) \/ i = Len(tried) + 1
    BY <1>2
  <2>. QED
    BY <2>4, <2>5, <2>6
<1>8. FallbackIsLastResort'
  <2>1. FallbackIsLastResort
    BY DEF CallInv
  <2>2. (target = "fallback") = (Len(tried) + 1 > maxRetries + 1)
    BY <1>1, <1>2, <1>6 DEF AttemptsCounted, Trying
  <2>. QED
    BY <1>2, <1>3, <1>5, <2>1, <2>2 DEF FallbackIsLastResort
<1>9. Provenance' /\ Settings'
  BY <1>1, <1>4, <1>5 DEF Provenance, OwnKey, Settings
<1>10. stage' \in {"failed", "answer", "relay"} => AttemptsCounted'
  BY <1>1, <1>2, <1>4, <1>5, <1>6 DEF AttemptsCounted, Trying
<1>11. (stage' = "failed" => how \notin {"success", "refused"})
          /\ stage' \in {"failed", "answer", "relay"} => WorthRetrying'
  <2>1. \A i \in 1 .. Len(tried) : tried[i].outcome \notin {"success", "refused"}
    BY <1>2 DEF CallInv, WorthRetrying, Trying
  <2>. QED
    BY <1>2, <1>3, <2>1 DEF WorthRetrying, Trying
<1>. QED
  BY <1>7, <1>8, <1>9, <1>10, <1>11

LEMMA SucceedsKeeps == ASSUME CallInv, Succeeds PROVE CallInv'
<1>. USE DEF Succeeds
<1>1. CallTypeOK /\ KeptOfLatest /\ ConnectionsAreReturned /\ ErrorIsOfOneAttempt
  BY DEF CallInv
<1>2. Logs("success") /\ stage = "send" /\ stage' = "relay"
  BY DEF Logs
<1>3. /\ KeysGoHome' /\ FallbackIsLastResort' /\ Provenance' /\ Settings'
      /\ AttemptsCounted' /\ WorthRetrying'
  BY <1>2, AttemptKeepsLog DEF Outcome
<1>4. /\ tried' \in Seq(Entry) /\ Len(tried) \in Nat /\ Len(tried') = Len(tried) + 1
      /\ Number = Len(tried) + 1
  BY <1>1, <1>2, LogGrows DEF Outcome
<1>5. response' = Len(tried) + 1 /\ unclosed' \subseteq {Len(tried) + 1}
  BY <1>1, <1>2, <1>4 DEF ConnectionsAreReturned
<1>6. maxRetries' = maxRetries
  BY DEF settings
<1>7. CallTypeOK'
  BY <1>1, <1>4, <1>5, <1>6 DEF CallTypeOK
<1>8. ConnectionsAreReturned'
  BY <1>5, <1>2 DEF ConnectionsAreReturned
<1>9. reply' = Silence
  BY <1>1, <1>2 DEF KeptOfLatest
<1>10. KeptOfLatest' /\ ErrorIsOfOneAttempt'
  BY <1>2, <1>4, <1>5, <1>9 DEF KeptOfLatest, ErrorIsOfOneAttempt
<1>. QED
  BY <1>3, <1>7, <1>8, <1>10 DEF CallInv

LEMMA ErrorKeeps ==
  ASSUME CallInv, NEW how \in {"refused", "redirect", "error"}, AnswersError(how)
  PROVE  CallInv'
<1>. USE DEF AnswersError
<1>1. CallTypeOK /\ KeptOfLatest /\ ConnectionsAreReturned
  BY DEF CallInv
<1>2. /\ Logs(how) /\ stage = "send" /\ stage' \in {"failed", "answer"}
      /\ stage' = "failed" => how \notin {"success", "refused"}
      /\ how \in Outcome
  BY DEF Logs, Outcome
<1>3. /\ KeysGoHome' /\ FallbackIsLastResort' /\ Provenance' /\ Settings'
      /\ AttemptsCounted' /\ WorthRetrying'
  BY <1>2, AttemptKeepsLog
<1>4. /\ tried' \in Seq(Entry) /\ Len(tried) \in Nat /\ Len(tried') = Len(tried) + 1
      /\ Number = Len(tried) + 1
      /\ tried'[Len(tried) + 1].with = credential
  BY <1>1, <1>2, LogGrows
<1>5. response' = Len(tried) + 1 /\ errorBody' \in {Len(tried) + 1, None} /\ errorHeaders' = credential
  BY <1>4
<1>6. unclosed' = {}
  BY <1>1, <1>2 DEF ConnectionsAreReturned
<1>7. maxRetries' = maxRetries
  BY DEF settings
<1>8. CallTypeOK'
  BY <1>1, <1>2, <1>4, <1>5, <1>6, <1>7 DEF CallTypeOK, None
<1>9. ConnectionsAreReturned'
  BY <1>6 DEF ConnectionsAreReturned
<1>10. reply' = Silence
  BY <1>1, <1>2 DEF KeptOfLatest
<1>11. KeptOfLatest' /\ ErrorIsOfOneAttempt'
  BY <1>2, <1>4, <1>5, <1>10 DEF KeptOfLatest, ErrorIsOfOneAttempt
<1>. QED
  BY <1>3, <1>8, <1>9, <1>11 DEF CallInv

LEMMA UnreachableKeeps == ASSUME CallInv, Unreachable PROVE CallInv'
<1>. USE DEF Unreachable
<1>1. CallTypeOK /\ KeptOfLatest /\ ConnectionsAreReturned
  BY DEF CallInv
<1>2. Logs("unreachable") /\ stage = "send" /\ stage' = "failed"
  BY DEF Logs
<1>3. /\ KeysGoHome' /\ FallbackIsLastResort' /\ Provenance' /\ Settings'
      /\ AttemptsCounted' /\ WorthRetrying'
  BY <1>2, AttemptKeepsLog DEF Outcome
<1>4. /\ tried' \in Seq(Entry) /\ Len(tried) \in Nat /\ Len(tried') = Len(tried) + 1
      /\ \A i \in 1 .. Len(tried) : tried'[i] = tried[i]
      /\ tried'[Len(tried) + 1].outcome = "unreachable"
  BY <1>1, <1>2, LogGrows DEF Outcome
<1>5. maxRetries' = maxRetries
  BY DEF settings
<1>6. CallTypeOK'
  BY <1>1, <1>2, <1>4, <1>5 DEF CallTypeOK
<1>7. ConnectionsAreReturned'
  BY <1>1, <1>2 DEF ConnectionsAreReturned
<1>8. reply' = Silence
  BY <1>1, <1>2 DEF KeptOfLatest
<1>9. response \in 0 .. Len(tried)
  BY <1>1 DEF CallTypeOK
<1>10. KeptOfLatest' /\ ErrorIsOfOneAttempt'
  BY <1>1, <1>2, <1>4, <1>8, <1>9 DEF KeptOfLatest, ErrorIsOfOneAttempt, None
<1>. QED
  BY <1>3, <1>6, <1>7, <1>10 DEF CallInv

(* The loop between two attempts: tried stays. *)
LEMMA LoopKeeps ==
  ASSUME CallInv, BacksOff \/ Retries \/ FailsOver \/ GivesUp
  PROVE  CallInv'
<1>1. CallTypeOK /\ Settings /\ AttemptsCounted /\ Provenance /\ KeptOfLatest
  BY DEF CallInv
<1>2. /\ UNCHANGED <<settings, response, errorBody, errorHeaders, unclosed, tried, reply>>
      /\ stage \in {"failed", "backoff"}
      /\ stage' \in {"send", "backoff", "answer", "relay"}
  BY DEF BacksOff, Retries, FailsOver, GivesUp, Exhausted
<1>3. UNCHANGED <<maxRetries, fallback, caller, streaming>>
  BY <1>2 DEF settings
<1>4. /\ attempt \in 0 .. maxRetries /\ maxRetries \in Nat
      /\ target \in {"primary", "fallback"} /\ Len(tried) \in Nat
      /\ credential \in Credential
  BY <1>1 DEF CallTypeOK, Settings
<1>5. attempt' \in 0 .. maxRetries /\ target' \in {"primary", "fallback"}
        /\ credential' \in Credential /\ AttemptsCounted' /\ Provenance'
  <2>1. CASE BacksOff
    BY <2>1, <1>1, <1>2, <1>3, <1>4 DEF BacksOff, AttemptsCounted, Trying, Provenance, OwnKey
  <2>2. CASE Retries
    <3>1. /\ stage = "backoff" /\ stage' = "send" /\ attempt' = attempt + 1
          /\ target' = target /\ credential' = credential /\ tried' = tried
      BY <2>2 DEF Retries
    <3>2. attempt < maxRetries
      BY <3>1, <1>1 DEF AttemptsCounted
    <3>3. Len(tried) = (IF target = "primary" THEN 0 ELSE maxRetries + 1) + attempt + 1
      BY <3>1, <1>1 DEF AttemptsCounted, Trying
    <3>4. AttemptsCounted'
      BY <3>1, <3>3, <1>1, <1>3, <1>4 DEF AttemptsCounted
    <3>5. Provenance'
      BY <3>1, <1>1, <1>3 DEF Provenance, OwnKey
    <3>. QED
      BY <3>1, <3>2, <3>4, <3>5, <1>3, <1>4
  <2>3. CASE FailsOver
    <3>1. attempt = maxRetries /\ stage = "failed"
      BY <2>3, <1>4 DEF FailsOver, Exhausted
    <3>2. credential' \in Credential /\ credential' # "provider key"
      BY <2>3, <1>1 DEF FailsOver, Switched, Provenance, OwnKey, Credential, Settings
    <3>3. /\ target = "primary" /\ target' = "fallback" /\ fallback # "off"
          /\ attempt' = 0 /\ stage' = "send" /\ tried' = tried
      BY <2>3, <1>2 DEF FailsOver
    <3>4. Len(tried) = maxRetries + 1
      BY <3>1, <3>3, <1>1, <1>4 DEF AttemptsCounted, Trying
    <3>5. AttemptsCounted'
      BY <3>3, <3>4, <1>3, <1>4 DEF AttemptsCounted
    <3>6. Provenance'
      BY <3>2, <3>3 DEF Provenance
    <3>7. attempt' \in 0 .. maxRetries /\ target' \in {"primary", "fallback"}
      BY <3>3, <1>4
    <3>. QED
      BY <3>2, <3>5, <3>6, <3>7, Zenon
  <2>4. CASE GivesUp
    BY <2>4, <1>1, <1>2, <1>3, <1>4 DEF GivesUp, AttemptsCounted, Trying, Provenance, OwnKey
  <2>. QED
    BY <2>1, <2>2, <2>3, <2>4
<1>6. CallTypeOK' /\ Settings'
  BY <1>1, <1>2, <1>3, <1>5 DEF CallTypeOK, Settings
<1>7. KeysGoHome' /\ FallbackIsLastResort' /\ WorthRetrying'
  BY <1>2, <1>3 DEF CallInv, KeysGoHome, FallbackIsLastResort, WorthRetrying, Trying
<1>8. KeptOfLatest' /\ ErrorIsOfOneAttempt' /\ ConnectionsAreReturned'
  BY <1>1, <1>2 DEF CallInv, KeptOfLatest, ErrorIsOfOneAttempt, ConnectionsAreReturned
<1>. QED
  BY <1>5, <1>6, <1>7, <1>8 DEF CallInv

LEMMA OverKeeps == ASSUME CallInv, Answers \/ Relays PROVE CallInv'
<1>1. CallTypeOK /\ Settings /\ AttemptsCounted /\ Provenance /\ KeptOfLatest /\ ConnectionsAreReturned
  BY DEF CallInv
<1>2. /\ UNCHANGED <<settings, attempt, target, credential, response, errorBody, errorHeaders, tried>>
      /\ stage \in {"answer", "relay"} /\ stage' = "over"
      /\ unclosed' = unclosed \ {response}
  BY DEF Answers, Relays
<1>3. UNCHANGED <<maxRetries, fallback, caller, streaming>>
  BY <1>2 DEF settings
<1>4. CallTypeOK' /\ Settings'
  BY <1>1, <1>2, <1>3 DEF CallTypeOK, Settings
<1>5. AttemptsCounted' /\ Provenance'
  BY <1>1, <1>2, <1>3 DEF AttemptsCounted, Trying, Provenance, OwnKey
<1>6. KeysGoHome' /\ FallbackIsLastResort' /\ WorthRetrying'
  BY <1>2, <1>3 DEF CallInv, KeysGoHome, FallbackIsLastResort, WorthRetrying, Trying
<1>7. KeptOfLatest' /\ ConnectionsAreReturned'
  BY <1>1, <1>2 DEF KeptOfLatest, ConnectionsAreReturned
<1>8. ErrorIsOfOneAttempt'
  <2>1. CASE Answers
    <3>1. reply' = [status |-> response, reason |-> errorBody, cleared |-> errorHeaders]
      BY <2>1 DEF Answers
    <3>2. /\ errorBody # None => errorBody = response /\ errorHeaders = tried[response].with
          /\ \A i \in 1 .. Len(tried) : tried[i].outcome # "unreachable" => i <= response
      BY <2>1, <1>1 DEF Answers, KeptOfLatest
    <3>. QED
      BY <3>1, <3>2, <1>2 DEF ErrorIsOfOneAttempt
  <2>2. CASE Relays
    BY <2>2, <1>1, <1>2 DEF Relays, KeptOfLatest, ErrorIsOfOneAttempt
  <2>. QED
    BY <2>1, <2>2
<1>. QED
  BY <1>4, <1>5, <1>6, <1>7, <1>8 DEF CallInv

LEMMA StutterKeeps == ASSUME CallInv, UNCHANGED uvars PROVE CallInv'
<1>1. UNCHANGED <<streaming, maxRetries, fallback, caller, attempt, target, credential, response,
                  errorBody, errorHeaders, unclosed, tried, stage, reply>>
  BY DEF uvars, settings
<1>2. CallTypeOK' /\ Settings'
  BY <1>1 DEF CallInv, CallTypeOK, Settings
<1>3. AttemptsCounted' /\ Provenance'
  BY <1>1 DEF CallInv, AttemptsCounted, Trying, Provenance, OwnKey
<1>4. KeysGoHome' /\ FallbackIsLastResort' /\ WorthRetrying'
  BY <1>1 DEF CallInv, KeysGoHome, FallbackIsLastResort, WorthRetrying, Trying
<1>5. KeptOfLatest' /\ ErrorIsOfOneAttempt' /\ ConnectionsAreReturned'
  BY <1>1 DEF CallInv, KeptOfLatest, ErrorIsOfOneAttempt, ConnectionsAreReturned
<1>. QED
  BY <1>2, <1>3, <1>4, <1>5 DEF CallInv

LEMMA CallStep == ASSUME CallInv, [UNext]_uvars PROVE CallInv'
<1>1. CASE Succeeds
  BY <1>1, SucceedsKeeps
<1>2. ASSUME NEW how \in {"refused", "redirect", "error"}, AnswersError(how)
      PROVE  CallInv'
  BY <1>2, ErrorKeeps
<1>3. CASE Unreachable
  BY <1>3, UnreachableKeeps
<1>4. CASE BacksOff \/ Retries \/ FailsOver \/ GivesUp
  BY <1>4, LoopKeeps
<1>5. CASE Answers \/ Relays
  BY <1>5, OverKeeps
<1>6. CASE UNCHANGED uvars
  BY <1>6, StutterKeeps
<1>. QED
  BY <1>1, <1>2, <1>3, <1>4, <1>5, <1>6 DEF UNext

LEMMA SpecCallInv == USpec => []CallInv
  BY InitCall, CallStep, PTL DEF USpec

-----------------------------------------------------------------------------
(* The attempt counter, the kept response and the log stay in their types   *)
(* (_proxy_catch_all_internal's retry loop), for any retry limits.         *)
THEOREM UpstreamType == USpec => []CallTypeOK
<1>1. CallInv => CallTypeOK
  BY DEF CallInv
<1>. QED
  BY <1>1, SpecCallInv, PTL

(* A key the proxy holds reaches the provider it is for and no other,      *)
(* through every retry and the failover (_replace_upstream_credential).    *)
THEOREM UpstreamKeysGoHome == USpec => []KeysGoHome
<1>1. CallInv => KeysGoHome
  BY DEF CallInv
<1>. QED
  BY <1>1, SpecCallInv, PTL

(* The error reported is of one attempt, the last the provider answered:   *)
(* status, reason and the credential it is cleared of                      *)
(* (_upstream_error_response).                                             *)
THEOREM UpstreamErrorIsOfOneAttempt == USpec => []ErrorIsOfOneAttempt
<1>1. CallInv => ErrorIsOfOneAttempt
  BY DEF CallInv
<1>. QED
  BY <1>1, SpecCallInv, PTL

(* No response holds a connection but the one being relayed (the aclose of *)
(* the streaming loop and of wrapped_stream).                              *)
THEOREM UpstreamConnections == USpec => []ConnectionsAreReturned
<1>1. CallInv => ConnectionsAreReturned
  BY DEF CallInv
<1>. QED
  BY <1>1, SpecCallInv, PTL

(* The fallback comes after all the tries of the provider, and the         *)
(* provider not after the fallback (is_fallback, attempt).                 *)
THEOREM UpstreamFallbackIsLast == USpec => []FallbackIsLastResort
<1>1. CallInv => FallbackIsLastResort
  BY DEF CallInv
<1>. QED
  BY <1>1, SpecCallInv, PTL

(* A success or a refusal is the last attempt of its call (the loop's      *)
(* breaks).                                                                *)
THEOREM UpstreamOnlyFailuresAreRetried == USpec => []OnlyFailuresAreRetried
<1>1. CallInv => OnlyFailuresAreRetried
  BY DEF CallInv, WorthRetrying, OnlyFailuresAreRetried, CallTypeOK
<1>. QED
  BY <1>1, SpecCallInv, PTL

(* Taken together, for any retry limits: the attempts come in their order, *)
(* end with the first success or refusal, leave no connection held but the *)
(* relayed one, and the error is of one of them                            *)
(* (_proxy_catch_all_internal's retry loop).                               *)
THEOREM UpstreamAttemptsAreSettled == USpec => []AttemptsAreSettled
  BY UpstreamErrorIsOfOneAttempt, UpstreamConnections, UpstreamFallbackIsLast,
     UpstreamOnlyFailuresAreRetried, PTL DEF AttemptsAreSettled

-----------------------------------------------------------------------------
(* The settings *)

(* What the watcher's thread holds is the file's unless there was another  *)
(* change since, and the fields are what it holds once it swapped them.    *)
ReloadInv ==
  /\ file \in Nat /\ edits \in Nat /\ fields \in Nat
  /\ watcher \in [at : {"rest", "read", "swapped"}, has : Nat]
  /\ SettingsFollowTheFile
  /\ watcher.at # "rest" /\ ~events => watcher.has = file
  /\ watcher.at = "swapped" => fields = watcher.has

LEMMA ReloadInit == CInit => ReloadInv
BY ReloadAssumption DEF CInit, ReloadInv, SettingsFollowTheFile, AtRest, Empty, Bad

LEMMA ReloadStep == ReloadInv /\ [CNext]_cvars => ReloadInv'
<1>. SUFFICES ASSUME ReloadInv, [CNext]_cvars PROVE ReloadInv'
  OBVIOUS
<1>. USE ReloadAssumption DEF ReloadInv, SettingsFollowTheFile
<1>1. CASE Truncates
  BY <1>1 DEF Truncates, Empty
<1>2. CASE Saves
  BY <1>2 DEF Saves, Bad
<1>3. CASE Reads
  BY <1>3 DEF Reads, Locked, AtRest, Stage, Empty
<1>4. CASE SwapsFields
  BY <1>4 DEF SwapsFields, Stage
<1>5. CASE SwapsKeys
  BY <1>5 DEF SwapsKeys, AtRest, Empty
<1>6. CASE EditsPolicies \/ Polls \/ UNCHANGED cvars
  BY <1>6 DEF EditsPolicies, Polls, TakesDigest, PollSkips, Applies, lvars, cvars
<1>. QED
  BY <1>1, <1>2, <1>3, <1>4, <1>5, <1>6 DEF CNext, Watches

(* Between reloads the keys are those of the settings, and the settings    *)
(* those of the file, for any number of edits at any moment                *)
(* (config.py:530-541, 610-617).                                           *)
THEOREM ReplicaSettingsFollowTheFile == CSpec => []SettingsFollowTheFile
<1>1. ReloadInv => SettingsFollowTheFile
  BY DEF ReloadInv
<1>. QED
  BY <1>1, ReloadInit, ReloadStep, PTL DEF CSpec

-----------------------------------------------------------------------------
(* The start, the drain and the end *)

(* What runs is what the stage of life allows; a drain goes on while       *)
(* somebody is counted.                                                    *)
LifeInv ==
  /\ life \in {"starting", "serving", "draining", "ending", "over", "halted"}
  /\ timedOut \in BOOLEAN
  /\ request \in [Guests -> {"away", "counted", "streaming"}]
  /\ life = "starting" => Counted = {} /\ tasks \subseteq {"refresh"}
  /\ life \in {"serving", "draining"} => "upstream" \in clients
  /\ life = "halted" => Counted = {}
  /\ EndIsOrderly

LEMMA LifeInit == HInit => LifeInv
BY DEF HInit, LifeInv, EndIsOrderly, Counted

LEMMA LifeStep == LifeInv /\ [HNext]_hvars => LifeInv'
<1>. SUFFICES ASSUME LifeInv, [HNext]_hvars PROVE LifeInv'
  OBVIOUS
<1>. USE DEF LifeInv, EndIsOrderly
<1>1. CASE SelfTestFails \/ FetchesFirst \/ Starts
  BY <1>1 DEF SelfTestFails, FetchesFirst, Starts, Counted
<1>2. ASSUME NEW c \in Guests, Enters(c) PROVE LifeInv'
  BY <1>2 DEF Enters, Counted
<1>3. ASSUME NEW c \in Guests, Responds(c) PROVE LifeInv'
  <2>1. request' \in [Guests -> {"away", "counted", "streaming"}] /\ Counted' = Counted \ {c}
    BY <1>3 DEF Responds, Counted
  <2>2. ASSUME life = "draining", Cardinality(Counted) = 1 PROVE Counted' = {}
    <3>1. IsFiniteSet(Counted) /\ c \in Counted
      BY <1>3, LifespanAssumption, FS_Subset DEF Responds, Counted
    <3>2. Cardinality(Counted \ {c}) = 0
      BY <3>1, <2>2, FS_RemoveElement
    <3>. QED
      BY <3>1, <3>2, <2>1, FS_RemoveElement, FS_EmptySet
  <2>. QED
    BY <1>3, <2>1, <2>2 DEF Responds, ItEnds
<1>4. ASSUME NEW c \in Guests, StreamEnds(c) PROVE LifeInv'
  BY <1>4 DEF StreamEnds, Counted
<1>5. CASE SecretsChange \/ Refreshes \/ SessionExpires \/ SweepFails \/ Sweeps
  BY <1>5 DEF SecretsChange, Refreshes, LogsIn, VaultAnswers, SwapsSecrets, RefreshFails,
              SessionExpires, SweepFails, Sweeps, Counted, hvars
<1>6. CASE Drains
  BY <1>6 DEF Drains, Counted
<1>7. CASE Winds
  BY <1>7 DEF Winds, DrainTimesOut, EndsTasks, ClosesUpstream, ClosesVault, Counted
<1>8. CASE UNCHANGED hvars
  BY <1>8 DEF hvars, Counted
<1>. QED
  BY <1>1, <1>2, <1>3, <1>4, <1>5, <1>6, <1>7, <1>8 DEF HNext

(* However many requests are under way, the client to the providers is not *)
(* closed under one that is counted unless the drain timed out, nor under  *)
(* a task that runs (main.py:357-405, 449-476).                            *)
THEOREM ReplicaEndIsOrderly == HSpec => []EndIsOrderly
<1>1. LifeInv => EndIsOrderly
  BY DEF LifeInv
<1>. QED
  BY <1>1, LifeInit, LifeStep, PTL DEF HSpec

-----------------------------------------------------------------------------
(* The audit file.  With a durable mode, and a sink whose failed appends   *)
(* leave nothing in the file, it verifies whenever requests are served:    *)
(* for any events, queue bound, and number of boots, crashes and failed    *)
(* appends.                                                                *)
(*                                                                         *)
(* LogVerifies is not inductive: between the append and the update of      *)
(* `memory` the file is one record ahead of it.  ChainInv says which of    *)
(* the two the worker is in, and that the next record links either way.    *)

Hash == [kind : {"seed", "start", "event"}, of : Event \cup Nat]
Item == {h \in Hash : h.kind # "seed"}
Line == [hash : Hash, prev : Hash, seq : Nat \ {0}, chain : Nat \ {0}, anchor : BOOLEAN]

ChainType ==
  /\ log \in Seq(Line)
  /\ torn \in BOOLEAN
  /\ proc \in {"down", "starting", "up", "refused"}
  /\ memory \in [lastHash : Hash, sequence : Nat, chain : Nat]
  /\ queue \in Seq(Item)
  /\ current = Idle \/ current \in [item : Item, written : BOOLEAN]
  /\ boots \in Nat

Serving == proc \in {"starting", "up"}
AheadByOne == current # Idle /\ current.written

(* The file is one chain as far as it goes. *)
Linking ==
  /\ log # <<>> => log[1].anchor /\ log[1].seq = 1
  /\ \A i \in 1 .. Len(log) - 1 :
       /\ log[i + 1].prev = log[i].hash
       /\ log[i + 1].seq = log[i].seq + 1
       /\ log[i + 1].chain = log[i].chain

(* Memory is the file's tail. *)
InStep ==
  IF log = <<>>
    THEN memory.sequence = 0 /\ memory.chain # 0
    ELSE /\ memory.lastHash = log[Len(log)].hash
         /\ memory.sequence = log[Len(log)].seq
         /\ memory.chain = log[Len(log)].chain

(* The file's tail is the record memory has yet to move on to. *)
OneAhead ==
  /\ log # <<>>
  /\ log[Len(log)].hash = current.item
  /\ log[Len(log)].seq = memory.sequence + 1
  /\ log[Len(log)].chain = memory.chain

(* The first record of an empty file will be the startup record. *)
StartsFirst ==
  log = <<>> => IF current # Idle THEN current.item.kind = "start"
                ELSE queue # <<>> /\ Head(queue).kind = "start"

ChainInv ==
  /\ ChainType
  /\ Linking
  /\ torn => ~Serving
  /\ current # Idle => Serving
  /\ Serving => (IF AheadByOne THEN OneAhead ELSE InStep)
  /\ Serving => StartsFirst
  /\ proc = "up" => log # <<>>

(* No line that was linked is unreadable. *)
LEMMA LinesAreReadable == Garbage \notin Line
  BY DEF Garbage, Line

(* A file of linked lines that is not torn is what the verifier accepts.   *)
LEMMA InvVerifies == ChainInv => LogVerifies
<1> SUFFICES ASSUME ChainInv, proc = "up" PROVE Verified
  BY DEF LogVerifies
<1> USE DEF ChainInv, ChainType, Serving
<1>1. ~Unreadable
  BY LinesAreReadable DEF Unreadable
<1>2. log # <<>> /\ log[1] \in Line
  OBVIOUS
<1> QED
  BY <1>1, <1>2 DEF Verified, Linking, Line, Missing

LEMMA InitChain == Init => ChainInv
<1> SUFFICES ASSUME Init PROVE ChainInv
  OBVIOUS
<1>1. Seed(0) \in Hash
  BY DEF Seed, Hash
<1>2. ChainType
  <2>1. memory \in [lastHash : Hash, sequence : Nat, chain : Nat]
    BY <1>1 DEF Init, Missing
  <2>2. log \in Seq(Line) /\ queue \in Seq(Item)
    BY DEF Init
  <2> QED
    BY <2>1, <2>2 DEF Init, ChainType
<1>3. Linking
  BY DEF Init, Linking
<1> QED
  BY <1>2, <1>3 DEF Init, ChainInv, Serving

LEMMA LastIsLine ==
  ASSUME log \in Seq(Line), log # <<>>
  PROVE  /\ log[Len(log)].hash \in Hash
         /\ log[Len(log)].seq \in Nat \ {0}
         /\ log[Len(log)].chain \in Nat \ {0}
<1>1. log[Len(log)] \in Line
  OBVIOUS
<1> QED
  BY <1>1 DEF Line

LEMMA BusyIsNotIdle ==
  ASSUME NEW item, NEW written
  PROVE  [item |-> item, written |-> written] # Idle
  BY DEF Idle

(* The record of an item is a line, linked to what memory holds. *)
LEMMA LinkedIsLine ==
  ASSUME ChainType, memory.chain # 0, NEW item \in Item, Unserialisable = {}
  PROVE  /\ RecordOf(item) = Linked(item)
         /\ Linked(item) \in Line
         /\ Linked(item).hash = item
         /\ Linked(item).prev = memory.lastHash
         /\ Linked(item).seq = memory.sequence + 1
         /\ Linked(item).chain = memory.chain
         /\ Linked(item).anchor = (item.kind = "start")
  BY DEF RecordOf, Linked, Line, Item, ChainType

(* Appending a line that continues the chain keeps the file one chain. *)
LEMMA AppendKeepsLinking ==
  ASSUME log \in Seq(Line), Linking, NEW line \in Line,
         log' = Append(log, line),
         log = <<>> => line.anchor /\ line.seq = 1,
         log # <<>> => /\ line.prev = log[Len(log)].hash
                       /\ line.seq = log[Len(log)].seq + 1
                       /\ line.chain = log[Len(log)].chain
  PROVE  Linking'
<1>1. /\ Len(log') = Len(log) + 1 /\ Len(log) \in Nat
      /\ log'[Len(log) + 1] = line
      /\ \A i \in 1 .. Len(log) : log'[i] = log[i]
  OBVIOUS
<1>2. log'[1].anchor /\ log'[1].seq = 1
  <2>1. CASE log = <<>>
    BY <2>1, <1>1
  <2>2. CASE log # <<>>
    BY <2>2, <1>1 DEF Linking
  <2> QED
    BY <2>1, <2>2
<1>3. ASSUME NEW i \in 1 .. Len(log') - 1
      PROVE  /\ log'[i + 1].prev = log'[i].hash
             /\ log'[i + 1].seq = log'[i].seq + 1
             /\ log'[i + 1].chain = log'[i].chain
  <2>1. CASE i = Len(log)
    BY <2>1, <1>1
  <2>2. CASE i < Len(log)
    BY <2>2, <1>1 DEF Linking
  <2> QED
    BY <2>1, <2>2, <1>1
<1> QED
  BY <1>2, <1>3 DEF Linking

(* What the theorem assumes of the configuration. *)
CleanSink ==
  /\ SinkFaults \subseteq {"unwritten"}
  /\ Unserialisable = {}

LEMMA StartStep ==
  ASSUME CleanSink, Acknowledged, ChainInv, Start PROVE ChainInv'
<1> USE DEF Start, ChainInv, ChainType
<1>1. CASE Unreadable
  BY <1>1 DEF Linking, Serving, AheadByOne
<1>2. CASE ~Unreadable
  <2> DEFINE n == boots + 1
  <2>1. n \in Nat \ {0} /\ Seed(n) \in Hash /\ StartItem(n) \in Item
    BY DEF Seed, StartItem, Hash, Item
  <2>2. log # <<>> => log[Len(log)] \in Line
    OBVIOUS
  <2>3. /\ memory' = Recovered(n) /\ proc' = "starting"
        /\ queue' = <<StartItem(n)>> /\ current = Idle
        /\ UNCHANGED <<log, torn, current>> /\ ~torn /\ boots' = n
    BY <1>2 DEF CleanSink, Serving, Unreadable
  <2>4. Recovered(n) \in [lastHash : Hash, sequence : Nat, chain : Nat]
    BY <2>1, <2>2 DEF Recovered, Line, Missing
  <2>5. InStep'
    BY <2>1, <2>2, <2>3 DEF InStep, Recovered, Line, Missing
  <2>6. StartsFirst'
    BY <2>1, <2>3 DEF StartsFirst, StartItem
  <2>7. Linking'
    BY <2>3 DEF Linking
  <2>8. ChainType'
    BY <2>1, <2>3, <2>4
  <2> QED
    BY <2>3, <2>5, <2>6, <2>7, <2>8 DEF Serving, AheadByOne
<1> QED
  BY <1>1, <1>2

(* Steps that touch neither the file, memory nor the worker. *)
LEMMA OutcomeStep ==
  ASSUME ChainInv, UNCHANGED <<log, torn, proc, memory, queue, current, boots>>
  PROVE  ChainInv'
  BY DEF ChainInv, ChainType, Linking, Serving, AheadByOne, OneAhead, InStep, StartsFirst

LEMMA EnqueueStep ==
  ASSUME ChainInv, NEW e \in Event, Enqueue(e) PROVE ChainInv'
<1> USE DEF Enqueue, ChainInv, ChainType
<1>1. EventItem(e) \in Item
  BY DEF EventItem, Item, Hash
<1>2. ChainType'
  BY <1>1
<1>3. log # <<>> /\ Linking' /\ StartsFirst'
  BY DEF Linking, StartsFirst
<1>4. Serving' => (IF AheadByOne THEN OneAhead ELSE InStep)'
  BY DEF Serving, AheadByOne, OneAhead, InStep
<1> QED
  BY <1>2, <1>3, <1>4 DEF Serving

LEMMA TakeStep ==
  ASSUME ChainInv, WorkerTake PROVE ChainInv'
<1> USE DEF WorkerTake, ChainInv, ChainType
<1>1. Head(queue) \in Item /\ Tail(queue) \in Seq(Item)
  OBVIOUS
<1>2. current' = [item |-> Head(queue), written |-> FALSE]
  OBVIOUS
<1>3. current' # Idle /\ ~AheadByOne' /\ ~AheadByOne
  <2>1. current' # Idle
    BY <1>2, BusyIsNotIdle
  <2>2. ~current'.written
    BY <1>2
  <2> QED
    BY <2>1, <2>2 DEF AheadByOne
<1>4. ChainType'
  BY <1>1
<1>5. Linking' /\ InStep' /\ StartsFirst'
  BY <1>2, <1>3 DEF Linking, InStep, StartsFirst, Serving
<1> QED
  BY <1>3, <1>4, <1>5 DEF Serving

LEMMA AppendStep ==
  ASSUME CleanSink, ChainInv, WorkerAppend PROVE ChainInv'
<1> USE DEF WorkerAppend, ChainInv, ChainType
<1>1. /\ Serving /\ ~torn /\ ~AheadByOne /\ InStep
      /\ current \in [item : Item, written : BOOLEAN] /\ current.item \in Item
  BY DEF AheadByOne
<1>2. memory.chain # 0
  BY <1>1, LastIsLine DEF InStep
<1> DEFINE line == Linked(current.item)
<1>3. /\ log' = Append(log, line) /\ line \in Line
      /\ line.hash = current.item /\ line.prev = memory.lastHash
      /\ line.seq = memory.sequence + 1 /\ line.chain = memory.chain
      /\ line.anchor = (current.item.kind = "start")
  BY <1>1, <1>2, LinkedIsLine DEF Written, CleanSink
<1> HIDE DEF line
<1>4. current' = [item |-> current.item, written |-> TRUE]
  BY <1>1
<1>5. current' # Idle /\ current'.written /\ current'.item = current.item
  BY <1>4, BusyIsNotIdle
<1>6. Len(log') = Len(log) + 1 /\ log'[Len(log')] = line /\ log' # <<>>
  <2>1. log \in Seq(Line) /\ log' = Append(log, line)
    BY <1>3
  <2> QED
    BY <2>1
<1>7. Linking'
  <2>1. log = <<>> => line.anchor /\ line.seq = 1
    <3> SUFFICES ASSUME log = <<>> PROVE line.anchor /\ line.seq = 1
      OBVIOUS
    <3>1. current.item.kind = "start"
      <4>1. StartsFirst /\ current # Idle
        BY <1>1
      <4> QED
        BY <4>1 DEF StartsFirst
    <3>2. memory.sequence = 0
      BY <1>1 DEF InStep
    <3>3. line.seq = 1
      BY <1>3, <3>2
    <3>4. line.anchor
      <4>1. line.anchor = (current.item.kind = "start")
        BY <1>3
      <4> QED
        BY <4>1, <3>1
    <3> QED
      BY <3>3, <3>4
  <2>2. log # <<>> => /\ line.prev = log[Len(log)].hash
                      /\ line.seq = log[Len(log)].seq + 1
                      /\ line.chain = log[Len(log)].chain
    BY <1>1, <1>3 DEF InStep
  <2> QED
    BY <1>3, <2>1, <2>2, AppendKeepsLinking
<1>8. OneAhead' /\ AheadByOne'
  BY <1>3, <1>5, <1>6 DEF OneAhead, AheadByOne
<1>9. ChainType'
  <2>1. log' \in Seq(Line)
    BY <1>3
  <2>2. current' \in [item : Item, written : BOOLEAN]
    BY <1>1, <1>4
  <2> QED
    BY <2>1, <2>2
<1> QED
  BY <1>1, <1>6, <1>7, <1>8, <1>9 DEF Serving, StartsFirst

LEMMA FailStep ==
  ASSUME CleanSink, ChainInv, NEW how \in SinkFaults, WorkerAppendFails(how)
  PROVE  ChainInv'
<1> USE DEF WorkerAppendFails, ChainInv, ChainType
<1>1. how = "unwritten" /\ ~torn /\ UNCHANGED <<log, torn, memory, queue, boots>> /\ current' = Idle
  BY DEF CleanSink, Serving
<1>2. Serving /\ ~AheadByOne /\ InStep /\ ~AheadByOne'
  BY <1>1 DEF AheadByOne
<1>3. CASE proc = "starting"
  BY <1>1, <1>3 DEF Linking, Serving
<1>4. CASE proc = "up"
  <2>1. proc' = "up" /\ log # <<>>
    BY <1>4
  <2>2. Linking' /\ InStep' /\ StartsFirst'
    BY <1>1, <1>2, <2>1 DEF Linking, InStep, StartsFirst
  <2> QED
    BY <1>1, <1>2, <2>1, <2>2 DEF Serving
<1> QED
  BY <1>2, <1>3, <1>4 DEF Serving

LEMMA AdvanceStep ==
  ASSUME CleanSink, ChainInv, WorkerAdvance PROVE ChainInv'
<1> USE DEF WorkerAdvance, ChainInv, ChainType
<1>1. /\ Serving /\ AheadByOne /\ OneAhead
      /\ current \in [item : Item, written : BOOLEAN] /\ current.item \in Item
  BY DEF AheadByOne
<1>2. memory.chain # 0
  BY <1>1, LastIsLine DEF OneAhead
<1>3. RecordOf(current.item).hash = current.item
  BY <1>1, <1>2, LinkedIsLine DEF CleanSink
<1>4. memory' = [lastHash |-> current.item, sequence |-> memory.sequence + 1, chain |-> memory.chain]
  BY <1>3
<1>5. current' = Idle /\ ~AheadByOne' /\ UNCHANGED <<log, torn, queue, boots>>
  BY DEF AheadByOne
<1>6. InStep' /\ Linking' /\ StartsFirst'
  <2>1. InStep'
    <3>1. /\ log # <<>> /\ log' = log
          /\ log[Len(log)].hash = current.item
          /\ log[Len(log)].seq = memory.sequence + 1
          /\ log[Len(log)].chain = memory.chain
      BY <1>1, <1>5 DEF OneAhead
    <3> HIDE DEF WorkerAdvance, ChainInv, ChainType
    <3>2. /\ memory'.lastHash = current.item
          /\ memory'.sequence = memory.sequence + 1
          /\ memory'.chain = memory.chain
      BY <1>4
    <3>3. /\ log' # <<>>
          /\ memory'.lastHash = log'[Len(log')].hash
          /\ memory'.sequence = log'[Len(log')].seq
          /\ memory'.chain = log'[Len(log')].chain
      BY <3>1, <3>2
    <3> QED
      BY <3>3 DEF InStep
  <2>2. Linking'
    BY <1>5 DEF Linking
  <2>3. log' # <<>>
    <3>1. log # <<>>
      BY <1>1 DEF OneAhead
    <3>2. log' = log
      BY <1>5
    <3> QED
      BY <3>1, <3>2
  <2>4. StartsFirst'
    BY <2>3 DEF StartsFirst
  <2> QED
    BY <2>1, <2>2, <2>4
<1>7. ChainType'
  BY <1>1, <1>4, <1>5 DEF Item
<1> QED
  BY <1>1, <1>5, <1>6, <1>7 DEF Serving, OneAhead

LEMMA CrashStep ==
  ASSUME ChainInv, Crash PROVE ChainInv'
<1> USE DEF Crash, ChainInv, ChainType
<1>1. ~Serving' /\ current' = Idle /\ proc' = "down"
  BY DEF Serving
<1>2. torn' \in BOOLEAN
  OBVIOUS
<1>3. Linking' /\ ChainType'
  BY <1>1, <1>2 DEF Linking
<1> QED
  BY <1>1, <1>3

LEMMA ChainStep ==
  ASSUME CleanSink, Acknowledged, ChainInv, [Next]_vars PROVE ChainInv'
<1>1. CASE Start
  BY <1>1, StartStep
<1>2. CASE Crash
  BY <1>2, CrashStep
<1>3. CASE WorkerTake
  BY <1>3, TakeStep
<1>4. CASE WorkerAppend
  BY <1>4, AppendStep
<1>5. CASE \E how \in SinkFaults : WorkerAppendFails(how)
  BY <1>5, FailStep
<1>6. CASE WorkerAdvance
  BY <1>6, AdvanceStep
<1>7. ASSUME NEW e \in Event, Enqueue(e) PROVE ChainInv'
  BY <1>7, EnqueueStep
<1>8. ASSUME NEW e \in Event, EnqueueFull(e) \/ AckTimeout(e) PROVE ChainInv'
  BY <1>8, OutcomeStep DEF EnqueueFull, AckTimeout
<1>9. CASE UNCHANGED vars
  BY <1>9, OutcomeStep DEF vars
<1> QED
  BY <1>1, <1>2, <1>3, <1>4, <1>5, <1>6, <1>7, <1>8, <1>9 DEF Next, Worker

(* While requests are served the durable file is one chain the verifier    *)
(* accepts (AuditLogger._worker, configure_durability, verify_worm_log),   *)
(* however often the process crashed, if failed appends write nothing.     *)
THEOREM AuditLogVerifies ==
  ASSUME CleanSink PROVE Spec => []LogVerifies
<1>. DEFINE AuditInv == Acknowledged => ChainInv
<1>1. Init => AuditInv
  BY InitChain
<1>2. [Next]_vars => mode' = mode
  BY DEF Next, vars, Worker, Start, Crash, WorkerTake, WorkerAppend,
         WorkerAppendFails, WorkerAdvance, Enqueue, EnqueueFull, AckTimeout
<1>3. AuditInv /\ [Next]_vars => AuditInv'
  BY <1>2, ChainStep DEF Acknowledged
<1>4. AuditInv => LogVerifies
  BY InvVerifies DEF LogVerifies
<1>. QED
  BY <1>1, <1>3, <1>4, PTL DEF Spec

-----------------------------------------------------------------------------
(* The audit file as a trail of events, for any events, queue bound, and   *)
(* number of boots, crashes and failed appends, in every durability mode.  *)
(*                                                                         *)
(* The abstraction reads the events of the file's lines by recursion; its  *)
(* lemmas say what one more line adds and which events are in.  TrailInv   *)
(* then says where an event can be: in the queue or in the worker's hand   *)
(* at most once and not yet in the file, unless the hand has written it.   *)

Logged == {EventItem(e) : e \in Event} \cup {StartItem(n) : n \in Nat}
FileLine == [hash : Logged, prev : Hash, seq : Nat, chain : Nat, anchor : BOOLEAN]

(* EventsOf, line by line. *)
LEMMA EventsSteps ==
  ASSUME NEW lines \in Seq(FileLine)
  PROVE  \E f \in [0 .. Len(lines) -> Seq(Event)] :
           /\ f[0] = <<>>
           /\ \A k \in 1 .. Len(lines) :
                f[k] = IF IsEvent(lines[k]) THEN Append(f[k - 1], lines[k].hash.of) ELSE f[k - 1]
           /\ EventsOf(lines) = f[Len(lines)]
<1>1. Len(lines) \in Nat /\ <<>> \in Seq(Event)
  OBVIOUS
<1>. DEFINE step == [k \in Nat |-> [q \in Seq(Event) |->
                       IF k \in 1 .. Len(lines) /\ IsEvent(lines[k])
                         THEN Append(q, lines[k].hash.of) ELSE q]]
<1>2. step \in [Nat -> [Seq(Event) -> Seq(Event)]]
  <2>1. ASSUME NEW k \in 1 .. Len(lines), IsEvent(lines[k]) PROVE lines[k].hash.of \in Event
    <3>1. lines[k].hash \in Logged /\ lines[k].hash.kind = "event"
      <4>1. lines[k] \in FileLine
        OBVIOUS
      <4>. QED  BY <2>1, <4>1 DEF IsEvent, FileLine
    <3>. QED  BY <3>1 DEF Logged, EventItem, StartItem
  <2>. QED  BY <2>1
<1>. HIDE DEF step
<1>3. PICK f \in [0 .. Len(lines) -> Seq(Event)] : Follows(f, Len(lines), <<>>, step)
  BY <1>1, <1>2, Recursion
<1>4. f[0] = <<>>
  BY <1>3 DEF Follows
<1>5. ASSUME NEW k \in 1 .. Len(lines)
      PROVE  f[k] = IF IsEvent(lines[k]) THEN Append(f[k - 1], lines[k].hash.of) ELSE f[k - 1]
  <2>1. k - 1 \in 0 .. Len(lines) /\ k \in Nat /\ f[k - 1] \in Seq(Event)
    OBVIOUS
  <2>2. f[k] = step[k][f[k - 1]]
    BY <1>3 DEF Follows
  <2>. QED  BY <2>1, <2>2 DEF step
<1>6. EventsOf(lines) = f[Len(lines)]
  <2>. DEFINE Shape(g) == [n \in 0 .. Len(lines) |->
                IF n = 0 THEN <<>>
                ELSE IF IsEvent(lines[n]) THEN Append(g[n - 1], lines[n].hash.of) ELSE g[n - 1]]
              upTo == CHOOSE g : g = Shape(g)
  <2>1. f = Shape(f)
    <3>1. ASSUME NEW n \in 0 .. Len(lines) PROVE f[n] = Shape(f)[n]
      <4>1. CASE n = 0
        BY <1>4, <4>1
      <4>2. CASE n # 0
        <5>1. n \in 1 .. Len(lines)
          BY <4>2
        <5>2. f[n] = IF IsEvent(lines[n]) THEN Append(f[n - 1], lines[n].hash.of) ELSE f[n - 1]
          BY <1>5, <5>1
        <5>. QED  BY <4>2, <5>2, Zenon
      <4>. QED  BY <4>1, <4>2
    <3>. QED  BY <3>1
  <2>2. upTo = Shape(upTo)
    <3>. HIDE DEF Shape
    <3>. QED  BY <2>1
  <2>3. EventsOf(lines) = upTo[Len(lines)]
    BY DEF EventsOf
  <2>. HIDE DEF upTo
  <2>. DEFINE Same == {k \in 0 .. Len(lines) : upTo[k] = f[k]}
  <2>4. 0 \in Same
    BY <1>1, <1>4, <2>2
  <2>5. ASSUME NEW k \in 0 .. Len(lines) - 1, k \in Same PROVE k + 1 \in Same
    <3>1. k + 1 \in 1 .. Len(lines) /\ (k + 1) - 1 = k /\ k + 1 # 0
      BY <1>1
    <3>2. upTo[k + 1] = IF IsEvent(lines[k + 1]) THEN Append(upTo[k], lines[k + 1].hash.of) ELSE upTo[k]
      <4>1. upTo[k + 1] = Shape(upTo)[k + 1]
        BY <2>2
      <4>2. k + 1 \in 0 .. Len(lines)
        BY <3>1
      <4>3. Shape(upTo)[k + 1] = IF IsEvent(lines[k + 1]) THEN Append(upTo[(k + 1) - 1], lines[k + 1].hash.of)
                                 ELSE upTo[(k + 1) - 1]
        BY <3>1, <4>2, Zenon
      <4>. QED  BY <3>1, <4>1, <4>3, Zenon
    <3>3. f[k + 1] = IF IsEvent(lines[k + 1]) THEN Append(f[k], lines[k + 1].hash.of) ELSE f[k]
      BY <1>5, <3>1
    <3>. QED  BY <2>5, <3>1, <3>2, <3>3
  <2>6. 0 .. Len(lines) \subseteq Same
    <3>. HIDE DEF Same
    <3>. QED  BY <1>1, <2>4, <2>5, UpTo
  <2>. QED  BY <1>1, <2>3, <2>6
<1>. QED  BY <1>4, <1>5, <1>6

LEMMA EventLine ==
  ASSUME NEW line \in FileLine
  PROVE  line # Garbage /\ (IsEvent(line) => line.hash.of \in Event /\ line.hash = EventItem(line.hash.of))
<1>1. line # Garbage
  BY DEF FileLine, Garbage
<1>. QED  BY <1>1 DEF IsEvent, FileLine, Logged, EventItem, StartItem

LEMMA ToSetAppend ==
  ASSUME NEW S, NEW s \in Seq(S), NEW e \in S PROVE ToSet(Append(s, e)) = ToSet(s) \cup {e}
<1>. DEFINE t == Append(s, e)
<1>1. /\ Len(t) = Len(s) + 1 /\ Len(s) \in Nat /\ t[Len(s) + 1] = e
      /\ \A i \in 1 .. Len(s) : t[i] = s[i]
      /\ DOMAIN t = 1 .. Len(t) /\ DOMAIN s = 1 .. Len(s)
  OBVIOUS
<1>. HIDE DEF t
<1>2. ToSet(t) = ToSet(s) \cup {e}
  BY <1>1 DEF ToSet
<1>. QED  BY <1>2 DEF t

LEMMA EventsOfNone == EventsOf(<<>>) = <<>>
<1>1. <<>> \in Seq(FileLine) /\ Len(<<>>) = 0
  OBVIOUS
<1>. QED  BY <1>1, EventsSteps

LEMMA EventsAppend ==
  ASSUME NEW lines \in Seq(FileLine), NEW line \in FileLine
  PROVE  EventsOf(Append(lines, line)) =
           IF IsEvent(line) THEN Append(EventsOf(lines), line.hash.of) ELSE EventsOf(lines)
<1>. DEFINE all == Append(lines, line)
<1>1. /\ all \in Seq(FileLine) /\ Len(all) = Len(lines) + 1 /\ Len(lines) \in Nat
      /\ all[Len(lines) + 1] = line /\ \A k \in 1 .. Len(lines) : all[k] = lines[k]
  OBVIOUS
<1>. HIDE DEF all
<1>2. PICK f \in [0 .. Len(lines) -> Seq(Event)] :
         /\ f[0] = <<>>
         /\ \A k \in 1 .. Len(lines) :
              f[k] = IF IsEvent(lines[k]) THEN Append(f[k - 1], lines[k].hash.of) ELSE f[k - 1]
         /\ EventsOf(lines) = f[Len(lines)]
  BY EventsSteps
<1>3. PICK g \in [0 .. Len(all) -> Seq(Event)] :
         /\ g[0] = <<>>
         /\ \A k \in 1 .. Len(all) :
              g[k] = IF IsEvent(all[k]) THEN Append(g[k - 1], all[k].hash.of) ELSE g[k - 1]
         /\ EventsOf(all) = g[Len(all)]
  BY <1>1, EventsSteps
<1>. DEFINE Same == {k \in 0 .. Len(lines) : f[k] = g[k]}
<1>4. ASSUME NEW k \in 0 .. Len(lines) - 1, k \in Same PROVE k + 1 \in Same
  <2>1. /\ k + 1 \in 1 .. Len(lines) /\ k + 1 \in 1 .. Len(all) /\ (k + 1) - 1 = k
        /\ all[k + 1] = lines[k + 1]
    BY <1>1
  <2>2. f[k + 1] = IF IsEvent(lines[k + 1]) THEN Append(f[k], lines[k + 1].hash.of) ELSE f[k]
    BY <1>2, <2>1
  <2>3. g[k + 1] = IF IsEvent(all[k + 1]) THEN Append(g[k], all[k + 1].hash.of) ELSE g[k]
    BY <1>3, <2>1
  <2>. QED  BY <1>4, <2>1, <2>2, <2>3
<1>5. 0 \in Same
  BY <1>1, <1>2, <1>3
<1>6. Len(lines) \in Same
  <2>. HIDE DEF Same
  <2>1. 0 .. Len(lines) \subseteq Same
    BY <1>1, <1>4, <1>5, UpTo
  <2>. QED  BY <1>1, <2>1
<1>7. g[Len(all)] = IF IsEvent(line) THEN Append(g[Len(lines)], line.hash.of) ELSE g[Len(lines)]
  BY <1>1, <1>3
<1>. QED  BY <1>2, <1>3, <1>6, <1>7 DEF all

(* The lines hold the events that are recorded. *)
LEMMA EventsAreRecorded ==
  ASSUME log \in Seq(FileLine) PROVE \A e \in Event : e \in ToSet(EventsOf(log)) <=> Recorded(e)
<1>1. PICK f \in [0 .. Len(log) -> Seq(Event)] :
         /\ f[0] = <<>>
         /\ \A k \in 1 .. Len(log) :
              f[k] = IF IsEvent(log[k]) THEN Append(f[k - 1], log[k].hash.of) ELSE f[k - 1]
         /\ EventsOf(log) = f[Len(log)]
  BY EventsSteps
<1>2. Len(log) \in Nat
  OBVIOUS
<1>. DEFINE Upto(k) == {e \in Event : \E i \in 1 .. k : IsEvent(log[i]) /\ log[i].hash.of = e}
            Same == {k \in 0 .. Len(log) : ToSet(f[k]) = Upto(k)}
<1>3. 0 \in Same
  <2>1. ToSet(<<>>) = {} /\ Upto(0) = {}
    BY DEF ToSet
  <2>. QED  BY <1>1, <1>2, <2>1
<1>4. ASSUME NEW k \in 0 .. Len(log) - 1, k \in Same PROVE k + 1 \in Same
  <2>1. k + 1 \in 1 .. Len(log) /\ (k + 1) - 1 = k /\ k \in 0 .. Len(log) /\ k + 1 \in 0 .. Len(log)
    BY <1>2
  <2>2. f[k + 1] = IF IsEvent(log[k + 1]) THEN Append(f[k], log[k + 1].hash.of) ELSE f[k]
    BY <1>1, <2>1
  <2>3. f[k] \in Seq(Event)
    BY <2>1
  <2>4. CASE ~IsEvent(log[k + 1])
    <3>1. Upto(k + 1) = Upto(k)
      BY <2>1, <2>4
    <3>. QED  BY <1>4, <2>1, <2>2, <2>4, <3>1
  <2>5. CASE IsEvent(log[k + 1])
    <3>. DEFINE e == log[k + 1].hash.of
    <3>1. e \in Event
      <4>1. log[k + 1] \in FileLine
        BY <2>1
      <4>. QED  BY <2>5, <4>1, EventLine
    <3>2. Upto(k + 1) = Upto(k) \cup {e}
      BY <2>1, <2>5, <3>1
    <3>3. ToSet(Append(f[k], e)) = ToSet(f[k]) \cup {e}
      BY <2>3, <3>1, ToSetAppend
    <3>. QED  BY <1>4, <2>1, <2>2, <2>5, <3>2, <3>3
  <2>. QED  BY <2>4, <2>5
<1>5. Len(log) \in Same
  <2>. HIDE DEF Same
  <2>1. 0 .. Len(log) \subseteq Same
    BY <1>2, <1>3, <1>4, UpTo
  <2>. QED  BY <1>2, <2>1
<1>6. ASSUME NEW e \in Event PROVE e \in Upto(Len(log)) <=> Recorded(e)
  <2>1. ASSUME NEW i \in 1 .. Len(log)
        PROVE  (IsEvent(log[i]) /\ log[i].hash.of = e) <=> (log[i] # Garbage /\ log[i].hash = EventItem(e))
    <3>1. log[i] \in FileLine
      OBVIOUS
    <3>. QED  BY <3>1, EventLine DEF IsEvent, EventItem
  <2>. QED  BY <2>1 DEF Recorded
<1>. QED  BY <1>1, <1>5, <1>6

-----------------------------------------------------------------------------
(* What these theorems assume of the configuration: a failed append leaves *)
(* the file as it was or the whole line in it, and every event serialises. *)
WholeSink == SinkFaults \subseteq {"unwritten", "unsynced"} /\ Unserialisable = {}

Fates == {"new", "waiting", "accepted", "acked", "failed", "dropped", "lost"}

TrailTypes ==
  /\ log \in Seq(FileLine)
  /\ memory \in [lastHash : Hash, sequence : Nat, chain : Nat]
  /\ queue \in Seq(Logged)
  /\ current = Idle \/ current \in [item : Logged, written : BOOLEAN]
  /\ outcome \in [Event -> Fates]
  /\ torn \in BOOLEAN /\ boots \in Nat

Queued == {e \in Event : \E i \in 1 .. Len(queue) : queue[i] = EventItem(e)}
InHand == {e \in Event : current # Idle /\ current.item = EventItem(e)}
InFile == {e \in Event : \E i \in 1 .. Len(log) : log[i] # Garbage /\ log[i].hash = EventItem(e)}

QueuedOnce ==
  \A e \in Event : \A i, j \in 1 .. Len(queue) :
    queue[i] = EventItem(e) /\ queue[j] = EventItem(e) => i = j

(* An event is in one place only, and an event not yet logged in none. *)
InOnePlace ==
  \A e \in Event :
    /\ e \in Queued => outcome[e] # "new" /\ e \notin InHand /\ e \notin InFile
    /\ e \in InHand => outcome[e] # "new" /\ (e \in InFile <=> current.written)
    /\ e \in InFile => outcome[e] # "new"

Working ==
  /\ Serving => ~torn
  /\ ~Serving => current = Idle
  /\ proc # "up" => \A e \in Event : e \notin Queued /\ e \notin InHand

(* The run's two invariants, in the terms of the places. *)
Settled ==
  \A e \in Event :
    /\ outcome[e] = "acked" => e \in InFile
    /\ outcome[e] \in {"waiting", "accepted"} => e \in Queued \/ e \in InHand \/ e \in InFile

TrailInv ==
  TrailTypes /\ Working /\ QueuedOnce /\ InOnePlace /\ Settled

LEMMA TrailInit == Init => TrailInv
<1>. SUFFICES ASSUME Init PROVE TrailInv
  OBVIOUS
<1>1. TrailTypes
  <2>1. memory \in [lastHash : Hash, sequence : Nat, chain : Nat]
    <3>1. Seed(0) \in Hash
      BY DEF Seed, Hash
    <3>. QED  BY <3>1 DEF Init, Missing
  <2>2. log \in Seq(FileLine) /\ queue \in Seq(Logged)
    BY DEF Init
  <2>. QED  BY <2>1, <2>2 DEF Init, TrailTypes, Fates
<1>2. Working /\ QueuedOnce /\ InOnePlace /\ Settled
  BY DEF Init, Working, Serving, QueuedOnce, InOnePlace, Queued, InHand, InFile, Settled
<1>. QED  BY <1>1, <1>2 DEF TrailInv

(* An event, a start and a seed are different things. *)
LEMMA ItemsDiffer ==
  /\ \A e \in Event, n \in Nat : EventItem(e) # StartItem(n)
  /\ \A e, d \in Event : EventItem(e) = EventItem(d) => e = d
  /\ \A e \in Event : EventItem(e) \in Logged
  /\ \A n \in Nat : StartItem(n) \in Logged
  /\ Logged \subseteq Hash
<1>1. \A e \in Event, n \in Nat : EventItem(e) # StartItem(n)
  BY DEF EventItem, StartItem
<1>2. \A e, d \in Event : EventItem(e) = EventItem(d) => e = d
  BY DEF EventItem
<1>3. /\ \A e \in Event : EventItem(e) \in Logged /\ EventItem(e) \in Hash
      /\ \A n \in Nat : StartItem(n) \in Logged /\ StartItem(n) \in Hash
  BY DEF Logged, EventItem, StartItem, Hash
<1>. QED  BY <1>1, <1>2, <1>3 DEF Logged

LEMMA Accounted == Settled <=> AckedIsRecorded /\ EveryEventAccounted
BY DEF Settled, AckedIsRecorded, EveryEventAccounted, Queued, InHand, InFile, Recorded

LEMMA RecordHash ==
  ASSUME WholeSink, NEW item \in Logged PROVE RecordOf(item).hash = item
BY DEF WholeSink, RecordOf, Linked

(* Only the fate of the item in hand changes, and a call that failed is    *)
(* never acknowledged.                                                     *)
LEMMA AnsweredWell ==
  ASSUME outcome \in [Event -> Fates], current # Idle, current \in [item : Logged, written : BOOLEAN],
         NEW well \in BOOLEAN
  PROVE  LET after == Answered(current.item, well) IN
         /\ after \in [Event -> Fates]
         /\ \A d \in Event \ InHand : after[d] = outcome[d]
         /\ \A d \in InHand : after[d] = CASE outcome[d] = "waiting" -> IF well THEN "acked" ELSE "failed"
                                          [] outcome[d] = "accepted" /\ ~well -> "lost"
                                          [] OTHER -> outcome[d]
<1>1. PICK item \in Logged : current.item = item
  OBVIOUS
<1>2. CASE item.kind # "event"
  <2>1. InHand = {}
    BY <1>1, <1>2 DEF InHand, EventItem
  <2>2. Answered(current.item, well) = outcome
    BY <1>1, <1>2 DEF Answered
  <2>. QED  BY <2>1, <2>2
<1>3. CASE item.kind = "event"
  <2>1. item.of \in Event /\ item = EventItem(item.of)
    BY <1>3 DEF Logged, EventItem, StartItem
  <2>2. InHand = {item.of}
    BY <1>1, <2>1, ItemsDiffer DEF InHand
  <2>. DEFINE fate == CASE outcome[item.of] = "waiting" -> IF well THEN "acked" ELSE "failed"
                        [] outcome[item.of] = "accepted" /\ ~well -> "lost"
                        [] OTHER -> outcome[item.of]
  <2>3. Answered(current.item, well) = [outcome EXCEPT ![item.of] = fate]
    BY <1>1, <1>3 DEF Answered
  <2>4. fate \in Fates
    BY <2>1 DEF Fates
  <2>5. \A d \in InHand : d = item.of
    BY <2>2
  <2>. QED  BY <2>1, <2>2, <2>3, <2>4, <2>5
<1>. QED  BY <1>2, <1>3

LEMMA TrailStart == ASSUME TrailInv, Start PROVE TrailInv'
<1>. USE DEF TrailInv, TrailTypes
<1>1. UNCHANGED <<log, torn, current, outcome>> /\ proc = "down" /\ current = Idle
  BY DEF Start, Working, Serving
<1>2. CASE Unreadable
  <2>1. UNCHANGED <<memory, queue>> /\ proc' = "refused" /\ boots' = boots + 1
    BY <1>2 DEF Start
  <2>. QED  BY <1>1, <2>1 DEF Working, Serving, QueuedOnce, InOnePlace, Queued, InHand, InFile, Settled
<1>3. CASE ~Unreadable
  <2>1. /\ memory' = Recovered(boots + 1) /\ queue' = <<StartItem(boots + 1)>>
        /\ proc' \in {"starting", "up"} /\ boots' = boots + 1 /\ ~torn
    BY <1>3 DEF Start, Unreadable
  <2>2. memory' \in [lastHash : Hash, sequence : Nat, chain : Nat]
    <3>1. CASE log = <<>>
      BY <2>1, <3>1 DEF Recovered, Seed, Hash
    <3>2. CASE log # <<>>
      <4>1. log[Len(log)] \in FileLine
        BY <3>2
      <4>. QED  BY <2>1, <3>2, <4>1, ItemsDiffer DEF Recovered, FileLine
    <3>. QED  BY <3>1, <3>2
  <2>3. queue' \in Seq(Logged) /\ Len(queue') = 1 /\ queue'[1] = StartItem(boots + 1)
    BY <2>1, ItemsDiffer
  <2>4. \A e \in Event : e \notin Queued' /\ e \notin Queued /\ e \notin InHand /\ e \notin InHand'
    BY <1>1, <2>3, ItemsDiffer DEF Queued, Working, InHand
  <2>5. QueuedOnce'
    BY <2>4 DEF QueuedOnce, Queued
  <2>6. \A e \in Event : e \in InFile' <=> e \in InFile
    BY <1>1 DEF InFile
  <2>7. InOnePlace'
    BY <1>1, <2>4, <2>6 DEF InOnePlace
  <2>8. Working'
    BY <1>1, <2>1, <2>4 DEF Working, Serving
  <2>9. Settled'
    BY <1>1, <2>4, <2>6 DEF Settled
  <2>. QED  BY <1>1, <2>1, <2>2, <2>3, <2>5, <2>7, <2>8, <2>9
<1>. QED  BY <1>2, <1>3

LEMMA TrailEnqueue == ASSUME TrailInv, NEW e \in Event, Enqueue(e) PROVE TrailInv'
<1>. USE DEF TrailInv, TrailTypes
<1>1. /\ UNCHANGED <<log, torn, proc, memory, current, boots>> /\ proc = "up" /\ outcome[e] = "new"
      /\ queue' = Append(queue, EventItem(e))
      /\ outcome' \in [Event -> Fates] /\ outcome'[e] \in {"waiting", "accepted"}
      /\ \A d \in Event \ {e} : outcome'[d] = outcome[d]
  BY DEF Enqueue, Fates
<1>2. /\ queue' \in Seq(Logged) /\ Len(queue') = Len(queue) + 1 /\ Len(queue) \in Nat
      /\ queue'[Len(queue) + 1] = EventItem(e) /\ \A i \in 1 .. Len(queue) : queue'[i] = queue[i]
  BY <1>1, ItemsDiffer
<1>3. \A d \in Event :
        /\ d \in Queued' <=> d \in Queued \/ d = e
        /\ d \in InHand' <=> d \in InHand
        /\ d \in InFile' <=> d \in InFile
  <2>. SUFFICES ASSUME NEW d \in Event
                PROVE  /\ d \in Queued' <=> d \in Queued \/ d = e
                       /\ d \in InHand' <=> d \in InHand
                       /\ d \in InFile' <=> d \in InFile
    OBVIOUS
  <2>1. (d \in InHand' <=> d \in InHand) /\ (d \in InFile' <=> d \in InFile)
    BY <1>1 DEF InHand, InFile
  <2>2. EventItem(e) = EventItem(d) => e = d
    BY ItemsDiffer
  <2>3. d \in Queued => d \in Queued'
    BY <1>2 DEF Queued
  <2>4. d = e => d \in Queued'
    BY <1>2 DEF Queued
  <2>5. d \in Queued' => d \in Queued \/ d = e
    BY <1>2, <2>2 DEF Queued
  <2>. QED  BY <2>1, <2>3, <2>4, <2>5
<1>4. e \notin Queued /\ e \notin InHand /\ e \notin InFile
  BY <1>1 DEF InOnePlace
<1>5. QueuedOnce'
  <2>. SUFFICES ASSUME NEW d \in Event, NEW i \in 1 .. Len(queue'), NEW j \in 1 .. Len(queue'),
                       queue'[i] = EventItem(d), queue'[j] = EventItem(d)
                PROVE  i = j
    BY DEF QueuedOnce
  <2>1. \A k \in 1 .. Len(queue) : queue[k] # EventItem(e)
    BY <1>4 DEF Queued
  <2>2. CASE i = Len(queue) + 1 \/ j = Len(queue) + 1
    <3>1. d = e
      BY <1>2, <2>2, ItemsDiffer
    <3>. QED  BY <1>2, <2>1, <3>1
  <2>3. CASE i # Len(queue) + 1 /\ j # Len(queue) + 1
    <3>1. i \in 1 .. Len(queue) /\ j \in 1 .. Len(queue)
      BY <1>2, <2>3
    <3>. QED  BY <1>2, <3>1 DEF QueuedOnce
  <2>. QED  BY <2>2, <2>3
<1>6. InOnePlace'
  BY <1>1, <1>3, <1>4 DEF InOnePlace
<1>7. Working'
  BY <1>1 DEF Working, Serving
<1>8. Settled'
  BY <1>1, <1>3 DEF Settled
<1>. QED  BY <1>1, <1>2, <1>5, <1>6, <1>7, <1>8

LEMMA TrailOutcome ==
  ASSUME TrailInv, NEW e \in Event, EnqueueFull(e) \/ AckTimeout(e) PROVE TrailInv'
<1>. USE DEF TrailInv, TrailTypes
<1>1. /\ UNCHANGED <<log, torn, proc, memory, queue, current, boots>>
      /\ outcome' \in [Event -> Fates] /\ outcome'[e] \in {"failed", "dropped"}
      /\ \A d \in Event \ {e} : outcome'[d] = outcome[d]
  BY DEF EnqueueFull, AckTimeout, Fates
<1>2. \A d \in Event :
        /\ d \in Queued' <=> d \in Queued
        /\ d \in InHand' <=> d \in InHand
        /\ d \in InFile' <=> d \in InFile
  BY <1>1 DEF Queued, InHand, InFile
<1>3. InOnePlace'
  BY <1>1, <1>2 DEF InOnePlace
<1>4. Working' /\ QueuedOnce'
  BY <1>1, <1>2 DEF Working, Serving, QueuedOnce
<1>5. Settled'
  BY <1>1, <1>2 DEF Settled
<1>. QED  BY <1>1, <1>3, <1>4, <1>5

LEMMA TrailTake == ASSUME TrailInv, WorkerTake PROVE TrailInv'
<1>. USE DEF TrailInv, TrailTypes
<1>1. /\ UNCHANGED <<log, torn, proc, memory, outcome, boots>> /\ Serving /\ current = Idle
      /\ queue # <<>> /\ queue' = Tail(queue)
      /\ current' = [item |-> Head(queue), written |-> FALSE]
  BY DEF WorkerTake, Serving
<1>2. /\ queue' \in Seq(Logged) /\ Len(queue') = Len(queue) - 1 /\ Len(queue) \in Nat \ {0}
      /\ Head(queue) = queue[1] /\ queue[1] \in Logged
      /\ \A i \in 1 .. Len(queue) - 1 : queue'[i] = queue[i + 1]
  BY <1>1
<1>3. /\ current' \in [item : Logged, written : BOOLEAN] /\ current' # Idle /\ ~current'.written
      /\ current'.item = queue[1]
  BY <1>1, <1>2, BusyIsNotIdle
<1>4. ASSUME NEW d \in Event
      PROVE  /\ d \in InHand' <=> queue[1] = EventItem(d)
             /\ d \in Queued' => \E i \in 2 .. Len(queue) : queue[i] = EventItem(d)
             /\ d \in Queued => d \in Queued' \/ d \in InHand'
             /\ d \in InHand' => d \in Queued /\ d \notin Queued'
             /\ d \in InFile' <=> d \in InFile
  <2>1. d \in InHand' <=> queue[1] = EventItem(d)
    BY <1>3 DEF InHand
  <2>2. d \in Queued' => \E i \in 2 .. Len(queue) : queue[i] = EventItem(d)
    <3>. SUFFICES ASSUME NEW i \in 1 .. Len(queue'), queue'[i] = EventItem(d)
                  PROVE  \E j \in 2 .. Len(queue) : queue[j] = EventItem(d)
      BY DEF Queued
    <3>1. i + 1 \in 2 .. Len(queue) /\ queue[i + 1] = EventItem(d)
      BY <1>2
    <3>. QED  BY <3>1
  <2>3. d \in Queued => d \in Queued' \/ queue[1] = EventItem(d)
    <3>. SUFFICES ASSUME NEW i \in 1 .. Len(queue), queue[i] = EventItem(d), i # 1
                  PROVE  \E j \in 1 .. Len(queue') : queue'[j] = EventItem(d)
      BY DEF Queued
    <3>1. i - 1 \in 1 .. Len(queue') /\ queue'[i - 1] = EventItem(d)
      BY <1>2
    <3>. QED  BY <3>1
  <2>4. queue[1] = EventItem(d) => d \in Queued /\ ~(\E i \in 2 .. Len(queue) : queue[i] = EventItem(d))
    BY <1>2 DEF Queued, QueuedOnce
  <2>5. d \in InFile' <=> d \in InFile
    BY <1>1 DEF InFile
  <2>. QED  BY <2>1, <2>2, <2>3, <2>4, <2>5
<1>5. QueuedOnce'
  <2>. SUFFICES ASSUME NEW d \in Event, NEW i \in 1 .. Len(queue'), NEW j \in 1 .. Len(queue'),
                       queue'[i] = EventItem(d), queue'[j] = EventItem(d)
                PROVE  i = j
    BY DEF QueuedOnce
  <2>1. /\ i + 1 \in 1 .. Len(queue) /\ j + 1 \in 1 .. Len(queue)
        /\ queue[i + 1] = EventItem(d) /\ queue[j + 1] = EventItem(d)
    BY <1>2
  <2>2. i + 1 = j + 1
    BY <2>1 DEF QueuedOnce
  <2>. QED  BY <1>2, <2>2
<1>6. InOnePlace'
  BY <1>1, <1>2, <1>3, <1>4 DEF InOnePlace, Queued, InHand
<1>7. Working'
  <2>1. proc' # "up" => \A d \in Event : d \notin Queued' /\ d \notin InHand'
    <3>. SUFFICES ASSUME proc # "up", NEW d \in Event PROVE d \notin Queued' /\ d \notin InHand'
      BY <1>1
    <3>1. d \notin Queued
      BY DEF Working
    <3>. QED  BY <1>2, <1>4, <3>1 DEF Queued
  <2>. QED  BY <1>1, <2>1 DEF Working, Serving
<1>8. Settled'
  BY <1>1, <1>4 DEF Settled, InHand
<1>. QED  BY <1>1, <1>2, <1>3, <1>5, <1>6, <1>7, <1>8

(* A line written whole records the event in hand. *)
LEMMA LineRecords ==
  ASSUME WholeSink, TrailInv, current # Idle, log' = Append(log, Linked(current.item))
  PROVE  /\ log' \in Seq(FileLine)
         /\ \A d \in Event : d \in InFile' <=> d \in InFile \/ d \in InHand
<1>. USE DEF TrailInv, TrailTypes
<1>. DEFINE line == Linked(current.item)
<1>1. line \in FileLine /\ line.hash = current.item /\ line # Garbage
  <2>1. line \in FileLine /\ line.hash = current.item
    BY DEF Linked, FileLine
  <2>. QED  BY <2>1, EventLine
<1>2. /\ Len(log') = Len(log) + 1 /\ Len(log) \in Nat /\ log' \in Seq(FileLine)
      /\ log'[Len(log) + 1] = line /\ \A i \in 1 .. Len(log) : log'[i] = log[i]
  BY <1>1
<1>. HIDE DEF line
<1>. QED  BY <1>1, <1>2 DEF InFile, InHand

LEMMA WholeLine ==
  ASSUME WholeSink, TrailInv, current # Idle
  PROVE  Written(RecordOf(current.item)) = Append(log, Linked(current.item))
<1>1. Serving /\ ~torn
  BY DEF TrailInv, Working
<1>. QED  BY <1>1 DEF WholeSink, Written, RecordOf

LEMMA TrailAppend == ASSUME WholeSink, TrailInv, WorkerAppend PROVE TrailInv'
<1>. USE DEF TrailInv, TrailTypes
<1>1. /\ UNCHANGED <<proc, memory, queue, outcome, boots>> /\ current # Idle /\ ~current.written
      /\ ~torn' /\ torn' \in BOOLEAN
      /\ current' = [current EXCEPT !.written = TRUE] /\ log' = Append(log, Linked(current.item))
  BY WholeLine DEF WorkerAppend
<1>2. /\ current' \in [item : Logged, written : BOOLEAN] /\ current' # Idle
      /\ current'.item = current.item /\ current'.written
  BY <1>1 DEF Idle
<1>3. /\ log' \in Seq(FileLine)
      /\ \A d \in Event : d \in InFile' <=> d \in InFile \/ d \in InHand
  BY <1>1, LineRecords
<1>4. \A d \in Event :
        /\ d \in Queued' <=> d \in Queued
        /\ d \in InHand' <=> d \in InHand
  BY <1>1, <1>2 DEF Queued, InHand
<1>5. InOnePlace'
  BY <1>1, <1>2, <1>3, <1>4 DEF InOnePlace
<1>6. Working' /\ QueuedOnce'
  BY <1>1, <1>2, <1>4 DEF Working, Serving, QueuedOnce
<1>7. Settled'
  BY <1>1, <1>3, <1>4 DEF Settled
<1>. QED  BY <1>1, <1>2, <1>3, <1>5, <1>6, <1>7

(* A failed append left the line out, or whole, and was answered as failed. *)
LEMMA TrailFails ==
  ASSUME WholeSink, TrailInv, NEW how \in SinkFaults, WorkerAppendFails(how) PROVE TrailInv'
<1>. USE DEF TrailInv, TrailTypes
<1>1. /\ UNCHANGED <<memory, queue, boots>> /\ current # Idle /\ ~current.written
      /\ current \in [item : Logged, written : BOOLEAN]
      /\ how \in {"unwritten", "unsynced"} /\ current' = Idle
      /\ torn' = FALSE
      /\ proc' = IF proc = "starting" THEN "down" ELSE proc
      /\ outcome' = Answered(current.item, FALSE)
      /\ log' = IF how = "unsynced" THEN Append(log, Linked(current.item)) ELSE log
  <2>1. Serving /\ ~torn
    BY DEF Working, WorkerAppendFails
  <2>. QED  BY <2>1, WholeLine DEF WorkerAppendFails, WholeSink
<1>2. /\ log' \in Seq(FileLine)
      /\ \A d \in Event : d \in InFile' => d \in InFile \/ d \in InHand
      /\ \A d \in Event : d \in InFile => d \in InFile'
  <2>1. CASE how = "unsynced"
    BY <1>1, <2>1, LineRecords
  <2>2. CASE how # "unsynced"
    BY <1>1, <2>2 DEF InFile
  <2>. QED  BY <2>1, <2>2
<1>3. /\ outcome' \in [Event -> Fates]
      /\ \A d \in Event : outcome'[d] = "new" <=> outcome[d] = "new"
      /\ \A d \in Event : outcome'[d] = "acked" => outcome[d] = "acked"
      /\ \A d \in Event : outcome'[d] \in {"waiting", "accepted"} => outcome'[d] = outcome[d] /\ d \notin InHand
  BY <1>1, AnsweredWell
<1>4. /\ InHand' = {} /\ Queued' = Queued
  BY <1>1 DEF InHand, Queued
<1>5. InOnePlace'
  BY <1>1, <1>2, <1>3, <1>4 DEF InOnePlace
<1>6. QueuedOnce'
  BY <1>1 DEF QueuedOnce
<1>7. Working'
  <2>1. Serving /\ (proc' # "up" => proc # "up")
    BY <1>1 DEF Working, Serving
  <2>. QED  BY <1>1, <1>4, <2>1 DEF Working, Serving
<1>8. Settled'
  BY <1>2, <1>3, <1>4 DEF Settled
<1>. QED  BY <1>1, <1>2, <1>3, <1>5, <1>6, <1>7, <1>8

LEMMA TrailAdvance == ASSUME WholeSink, TrailInv, WorkerAdvance PROVE TrailInv'
<1>. USE DEF TrailInv, TrailTypes
<1>1. /\ UNCHANGED <<log, torn, queue, boots>> /\ current # Idle /\ current.written
      /\ current \in [item : Logged, written : BOOLEAN]
      /\ current' = Idle
      /\ memory' = [memory EXCEPT !.lastHash = RecordOf(current.item).hash, !.sequence = @ + 1]
      /\ proc' = IF proc = "starting" THEN "up" ELSE proc
      /\ outcome' = Answered(current.item, TRUE)
  BY DEF WorkerAdvance
<1>2. memory' \in [lastHash : Hash, sequence : Nat, chain : Nat]
  <2>. DEFINE h == RecordOf(current.item).hash
  <2>1. h \in Hash
    BY <1>1, ItemsDiffer, RecordHash
  <2>2. memory' = [memory EXCEPT !.lastHash = h, !.sequence = @ + 1]
    BY <1>1
  <2>. HIDE DEF h
  <2>3. memory' = [lastHash |-> h, sequence |-> memory.sequence + 1, chain |-> memory.chain]
    BY <2>2
  <2>4. memory.sequence + 1 \in Nat /\ memory.chain \in Nat
    OBVIOUS
  <2>. QED  BY <2>1, <2>3, <2>4
<1>3. /\ outcome' \in [Event -> Fates]
      /\ \A d \in Event : outcome'[d] = "new" <=> outcome[d] = "new"
      /\ \A d \in Event : outcome'[d] = "acked" => outcome[d] = "acked" \/ d \in InHand
      /\ \A d \in Event : outcome'[d] \in {"waiting", "accepted"} => outcome'[d] = outcome[d]
  BY <1>1, AnsweredWell
<1>4. /\ InHand' = {} /\ Queued' = Queued /\ InFile' = InFile
  BY <1>1 DEF InHand, Queued, InFile
<1>5. \A d \in InHand : d \in InFile
  BY <1>1 DEF InOnePlace, InHand
<1>6. InOnePlace'
  BY <1>1, <1>3, <1>4 DEF InOnePlace
<1>7. QueuedOnce'
  BY <1>1 DEF QueuedOnce
<1>8. Working'
  <2>1. Serving /\ ~torn /\ (proc' # "up" => proc # "up")
    BY <1>1 DEF Working, Serving
  <2>. QED  BY <1>1, <1>4, <2>1 DEF Working, Serving
<1>9. Settled'
  BY <1>3, <1>4, <1>5 DEF Settled
<1>. QED  BY <1>1, <1>2, <1>3, <1>6, <1>7, <1>8, <1>9

LEMMA TrailCrash == ASSUME TrailInv, Crash PROVE TrailInv'
<1>. USE DEF TrailInv, TrailTypes
<1>1. /\ UNCHANGED <<log, memory, boots>> /\ proc' = "down" /\ torn' \in BOOLEAN
      /\ queue' = <<>> /\ current' = Idle
  BY DEF Crash
<1>2. /\ InHand' = {} /\ Queued' = {} /\ InFile' = InFile
  BY <1>1 DEF InHand, Queued, InFile
<1>3. /\ outcome' \in [Event -> Fates]
      /\ \A d \in Event : outcome'[d] = "new" <=> outcome[d] = "new"
      /\ \A d \in Event : outcome'[d] = "acked" => outcome[d] = "acked"
      /\ \A d \in Event : outcome'[d] \in {"waiting", "accepted"} =>
           outcome'[d] = outcome[d] /\ d \notin InHand /\ d \notin Queued
  <2>. DEFINE Gone(d) == \/ \E i \in 1 .. Len(queue) : queue[i] = EventItem(d)
                         \/ current # Idle /\ current.item = EventItem(d)
  <2>1. outcome' = [d \in Event |-> IF outcome[d] = "waiting" THEN "lost"
                                    ELSE IF outcome[d] = "accepted" /\ Gone(d) THEN "lost" ELSE outcome[d]]
    BY DEF Crash
  <2>2. \A d \in Event : Gone(d) <=> d \in InHand \/ d \in Queued
    BY DEF InHand, Queued
  <2>. HIDE DEF Gone
  <2>. QED  BY <2>1, <2>2 DEF Fates
<1>4. InOnePlace'
  BY <1>2, <1>3 DEF InOnePlace
<1>5. QueuedOnce' /\ Working'
  BY <1>1, <1>2 DEF QueuedOnce, Working, Serving
<1>6. Settled'
  BY <1>2, <1>3 DEF Settled
<1>. QED  BY <1>1, <1>3, <1>4, <1>5, <1>6

LEMMA TrailStep == ASSUME WholeSink, TrailInv, [Next]_vars PROVE TrailInv'
<1>1. CASE Next
  BY <1>1, TrailStart, TrailEnqueue, TrailOutcome, TrailTake, TrailAppend, TrailFails, TrailAdvance, TrailCrash
     DEF Next, Worker
<1>2. CASE UNCHANGED vars
  <2>1. /\ UNCHANGED <<log, memory, queue, current, outcome, torn, proc, boots>>
        /\ Queued' = Queued /\ InHand' = InHand /\ InFile' = InFile
    BY <1>2 DEF vars, Queued, InHand, InFile
  <2>2. TrailTypes'
    BY <2>1 DEF TrailInv, TrailTypes
  <2>3. Working' /\ QueuedOnce' /\ InOnePlace' /\ Settled'
    BY <2>1 DEF TrailInv, Working, Serving, QueuedOnce, InOnePlace, Settled
  <2>. QED  BY <2>2, <2>3 DEF TrailInv
<1>. QED  BY <1>1, <1>2

LEMMA TrailHolds == ASSUME WholeSink PROVE Spec => []TrailInv
<1>. QED  BY TrailInit, TrailStep, PTL DEF Spec

(* An acknowledged event is in the file, and an event taken in is queued,  *)
(* in the worker's hand or in the file, through full queues, failed        *)
(* appends, crashes and restarts (AuditLogger._worker, _enqueue_log).      *)
THEOREM EventsHaveOneFate == ASSUME WholeSink PROVE Spec => [](AckedIsRecorded /\ EveryEventAccounted)
<1>1. TrailInv => AckedIsRecorded /\ EveryEventAccounted
  BY Accounted DEF TrailInv
<1>. QED  BY <1>1, TrailHolds, PTL

-----------------------------------------------------------------------------
Told == {e \in Event : outcome[e] = "acked"}

LEMMA TrailRefinesInit == Init => Abstract!Init
BY EventsOfNone DEF Init, Abstract!Init

(* A write: the trail records the event in hand, or has nothing to record. *)
LEMMA AppendRecords ==
  ASSUME WholeSink, TrailInv, current # Idle, ~current.written,
         log' = Append(log, Linked(current.item)), Told' = Told
  PROVE  [Abstract!Next]_<<EventsOf(log), Told>>
<1>. DEFINE line == Linked(current.item)
<1>1. log \in Seq(FileLine) /\ current.item \in Logged /\ line \in FileLine /\ line.hash = current.item
  <2>1. log \in Seq(FileLine) /\ current.item \in Logged
    BY DEF TrailInv, TrailTypes
  <2>. QED  BY <2>1 DEF TrailInv, TrailTypes, Linked, FileLine
<1>2. EventsOf(log)' = IF IsEvent(line) THEN Append(EventsOf(log), line.hash.of) ELSE EventsOf(log)
  <2>1. EventsOf(Append(log, line)) = IF IsEvent(line) THEN Append(EventsOf(log), line.hash.of) ELSE EventsOf(log)
    BY <1>1, EventsAppend
  <2>. QED  BY <2>1
<1>3. CASE ~IsEvent(line)
  BY <1>2, <1>3
<1>4. CASE IsEvent(line)
  <2>. DEFINE e == line.hash.of
  <2>1. e \in Event /\ current.item = EventItem(e)
    BY <1>1, <1>4, EventLine
  <2>2. e \in InHand /\ e \notin InFile
    BY <2>1 DEF InHand, TrailInv, InOnePlace
  <2>3. e \notin ToSet(EventsOf(log))
    BY <1>1, <2>1, <2>2, EventsAreRecorded DEF InFile, Recorded
  <2>4. EventsOf(log)' = Append(EventsOf(log), e)
    BY <1>2, <1>4
  <2>. HIDE DEF e
  <2>5. Abstract!Record(e)
    BY <2>3, <2>4 DEF Abstract!Record, Abstract!ToSet, ToSet, Told
  <2>. QED  BY <2>1, <2>5 DEF Abstract!Next
<1>. QED  BY <1>3, <1>4

LEMMA TrailRefinesNext == ASSUME WholeSink, TrailInv, TrailInv', [Next]_vars PROVE [Abstract!Next]_<<EventsOf(log), Told>>
<1>1. /\ log \in Seq(FileLine) /\ outcome \in [Event -> Fates] /\ outcome' \in [Event -> Fates]
      /\ current = Idle \/ current \in [item : Logged, written : BOOLEAN]
  BY DEF TrailInv, TrailTypes
<1>2. ASSUME log' = log, Told' = Told PROVE [Abstract!Next]_<<EventsOf(log), Told>>
  BY <1>2
<1>3. CASE Start \/ WorkerTake \/ UNCHANGED vars
  BY <1>2, <1>3 DEF Start, WorkerTake, vars, Told
<1>4. CASE Crash
  <2>1. \A e \in Event : outcome'[e] = "acked" <=> outcome[e] = "acked"
    BY <1>1, <1>4 DEF Crash
  <2>. QED  BY <1>2, <1>4, <2>1 DEF Crash, Told
<1>5. ASSUME NEW e \in Event, Enqueue(e) \/ EnqueueFull(e) \/ AckTimeout(e)
      PROVE  [Abstract!Next]_<<EventsOf(log), Told>>
  <2>1. /\ log' = log
        /\ \A d \in Event : outcome'[d] = "acked" <=> outcome[d] = "acked"
    BY <1>1, <1>5 DEF Enqueue, EnqueueFull, AckTimeout
  <2>. QED  BY <1>2, <2>1 DEF Told
<1>6. CASE WorkerAppend
  <2>1. /\ current # Idle /\ ~current.written /\ outcome' = outcome
        /\ log' = Append(log, Linked(current.item))
    BY <1>6, WholeLine DEF WorkerAppend
  <2>. QED  BY <2>1, AppendRecords DEF Told
<1>7. ASSUME NEW how \in SinkFaults, WorkerAppendFails(how)
      PROVE  [Abstract!Next]_<<EventsOf(log), Told>>
  <2>1. /\ current # Idle /\ ~current.written /\ outcome' = Answered(current.item, FALSE)
        /\ log' = IF how = "unsynced" THEN Append(log, Linked(current.item)) ELSE log
    BY <1>7, WholeLine DEF WorkerAppendFails
  <2>2. \A d \in Event : outcome'[d] = "acked" <=> outcome[d] = "acked"
    BY <1>1, <2>1, AnsweredWell
  <2>3. Told' = Told
    BY <2>2 DEF Told
  <2>. QED  BY <1>2, <2>1, <2>3, AppendRecords
<1>8. CASE WorkerAdvance
  <2>1. current # Idle /\ current.written /\ outcome' = Answered(current.item, TRUE) /\ log' = log
    BY <1>8 DEF WorkerAdvance
  <2>2. \A d \in Event : outcome'[d] = "acked" <=> outcome[d] = "acked" \/ (d \in InHand /\ outcome[d] = "waiting")
    BY <1>1, <2>1, AnsweredWell
  <2>3. CASE \E e \in InHand : outcome[e] = "waiting"
    <3>1. PICK e \in InHand : outcome[e] = "waiting"
      BY <2>3
    <3>2. e \in Event /\ \A d \in InHand : d = e
      BY ItemsDiffer DEF InHand
    <3>3. e \in InFile
      BY <2>1, <3>2 DEF TrailInv, InOnePlace
    <3>4. e \in ToSet(EventsOf(log))
      BY <1>1, <3>2, <3>3, EventsAreRecorded DEF InFile, Recorded
    <3>5. Told' = Told \cup {e}
      BY <2>2, <3>1, <3>2 DEF Told
    <3>6. Abstract!Tell(e)
      BY <2>1, <3>4, <3>5 DEF Abstract!Tell, Abstract!ToSet, ToSet, Told
    <3>. QED  BY <3>2, <3>6 DEF Abstract!Next
  <2>4. CASE ~ \E e \in InHand : outcome[e] = "waiting"
    BY <1>2, <2>1, <2>2, <2>4 DEF Told
  <2>. QED  BY <2>3, <2>4
<1>. QED  BY <1>3, <1>4, <1>5, <1>6, <1>7, <1>8 DEF Next, Worker

(* The logger implements AuditTrail (AuditLogger, audit_sink.append): no   *)
(* event is recorded twice, nothing recorded is rewritten or lost, and an  *)
(* acknowledgement follows its record.                                     *)
THEOREM AuditImplementsTrail == ASSUME WholeSink PROVE Spec => ImplementsTrail
<1>1. TrailInv /\ TrailInv' /\ [Next]_vars => [Abstract!Next]_<<EventsOf(log), Told>>
  BY TrailRefinesNext
<1>. QED  BY <1>1, TrailRefinesInit, TrailHolds, PTL DEF Spec, ImplementsTrail, Abstract!Spec, Told
=============================================================================

----------------------------- MODULE UpstreamCall ----------------------------
(***************************************************************************)
(* The upstream call of _proxy_catch_all_internal (api/main.py): send,     *)
(* retry with a backoff, switch to the configured fallback, and either     *)
(* relay the reply or answer with the provider's error.  The streaming and *)
(* the buffered path are the same loop twice; they differ in when an error *)
(* body is read and in who closes the response.                            *)
(*                                                                         *)
(* An attempt is its number.  A fallback the caller names is not modelled, *)
(* nor is what the reply goes through (StreamControl).                     *)
(***************************************************************************)
EXTENDS Integers, FiniteSets, Sequences, SequencesExt

CONSTANTS RetryLimits    \* the values MAX_RETRIES may have

ASSUME CallAssumption == RetryLimits \subseteq Nat

None == 0                \* no response, no body, no headers kept

Silence == [status |-> None, reason |-> None, cleared |-> "nothing"]   \* no answer

VARIABLES
  streaming,    \* payload["stream"]
  maxRetries,   \* MAX_RETRIES, or 0 without ENABLE_RETRY_FAILOVER
  fallback,     \* "off", "keyless" or "keyed": FALLBACK_BASE_URL, FALLBACK_API_KEY
  caller,       \* "virtual": the proxy supplies the key; "byok": the caller does
  attempt,      \* attempt
  target,       \* "primary" or "fallback": current_target_url, is_fallback
  credential,   \* what current_headers carries
  response,     \* upstream_res: the attempt it answered, or None
  errorBody,    \* upstream_error_body: the attempt it came from, or None
  errorHeaders, \* upstream_error_headers: the credential they carry
  unclosed,     \* the attempts whose responses hold a connection
  tried,        \* what happened: [to, with, outcome] of each attempt
  stage,        \* "send", "failed", "backoff", "relay", "answer", "over"
  reply         \* the error the caller got, or Silence

settings == <<streaming, maxRetries, fallback, caller>>
uvars == <<settings, attempt, target, credential, response, errorBody, errorHeaders,
          unclosed, tried, stage, reply>>

OwnKey == IF caller = "virtual" THEN "provider key" ELSE "caller's key"

UInit ==
  /\ streaming \in BOOLEAN
  /\ fallback \in {"off", "keyless", "keyed"}
  /\ maxRetries \in RetryLimits
  /\ caller \in {"virtual", "byok"}
  /\ attempt = 0 /\ target = "primary"
  /\ credential = OwnKey
  /\ response = None /\ errorBody = None /\ errorHeaders = OwnKey
  /\ unclosed = {} /\ tried = <<>>
  /\ stage = "send" /\ reply = Silence

Number == Len(tried) + 1

Logs(outcome) ==
  /\ stage = "send"
  /\ tried' = Append(tried, [to |-> target, with |-> credential, outcome |-> outcome])

(* The response's head is here; a streamed body is still to come. *)
Succeeds ==
  /\ Logs("success")
  /\ response' = Number
  /\ unclosed' = unclosed \cup (IF streaming THEN {Number} ELSE {})
  /\ stage' = "relay"
  /\ UNCHANGED <<settings, attempt, target, credential, errorBody, errorHeaders, reply>>

(* Mutant: the response of a failed attempt is not closed. *)
AnswersErrorUnclosed(outcome) ==
  /\ Logs(outcome)
  /\ response' = Number
  /\ errorBody' \in IF streaming THEN {Number, None} ELSE {Number}
  /\ errorHeaders' = credential
  /\ unclosed' = unclosed \cup (IF streaming THEN {Number} ELSE {})
  /\ stage' = IF outcome = "refused" THEN "answer" ELSE "failed"
  /\ UNCHANGED <<settings, attempt, target, credential, reply>>

(* Mutant: every status is worth a retry. *)
AnswersErrorRetried(outcome) ==
  /\ Logs(outcome)
  /\ response' = Number
  /\ errorBody' \in IF streaming THEN {Number, None} ELSE {Number}
  /\ errorHeaders' = credential
  /\ stage' = "failed"
  /\ UNCHANGED <<settings, attempt, target, credential, unclosed, reply>>

(* The provider answers, and not with a success: "refused" is 400, 401 or  *)
(* 403, "redirect" a status below 400, which raise_for_status refuses too. *)
(* The streaming path reads what it can of the body now, and closes; the   *)
(* buffered path has it all.                                               *)
AnswersError(outcome) ==
  /\ Logs(outcome)
  /\ response' = Number
  /\ errorBody' \in IF streaming THEN {Number, None} ELSE {Number}
  /\ errorHeaders' = credential
  /\ stage' = IF outcome = "refused" THEN "answer" ELSE "failed"
  /\ UNCHANGED <<settings, attempt, target, credential, unclosed, reply>>

(* httpx.RequestError: nothing came; what is kept stays. *)
Unreachable ==
  /\ Logs("unreachable")
  /\ stage' = "failed"
  /\ UNCHANGED <<settings, attempt, target, credential, response, errorBody, errorHeaders, unclosed, reply>>

(* Mutant: one retry too many. *)
BacksOffOnceMore ==
  /\ stage = "failed" /\ attempt <= maxRetries
  /\ stage' = "backoff"
  /\ UNCHANGED <<settings, attempt, target, credential, response, errorBody, errorHeaders, unclosed, tried, reply>>

BacksOff ==
  /\ stage = "failed" /\ attempt < maxRetries
  /\ stage' = "backoff"
  /\ UNCHANGED <<settings, attempt, target, credential, response, errorBody, errorHeaders, unclosed, tried, reply>>

Retries ==
  /\ stage = "backoff"
  /\ attempt' = attempt + 1
  /\ stage' = "send"
  /\ UNCHANGED <<settings, target, credential, response, errorBody, errorHeaders, unclosed, tried, reply>>

Exhausted == stage = "failed" /\ attempt >= maxRetries

(* Mutant: without a key of its own the fallback gets what there is. *)
SwitchedKeepsKey == IF fallback = "keyed" THEN "fallback key" ELSE credential

(* The fallback gets FALLBACK_API_KEY when there is one, and never a key   *)
(* the proxy holds for the first provider.                                 *)
Switched ==
  IF fallback = "keyed" THEN "fallback key"
  ELSE IF caller = "virtual" THEN "none" ELSE credential

(* Mutant: the fallback before the retries. *)
FailsOverEarly ==
  /\ stage = "failed" /\ target = "primary" /\ fallback # "off"
  /\ target' = "fallback" /\ attempt' = 0
  /\ credential' = Switched
  /\ stage' = "send"
  /\ UNCHANGED <<settings, response, errorBody, errorHeaders, unclosed, tried, reply>>

FailsOver ==
  /\ Exhausted /\ target = "primary" /\ fallback # "off"
  /\ target' = "fallback" /\ attempt' = 0
  /\ credential' = Switched
  /\ stage' = "send"
  /\ UNCHANGED <<settings, response, errorBody, errorHeaders, unclosed, tried, reply>>

(* Mutant: nothing breaks the loop when there is no fallback. *)
GivesUpOnFallback ==
  /\ Exhausted /\ target = "fallback"
  /\ stage' = "answer"
  /\ UNCHANGED <<settings, attempt, target, credential, response, errorBody, errorHeaders, unclosed, tried, reply>>

(* upstream_res.is_error: a redirect is none, and what is left of it is    *)
(* relayed.                                                                *)
GivesUp ==
  /\ Exhausted /\ (target = "fallback" \/ fallback = "off")
  /\ stage' = IF response # None /\ tried[response].outcome = "redirect" THEN "relay" ELSE "answer"
  /\ UNCHANGED <<settings, attempt, target, credential, response, errorBody, errorHeaders, unclosed, tried, reply>>

(* Mutant: cleared of what the last attempt carried. *)
AnswersClearedOfCurrent ==
  /\ stage = "answer"
  /\ reply' = [status |-> response, reason |-> errorBody, cleared |-> credential]
  /\ unclosed' = unclosed \ {response}
  /\ stage' = "over"
  /\ UNCHANGED <<settings, attempt, target, credential, response, errorBody, errorHeaders, tried>>

(* _upstream_error_response: the status of the last response (503 if none  *)
(* ever came), the reason kept, cleared of the credentials kept with it.   *)
Answers ==
  /\ stage = "answer"
  /\ reply' = [status |-> response, reason |-> errorBody, cleared |-> errorHeaders]
  /\ unclosed' = unclosed \ {response}
  /\ stage' = "over"
  /\ UNCHANGED <<settings, attempt, target, credential, response, errorBody, errorHeaders, tried>>

(* wrapped_stream, or the buffered reply: it ends, well or by a client     *)
(* that leaves, and the response is closed.                                *)
Relays ==
  /\ stage = "relay"
  /\ unclosed' = unclosed \ {response}
  /\ stage' = "over"
  /\ UNCHANGED <<settings, attempt, target, credential, response, errorBody, errorHeaders, tried, reply>>

UNext ==
  \/ Succeeds \/ (\E outcome \in {"refused", "redirect", "error"} : AnswersError(outcome)) \/ Unreachable
  \/ BacksOff \/ Retries \/ FailsOver \/ GivesUp
  \/ Answers \/ Relays

(* The loop runs on: httpx's timeouts end an attempt, a sleep ends.  How    *)
(* long a reply is relayed is not the loop's affair.                       *)
Loop == UNext /\ stage # "relay"
USpec == UInit /\ [][UNext]_uvars /\ WF_uvars(Loop)

-----------------------------------------------------------------------------
Credential == {"provider key", "caller's key", "fallback key", "none"}
Entry == [to : {"primary", "fallback"}, with : Credential,
          outcome : {"success", "refused", "redirect", "error", "unreachable"}]

CallTypeOK ==
  /\ attempt \in 0 .. maxRetries
  /\ target \in {"primary", "fallback"} /\ credential \in Credential
  /\ tried \in Seq(Entry)
  /\ response \in 0 .. Len(tried) /\ errorBody \in 0 .. Len(tried)
  /\ errorHeaders \in Credential
  /\ unclosed \subseteq 1 .. Len(tried)
  /\ stage \in {"send", "failed", "backoff", "relay", "answer", "over"}

(* A key of the proxy's goes to the provider it is for, and nowhere else. *)
KeysGoHome ==
  \A i \in 1 .. Len(tried) :
    /\ tried[i].with = "provider key" => tried[i].to = "primary"
    /\ tried[i].with = "fallback key" => tried[i].to = "fallback"

(* The error the caller sees is that of the latest provider answer: its    *)
(* status, its reason if there is one, cleared of the credential it was    *)
(* asked with, though a later attempt, with another one, came to nothing.  *)
ErrorIsOfOneAttempt ==
  reply # Silence =>
    /\ reply.reason # None =>
         reply.reason = reply.status /\ reply.cleared = tried[reply.status].with
    /\ \A i \in 1 .. Len(tried) : tried[i].outcome # "unreachable" => i <= reply.status

(* A connection is held by a reply being relayed, and by nothing else. *)
ConnectionsAreReturned == unclosed \subseteq (IF stage = "relay" THEN {response} ELSE {})

(* The fallback is asked when the provider failed every try it had, and    *)
(* then the provider is not asked again.                                   *)
FallbackIsLastResort ==
  \A i \in 1 .. Len(tried) :
    (tried[i].to = "fallback") = (i > maxRetries + 1)

(* An attempt after which there is another failed, and not because the     *)
(* request was refused.                                                    *)
OnlyFailuresAreRetried ==
  \A i \in 1 .. Len(tried) - 1 : tried[i].outcome \notin {"success", "refused"}

(* The attempts of a call, taken together: in their order, stopped by the  *)
(* first success or refusal, none left holding a connection but the reply  *)
(* under way, and the error reported of one of them (main.py:1722-1867).   *)
AttemptsAreSettled ==
  /\ FallbackIsLastResort /\ OnlyFailuresAreRetried
  /\ ConnectionsAreReturned /\ ErrorIsOfOneAttempt

(* Every call is answered, with a reply that begins or with an error,      *)
(* whatever the providers do.                                              *)
EveryCallIsAnswered == <>(stage \in {"relay", "over"})
=============================================================================

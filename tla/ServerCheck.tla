----------------------------- MODULE ServerCheck -----------------------------
(***************************************************************************)
(* One run of mcp-ssrf-check against an MCP server: it opens a lifecycle,  *)
(* sends what a legitimate client sends with one thing changed, tries      *)
(* session ids the server should refuse, and asks a tool to fetch the      *)
(* run's own listener by every spelling of its address.  The server        *)
(* answers as it likes, and its tool may dial during a call, after its     *)
(* answer, or while the next call is under way.                            *)
(*                                                                         *)
(* A token is the label of a probe and whether it is the address a         *)
(* redirect leads to; a fetch is known by its token (listener.py).         *)
(***************************************************************************)
EXTENDS Naturals, Sequences

CONSTANTS Spellings,   \* LOOPBACK_SPELLINGS: a sequence of labels
          MaxPages,    \* TOOLS_LIST_MAX_PAGES
          Invocations, \* of whoever runs it: what is left out, the lifecycles tried, whether
                       \* the redirect is probed
          Servers      \* what a server speaks, whether it issues ids, how many pages of tools
                       \* it lists, which has the tool that is named (0: none),
                       \* whether that tool takes the argument that is named

Untried == "untried"
Spelled == {Spellings[i] : i \in DOMAIN Spellings}

(* No spelling comes twice, and the probes of the redirect have tokens of  *)
(* their own.                                                              *)
ASSUME CheckAssumption ==
  /\ MaxPages \in Nat \ {0}
  /\ Spellings \in Seq(STRING)
  /\ \A i, j \in DOMAIN Spellings : Spellings[i] = Spellings[j] => i = j
  /\ {"redirect-target", "redirect"} \cap Spelled = {}

VARIABLES
  options, server,
  step,         \* what the run does next
  second,       \* the session opened to be ended: none, open, or ended
  probes,       \* labels still to be probed, the one under way first
  expected,     \* recorder.expected
  dialled,      \* the tokens the tool fetched
  hits,         \* recorder.hits
  matrix,       \* of each label and of the redirect, its outcome
  wiringError,  \* tools/call was answered with -32602 or -32601
  statuses,     \* of each check, its result
  failures,     \* of check_session_binding
  honoured,     \* ghost: what the server accepted that it should refuse
  proven        \* ghost: the labels whose fetch had come when the wait for it ended

mvars == <<options, server, step, second, probes, expected, dialled, hits, matrix,
           wiringError, statuses, failures, honoured, proven>>

Checks == {"baseline", "host", "origin", "session", "tool-wiring", "ssrf"}

MInit ==
  /\ options \in Invocations /\ server \in Servers
  /\ step = "open" /\ second = "none" /\ probes = <<>>
  /\ expected = {} /\ dialled = {} /\ hits = {}
  /\ matrix = [l \in Spelled \cup {"redirect"} |-> Untried] /\ wiringError = FALSE
  /\ statuses = [c \in Checks |-> Untried] /\ failures = {}
  /\ honoured = {} /\ proven = {}

Is(check, status, next) ==
  /\ statuses' = [statuses EXCEPT ![check] = status]
  /\ step' = next

-----------------------------------------------------------------------------
(* The legitimate client, and its request with one header changed          *)

(* open_lifecycle, as far as both sides speak it, and the baseline: any    *)
(* failure ends the run as inconclusive.                                   *)
Opens ==
  /\ step = "open"
  /\ \/ server.speaks \in options.tries /\ Is("baseline", "pass", "host")
     \/ Is("baseline", "inconclusive", "over")
  /\ UNCHANGED <<options, server, second, probes, expected, dialled, hits, matrix,
                 wiringError, failures, honoured, proven>>

HeaderVerdict(answer) ==
  CASE answer = "served" -> "fail"
    [] answer = "client error" -> "pass"
    [] OTHER -> "inconclusive"

(* check_host_header, check_origin_header; "origin-null" is only reported. *)
ChecksHeader(header, next) ==
  /\ step = header
  /\ \/ header \in options.skip /\ Is(header, "skip", next) /\ UNCHANGED honoured
     \/ /\ header \notin options.skip
        /\ \E answer \in {"served", "client error", "other", "lost"} :
             /\ Is(header, HeaderVerdict(answer), next)
             /\ honoured' = IF answer = "served" THEN honoured \cup {header} ELSE honoured
  /\ UNCHANGED <<options, server, second, probes, expected, dialled, hits, matrix,
                 wiringError, failures, proven>>

-----------------------------------------------------------------------------
(* check_session_binding *)

HasSession == server.speaks = "stateful" /\ server.issues

SkipsSession ==
  /\ step = "session" /\ ("session" \in options.skip \/ ~HasSession)
  /\ Is("session", "skip", "wiring")
  /\ UNCHANGED <<options, server, second, probes, expected, dialled, hits, matrix,
                 wiringError, failures, honoured, proven>>

(* An id nobody issued.  An error on the way settles the check. *)
TriesMadeUp ==
  /\ step = "session" /\ "session" \notin options.skip /\ HasSession
  /\ \/ /\ step' = "second" /\ UNCHANGED statuses
        /\ \/ failures' = {"made up"} /\ honoured' = honoured \cup {"made up"}
           \/ UNCHANGED <<failures, honoured>>
     \/ Is("session", "inconclusive", "wiring") /\ UNCHANGED <<failures, honoured>>
  /\ UNCHANGED <<options, server, second, probes, expected, dialled, hits, matrix,
                 wiringError, proven>>

SessionVerdict(fails) == Is("session", IF fails = {} THEN "pass" ELSE "fail", "wiring")

(* Mutant: the id is tried again whatever the answer to DELETE was. *)
ReusesAnyway ==
  /\ second' \in {"open", "ended"}
  /\ step' = "reuse" /\ UNCHANGED statuses

(* A session of its own is opened, then deleted; only when the server says *)
(* it did is its id tried again.                                           *)
Deletes ==
  \/ second' = "ended" /\ step' = "reuse" /\ UNCHANGED statuses
  \/ second' \in {"none", "open"} /\ SessionVerdict(failures)

OpensSecond ==
  /\ step = "second" /\ Deletes
  /\ UNCHANGED <<options, server, probes, expected, dialled, hits, matrix, wiringError,
                 failures, honoured, proven>>

ReusesEnded ==
  /\ step = "reuse"
  /\ \/ /\ SessionVerdict(failures \cup {"ended"}) /\ failures' = failures \cup {"ended"}
        /\ honoured' = IF second = "ended" THEN honoured \cup {"ended"} ELSE honoured
     \/ SessionVerdict(failures) /\ UNCHANGED <<failures, honoured>>
     \/ Is("session", "inconclusive", "wiring") /\ UNCHANGED <<failures, honoured>>
  /\ UNCHANGED <<options, server, second, probes, expected, dialled, hits, matrix,
                 wiringError, proven>>

-----------------------------------------------------------------------------
(* check_tool_url_ssrf *)

(* Mutant: only the first page of the tools is read. *)
NamedOnFirstPage(readable) == readable /\ server.tool # 1

(* Every page was read, up to the limit, and no tool on them is the one    *)
(* that is named, or it takes another argument.                            *)
NamesNoTool(readable) ==
  readable /\ server.pages <= MaxPages /\ (server.tool = 0 \/ ~server.takes)

(* _tool_wiring: a listing that cannot be read whole is no reason to stop. *)
ChecksWiring ==
  /\ step = "wiring"
  /\ \/ "ssrf" \in options.skip /\ Is("ssrf", "skip", "over") /\ UNCHANGED probes
     \/ /\ "ssrf" \notin options.skip
        /\ \E readable \in BOOLEAN :
             \/ NamesNoTool(readable) /\ Is("ssrf", "inconclusive", "over") /\ UNCHANGED probes
             \/ /\ ~NamesNoTool(readable)
                /\ probes' = Spellings \o IF options.redirect THEN <<"redirect-target", "redirect">> ELSE <<>>
                /\ step' = "control" /\ UNCHANGED statuses
  /\ UNCHANGED <<options, server, second, expected, dialled, hits, matrix, wiringError,
                 failures, honoured, proven>>

(* What the tool's answer can be; one it does not have it never serves. *)
ToolAnswers ==
  {"isError", "wiring", "error", "denied"} \cup IF server.tool = 0 THEN {} ELSE {"result"}

(* The URL it should be able to fetch, when the run has one. *)
FetchesControl ==
  /\ step = "control"
  /\ \/ step' = "call" /\ UNCHANGED statuses
     \/ "result" \in ToolAnswers /\ Is("tool-wiring", "pass", "call")
     \/ Is("tool-wiring", "inconclusive", "call")
  /\ UNCHANGED <<options, server, second, probes, expected, dialled, hits, matrix,
                 wiringError, failures, honoured, proven>>

Probe == Head(probes)

(* Mutant: one token for the run. *)
TokenOfRun(label) == <<"run", 0>>

Token(label) == <<label, 0>>
Redirected(token) == <<token[1], 1>>

(* The token is registered before its URL is sent. *)
Calls ==
  /\ step = "call" /\ probes # <<>>
  /\ expected' = expected \cup {Token(Probe), Redirected(Token(Probe))}
  /\ step' = "await"
  /\ UNCHANGED <<options, server, second, probes, dialled, hits, matrix, wiringError,
                 statuses, failures, honoured, proven>>

(* A tool that is there may fetch what it was given, at any time; the      *)
(* answer to the first hop of a redirect sends it further.                 *)
Dials(label) ==
  /\ server.tool # 0 /\ step # "over"
  /\ Token(label) \in expected
  /\ \/ dialled' = dialled \cup {<<label, 0>>}
     \/ /\ label = "redirect" /\ Token(label) \in hits
        /\ dialled' = dialled \cup {<<label, 1>>}
  /\ UNCHANGED <<options, server, step, second, probes, expected, hits, matrix,
                 wiringError, statuses, failures, honoured, proven>>

(* _serve: what is registered is recorded. *)
Arrives(label, n) ==
  /\ <<label, n>> \in dialled /\ step # "over"
  /\ LET token == IF n = 0 THEN Token(label) ELSE Redirected(Token(label)) IN
       token \in expected /\ hits' = hits \cup {token}
  /\ UNCHANGED <<options, server, step, second, probes, expected, dialled, matrix,
                 wiringError, statuses, failures, honoured, proven>>

IsOutcome(label, outcome) == matrix' = [matrix EXCEPT ![label] = outcome]
RedirectIs(outcome) == IsOutcome("redirect", outcome) /\ probes' = <<>> /\ step' = "call"

(* Mutant: a refusal is taken at its word. *)
ClassifyByAnswer(answer, arrived) ==
  IF answer # "result" THEN "refused" ELSE IF arrived THEN "reached" ELSE "unclear"

Classify(answer, arrived) ==
  IF arrived THEN "reached" ELSE IF answer = "result" THEN "unclear" ELSE "refused"

Notes == proven' = IF Token(Probe) \in hits THEN proven \cup {Probe} ELSE proven

(* One spelling: wait_for ends when the token is seen, or at its deadline. *)
Settles ==
  /\ step = "await" /\ Probe \in Spelled
  /\ \E answer \in ToolAnswers :
       /\ IsOutcome(Probe, Classify(answer, Token(Probe) \in hits))
       /\ wiringError' = (wiringError \/ answer = "wiring")
  /\ Notes
  /\ probes' = Tail(probes) /\ step' = "call"
  /\ UNCHANGED <<options, server, second, expected, dialled, hits, statuses, failures, honoured>>

(* The call fails: nobody waits for what it may have set off. *)
LosesCall ==
  /\ step = "await"
  /\ IF Probe \in Spelled
     THEN IsOutcome(Probe, "transport-error") /\ probes' = Tail(probes) /\ step' = "call"
     ELSE RedirectIs("transport-error")
  /\ UNCHANGED <<options, server, second, expected, dialled, hits, wiringError, statuses,
                 failures, honoured, proven>>

(* Mutant: the redirect is probed without asking for its target first. *)
AsksForTargetNever ==
  probes' = Tail(probes) /\ step' = "call" /\ UNCHANGED matrix

(* A target that is fetched when asked for shows nothing of redirects. *)
AsksForTarget ==
  IF Token(Probe) \in hits THEN RedirectIs("not-exercised")
  ELSE probes' = Tail(probes) /\ step' = "call" /\ UNCHANGED matrix

FollowsRedirect ==
  IF Token(Probe) \notin hits THEN RedirectIs("not-exercised")
  ELSE IF Redirected(Token(Probe)) \in hits THEN RedirectIs("reached") ELSE RedirectIs("refused")

ProbesRedirect ==
  /\ step = "await" /\ Probe \notin Spelled
  /\ IF Probe = "redirect-target" THEN AsksForTarget ELSE FollowsRedirect
  /\ Notes
  /\ UNCHANGED <<options, server, second, expected, dialled, hits, wiringError, statuses,
                 failures, honoured>>

Outcomes(outcome) == {l \in DOMAIN matrix : matrix[l] = outcome}

SsrfVerdict ==
  IF Outcomes("reached") # {} THEN "fail"
  ELSE IF wiringError \/ Outcomes("unclear") # {} THEN "inconclusive" ELSE "pass"

Concludes ==
  /\ step = "call" /\ probes = <<>>
  /\ Is("ssrf", SsrfVerdict, "over")
  /\ UNCHANGED <<options, server, second, probes, expected, dialled, hits, matrix,
                 wiringError, failures, honoured, proven>>

MNext ==
  \/ Opens \/ ChecksHeader("host", "origin") \/ ChecksHeader("origin", "session")
  \/ SkipsSession \/ TriesMadeUp \/ OpensSecond \/ ReusesEnded
  \/ ChecksWiring \/ FetchesControl \/ Calls \/ Settles \/ LosesCall \/ ProbesRedirect \/ Concludes
  \/ \E label \in Spelled \cup {"redirect-target", "redirect"} :
       Dials(label) \/ \E n \in {0, 1} : Arrives(label, n)

MSpec == MInit /\ [][MNext]_mvars

(* Report.exit_code *)
ExitCode ==
  LET given == {statuses[c] : c \in Checks}
  IN  IF "fail" \in given THEN 1 ELSE IF "inconclusive" \in given THEN 2 ELSE 0

-----------------------------------------------------------------------------
(* Exit code 0 means that nothing forged, made up or ended was honoured,   *)
(* and that no fetch of a spelling came while the run waited for it        *)
(* (cli.py:80-141, report.py:63).                                          *)
CleanExitIsEarned ==
  step = "over" /\ ExitCode = 0 => honoured = {} /\ proven \cap Spelled = {}

(* Exit code 1 means that something was: a fetch that is late is not taken *)
(* for one of the next spelling, a redirect only counts when its target is *)
(* refused to those who ask, and a session the server would not end may be *)
(* used (checks.py:189-216, 231-253, 359-379).                             *)
FailureIsFounded ==
  /\ step = "over" /\ ExitCode = 1 => honoured # {} \/ Outcomes("reached") # {}
  /\ \A l \in Spelled : matrix[l] = "reached" => <<l, 0>> \in dialled
  /\ matrix["redirect"] = "reached" => <<"redirect", 1>> \in dialled /\ "redirect-target" \notin proven

(* Only a tool that is on no page, or takes another argument, is called    *)
(* missing (checks.py:256-297).                                            *)
MissingToolIsMissing ==
  statuses["ssrf"] = "inconclusive" /\ expected = {} => server.tool = 0 \/ ~server.takes

(* The run's result is what the server did, whenever its tool's fetches    *)
(* come in (mcp-ssrf-check).                                               *)
ServerVerdictIsSound == CleanExitIsEarned /\ FailureIsFounded /\ MissingToolIsMissing
=============================================================================

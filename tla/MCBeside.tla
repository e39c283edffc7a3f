------------------------------- MODULE MCBeside -------------------------------
(***************************************************************************)
(* What runs beside the proxy, part by part: the LiteLLM guardrail, the    *)
(* two runs of the benchmark, the wall its results go to, and the check of *)
(* an MCP server.  The parts share no state, so a behaviour moves one and  *)
(* leaves the others as they start.                                        *)
(***************************************************************************)
EXTENDS LiteLLMGuardrail, CaptureRun, PartitionRun, ResultsWall, ServerCheck

VARIABLE part

mcvars == <<lvars, cvars, pvars, wvars, mvars, part>>

(* What a gateway may send: one half of the value or the other or none, in *)
(* its body, its head or where only a decoder finds it, with the run's     *)
(* marker and token or without, and a body nobody can read.                *)
Load(b, h, d, m, s) == [head |-> h, body |-> b, hidden |-> d, token |-> TRUE, marked |-> m, sound |-> s]
SampleLoads ==
  LET own == {Load(<<"x">>, <<>>, <<>>, TRUE, TRUE), Load(<<"x", "h1">>, <<>>, <<"d">>, TRUE, TRUE),
              Load(<<"h2">>, <<>>, <<>>, FALSE, TRUE), Load(<<"h2">>, <<"h1">>, <<>>, TRUE, TRUE),
              Load(<<>>, <<>>, <<"h1", "h2">>, FALSE, TRUE), Load(<<>>, <<>>, <<>>, FALSE, FALSE)}
  IN  own \cup {[l EXCEPT !.token = FALSE] : l \in {k \in own : k.head = <<>> /\ k.hidden = <<>> /\ k.sound}}

(* A case of either arm that no cap touches, and one whose triples are     *)
(* more than the cap.                                                      *)
SampleCases ==
  <<[arm |-> "single_chunk", length |-> 3], [arm |-> "adversarial", length |-> 3],
    [arm |-> "adversarial", length |-> 4]>>

(* Two submissions of one author, one of another. *)
Authors == [i \in {"i1", "i2", "i3"} |-> IF i = "i3" THEN "bo" ELSE "al"]

(* Who leaves out what, and pins a lifecycle or not. *)
SampleInvocations ==
  LET both == {"stateless", "stateful"}
  IN  {[skip |-> {"ssrf"}, tries |-> both, redirect |-> FALSE],
       [skip |-> {"host", "session"}, tries |-> both, redirect |-> TRUE],
       [skip |-> {"origin", "session"}, tries |-> {"stateful"}, redirect |-> FALSE]}

(* A tool on the second page, none on more pages than are read, and one    *)
(* that takes another argument.                                            *)
Server(lifecycle, pages, tool, takes) ==
  [speaks |-> lifecycle, issues |-> lifecycle = "stateful",
   pages |-> pages, tool |-> tool, takes |-> takes]
SampleServers ==
  {Server("stateful", 2, 2, TRUE), Server("stateful", 3, 0, TRUE), Server("stateless", 1, 1, FALSE)}
TwoSpellings == <<"decimal", "hex">>

(* A part that does not move starts in one state of its own. *)
MCInit ==
  /\ part \in {"guardrail", "capture", "partitions", "wall", "check"}
  /\ tagged \in IF part = "guardrail" THEN BOOLEAN ELSE {TRUE}
  /\ mode \in IF part = "capture" THEN {"loopback", "public"} ELSE {"loopback"}
  /\ address \in IF part = "capture" THEN {"us", "other", "unreachable"} ELSE {"us"}
  /\ oracle \in IF part = "partitions" THEN Oracles ELSE {"midpoint"}
  /\ separated \in IF part = "partitions" THEN BOOLEAN ELSE {TRUE}
  /\ options \in IF part = "check" THEN Invocations ELSE {CHOOSE c \in Invocations : TRUE}
  /\ server \in IF part = "check" THEN Servers ELSE {CHOOSE s \in Servers : TRUE}
  /\ LInit /\ CInit /\ PRInit /\ WInit /\ MInit

GuardrailStep == part = "guardrail" /\ LNext /\ UNCHANGED <<cvars, pvars, wvars, mvars>>
CaptureStep == part = "capture" /\ CNext /\ UNCHANGED <<lvars, pvars, wvars, mvars>>
PartitionStep == part = "partitions" /\ PRNext /\ UNCHANGED <<lvars, cvars, wvars, mvars>>
WallStep == part = "wall" /\ WNext /\ UNCHANGED <<lvars, cvars, pvars, mvars>>
CheckStep == part = "check" /\ MNext /\ UNCHANGED <<lvars, cvars, pvars, wvars>>

MCNext == /\ GuardrailStep \/ CaptureStep \/ PartitionStep \/ WallStep \/ CheckStep
          /\ UNCHANGED part

MCSpec == MCInit /\ [][MCNext]_mcvars

(* Both profiles of the benchmark say of a gateway what was seen of it:    *)
(* of the boundary it keeps and of the partitions it was tried with        *)
(* (http_profile.py, v2_emitter.py).                                       *)
BenchmarkVerdictsAreSound == BoundaryVerdictIsSound /\ VerdictIsFounded
=============================================================================

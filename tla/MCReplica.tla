------------------------------- MODULE MCReplica -------------------------------
(* What must come to an end in a replica, part by part: an upstream call,   *)
(* with no retry, one, or two, a change of its configuration, its own tasks *)
(* and its drain.  The parts share no state (the call takes its settings as *)
(* they are when it begins), so a behaviour moves one of them and leaves    *)
(* the others as they start.                                                *)
EXTENDS UpstreamCall, ConfigReload, Lifespan

VARIABLE part

mcvars == <<uvars, cvars, hvars, part>>

(* A part that does not move starts in one state of its own. *)
MCInit ==
  /\ part \in {"call", "config", "life"}
  /\ UInit /\ CInit /\ HInit
  /\ part # "call" => streaming /\ fallback = "off" /\ maxRetries = 0 /\ caller = "byok"
  /\ part # "life" => useSecrets

CallStep == part = "call" /\ UNext /\ UNCHANGED <<part, cvars, hvars>>
ConfigStep == part = "config" /\ CNext /\ UNCHANGED <<part, uvars, hvars>>
LifeStep == part = "life" /\ HNext /\ UNCHANGED <<part, uvars, cvars>>

MCNext == CallStep \/ ConfigStep \/ LifeStep

MCSpec ==
  /\ MCInit /\ [][MCNext]_mcvars
  /\ WF_uvars(part = "call" /\ Loop)
  /\ WF_cvars(part = "config" /\ Watches) /\ WF_cvars(part = "config" /\ Polls)
  /\ WF_hvars(part = "life" /\ Winds) /\ WF_hvars(part = "life" /\ Sweeps)
  /\ WF_hvars(part = "life" /\ LogsIn)
  /\ WF_hvars(part = "life" /\ (VaultAnswers \/ RefreshFails))
  /\ SF_hvars(part = "life" /\ VaultAnswers) /\ SF_hvars(part = "life" /\ SwapsSecrets)

(* The providers' answers decide how long a call takes, not whether it is   *)
(* answered (_proxy_catch_all_internal's retry loop).                       *)
CallIsAnswered == part = "call" => EveryCallIsAnswered

(* Whatever fails on the way, in the end the policies in force are those on *)
(* disk, the secrets those of the vault, and no expired value is held       *)
(* (run_policy_hot_reload, run_refresh_loop, run_eviction_loop).            *)
BackgroundWorkCatchesUp ==
  /\ part = "config" => PoliciesFollowTheFile
  /\ SecretsCatchUp /\ ExpiredIsSwept
=============================================================================

---------------------------- MODULE DiscoveryCache ---------------------------
(***************************************************************************)
(* The catalogs of tools an MCP server offers, pruned and kept in Redis    *)
(* (middleware/mcp_pruner.py).  tools/list_changed bumps a generation; a   *)
(* catalog is kept under the generation read before it was fetched.        *)
(*                                                                         *)
(* One tenant, one server, whose list of tools is its version.  What a     *)
(* caller may see of a list is not modelled: a catalog is kept for all the *)
(* virtual keys of its tenant, pruned for the one that fetched it.         *)
(***************************************************************************)
EXTENDS Integers, FiniteSets

CONSTANTS Callers,        \* discovery requests under way together
          MaxTools, MaxNotices   \* bounds of the runs

ASSUME DiscoveryAssumption == MaxTools \in Nat \ {0} /\ MaxNotices \in Nat

NoList == 0
Away == [at |-> "away"]
At(at, gen, list, floor) == [at |-> at, gen |-> gen, tools |-> list, floor |-> floor]

VARIABLES
  tools,        \* the version of the server's list of tools
  notices,      \* invalidations received whose INCR has not run: the version each is about
  noticed,      \* how many were received
  generation,   \* mcp:policy_version, 0 while absent
  applied,      \* the newest version an invalidation that was applied is about
  kept,         \* mcp:tools in Redis: [gen, tools]
  writes,       \* SETs under way, which nobody awaits
  caller        \* what each discovery request is at

dvars == <<tools, notices, noticed, generation, applied, kept, writes, caller>>

DInit ==
  /\ tools = 1 /\ notices = {} /\ noticed = 0
  /\ generation = 0 /\ applied = 0
  /\ kept = {} /\ writes = {}
  /\ caller = [c \in Callers |-> Away]

ListChanges ==
  /\ tools < MaxTools /\ tools' = tools + 1
  /\ UNCHANGED <<notices, noticed, generation, applied, kept, writes, caller>>

(* A notification creates a task and goes on to the application. *)
NoticeArrives ==
  /\ noticed < MaxNotices
  /\ noticed' = noticed + 1
  /\ notices' = notices \cup {tools}
  /\ UNCHANGED <<tools, generation, applied, kept, writes, caller>>

InvalidateCache ==
  /\ \E v \in notices :
       /\ notices' = notices \ {v}
       /\ generation' = generation + 1
       /\ applied' = IF v > applied THEN v ELSE applied
  /\ UNCHANGED <<tools, noticed, kept, writes, caller>>

(* A Redis error is audited, and the invalidation is lost. *)
InvalidationFails ==
  /\ \E v \in notices : notices' = notices \ {v}
  /\ UNCHANGED <<tools, noticed, generation, applied, kept, writes, caller>>

(* tools/list: the policy is resolved and the server's address pinned; a   *)
(* server the egress policy forbids is refused before the cache is read.   *)
Discovers(c) ==
  /\ caller[c].at = "away"
  /\ caller' = [caller EXCEPT ![c] = At("asking", 0, NoList, applied)]
  /\ UNCHANGED <<tools, notices, noticed, generation, applied, kept, writes>>

(* Mutant: an absent counter reads as the first value INCR returns. *)
ReadsGenerationAsOne(c) ==
  /\ caller[c].at = "asking"
  /\ caller' = [caller EXCEPT ![c] =
                 At("looking", IF generation = 0 THEN 1 ELSE generation, NoList, @.floor)]
  /\ UNCHANGED <<tools, notices, noticed, generation, applied, kept, writes>>

ReadsGeneration(c) ==
  /\ caller[c].at = "asking"
  /\ caller' = [caller EXCEPT ![c] = At("looking", generation, NoList, @.floor)]
  /\ UNCHANGED <<tools, notices, noticed, generation, applied, kept, writes>>

FindsCatalog(c) ==
  /\ caller[c].at = "looking"
  /\ \E e \in kept : /\ e.gen = caller[c].gen
                     /\ caller' = [caller EXCEPT ![c] = At("served", @.gen, e.tools, @.floor)]
  /\ UNCHANGED <<tools, notices, noticed, generation, applied, kept, writes>>

FetchesCatalog(c) ==
  /\ caller[c].at = "looking"
  /\ \A e \in kept : e.gen # caller[c].gen
  /\ caller' = [caller EXCEPT ![c] = At("fetched", @.gen, tools, @.floor)]
  /\ UNCHANGED <<tools, notices, noticed, generation, applied, kept, writes>>

(* Pruned, handed to a task that writes it, and answered. *)
KeepsCatalog(c) ==
  /\ caller[c].at = "fetched"
  /\ writes' = writes \cup {[gen |-> caller[c].gen, tools |-> caller[c].tools]}
  /\ caller' = [caller EXCEPT ![c] = At("served", @.gen, @.tools, @.floor)]
  /\ UNCHANGED <<tools, notices, noticed, generation, applied, kept>>

(* Redis or the server fails, or the catalog is too large: 502. *)
DiscoveryFails(c) ==
  /\ caller[c].at \in {"asking", "looking", "fetched"}
  /\ caller' = [caller EXCEPT ![c] = Away]
  /\ UNCHANGED <<tools, notices, noticed, generation, applied, kept, writes>>

CallerLeaves(c) ==
  /\ caller[c].at = "served"
  /\ caller' = [caller EXCEPT ![c] = Away]
  /\ UNCHANGED <<tools, notices, noticed, generation, applied, kept, writes>>

(* The last SET of a key wins, whatever was fetched first. *)
WriteLands ==
  /\ \E e \in writes :
       /\ writes' = writes \ {e}
       /\ kept' = {f \in kept : f.gen # e.gen} \cup {e}
  /\ UNCHANGED <<tools, notices, noticed, generation, applied, caller>>

WriteFails ==
  /\ \E e \in writes : writes' = writes \ {e}
  /\ UNCHANGED <<tools, notices, noticed, generation, applied, kept, caller>>

(* After 30 s to an hour, as the server's ttlMs says. *)
CatalogExpires ==
  /\ \E e \in kept : kept' = kept \ {e}
  /\ UNCHANGED <<tools, notices, noticed, generation, applied, writes, caller>>

DNext ==
  \/ ListChanges \/ NoticeArrives \/ InvalidateCache \/ InvalidationFails
  \/ WriteLands \/ WriteFails \/ CatalogExpires
  \/ \E c \in Callers : \/ Discovers(c) \/ ReadsGeneration(c) \/ FindsCatalog(c)
                        \/ FetchesCatalog(c) \/ KeepsCatalog(c) \/ DiscoveryFails(c)
                        \/ CallerLeaves(c)

DSpec == DInit /\ [][DNext]_dvars

-----------------------------------------------------------------------------
(* Once an invalidation has been applied, no request that begins after it  *)
(* is served a list from before it, not even one whose unawaited write     *)
(* lands late (mcp_pruner.py:155-163, 217).                                *)
NoListFromBefore ==
  \A c \in Callers : caller[c].at = "served" => caller[c].tools >= caller[c].floor
=============================================================================

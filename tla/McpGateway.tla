------------------------------ MODULE McpGateway ------------------------------
(***************************************************************************)
(* One POST to the MCP gateway (api/mcp_router.py): who calls, which       *)
(* server it goes to, and, item by item of a batch, the call that is       *)
(* authorised, has its URLs checked (security/egress_guard.py), is redacted*)
(* and is sent to the address that was checked.                            *)
(*                                                                         *)
(* Names are resolved while others change what they resolve to.  A call's  *)
(* parameters are the hosts its URLs name; redaction may rewrite a URL     *)
(* into one that names another.  What the policy resolver answers is       *)
(* PolicyCache's subject: here it is any policy.                           *)
(***************************************************************************)
EXTENDS Naturals, FiniteSets

CONSTANTS
  MaxItems,      \* bound of the runs; MAX_BATCH_SIZE is 100
  MaxMoves       \* bound of the runs: changes of what names resolve to

ASSUME GatewayAssumption == MaxItems \in Nat \ {0} /\ MaxMoves \in Nat

Sentinel == "_FAIL_CLOSED_"
Tools == {"act", Sentinel}     \* a tool may bear the sentinel's name
Hosts == {"friend", "other"}
Addresses == {"public", "inside"}
NoHost == "nowhere"

Policies == [allowed : {{}, {"act"}, {"rest"}, {Sentinel}}, blocked : {{}, {"act"}},
             reads : BOOLEAN,        \* the resource is among allowed_resources
             only : BOOLEAN]         \* ALLOWLIST_ONLY, of "friend"
NoPolicy == [allowed |-> {Sentinel}, blocked |-> {}, reads |-> FALSE, only |-> TRUE]

Items == [method : {"tools/call"}, tool : Tools] \cup
         [method : {"tools/list", "resources/read"}, tool : {NoHost}]
NoCall == [method |-> "none", tool |-> NoHost]

VARIABLES
  gate,      \* UPSTREAM_MCP_BASE_URL, OVERRIDE_CLIENT_AUTH, MCP_EMPTY_ALLOWLIST_MODE
  records,   \* the addresses each name resolves to
  moves,     \* how often they changed
  rpc,       \* the request
  dialled,   \* what was sent, and where
  looked     \* the forbidden calls for which a URL in their parameters was looked up

rvars == <<gate, records, moves, rpc, dialled, looked>>

RInit ==
  /\ gate \in [base : {"friend", NoHost}, override : BOOLEAN, denyAll : BOOLEAN]
  /\ records = [h \in Hosts |-> {"public"}] /\ moves = 0
  /\ rpc = [at |-> "arrived", holder |-> FALSE, server |-> NoHost, pin |-> "unpinned",
            policy |-> NoPolicy, items |-> 0, call |-> NoCall, urls |-> {}, checked |-> {}]
  /\ dialled = {} /\ looked = {}

RRest == UNCHANGED <<gate, records, moves, dialled, looked>>
Moves(at) == rpc' = [rpc EXCEPT !.at = at]
NextItem == rpc' = [rpc EXCEPT !.at = "routed", !.call = NoCall, !.urls = {}, !.checked = {}]
IsOver == rpc' = [rpc EXCEPT !.at = "over", !.call = NoCall, !.urls = {}, !.checked = {}]

NamesMove ==
  /\ moves < MaxMoves /\ moves' = moves + 1
  /\ \E h \in Hosts, a \in SUBSET Addresses : records' = [records EXCEPT ![h] = a]
  /\ UNCHANGED <<gate, rpc, dialled, looked>>

-----------------------------------------------------------------------------
(* The request *)

(* A configured key, or with OVERRIDE_CLIENT_AUTH anyone; else 401, before *)
(* the body is read.                                                       *)
AuthenticatesCaller ==
  /\ rpc.at = "arrived"
  /\ \E holder \in BOOLEAN :
       IF holder \/ gate.override
       THEN rpc' = [rpc EXCEPT !.at = "authenticated", !.holder = holder]
       ELSE IsOver
  /\ RRest

(* Too large, too slow, a bad length, no JSON, no object or array. *)
ReadsBody ==
  /\ rpc.at = "authenticated"
  /\ IsOver \/ Moves("read")
  /\ RRest

(* Mutant: whoever sends the header is taken at its word. *)
ResolvesServerForAll(named) ==
  IF named # NoHost THEN named ELSE gate.base

(* The header redirects the gateway for the holder of a key only. *)
ResolvesServer(named) ==
  IF rpc.holder /\ named # NoHost THEN named ELSE gate.base

(* _resolve_role: an empty allowlist grants nothing, or everything.  A     *)
(* resolver that raises ends the request.                                  *)
TakesPolicy ==
  /\ rpc.at = "read"
  /\ \/ IsOver
     \/ \E p \in Policies, named \in Hosts \cup {NoHost} :
          rpc' = [rpc EXCEPT !.at = "roled", !.server = ResolvesServer(named),
                             !.policy = IF p.allowed = {} /\ gate.denyAll
                                        THEN [p EXCEPT !.allowed = {Sentinel}] ELSE p]
  /\ RRest

(* evaluate_url: the name must be allowed, and all it resolves to public;  *)
(* no answer, or none in time, is a refusal.                               *)
Clears(h) ==
  /\ rpc.policy.only => h = "friend"
  /\ records[h] # {} /\ "inside" \notin records[h]

(* resolve_pinned_target: one of the addresses that cleared is what will   *)
(* be dialled.                                                             *)
PinsServer ==
  /\ rpc.at = "roled"
  /\ \/ rpc.server = NoHost /\ Moves("routed")
     \/ /\ rpc.server # NoHost /\ Clears(rpc.server)
        /\ \E a \in records[rpc.server] : rpc' = [rpc EXCEPT !.at = "routed", !.pin = a]
  /\ RRest

ServerRefused == rpc.at = "roled" /\ rpc.server # NoHost /\ IsOver /\ RRest

-----------------------------------------------------------------------------
(* An item *)

(* The next item, well formed and of a method that is served. *)
TakesItem ==
  /\ rpc.at = "routed" /\ rpc.items < MaxItems
  /\ \E c \in Items, urls \in SUBSET Hosts :
       rpc' = [rpc EXCEPT !.at = "item", !.items = @ + 1, !.call = c, !.urls = urls,
                          !.checked = {}]
  /\ RRest

(* The batch is done, or empty, or too long; malformed items change        *)
(* nothing.                                                                *)
BatchEnds == rpc.at = "routed" /\ IsOver /\ RRest

FailClosed == Sentinel \in rpc.policy.allowed

ToolForbidden(t) ==
  \/ FailClosed
  \/ t \in rpc.policy.blocked
  \/ rpc.policy.allowed # {} /\ t \notin rpc.policy.allowed

Forbidden(c) ==
  \/ c.method = "tools/call" /\ ToolForbidden(c.tool)
  \/ FailClosed
  \/ c.method = "resources/read" /\ ~rpc.policy.reads

(* Mutant: the URLs are looked at first. *)
AuthorisesLater ==
  /\ rpc.at = "item"
  /\ Moves("authorised")
  /\ RRest

(* Before anything is looked up for the caller. *)
Authorises ==
  /\ rpc.at = "item"
  /\ IF Forbidden(rpc.call) THEN NextItem ELSE Moves("authorised")
  /\ RRest

LooksUp == looked' = looked \cup (IF Forbidden(rpc.call) THEN {rpc.call} ELSE {})

(* scan_arguments: every URL anywhere in the parameters. *)
ScansUrl(h) ==
  /\ rpc.at = "authorised" /\ h \in rpc.urls \ rpc.checked
  /\ LooksUp
  /\ rpc' = IF Clears(h) THEN [rpc EXCEPT !.checked = @ \cup {h}]
            ELSE [rpc EXCEPT !.at = "routed", !.call = NoCall, !.urls = {}, !.checked = {}]
  /\ UNCHANGED <<gate, records, moves, dialled>>

(* Too deep, or a name that does not resolve in time; or no server. *)
ItemFails ==
  /\ rpc.at \in {"authorised", "redacted"}
  /\ NextItem
  /\ RRest

(* A URL urlsplit does not take, or a range of the policy that is none:    *)
(* the ValueError is nobody's to catch, and earlier items were sent.       *)
ScanRaises == rpc.at \in {"authorised", "redacted"} /\ IsOver /\ RRest

(* _sanitize_async, in a worker thread.  Look-alike values may turn a URL  *)
(* into another.                                                           *)
RedactsItem ==
  /\ rpc.at = "authorised" /\ rpc.urls \subseteq rpc.checked
  /\ rpc.server # NoHost
  /\ \E urls \in SUBSET Hosts : rpc' = [rpc EXCEPT !.at = "redacted", !.urls = urls]
  /\ RRest

(* The second half of the check: what redaction introduced. *)
ChecksIntroduced(h) ==
  /\ rpc.at = "redacted" /\ h \in rpc.urls \ rpc.checked
  /\ LooksUp
  /\ rpc' = IF Clears(h) THEN [rpc EXCEPT !.checked = @ \cup {h}]
            ELSE [rpc EXCEPT !.at = "routed", !.call = NoCall, !.urls = {}, !.checked = {}]
  /\ UNCHANGED <<gate, records, moves, dialled>>

Dialling(address) ==
  [chosen |-> rpc.server # gate.base /\ ~rpc.holder, address |-> address,
   forbidden |-> Forbidden(rpc.call), unchecked |-> rpc.urls \ rpc.checked]

(* Mutant: the name goes to the HTTP client, which resolves it. *)
SendsByName ==
  /\ rpc.at = "redacted" /\ rpc.urls \subseteq rpc.checked
  /\ \E a \in records[rpc.server] : dialled' = dialled \cup {Dialling(a)}
  /\ NextItem
  /\ UNCHANGED <<gate, records, moves, looked>>

(* Sent to the pinned address; its answer, pruned and scrubbed, or the     *)
(* error it comes to, is the item's response.                              *)
Sends ==
  /\ rpc.at = "redacted" /\ rpc.urls \subseteq rpc.checked
  /\ dialled' = dialled \cup {Dialling(rpc.pin)}
  /\ NextItem
  /\ UNCHANGED <<gate, records, moves, looked>>

RNext ==
  \/ NamesMove
  \/ AuthenticatesCaller \/ ReadsBody \/ TakesPolicy \/ PinsServer \/ ServerRefused
  \/ TakesItem \/ BatchEnds \/ Authorises \/ ItemFails \/ ScanRaises \/ RedactsItem \/ Sends
  \/ \E h \in Hosts : ScansUrl(h) \/ ChecksIntroduced(h)

RSpec == RInit /\ [][RNext]_rvars

-----------------------------------------------------------------------------
(* However names move and redaction rewrites, what is sent goes to an      *)
(* address that cleared the policy, carries no URL that did not, and is a  *)
(* call the key's policy grants; nobody without a key chooses the server;  *)
(* and no name is looked up for a call that is not granted                 *)
(* (mcp_router.py:426-467, 533-578, 690-726; egress_guard.py:298-377).     *)
CallsAreContained ==
  /\ \A d \in dialled :
       d.address = "public" /\ d.unchecked = {} /\ ~d.forbidden /\ ~d.chosen
  /\ looked = {}
=============================================================================

------------------------------ MODULE Admission ------------------------------
(***************************************************************************)
(* One request through _proxy_catch_all_internal (api/main.py), from the   *)
(* route it takes to the attempt UpstreamCall makes with it: where it      *)
(* goes, who the caller is, which key it leaves with, how its values are   *)
(* masked, and what of its body leaves.  Every early return is a step of   *)
(* its own.  An action is the code between two awaits; the configuration   *)
(* may be reloaded between two actions.                                    *)
(*                                                                         *)
(* Counting limits are TokenBucket's, the roles in force ConfigReload's:   *)
(* here they may say yes or no.  A role sets its key and its masking       *)
(* modes; the other settings it may override are not modelled.             *)
(***************************************************************************)
EXTENDS Integers, FiniteSets

CONSTANTS Reloads   \* bound of the runs: how often the configuration is reloaded

ASSUME AdmissionAssumption == Reloads \in Nat

None == "none"

(* The two configurations name two upstreams and two keys for them. *)
Upstream(g) == IF g = 0 THEN "upstream" ELSE "new upstream"
GlobalKey(g) == IF g = 0 THEN "upstream's key" ELSE "new upstream's key"

(* Where a caller may ask to go: the configured upstream, a known          *)
(* provider, somebody else's public host, an address inside.               *)
Named == {"upstream", "new upstream", "provider", "elsewhere", "inside"}
Destinations == [host : Named, tls : BOOLEAN]
Nowhere == [host |-> None, tls |-> TRUE]

OneWay == {"SCRUB", "HMAC"}
Modes == OneWay \cup {"SYNTHETIC", "STRUCTURAL_TAG", "STATELESS_CRYPTO"}

VARIABLES
  settings,   \* what does not change with the reload
  gen,        \* how often the configuration was reloaded
  offer,      \* what the request says: method, upstream, body, rpc, fallback
  r           \* the request so far

avars == <<settings, gen, offer, r>>

AInit ==
  /\ gen = 0
  /\ settings \in [airGap : BOOLEAN, forward : BOOLEAN, clientMay : BOOLEAN,
                   swap : BOOLEAN, keyed : BOOLEAN, provided : BOOLEAN, failOpen : BOOLEAN]
  /\ offer \in [method : {"POST", "PUT"}, upstream : Destinations \cup {Nowhere}]
  /\ r = [at |-> "arrived", since |-> 0, to |-> None, tls |-> TRUE, caller |-> None,
          role |-> None, key |-> None, mode |-> None, body |-> None,
          spare |-> Nowhere, spareKey |-> None]

Goes(at) == r' = [r EXCEPT !.at = at]
(* Nothing more happens to an answered request. *)
Answers(status) == r' = [at |-> "answered", status |-> status]
Ours == UNCHANGED <<settings, gen, offer>>

-----------------------------------------------------------------------------
(* The route *)

NamesHost == offer.upstream # Nowhere /\ settings.clientMay

(* A preflight is answered before anything is looked at. *)
Preflight == r.at = "arrived" /\ Answers(204) /\ Ours

RoutesConfigured ==
  /\ r.at = "arrived" /\ ~NamesHost
  /\ r' = [r EXCEPT !.at = "routed", !.since = gen,
                    !.to = IF settings.airGap THEN "gateway" ELSE Upstream(gen)]
  /\ Ours

(* The caller's own host is resolved once, and the request is pinned to    *)
(* the address; one that is not public is refused.                         *)
RoutesNamed ==
  /\ r.at = "arrived" /\ NamesHost
  /\ IF offer.upstream.host = "inside" THEN Answers(403)
     ELSE r' = [r EXCEPT !.at = "routed", !.since = gen, !.to = offer.upstream.host,
                         !.tls = offer.upstream.tls]
  /\ Ours

(* A path that would leave the base path, or smuggle a query. *)
PathRefused == r.at = "routed" /\ Answers(400) /\ Ours

-----------------------------------------------------------------------------
(* The caller and its policy *)

(* A configured virtual key, a key shaped like a provider's (when open     *)
(* passthrough is on), or anything at all when OVERRIDE_CLIENT_AUTH is.    *)
Authenticates ==
  /\ r.at = "routed"
  /\ \E caller \in {"virtual", "byok", "stranger"} :
       IF caller = "stranger" /\ ~settings.swap THEN Answers(401)
       ELSE r' = [r EXCEPT !.at = "known", !.caller = caller]
  /\ Ours

(* enforce_key_policy: the role of the key, or the default role; with      *)
(* policies loaded and neither, FAIL_CLOSED refuses.                       *)
TakesRole ==
  /\ r.at = "known"
  /\ \/ \E role \in {None, "plain", "keyed", "scrubbed", "chooser"} :
          r' = [r EXCEPT !.at = "roled", !.role = role]
     \/ ~settings.failOpen /\ Answers(403)
  /\ Ours

(* Its agent identity, and its rate limit. *)
Enforced ==
  /\ r.at = "roled"
  /\ \E status \in {0, 401, 429} : IF status = 0 THEN Goes("enforced") ELSE Answers(status)
  /\ Ours

-----------------------------------------------------------------------------
(* The credential: no await between the checks and the choice *)

RoleKey == IF r.role = "keyed" THEN "role's key" ELSE None
SettingsKey == IF RoleKey # None THEN RoleKey
               ELSE IF settings.keyed THEN GlobalKey(gen) ELSE None
ProxyKeyInUse == r.caller = "virtual" \/ (settings.swap /\ SettingsKey # None)

(* resolve_upstream_key *)
UpstreamKey(h) == IF h = "provider" /\ settings.provided THEN "provider's key" ELSE SettingsKey

(* Mutant: a key is bound to the host, not to TLS. *)
KeyForNamedHostAnyScheme(h, tls) ==
  CASE h = Upstream(gen) -> UpstreamKey(h)
    [] h = "provider" /\ settings.provided -> "provider's key"
    [] OTHER -> None

(* proxy_key_for_client_chosen_host: the configured upstream gets the key  *)
(* it gets anyway, a known provider its own, over TLS; nobody else any.    *)
KeyForNamedHost(h, tls) ==
  CASE ~tls -> None
    [] tls /\ h = Upstream(gen) -> UpstreamKey(h)
    [] tls /\ h = "provider" /\ settings.provided -> "provider's key"
    [] OTHER -> None

(* A named host that may get no key, or that a role with a key of its own  *)
(* does not go to.                                                         *)
HostMayNotHaveKey ==
  /\ ProxyKeyInUse /\ NamesHost
  /\ KeyForNamedHost(r.to, r.tls) = None \/ (RoleKey # None /\ r.to # Upstream(gen))

Stripped(key) == IF settings.airGap /\ ~settings.forward THEN None ELSE key

(* Mutant: a virtual key is swapped for the proxy's, whatever its role.    *)
ChosenKeyOfAnyRole ==
  IF r.caller = "virtual" /\ ~NamesHost /\ settings.keyed THEN GlobalKey(gen)
  ELSE IF ProxyKeyInUse THEN SettingsKey ELSE "caller's key"

ChosenKey ==
  CASE r.caller = "virtual" /\ RoleKey # None -> RoleKey
    [] r.caller = "virtual" /\ RoleKey = None ->
         IF NamesHost THEN KeyForNamedHost(r.to, r.tls) ELSE UpstreamKey(r.to)
    [] r.caller # "virtual" /\ ProxyKeyInUse ->
         IF NamesHost /\ RoleKey = None THEN KeyForNamedHost(r.to, r.tls) ELSE SettingsKey
    [] OTHER -> "caller's key"

ChoosesKey ==
  /\ r.at = "enforced"
  /\ CASE HostMayNotHaveKey -> Answers(403)
       [] ~HostMayNotHaveKey /\ ChosenKey = None -> Answers(500)
       [] OTHER -> r' = [r EXCEPT !.at = "keyed", !.key = Stripped(ChosenKey)]
  /\ Ours

-----------------------------------------------------------------------------
(* The masking mode: what the role enforces, else what the header asks for *)
(* and the role allows, else the default.                                  *)
MayAsk == IF r.role = "chooser" THEN OneWay ELSE Modes

MasksAs(mode) == r' = [r EXCEPT !.at = "masked", !.mode = mode]

TakesMode ==
  /\ r.at = "keyed"
  /\ IF r.role = "scrubbed" THEN MasksAs("SCRUB")
     ELSE \E asked \in Modes \cup {None} :
            CASE asked = None -> MasksAs("SYNTHETIC")
              [] asked \in MayAsk -> MasksAs(asked)
              [] OTHER -> Answers(403)
  /\ Ours

-----------------------------------------------------------------------------
(* The body *)

(* Too slow, too large, or no JSON: a POST is refused at once.  A second   *)
(* read is what a POST of a JSON array comes to: the stream is consumed.   *)
ReadsPost ==
  /\ r.at = "masked" /\ offer.method = "POST"
  /\ \/ \E status \in {408, 413, 400, 500} : Answers(status)
     \/ Goes("read")
  /\ Ours

(* The circuit breaker, for a session that did not ask to bypass it. *)
BreakerTrips == r.at = "read" /\ offer.method = "POST" /\ Answers(429) /\ Ours

(* Mutant: any JSON-RPC body does. *)
TakesStatelessAnyMode ==
  /\ r.at = "read" /\ offer.method = "POST"
  /\ \E scanned \in BOOLEAN : ~scanned /\ Goes("stateless")
  /\ Ours

(* JSON-RPC bodies take the stateless branch, which can be restored by     *)
(* whoever holds the key: not in a one-way mode, and not for a streamed    *)
(* reply that is to be scanned.                                            *)
TakesStateless ==
  /\ r.at = "read" /\ offer.method = "POST"
  /\ r.mode \notin OneWay
  /\ \E scanned \in BOOLEAN : ~scanned /\ Goes("stateless")
  /\ Ours

Leaves(body) == r' = [r EXCEPT !.at = "inspected", !.body = body]

(* No key for it is 503, too deep 400. *)
Encrypts ==
  /\ r.at = "stateless"
  /\ \/ Leaves("encrypted")
     \/ \E status \in {503, 400} : Answers(status)
  /\ Ours

(* A blob that cannot be inspected is 413; too deep, or a shape the walk   *)
(* cannot take, is 400, in every failure mode; an HMAC without its secret  *)
(* is a ValueError, which nothing here catches.                            *)
Redacts ==
  /\ r.at = "read" /\ offer.method = "POST"
  /\ \/ Leaves("redacted")
     \/ \E status \in {413, 400} : Answers(status)
     \/ r.mode = "HMAC" /\ Answers(500)
  /\ Ours

(* Mutant: FAIL_OPEN keeps traffic flowing, with the body as it came. *)
EngineFailsRaw ==
  /\ r.at \in {"read", "stateless"}
  /\ IF settings.failOpen THEN Leaves("raw") ELSE Answers(503)
  /\ Ours

(* The engine fails: refused, or one pass over the text of it, or refused. *)
EngineFails ==
  /\ r.at \in {"read", "stateless"}
  /\ Answers(503) \/ (settings.failOpen /\ Leaves("text pass"))
  /\ Ours

(* Any other method: no body, one that is no JSON and no text, or is not   *)
(* let through as text, or JSON of any type.                               *)
ReadsOther ==
  /\ r.at = "masked" /\ offer.method # "POST"
  /\ \/ \E status \in {408, 413, 400, 415} : Answers(status)
     \/ Leaves(None)
     \/ settings.failOpen /\ (Leaves("text pass") \/ Answers(503))
     \/ Goes("read")
  /\ Ours

RedactsOther ==
  /\ r.at = "read" /\ offer.method # "POST"
  /\ \/ Leaves("redacted")
     \/ \E status \in {413, 400} : Answers(status)
  /\ Ours

BlastRadiusExceeded ==
  /\ r.at = "inspected" /\ r.body \in {"redacted", "encrypted"}
  /\ Answers(429) /\ Ours

-----------------------------------------------------------------------------
(* The fallback *)

(* What the caller's fallback may carry; "fallback" is the configured one. *)
KeyForSpare(h, tls, own) ==
  CASE h = "fallback" -> own
    [] h # "fallback" /\ ProxyKeyInUse ->
         IF RoleKey # None THEN None ELSE KeyForNamedHost(h, tls)
    [] OTHER -> "caller's key"

SpareForbidden(h, tls, own) ==
  /\ ProxyKeyInUse
  /\ (h = "fallback" /\ ~tls) \/ (h # "fallback" /\ KeyForSpare(h, tls, own) = None)

(* What an attempt at the fallback carries: its key, or, when the proxy    *)
(* supplies the credential, none.                                          *)
SpareCarries(key) ==
  IF key # None THEN key ELSE IF ProxyKeyInUse THEN None ELSE "caller's key"

WithSpare(h, tls, key) ==
  r' = [r EXCEPT !.at = "sent", !.spare = [host |-> h, tls |-> tls],
                 !.spareKey = SpareCarries(key)]

(* FALLBACK_UPSTREAM_API_KEY is read here alone. *)
TakesSpare ==
  /\ r.at = "inspected"
  /\ \E own \in {"fallback's key", None} :
       \/ Goes("sent")
       \/ WithSpare("fallback", TRUE, own)
       \/ /\ settings.clientMay /\ offer.method = "POST"
          /\ \E h \in Named \cup {"fallback"}, tls \in BOOLEAN :
               IF h = "inside" \/ SpareForbidden(h, tls, own) THEN Answers(403)
               ELSE WithSpare(h, tls, KeyForSpare(h, tls, own))
  /\ Ours

(* A reload after its end says nothing more of the request. *)
ConfigurationReloads ==
  /\ r.at \notin {"answered", "sent"}
  /\ gen < Reloads /\ gen' = gen + 1
  /\ UNCHANGED <<settings, offer, r>>

ANext ==
  \/ Preflight \/ RoutesConfigured \/ RoutesNamed \/ PathRefused
  \/ Authenticates \/ TakesRole \/ Enforced \/ ChoosesKey \/ TakesMode
  \/ ReadsPost \/ BreakerTrips \/ TakesStateless \/ Encrypts \/ Redacts \/ EngineFails
  \/ ReadsOther \/ RedactsOther \/ BlastRadiusExceeded \/ TakesSpare
  \/ ConfigurationReloads

ASpec == AInit /\ [][ANext]_avars

-----------------------------------------------------------------------------
Sent == r.at = "sent"

(* Who may hold each key. *)
BelongsTo(key, h, tls) ==
  CASE key = "upstream's key" -> h \in {"upstream", "gateway"} /\ tls
    [] key = "new upstream's key" -> h \in {"new upstream", "gateway"} /\ tls
    [] key = "role's key" -> h \in {"upstream", "new upstream", "gateway"} /\ tls
    [] key = "provider's key" -> h = "provider" /\ tls
    [] key = "fallback's key" -> h = "fallback"
    [] OTHER -> TRUE

NotReloaded == r.since = gen

(* A key the proxy holds leaves only for the host it was configured for,   *)
(* over TLS, in the first attempt and in the one at the fallback, however  *)
(* the caller names hosts (main.py:842-880, 1204-1300, 1688-1735).         *)
KeysLeaveForTheirHosts ==
  Sent /\ NotReloaded =>
    /\ BelongsTo(r.key, r.to, r.tls)
    /\ r.spare # Nowhere => BelongsTo(r.spareKey, r.spare.host, r.spare.tls)

(* A caller whose role has a key of its own never spends another of the    *)
(* proxy's, nor makes a host of its choice the fallback                    *)
(* (main.py:1224-1243, 1716-1724).                                         *)
RoleKeyIsExclusive ==
  Sent /\ r.role = "keyed" /\ r.caller = "virtual" =>
    /\ r.key \in {"role's key", None}
    /\ r.spare # Nowhere => r.spareKey \in {"fallback's key", None}

(* No body leaves as it came: it is redacted, encrypted, or passed over as *)
(* text, in either failure mode and for any method (main.py:1614-1655,     *)
(* 2112-2220).                                                             *)
NothingLeavesRaw == Sent => r.body \in {None, "redacted", "encrypted", "text pass"}

(* A request masked one way carries nothing that can be restored, and a    *)
(* role that enforces or restricts modes gets one of them                  *)
(* (masking.py:39-81, main.py:1437-1446).                                  *)
OneWayStaysOneWay ==
  Sent => /\ r.mode \in OneWay => r.body # "encrypted"
          /\ r.role = "scrubbed" => r.mode = "SCRUB"

(* What leaves: with whose key, and in what state (main.py:1204-1300,      *)
(* 1614-1655, 1688-1735; masking.py:39-81).                                *)
KeysArePlaced == KeysLeaveForTheirHosts /\ RoleKeyIsExclusive
BodiesAreMasked == NothingLeavesRaw /\ OneWayStaysOneWay
=============================================================================

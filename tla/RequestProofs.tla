----------------------------- MODULE RequestProofs -----------------------------
(***************************************************************************)
(* One request and its reply, for every value of the constants: where it   *)
(* goes, with whose key and how it is masked (Admission), what it may ask  *)
(* of a tool server (McpGateway), what comes back of a reply that is not   *)
(* streamed (RestReply), and how the spans found in a text become one      *)
(* masked text (SpanSelection).                                            *)
(***************************************************************************)
EXTENDS Admission, McpGateway, RestReply, SpanSelection, SequenceLemmas, FunctionTheorems,
        FiniteSetTheorems, WellFoundedInduction, TLAPS

(***************************************************************************)
(* One request (Admission).  What a stage has settled stays settled: where *)
(* the request goes, whose key it leaves with and how it is masked, under  *)
(* the configuration that was in force when it was routed.                 *)
(***************************************************************************)
FromSent == {"sent"}
FromInspected == FromSent \cup {"inspected"}
FromMasked == FromInspected \cup {"masked", "read", "stateless"}
FromKeyed == FromMasked \cup {"keyed"}
FromRouted == FromKeyed \cup {"routed", "known", "roled", "enforced"}

Settings ==
  [airGap : BOOLEAN, forward : BOOLEAN, clientMay : BOOLEAN,
   swap : BOOLEAN, keyed : BOOLEAN, provided : BOOLEAN, failOpen : BOOLEAN]
Keys ==
  {"upstream's key", "new upstream's key", "role's key", "provider's key", "fallback's key",
   "caller's key", None}
Request ==
  [at : FromRouted \cup {"arrived"}, since : Nat, to : Named \cup {"gateway", None}, tls : BOOLEAN,
   caller : {"virtual", "byok", "stranger", None},
   role : {"plain", "keyed", "scrubbed", "chooser", None},
   key : Keys, mode : Modes \cup {None}, body : {"redacted", "encrypted", "text pass", None},
   spare : [host : Named \cup {"fallback", None}, tls : BOOLEAN], spareKey : Keys]

AdmissionTypes ==
  /\ settings \in Settings /\ gen \in Nat
  /\ offer \in [method : {"POST", "PUT"}, upstream : Destinations \cup {Nowhere}]
  /\ r \in Request \/ r.at = "answered"

(* A request goes to the upstream in force when it was routed, or to the   *)
(* host it named.                                                          *)
RouteIsSettled ==
  /\ r.at = "arrived" => r.tls
  /\ r.at \in FromRouted =>
       /\ r.since <= gen
       /\ ~NamesHost => r.tls /\ (NotReloaded => r.to \in {"gateway", Upstream(gen)})

KeyIsSettled ==
  r.at \in FromKeyed =>
    /\ NotReloaded => BelongsTo(r.key, r.to, r.tls)
    /\ r.role = "keyed" /\ r.caller = "virtual" => r.key \in {"role's key", None}

MaskIsSettled ==
  /\ r.at \in FromMasked /\ r.role = "scrubbed" => r.mode = "SCRUB"
  /\ r.at = "stateless" \/ (r.at \in FromInspected /\ r.body = "encrypted") => r.mode \notin OneWay

SpareIsSettled ==
  /\ r.at \notin FromSent \cup {"answered"} => r.spare = Nowhere
  /\ r.at \in FromSent /\ r.spare # Nowhere =>
       /\ NotReloaded => BelongsTo(r.spareKey, r.spare.host, r.spare.tls)
       /\ r.role = "keyed" /\ r.caller = "virtual" => r.spareKey \in {"fallback's key", None}

AdmissionInv ==
  AdmissionTypes /\ RouteIsSettled /\ KeyIsSettled /\ MaskIsSettled /\ SpareIsSettled

LEMMA AdmissionInit == AInit => AdmissionInv
BY DEF AInit, AdmissionInv, AdmissionTypes, RouteIsSettled, KeyIsSettled, MaskIsSettled,
       SpareIsSettled, Settings, Request, Keys, FromRouted, FromKeyed, FromMasked, FromInspected, FromSent, Nowhere,
       None

LEMMA Answered == ASSUME AdmissionInv, NEW status, Answers(status), Ours PROVE AdmissionInv'
BY DEF Answers, Ours, AdmissionInv, AdmissionTypes, RouteIsSettled, KeyIsSettled, MaskIsSettled,
       SpareIsSettled, FromRouted, FromKeyed, FromMasked, FromInspected, FromSent

LEMMA OwnFields ==
  ASSUME AdmissionTypes, r.at # "answered"
  PROVE  /\ r \in Request
         /\ r = [at |-> r.at, since |-> r.since, to |-> r.to, tls |-> r.tls, caller |-> r.caller,
                 role |-> r.role, key |-> r.key, mode |-> r.mode, body |-> r.body,
                 spare |-> r.spare, spareKey |-> r.spareKey]
BY DEF AdmissionTypes, Request

(* A step between the route and the fallback leaves the route as it is.    *)
LEMMA RouteStays ==
  ASSUME AdmissionInv, Ours, r.at \in FromRouted \ FromSent,
         r' \in Request, r'.at \in FromRouted \ FromSent,
         r'.since = r.since, r'.to = r.to, r'.tls = r.tls, r'.spare = r.spare,
         KeyIsSettled', MaskIsSettled'
  PROVE  AdmissionInv'
<1>1. AdmissionTypes'
  BY DEF AdmissionInv, AdmissionTypes, Ours
<1>2. RouteIsSettled'
  BY DEF AdmissionInv, RouteIsSettled, Ours, NamesHost, NotReloaded, FromRouted, FromKeyed, FromMasked,
         FromInspected, FromSent
<1>3. SpareIsSettled'
  BY DEF AdmissionInv, SpareIsSettled, FromRouted, FromKeyed, FromMasked, FromInspected, FromSent
<1>. QED
  BY <1>1, <1>2, <1>3 DEF AdmissionInv

(* And one after the key is chosen, the key. *)
LEMMA KeyStays ==
  ASSUME AdmissionInv, Ours, r.at \in FromKeyed \ FromSent,
         r' \in Request, r'.at \in FromKeyed \ FromSent,
         r'.since = r.since, r'.to = r.to, r'.tls = r.tls, r'.spare = r.spare,
         r'.key = r.key, r'.role = r.role, r'.caller = r.caller, MaskIsSettled'
  PROVE  AdmissionInv'
<1>1. KeyIsSettled'
  BY DEF AdmissionInv, KeyIsSettled, Ours, NotReloaded, BelongsTo
<1>2. r.at \in FromRouted \ FromSent /\ r'.at \in FromRouted \ FromSent
  BY DEF FromRouted
<1>. QED
  BY <1>1, <1>2, RouteStays

LEMMA RoutesStep ==
  ASSUME AdmissionInv, RoutesConfigured \/ RoutesNamed
  PROVE  AdmissionInv'
<1>1. CASE \E status : Answers(status)
  BY <1>1, Answered DEF RoutesConfigured, RoutesNamed
<1>2. CASE \E to \in Named \cup {"gateway"}, tls \in BOOLEAN :
             /\ r' = [r EXCEPT !.at = "routed", !.since = gen, !.to = to, !.tls = tls]
             /\ ~NamesHost => tls /\ to \in {"gateway", Upstream(gen)}
  <2>1. PICK to \in Named \cup {"gateway"}, tls \in BOOLEAN :
             /\ r' = [r EXCEPT !.at = "routed", !.since = gen, !.to = to, !.tls = tls]
             /\ ~NamesHost => tls /\ to \in {"gateway", Upstream(gen)}
    BY <1>2
  <2>2. /\ r.at = "arrived" /\ r \in Request /\ gen \in Nat /\ Ours /\ r.spare = Nowhere
    BY OwnFields DEF RoutesConfigured, RoutesNamed, AdmissionInv, AdmissionTypes, SpareIsSettled, FromSent
  <2>3. /\ r' \in Request /\ r'.at = "routed" /\ r'.since = gen /\ r'.to = to /\ r'.tls = tls
        /\ r'.spare = Nowhere
    BY <2>1, <2>2 DEF Request, FromRouted
  <2>4. RouteIsSettled'
    BY <2>1, <2>2, <2>3 DEF RouteIsSettled, Ours, NamesHost
  <2>. QED
    BY <2>2, <2>3, <2>4
       DEF AdmissionInv, AdmissionTypes, Ours, KeyIsSettled, MaskIsSettled, SpareIsSettled, FromKeyed,
           FromMasked, FromInspected, FromSent
<1>. QED
  <2>1. CASE RoutesNamed /\ offer.upstream.host = "inside"
    BY <1>1, <2>1 DEF RoutesNamed
  <2>2. CASE RoutesNamed /\ offer.upstream.host # "inside"
    <3>1. offer.upstream \in Destinations /\ NamesHost
      BY <2>2 DEF RoutesNamed, NamesHost, AdmissionInv, AdmissionTypes
    <3>2. offer.upstream.host \in Named /\ offer.upstream.tls \in BOOLEAN
      BY <3>1 DEF Destinations
    <3>. QED
      BY <1>2, <2>2, <3>1, <3>2 DEF RoutesNamed
  <2>3. CASE RoutesConfigured
    <3>1. r.tls = TRUE /\ r \in Request /\ ~NamesHost
      BY <2>3, OwnFields DEF RoutesConfigured, AdmissionInv, RouteIsSettled, Request
    <3>. DEFINE to == IF settings.airGap THEN "gateway" ELSE Upstream(gen)
    <3>2. r' = [r EXCEPT !.at = "routed", !.since = gen, !.to = to, !.tls = TRUE]
      BY <2>3, <3>1 DEF RoutesConfigured, Request
    <3>3. to \in Named \cup {"gateway"} /\ to \in {"gateway", Upstream(gen)}
      BY DEF Upstream, Named
    <3>. QED
      BY <1>2, <3>1, <3>2, <3>3
  <2>. QED
    BY <2>1, <2>2, <2>3

LEMMA AuthStep ==
  ASSUME AdmissionInv, Authenticates \/ TakesRole \/ Enforced
  PROVE  AdmissionInv'
<1>0. r.at \in {"routed", "known", "roled"} /\ Ours /\ r \in Request
  BY OwnFields DEF Authenticates, TakesRole, Enforced, AdmissionInv
<1>1. CASE \E status : Answers(status)
  BY <1>0, <1>1, Answered
<1>2. CASE \E caller \in {"virtual", "byok", "stranger"} : r' = [r EXCEPT !.at = "known", !.caller = caller]
  <2>1. /\ r' \in Request /\ r'.at = "known" /\ r'.since = r.since /\ r'.to = r.to /\ r'.tls = r.tls
        /\ r'.spare = r.spare
    BY <1>0, <1>2, ZenonT(60) DEF Request, FromRouted
  <2>. QED
    BY <1>0, <2>1, RouteStays DEF FromRouted, FromKeyed, FromMasked, FromInspected, FromSent, KeyIsSettled, MaskIsSettled
<1>3. CASE \E role \in {None, "plain", "keyed", "scrubbed", "chooser"} :
             r' = [r EXCEPT !.at = "roled", !.role = role]
  <2>1. /\ r' \in Request /\ r'.at = "roled" /\ r'.since = r.since /\ r'.to = r.to /\ r'.tls = r.tls
        /\ r'.spare = r.spare
    BY <1>0, <1>3, ZenonT(60) DEF Request, FromRouted
  <2>. QED
    BY <1>0, <2>1, RouteStays DEF FromRouted, FromKeyed, FromMasked, FromInspected, FromSent, KeyIsSettled, MaskIsSettled
<1>4. CASE r' = [r EXCEPT !.at = "enforced"]
  <2>1. /\ r' \in Request /\ r'.at = "enforced" /\ r'.since = r.since /\ r'.to = r.to /\ r'.tls = r.tls
        /\ r'.spare = r.spare
    BY <1>0, <1>4 DEF Request, FromRouted
  <2>. QED
    BY <1>0, <2>1, RouteStays DEF FromRouted, FromKeyed, FromMasked, FromInspected, FromSent, KeyIsSettled, MaskIsSettled
<1>. QED
  BY <1>1, <1>2, <1>3, <1>4 DEF Authenticates, TakesRole, Enforced, Goes

(* The key that is chosen is its host's, as long as the configuration is   *)
(* the one the request was routed by.                                      *)
LEMMA ChosenKeyBelongs ==
  ASSUME AdmissionTypes, RouteIsSettled, r.at = "enforced", NotReloaded, ~HostMayNotHaveKey
  PROVE  BelongsTo(ChosenKey, r.to, r.tls)
<1>0. r \in Request /\ (~NamesHost => r.tls = TRUE /\ r.to \in {"gateway", Upstream(gen)})
  BY OwnFields DEF RouteIsSettled, FromRouted, Request
<1>1. CASE ~NamesHost
  <2>1. BelongsTo(SettingsKey, r.to, r.tls)
    BY <1>0, <1>1 DEF BelongsTo, SettingsKey, RoleKey, GlobalKey, Upstream, None
  <2>2. UpstreamKey(r.to) = SettingsKey
    BY <1>0, <1>1 DEF UpstreamKey, Upstream
  <2>3. RoleKey # None => SettingsKey = RoleKey
    BY DEF SettingsKey
  <2>4. BelongsTo("caller's key", r.to, r.tls)
    BY DEF BelongsTo
  <2>. QED
    BY <1>1, <2>1, <2>2, <2>3, <2>4 DEF ChosenKey
<1>2. CASE NamesHost
  <2>1. BelongsTo(KeyForNamedHost(r.to, r.tls), r.to, r.tls)
    BY <1>0 DEF BelongsTo, KeyForNamedHost, UpstreamKey, SettingsKey, RoleKey, GlobalKey, Upstream, None, Request
  <2>2. CASE ProxyKeyInUse /\ RoleKey # None
    <3>1. r.to = Upstream(gen) /\ r.tls
      BY <1>2, <2>2 DEF HostMayNotHaveKey, KeyForNamedHost
    <3>. QED
      BY <2>2, <3>1 DEF BelongsTo, ChosenKey, SettingsKey, RoleKey, Upstream, None
  <2>3. CASE ~ProxyKeyInUse \/ RoleKey = None
    BY <1>2, <2>1, <2>3 DEF ChosenKey, BelongsTo, ProxyKeyInUse, None
  <2>. QED
    BY <2>2, <2>3
<1>. QED
  BY <1>1, <1>2

LEMMA ChoosesKeyStep == ASSUME AdmissionInv, ChoosesKey PROVE AdmissionInv'
<1>0. r.at = "enforced" /\ Ours /\ r \in Request
  BY OwnFields DEF ChoosesKey, AdmissionInv
<1>1. CASE \E status : Answers(status)
  BY <1>0, <1>1, Answered
<1>2. CASE ~HostMayNotHaveKey /\ r' = [r EXCEPT !.at = "keyed", !.key = Stripped(ChosenKey)]
  <2>. DEFINE key == Stripped(ChosenKey)
  <2>1. key \in Keys
    BY DEF ChosenKey, Stripped, Keys, RoleKey, SettingsKey, KeyForNamedHost, UpstreamKey, GlobalKey
  <2>2. NotReloaded => BelongsTo(key, r.to, r.tls)
    BY <1>0, <1>2, ChosenKeyBelongs DEF Stripped, AdmissionInv, BelongsTo, None
  <2>3. r.role = "keyed" /\ r.caller = "virtual" => key \in {"role's key", None}
    BY DEF ChosenKey, Stripped, RoleKey, None
  <2>. HIDE DEF key
  <2>4. /\ r' \in Request /\ r'.at = "keyed" /\ r'.since = r.since /\ r'.to = r.to /\ r'.tls = r.tls
        /\ r'.spare = r.spare /\ r'.key = key /\ r'.role = r.role /\ r'.caller = r.caller
    BY <1>0, <1>2, <2>1 DEF Request, FromRouted, FromKeyed, key
  <2>5. KeyIsSettled'
    BY <1>0, <2>2, <2>3, <2>4 DEF KeyIsSettled, NotReloaded, Ours, BelongsTo
  <2>. QED
    BY <1>0, <2>4, <2>5, RouteStays DEF FromRouted, FromKeyed, FromMasked, FromInspected, FromSent, MaskIsSettled
<1>. QED
  BY <1>1, <1>2 DEF ChoosesKey

LEMMA TakesModeStep == ASSUME AdmissionInv, TakesMode PROVE AdmissionInv'
<1>0. r.at = "keyed" /\ Ours /\ r \in Request
  BY OwnFields DEF TakesMode, AdmissionInv
<1>1. CASE \E status : Answers(status)
  BY <1>0, <1>1, Answered
<1>2. CASE \E mode \in Modes : MasksAs(mode) /\ (r.role = "scrubbed" => mode = "SCRUB")
  <2>1. /\ r' \in Request /\ r'.at = "masked" /\ r'.since = r.since /\ r'.to = r.to /\ r'.tls = r.tls
        /\ r'.spare = r.spare /\ r'.key = r.key /\ r'.role = r.role /\ r'.caller = r.caller
        /\ r.role = "scrubbed" => r'.mode = "SCRUB"
    BY <1>0, <1>2, ZenonT(60) DEF MasksAs, Request, FromRouted, FromKeyed, FromMasked
  <2>2. MaskIsSettled'
    BY <2>1 DEF MaskIsSettled, FromMasked, FromInspected, FromSent
  <2>. QED
    BY <1>0, <2>1, <2>2, KeyStays DEF FromKeyed, FromMasked, FromInspected, FromSent
<1>. QED
  <2>1. CASE r.role = "scrubbed"
    BY <1>2, <2>1 DEF TakesMode, Modes, OneWay
  <2>2. CASE r.role # "scrubbed"
    <3>1. PICK asked \in Modes \cup {None} :
            CASE asked = None -> MasksAs("SYNTHETIC")
              [] asked \in MayAsk -> MasksAs(asked)
              [] OTHER -> Answers(403)
      BY <2>2 DEF TakesMode
    <3>2. "SYNTHETIC" \in Modes /\ None \notin MayAsk /\ MayAsk \subseteq Modes
      BY DEF Modes, None, MayAsk, OneWay
    <3>. QED
      BY <1>1, <1>2, <2>2, <3>1, <3>2
  <2>. QED
    BY <2>1, <2>2

(* The body: what is read, and what leaves of it. *)
LEMMA BodyStep ==
  ASSUME AdmissionInv,
         ReadsPost \/ ReadsOther \/ TakesStateless \/ Encrypts \/ Redacts \/ RedactsOther \/ EngineFails
  PROVE  AdmissionInv'
<1>0. r.at \in {"masked", "read", "stateless"} /\ Ours /\ r \in Request
  BY OwnFields
     DEF ReadsPost, ReadsOther, TakesStateless, Encrypts, Redacts, RedactsOther, EngineFails, AdmissionInv
<1>1. CASE \E status : Answers(status)
  BY <1>0, <1>1, Answered
<1>2. CASE \E stage \in {"read", "stateless"} :
             r' = [r EXCEPT !.at = stage] /\ (stage = "stateless" => r.mode \notin OneWay)
  <2>1. /\ r' \in Request /\ r'.at \in {"read", "stateless"} /\ r'.since = r.since /\ r'.to = r.to
        /\ r'.tls = r.tls /\ r'.spare = r.spare /\ r'.key = r.key /\ r'.role = r.role
        /\ r'.caller = r.caller /\ r'.mode = r.mode
        /\ r'.at = "stateless" => r.mode \notin OneWay
    BY <1>0, <1>2, ZenonT(60) DEF Request, FromRouted, FromKeyed, FromMasked
  <2>2. MaskIsSettled'
    BY <1>0, <2>1 DEF AdmissionInv, MaskIsSettled, FromMasked, FromInspected, FromSent
  <2>. QED
    BY <1>0, <2>1, <2>2, KeyStays DEF FromKeyed, FromMasked, FromInspected, FromSent
<1>3. CASE \E body \in {"redacted", "encrypted", "text pass", None} :
             Leaves(body) /\ (body = "encrypted" => r.at = "stateless")
  <2>1. /\ r' \in Request /\ r'.at = "inspected" /\ r'.since = r.since /\ r'.to = r.to
        /\ r'.tls = r.tls /\ r'.spare = r.spare /\ r'.key = r.key /\ r'.role = r.role
        /\ r'.caller = r.caller /\ r'.mode = r.mode
        /\ r'.body = "encrypted" => r.at = "stateless"
    <3>1. PICK body \in {"redacted", "encrypted", "text pass", None} :
            r' = [r EXCEPT !.at = "inspected", !.body = body] /\ (body = "encrypted" => r.at = "stateless")
      BY <1>3 DEF Leaves
    <3>. QED
      BY <1>0, <3>1 DEF Request, FromRouted, FromKeyed, FromMasked, FromInspected
  <2>2. MaskIsSettled'
    BY <1>0, <2>1 DEF AdmissionInv, MaskIsSettled, FromMasked, FromInspected, FromSent
  <2>. QED
    BY <1>0, <2>1, <2>2, KeyStays DEF FromKeyed, FromMasked, FromInspected, FromSent
<1>. QED
  <2>1. CASE ReadsPost
    BY <1>1, <1>2, <2>1 DEF ReadsPost, Goes
  <2>4. CASE ReadsOther
    <3>1. \/ \E status : Answers(status)
          \/ Leaves(None) \/ Leaves("text pass")
          \/ Goes("read")
      BY <2>4, ZenonT(60) DEF ReadsOther
    <3>2. None # "encrypted"
      BY DEF None
    <3>. QED
      BY <1>1, <1>2, <1>3, <3>1, <3>2 DEF Goes
  <2>2. CASE TakesStateless
    BY <1>2, <2>2 DEF TakesStateless, Goes
  <2>3. CASE Encrypts \/ Redacts \/ RedactsOther \/ EngineFails
    BY <1>1, <1>3, <2>3, ZenonT(60) DEF Encrypts, Redacts, RedactsOther, EngineFails
  <2>. QED
    BY <2>1, <2>2, <2>3, <2>4

(* The key of the fallback is the fallback's, or that of the host the      *)
(* caller names for it.                                                    *)
LEMMA SpareStep == ASSUME AdmissionInv, TakesSpare PROVE AdmissionInv'
<1>0. r.at = "inspected" /\ Ours /\ r \in Request /\ r.spare = Nowhere
  BY OwnFields DEF TakesSpare, AdmissionInv, SpareIsSettled, FromSent
<1>. DEFINE Sound(h, tls, key) ==
       /\ NotReloaded => BelongsTo(key, h, tls)
       /\ r.role = "keyed" /\ r.caller = "virtual" => key \in {"fallback's key", None}
<1>1. CASE \E status : Answers(status)
  BY <1>0, <1>1, Answered
<1>2. CASE Goes("sent")
  <2>1. /\ r' \in Request /\ r'.at = "sent" /\ r'.since = r.since /\ r'.to = r.to
        /\ r'.tls = r.tls /\ r'.spare = r.spare /\ r'.key = r.key /\ r'.role = r.role
        /\ r'.caller = r.caller /\ r'.mode = r.mode /\ r'.body = r.body
    BY <1>0, <1>2 DEF Goes, Request, FromRouted, FromKeyed, FromMasked, FromInspected, FromSent
  <2>. QED
    BY <1>0, <2>1
       DEF AdmissionInv, AdmissionTypes, Ours, RouteIsSettled, NamesHost, NotReloaded, KeyIsSettled,
           MaskIsSettled, SpareIsSettled, BelongsTo, FromRouted, FromKeyed, FromMasked, FromInspected, FromSent
<1>3. CASE \E h \in Named \cup {"fallback"}, tls \in BOOLEAN, key \in Keys :
             WithSpare(h, tls, key) /\ Sound(h, tls, SpareCarries(key))
  <2>1. PICK h \in Named \cup {"fallback"}, tls \in BOOLEAN, key \in Keys :
             WithSpare(h, tls, key) /\ Sound(h, tls, SpareCarries(key))
    BY <1>3
  <2>. DEFINE carried == SpareCarries(key)
  <2>2. carried \in Keys
    BY DEF SpareCarries, Keys
  <2>. HIDE DEF carried
  <2>3. r' = [r EXCEPT !.at = "sent", !.spare = [host |-> h, tls |-> tls], !.spareKey = carried]
    BY <2>1 DEF WithSpare, carried
  <2>4. /\ r' \in Request /\ r'.at = "sent" /\ r'.since = r.since /\ r'.to = r.to
        /\ r'.tls = r.tls /\ r'.key = r.key /\ r'.role = r.role
        /\ r'.caller = r.caller /\ r'.mode = r.mode /\ r'.body = r.body
        /\ r'.spare.host = h /\ r'.spare.tls = tls /\ r'.spareKey = carried
    BY <1>0, <2>2, <2>3 DEF Request, FromRouted, FromKeyed, FromMasked, FromInspected, FromSent
  <2>5. Sound(h, tls, carried)
    BY <2>1 DEF carried
  <2>6. SpareIsSettled'
    BY <1>0, <2>4, <2>5 DEF SpareIsSettled, NotReloaded, Ours, FromSent, BelongsTo
  <2>. QED
    BY <1>0, <2>4, <2>6
       DEF AdmissionInv, AdmissionTypes, Ours, RouteIsSettled, NamesHost, NotReloaded, KeyIsSettled,
           MaskIsSettled, BelongsTo, FromRouted, FromKeyed, FromMasked, FromInspected, FromSent
<1>4. ASSUME NEW own \in {"fallback's key", None} PROVE Sound("fallback", TRUE, SpareCarries(own)) /\ own \in Keys
  BY DEF BelongsTo, SpareCarries, ProxyKeyInUse, Keys, None
<1>5. ASSUME NEW own \in {"fallback's key", None}, NEW h \in Named \cup {"fallback"}, NEW tls \in BOOLEAN,
             ~SpareForbidden(h, tls, own)
      PROVE  Sound(h, tls, SpareCarries(KeyForSpare(h, tls, own))) /\ KeyForSpare(h, tls, own) \in Keys
  <2>1. CASE h = "fallback"
    <3>1. KeyForSpare(h, tls, own) = own
      BY <2>1 DEF KeyForSpare
    <3>. QED
      BY <2>1, <3>1 DEF BelongsTo, SpareCarries, ProxyKeyInUse, Keys, None
  <2>2. CASE h # "fallback" /\ ~ProxyKeyInUse
    <3>1. KeyForSpare(h, tls, own) = "caller's key"
      BY <2>2 DEF KeyForSpare
    <3>. QED
      BY <2>2, <3>1 DEF BelongsTo, SpareCarries, ProxyKeyInUse, Keys, None
  <2>3. CASE h # "fallback" /\ ProxyKeyInUse /\ RoleKey # None
    <3>1. KeyForSpare(h, tls, own) = None
      BY <2>3 DEF KeyForSpare
    <3>. QED
      BY <2>3, <3>1 DEF BelongsTo, SpareCarries, Keys, None
  <2>4. CASE h # "fallback" /\ ProxyKeyInUse /\ RoleKey = None
    <3>1. KeyForSpare(h, tls, own) = KeyForNamedHost(h, tls)
      BY <2>4 DEF KeyForSpare
    <3>2. BelongsTo(KeyForNamedHost(h, tls), h, tls) /\ KeyForNamedHost(h, tls) \in Keys
      BY DEF BelongsTo, KeyForNamedHost, UpstreamKey, SettingsKey, RoleKey, GlobalKey, Upstream, None, Keys
    <3>3. r.role # "keyed"
      BY <2>4 DEF RoleKey, None
    <3>. QED
      BY <2>4, <3>1, <3>2, <3>3 DEF SpareCarries, BelongsTo, None
  <2>. QED
    BY <2>1, <2>2, <2>3, <2>4
<1>. QED
  BY <1>1, <1>2, <1>3, <1>4, <1>5 DEF TakesSpare

LEMMA AdmissionStep == AdmissionInv /\ [ANext]_avars => AdmissionInv'
<1>. SUFFICES ASSUME AdmissionInv, [ANext]_avars PROVE AdmissionInv'
  OBVIOUS
<1>1. CASE Preflight \/ PathRefused \/ BreakerTrips \/ BlastRadiusExceeded
  BY <1>1, Answered DEF Preflight, PathRefused, BreakerTrips, BlastRadiusExceeded
<1>2. CASE ConfigurationReloads
  <2>1. gen \in Nat /\ gen' = gen + 1 /\ UNCHANGED <<settings, offer, r>>
    BY <1>2 DEF ConfigurationReloads, AdmissionInv, AdmissionTypes
  <2>2. r.at \in FromRouted => r \in Request /\ r.since \in Nat /\ r.since <= gen
    BY OwnFields DEF AdmissionInv, RouteIsSettled, FromRouted, FromKeyed, FromMasked, FromInspected, FromSent, Request
  <2>3. r.at \in FromRouted => r.since <= gen' /\ ~NotReloaded'
    BY <2>1, <2>2 DEF NotReloaded
  <2>4. AdmissionTypes' /\ RouteIsSettled'
    BY <2>1, <2>3 DEF AdmissionInv, AdmissionTypes, RouteIsSettled, NamesHost
  <2>5. KeyIsSettled' /\ MaskIsSettled'
    BY <2>1, <2>3 DEF AdmissionInv, KeyIsSettled, MaskIsSettled, FromRouted
  <2>6. SpareIsSettled'
    BY <2>1, <2>3 DEF AdmissionInv, SpareIsSettled, FromRouted, FromKeyed, FromMasked, FromInspected
  <2>. QED
    BY <2>4, <2>5, <2>6 DEF AdmissionInv
<1>3. CASE UNCHANGED avars
  <2>1. AdmissionTypes' /\ RouteIsSettled'
    BY <1>3 DEF avars, AdmissionInv, AdmissionTypes, RouteIsSettled, NamesHost, NotReloaded
  <2>2. KeyIsSettled' /\ MaskIsSettled'
    BY <1>3 DEF avars, AdmissionInv, KeyIsSettled, MaskIsSettled, NotReloaded, BelongsTo
  <2>3. SpareIsSettled'
    BY <1>3 DEF avars, AdmissionInv, SpareIsSettled, NotReloaded, BelongsTo
  <2>. QED
    BY <2>1, <2>2, <2>3 DEF AdmissionInv
<1>. QED
  BY <1>1, <1>2, <1>3, RoutesStep, AuthStep, ChoosesKeyStep, TakesModeStep, BodyStep, SpareStep DEF ANext

LEMMA SpecAdmissionInv == ASpec => []AdmissionInv
BY AdmissionInit, AdmissionStep, PTL DEF ASpec

(* Whatever a virtual key's role, the host a request names and a reload    *)
(* under way: a key of ours goes to the host it is for, over TLS, and a    *)
(* role that has one of its own uses no other (main.py:1204-1300).         *)
THEOREM RequestKeysArePlaced == ASpec => []KeysArePlaced
<1>1. AdmissionInv => KeysArePlaced
  BY DEF AdmissionInv, KeysArePlaced, KeysLeaveForTheirHosts, RoleKeyIsExclusive, Sent, KeyIsSettled, SpareIsSettled,
         FromKeyed, FromMasked, FromInspected, FromSent
<1>. QED
  BY <1>1, SpecAdmissionInv, PTL

(* Nothing leaves as it came when a failing engine closes the request, and *)
(* what is masked one way never goes out encrypted (main.py:1614-1655).    *)
THEOREM RequestBodiesAreMasked == ASpec => []BodiesAreMasked
<1>1. AdmissionInv => BodiesAreMasked
  <2>1. ASSUME AdmissionInv, Sent PROVE r \in Request
    BY <2>1, OwnFields DEF AdmissionInv, Sent
  <2>. QED
    BY <2>1 DEF AdmissionInv, BodiesAreMasked, NothingLeavesRaw, OneWayStaysOneWay, Sent, MaskIsSettled, Request,
         FromMasked, FromInspected, FromSent
<1>. QED
  BY <1>1, SpecAdmissionInv, PTL

(***************************************************************************)
(* A POST to the MCP gateway (McpGateway).  A call that goes on past its   *)
(* authorisation is granted by the policy the request took, the server is  *)
(* pinned to an address that was public when it was resolved, and who      *)
(* chooses the server holds a key; none of this is asked again.            *)
(***************************************************************************)
AnyPolicy ==
  [allowed : SUBSET {"act", "rest", Sentinel}, blocked : SUBSET {"act"}, reads : BOOLEAN,
   only : BOOLEAN]
Rpc ==
  [at : {"arrived", "authenticated", "read", "roled", "routed", "item", "authorised", "redacted",
         "over"},
   holder : BOOLEAN, server : Hosts \cup {NoHost}, pin : Addresses \cup {"unpinned"},
   policy : AnyPolicy, items : Nat, call : Items \cup {NoCall}, urls : SUBSET Hosts,
   checked : SUBSET Hosts]

GatewayTypes ==
  gate.base \in {"friend", NoHost} /\ records \in [Hosts -> SUBSET Addresses] /\ rpc \in Rpc

(* What is settled about a request at each of its stages. *)
ServerIsGranted ==
  rpc.at \in {"roled", "routed", "item", "authorised", "redacted"} =>
    rpc.server = gate.base \/ rpc.holder
ServerIsPinned ==
  rpc.at \in {"routed", "item", "authorised", "redacted"} /\ rpc.server # NoHost =>
    rpc.pin = "public"
CallIsGranted ==
  /\ rpc.at \in {"authorised", "redacted"} => ~Forbidden(rpc.call)
  /\ rpc.at = "redacted" => rpc.server # NoHost

GatewayInv ==
  GatewayTypes /\ ServerIsGranted /\ ServerIsPinned /\ CallIsGranted /\ CallsAreContained

LEMMA GatewayInit == RInit => GatewayInv
BY DEF RInit, GatewayInv, GatewayTypes, ServerIsGranted, ServerIsPinned, CallIsGranted, Rpc, AnyPolicy,
       CallsAreContained, Hosts, Addresses, NoHost, NoCall, NoPolicy

(* A step to another stage of the same request, its server and policy as   *)
(* they are, sends nothing; what it says of the call it has to say anew.   *)
LEMMA StageMoves ==
  ASSUME GatewayInv, rpc' \in Rpc, UNCHANGED <<gate, records, dialled, looked>>,
         rpc.at \in {"routed", "item", "authorised", "redacted"},
         rpc'.at \in {"routed", "item", "authorised", "redacted", "over"},
         rpc'.holder = rpc.holder, rpc'.server = rpc.server, rpc'.pin = rpc.pin, CallIsGranted'
  PROVE  GatewayInv'
BY DEF GatewayInv, GatewayTypes, ServerIsGranted, ServerIsPinned, CallsAreContained

(* The end of an item or of the request. *)
LEMMA Leaving ==
  ASSUME GatewayInv, NEW stage \in {"routed", "over"},
         rpc' = [rpc EXCEPT !.at = stage, !.call = NoCall, !.urls = {}, !.checked = {}]
  PROVE  /\ rpc' \in Rpc /\ rpc'.at = stage /\ rpc'.holder = rpc.holder /\ rpc'.server = rpc.server
         /\ rpc'.pin = rpc.pin /\ CallIsGranted'
BY DEF GatewayInv, GatewayTypes, Rpc, CallIsGranted

LEMMA RequestMoves ==
  ASSUME GatewayInv, AuthenticatesCaller \/ ReadsBody \/ TakesPolicy \/ PinsServer \/ ServerRefused
  PROVE  GatewayInv'
<1>0. rpc \in Rpc /\ RRest /\ rpc.at \in {"arrived", "authenticated", "read", "roled"}
  BY DEF AuthenticatesCaller, ReadsBody, TakesPolicy, PinsServer, ServerRefused, GatewayInv, GatewayTypes
<1>1. CASE IsOver
  <2>1. rpc' \in Rpc /\ rpc'.at = "over"
    BY <1>1, Leaving DEF IsOver
  <2>. QED
    BY <1>0, <2>1
       DEF RRest, GatewayInv, GatewayTypes, ServerIsGranted, ServerIsPinned, CallIsGranted, CallsAreContained
<1>2. CASE \E holder \in BOOLEAN : rpc' = [rpc EXCEPT !.at = "authenticated", !.holder = holder]
  <2>1. rpc' \in Rpc /\ rpc'.at = "authenticated"
    BY <1>0, <1>2 DEF Rpc
  <2>. QED
    BY <1>0, <2>1
       DEF RRest, GatewayInv, GatewayTypes, ServerIsGranted, ServerIsPinned, CallIsGranted, CallsAreContained
<1>3. CASE Moves("read")
  <2>1. rpc' \in Rpc /\ rpc'.at = "read"
    BY <1>0, <1>3 DEF Moves, Rpc
  <2>. QED
    BY <1>0, <2>1
       DEF RRest, GatewayInv, GatewayTypes, ServerIsGranted, ServerIsPinned, CallIsGranted, CallsAreContained
<1>4. CASE \E policy \in AnyPolicy, named \in Hosts \cup {NoHost} :
             rpc' = [rpc EXCEPT !.at = "roled", !.server = ResolvesServer(named), !.policy = policy]
  <2>1. PICK policy \in AnyPolicy, named \in Hosts \cup {NoHost} :
             rpc' = [rpc EXCEPT !.at = "roled", !.server = ResolvesServer(named), !.policy = policy]
    BY <1>4
  <2>2. ResolvesServer(named) \in Hosts \cup {NoHost} /\ (ResolvesServer(named) = gate.base \/ rpc.holder)
    BY DEF ResolvesServer, GatewayInv, GatewayTypes, Hosts
  <2>3. /\ rpc' \in Rpc /\ rpc'.at = "roled" /\ rpc'.holder = rpc.holder
        /\ rpc'.server = ResolvesServer(named)
    BY <1>0, <2>1, <2>2 DEF Rpc
  <2>. QED
    BY <1>0, <2>2, <2>3
       DEF RRest, GatewayInv, GatewayTypes, ServerIsGranted, ServerIsPinned, CallIsGranted, CallsAreContained
<1>5. CASE PinsServer
  <2>1. PICK pin \in Addresses \cup {"unpinned"} :
          /\ rpc' = [rpc EXCEPT !.at = "routed", !.pin = pin]
          /\ rpc.server # NoHost => pin = "public"
    <3>1. CASE rpc.server = NoHost
      <4>1. rpc' = [rpc EXCEPT !.at = "routed", !.pin = rpc.pin] /\ rpc.pin \in Addresses \cup {"unpinned"}
        BY <1>0, <1>5, <3>1 DEF PinsServer, Moves, Rpc
      <4>. QED
        BY <3>1, <4>1
    <3>2. CASE rpc.server # NoHost
      <4>1. PICK a \in records[rpc.server] : rpc' = [rpc EXCEPT !.at = "routed", !.pin = a]
        BY <1>5, <3>2 DEF PinsServer
      <4>2. rpc.server \in Hosts /\ "inside" \notin records[rpc.server]
        BY <1>0, <1>5, <3>2 DEF PinsServer, Clears, Rpc
      <4>3. a \in Addresses /\ a = "public"
        BY <4>1, <4>2 DEF GatewayInv, GatewayTypes, Addresses
      <4>. QED
        BY <4>1, <4>3
    <3>. QED
      BY <3>1, <3>2
  <2>2. /\ rpc' \in Rpc /\ rpc'.at = "routed" /\ rpc'.holder = rpc.holder /\ rpc'.server = rpc.server
        /\ rpc'.pin = pin /\ rpc.at = "roled"
    BY <1>0, <1>5, <2>1 DEF Rpc, PinsServer
  <2>. QED
    BY <1>0, <2>1, <2>2
       DEF RRest, GatewayInv, GatewayTypes, ServerIsGranted, ServerIsPinned, CallIsGranted, CallsAreContained
<1>. QED
  <2>1. CASE TakesPolicy
    <3>1. CASE ~IsOver
      <4>1. PICK p \in Policies, named \in Hosts \cup {NoHost} :
              rpc' = [rpc EXCEPT !.at = "roled", !.server = ResolvesServer(named),
                                 !.policy = IF p.allowed = {} /\ gate.denyAll
                                            THEN [p EXCEPT !.allowed = {Sentinel}] ELSE p]
        BY <2>1, <3>1 DEF TakesPolicy
      <4>2. p \in AnyPolicy /\ [p EXCEPT !.allowed = {Sentinel}] \in AnyPolicy
        BY DEF Policies, AnyPolicy
      <4>. QED
        BY <1>4, <4>1, <4>2
    <3>. QED
      BY <1>1, <3>1
  <2>. QED
    BY <1>1, <1>2, <1>3, <1>5, <2>1 DEF AuthenticatesCaller, ReadsBody, ServerRefused

(* An item: nothing is sent or looked up for a call that is not granted.   *)
LEMMA ItemMoves ==
  ASSUME GatewayInv, TakesItem \/ BatchEnds \/ Authorises \/ ItemFails \/ ScanRaises \/ RedactsItem
  PROVE  GatewayInv'
<1>0. /\ rpc \in Rpc /\ RRest /\ rpc.at \in {"routed", "item", "authorised", "redacted"}
  BY DEF TakesItem, BatchEnds, Authorises, ItemFails, ScanRaises, RedactsItem, GatewayInv, GatewayTypes
<1>1. CASE IsOver \/ NextItem
  <2>1. PICK stage \in {"routed", "over"} :
          rpc' = [rpc EXCEPT !.at = stage, !.call = NoCall, !.urls = {}, !.checked = {}]
    BY <1>1 DEF IsOver, NextItem
  <2>. QED
    BY <1>0, <2>1, Leaving, StageMoves DEF RRest
<1>2. CASE TakesItem
  <2>1. PICK c \in Items, urls \in SUBSET Hosts :
          rpc' = [rpc EXCEPT !.at = "item", !.items = rpc.items + 1, !.call = c, !.urls = urls,
                             !.checked = {}]
    BY <1>2 DEF TakesItem
  <2>3. rpc.items + 1 \in Nat
    BY <1>0 DEF Rpc
  <2>2. /\ rpc' \in Rpc /\ rpc'.at = "item" /\ rpc'.holder = rpc.holder /\ rpc'.server = rpc.server
        /\ rpc'.pin = rpc.pin
    BY <1>0, <2>1, <2>3 DEF Rpc
  <2>. QED
    BY <1>0, <2>2, StageMoves DEF RRest, CallIsGranted
<1>3. CASE Moves("authorised") /\ ~Forbidden(rpc.call)
  <2>1. /\ rpc' \in Rpc /\ rpc'.at = "authorised" /\ rpc'.holder = rpc.holder /\ rpc'.server = rpc.server
        /\ rpc'.pin = rpc.pin /\ rpc'.policy = rpc.policy /\ rpc'.call = rpc.call
    BY <1>0, <1>3 DEF Moves, Rpc
  <2>2. ~Forbidden(rpc.call)'
    BY <1>3, <2>1 DEF Forbidden, ToolForbidden, FailClosed
  <2>. QED
    BY <1>0, <2>1, <2>2, StageMoves DEF RRest, CallIsGranted
<1>4. CASE RedactsItem
  <2>1. PICK urls \in SUBSET Hosts : rpc' = [rpc EXCEPT !.at = "redacted", !.urls = urls]
    BY <1>4 DEF RedactsItem
  <2>2. /\ rpc' \in Rpc /\ rpc'.at = "redacted" /\ rpc'.holder = rpc.holder /\ rpc'.server = rpc.server
        /\ rpc'.pin = rpc.pin /\ rpc'.policy = rpc.policy /\ rpc'.call = rpc.call
        /\ rpc.server # NoHost /\ ~Forbidden(rpc.call)
    BY <1>0, <1>4, <2>1 DEF Rpc, RedactsItem, GatewayInv, CallIsGranted
  <2>3. ~Forbidden(rpc.call)'
    BY <2>2 DEF Forbidden, ToolForbidden, FailClosed
  <2>. QED
    BY <1>0, <2>2, <2>3, StageMoves DEF RRest, CallIsGranted
<1>. QED
  BY <1>1, <1>2, <1>3, <1>4 DEF BatchEnds, Authorises, ItemFails, ScanRaises

LEMMA UrlMoves ==
  ASSUME GatewayInv, NEW h \in Hosts, ScansUrl(h) \/ ChecksIntroduced(h)
  PROVE  GatewayInv'
<1>1. /\ rpc \in Rpc /\ rpc.at \in {"authorised", "redacted"} /\ ~Forbidden(rpc.call)
      /\ UNCHANGED <<gate, records, dialled>>
  BY DEF ScansUrl, ChecksIntroduced, GatewayInv, GatewayTypes, CallIsGranted
<1>2. looked' = looked
  BY <1>1 DEF ScansUrl, ChecksIntroduced, LooksUp
<1>3. CASE Clears(h)
  <2>1. rpc' = [rpc EXCEPT !.checked = rpc.checked \cup {h}]
    BY <1>3 DEF ScansUrl, ChecksIntroduced
  <2>2. /\ rpc' \in Rpc /\ rpc'.at = rpc.at /\ rpc'.holder = rpc.holder /\ rpc'.server = rpc.server
        /\ rpc'.pin = rpc.pin /\ rpc'.policy = rpc.policy /\ rpc'.call = rpc.call
    BY <1>1, <2>1 DEF Rpc
  <2>3. CallIsGranted'
    BY <2>2 DEF GatewayInv, CallIsGranted, Forbidden, ToolForbidden, FailClosed
  <2>. QED
    BY <1>1, <1>2, <2>2, <2>3, StageMoves
<1>4. CASE ~Clears(h)
  <2>1. rpc' = [rpc EXCEPT !.at = "routed", !.call = NoCall, !.urls = {}, !.checked = {}]
    BY <1>4 DEF ScansUrl, ChecksIntroduced
  <2>. QED
    BY <1>1, <1>2, <2>1, Leaving, StageMoves
<1>. QED
  BY <1>3, <1>4

LEMMA SendsMove == ASSUME GatewayInv, Sends PROVE GatewayInv'
<1>1. /\ rpc \in Rpc /\ rpc.at = "redacted" /\ rpc.urls \subseteq rpc.checked
      /\ UNCHANGED <<gate, records, looked>> /\ dialled' = dialled \cup {Dialling(rpc.pin)}
  BY DEF Sends, GatewayInv, GatewayTypes
<1>2. /\ rpc' \in Rpc /\ rpc'.at = "routed" /\ rpc'.holder = rpc.holder /\ rpc'.server = rpc.server
      /\ rpc'.pin = rpc.pin /\ CallIsGranted'
  BY Leaving DEF Sends, NextItem
<1>. DEFINE d == Dialling(rpc.pin)
<1>3. d.address = "public" /\ d.unchecked = {} /\ ~d.forbidden /\ ~d.chosen
  BY <1>1 DEF Dialling, GatewayInv, ServerIsGranted, ServerIsPinned, CallIsGranted
<1>. HIDE DEF d
<1>4. CallsAreContained'
  BY <1>1, <1>3 DEF GatewayInv, CallsAreContained, d
<1>. QED
  BY <1>1, <1>2, <1>4 DEF GatewayInv, GatewayTypes, ServerIsGranted, ServerIsPinned

LEMMA GatewayStep == GatewayInv /\ [RNext]_rvars => GatewayInv'
<1>. SUFFICES ASSUME GatewayInv, [RNext]_rvars PROVE GatewayInv'
  OBVIOUS
<1>1. CASE NamesMove
  <2>1. records' \in [Hosts -> SUBSET Addresses] /\ UNCHANGED <<gate, rpc, dialled, looked>>
    BY <1>1 DEF NamesMove, GatewayInv, GatewayTypes
  <2>. QED
    BY <2>1
       DEF GatewayInv, GatewayTypes, ServerIsGranted, ServerIsPinned, CallIsGranted, CallsAreContained, Forbidden,
           ToolForbidden, FailClosed
<1>2. CASE UNCHANGED rvars
  BY <1>2
     DEF rvars, GatewayInv, GatewayTypes, ServerIsGranted, ServerIsPinned, CallIsGranted, CallsAreContained,
         Forbidden, ToolForbidden, FailClosed
<1>. QED
  BY <1>1, <1>2, RequestMoves, ItemMoves, UrlMoves, SendsMove DEF RNext

(* Every call the gateway makes goes to an address that had cleared the    *)
(* policy, carries no URL that had not, and is granted by the policy of    *)
(* the key it came with; nobody without a key chooses the server, and no   *)
(* name is looked up for a call that is not granted (mcp_router.py:426-467,*)
(* 533-578, 690-726; egress_guard.py:298-377).                             *)
THEOREM RequestCallsAreContained == RSpec => []CallsAreContained
<1>1. GatewayInv => CallsAreContained
  BY DEF GatewayInv
<1>. QED
  BY <1>1, GatewayInit, GatewayStep, PTL DEF RSpec

(***************************************************************************)
(* A reply that is not streamed (RestReply).  Which strings the scan has   *)
(* been through, which the restoration, and what it has spent, whatever    *)
(* fails in between: the text falls back to the reply as it came, and what *)
(* was done to it counts no more.                                          *)
(***************************************************************************)
Stages ==
  {"arrived", "forbidden", "parsing", "scanning", "restoring", "restored", "fallback", "text", "raw",
   "too large", "sent"}

PageTypes ==
  /\ switches \in [scan : BOOLEAN, canary : BOOLEAN, relay : BOOLEAN, stateless : BOOLEAN]
  /\ route \in {"post", "other", "error"} /\ at \in Stages
  /\ reply \in [Fields -> Seq(Given)] /\ DOMAIN text = Fields
  /\ unscanned \subseteq Fields /\ todo \subseteq Fields /\ budget \in Nat /\ budget <= Limit

(* The way each kind of reply takes. *)
WaysAreKept ==
  /\ route = "error" => at \in {"arrived", "raw", "sent"}
  /\ at \in {"parsing", "forbidden"} => route = "post"
  /\ route = "error" => form = "json" /\ switches.scan
  /\ route # "post" => ~switches.stateless /\ switches.canary

(* What the text holds stems from the reply, piece for piece. *)
TextStems ==
  /\ route # "error" => \A f \in Fields :
       /\ DOMAIN text[f] = DOMAIN reply[f]
       /\ \A k \in DOMAIN text[f] :
            /\ text[f][k] = "canary" => reply[f][k] = "canary"
            /\ reply[f][k] = "own" => text[f][k] \in {"own", "value"}
  /\ route = "error" /\ at # "arrived" =>
       \A f \in Fields : \A k \in DOMAIN text[f] : text[f][k] \notin {"key", "pii"}
  /\ at \in {"arrived", "parsing", "scanning", "text"} =>
       \A f \in Fields : \A k \in DOMAIN text[f] : text[f][k] # "value"
  /\ at = "arrived" => text = reply

CanaryIsHeld ==
  route = "post" /\ switches.canary /\ at \notin {"arrived", "forbidden"} =>
    \A f \in Fields : \A k \in DOMAIN reply[f] : reply[f][k] # "canary"

ScanIsDone ==
  switches.scan /\ route # "error" /\ (form # "binary" \/ route = "post") =>
    \A f \in Fields \ (Structural \cup unscanned) :
      at \in {"restoring", "restored", "text", "raw", "sent"} \/ (at = "scanning" /\ f \notin todo) =>
        \A k \in DOMAIN text[f] : text[f][k] # "pii"

ContentIsRestored ==
  (/\ route = "post" /\ ~switches.stateless
   /\ at \in {"restored", "raw", "sent"} \/ (at = "restoring" /\ "content" \notin todo)) =>
      \A k \in DOMAIN text["content"] : text["content"][k] # "own"

BudgetIsKept == ~switches.stateless /\ at # "fallback" => Restorations + budget <= Limit

PageInv ==
  PageTypes /\ WaysAreKept /\ TextStems /\ CanaryIsHeld /\ ScanIsDone /\ ContentIsRestored /\ BudgetIsKept

(* Places are few, and a text without a piece has no place of it. *)
LEMMA PlacesAreFinite ==
  ASSUME NEW t, NEW piece
  PROVE  IsFiniteSet(Places(t, piece)) /\ Cardinality(Places(t, piece)) \in Nat
<1>1. IsFiniteSet(Fields)
  <2>1. Fields = {"content"} \cup {"other"} \cup {"id"}
    BY DEF Fields
  <2>. QED
    BY <2>1, FS_Singleton, FS_Union
<1>2. IsFiniteSet(1 .. 2)
  <2>1. 1 \in Int /\ 2 \in Int
    OBVIOUS
  <2>. QED
    BY <2>1, FS_Interval
<1>3. IsFiniteSet(Fields \X (1 .. 2))
  BY <1>1, <1>2, FS_Product
<1>. QED
  BY <1>3, FS_Subset, FS_CardinalityType DEF Places

LEMMA NoPlace ==
  ASSUME NEW t, NEW piece, \A f \in Fields : \A k \in DOMAIN t[f] : t[f][k] # piece
  PROVE  Cardinality(Places(t, piece)) = 0
<1>1. Places(t, piece) = {}
  BY DEF Places
<1>. QED
  BY <1>1, FS_EmptySet

(* With replaces one piece and leaves the others where they are. *)
LEMMA WithReplaces ==
  ASSUME NEW t, NEW was, NEW becomes
  PROVE  /\ DOMAIN With(t, was, becomes) = DOMAIN t
         /\ \A k \in DOMAIN t : With(t, was, becomes)[k] = IF t[k] = was THEN becomes ELSE t[k]
BY DEF With

LEMMA ScannedText ==
  ASSUME NEW t
  PROVE  /\ DOMAIN Scanned(t) = DOMAIN t
         /\ \A k \in DOMAIN t : Scanned(t)[k] = IF t[k] \in {"pii", "value"} THEN "redacted" ELSE t[k]
<1>. DEFINE u == With(t, "pii", "redacted")
<1>1. /\ DOMAIN u = DOMAIN t
      /\ \A k \in DOMAIN t : u[k] = IF t[k] = "pii" THEN "redacted" ELSE t[k]
  BY WithReplaces
<1>2. /\ DOMAIN With(u, "value", "redacted") = DOMAIN u
      /\ \A k \in DOMAIN u : With(u, "value", "redacted")[k] = IF u[k] = "value" THEN "redacted" ELSE u[k]
  BY WithReplaces
<1>3. Scanned(t) = With(u, "value", "redacted")
  BY DEF Scanned
<1>. HIDE DEF u
<1>. QED
  BY <1>1, <1>2, <1>3

LEMMA ReplyHasNoValue ==
  ASSUME reply \in [Fields -> Seq(Given)]
  PROVE  \A f \in Fields : \A k \in DOMAIN reply[f] : reply[f][k] # "value"
BY DEF Given

LEMMA PageInit == RPInit => PageInv
<1>. SUFFICES ASSUME RPInit PROVE PageInv
  OBVIOUS
<1>1. PageTypes
  BY ReplyAssumption DEF RPInit, PageTypes, Stages
<1>2. \A f \in Fields : \A k \in DOMAIN text[f] : text[f][k] # "value"
  BY <1>1, ReplyHasNoValue DEF RPInit, PageTypes
<1>3. BudgetIsKept
  BY <1>2, NoPlace, ReplyAssumption DEF RPInit, BudgetIsKept, Restorations
<1>4. WaysAreKept /\ CanaryIsHeld /\ ScanIsDone /\ ContentIsRestored
  BY DEF RPInit, WaysAreKept, CanaryIsHeld, ScanIsDone, ContentIsRestored
<1>5. TextStems
  BY <1>2 DEF RPInit, TextStems
<1>. QED
  BY <1>1, <1>3, <1>4, <1>5 DEF PageInv

(* What leaves the text as it is takes the budget with it. *)
LEMMA SameBudget ==
  ASSUME BudgetIsKept, at # "fallback", UNCHANGED <<switches, text, budget>>
  PROVE  BudgetIsKept'
BY DEF BudgetIsKept, Restorations, Places

LEMMA ChecksStep == ASSUME PageInv, ChecksCanary \/ Parses PROVE PageInv'
<1>1. /\ UNCHANGED <<switches, route, form, reply, text, unscanned, budget>> /\ todo' = Fields
      /\ route = "post" /\ at \in {"arrived", "parsing"}
      /\ at' \in {"forbidden", "parsing", "fallback", "scanning", "restoring"}
      /\ at' \in {"forbidden", "parsing"} => at = "arrived"
      /\ at' = "restoring" => ~switches.scan
  BY DEF ChecksCanary, Parses, Keeps, KeepsText, GoesOn, PageInv, WaysAreKept
<1>2. PageTypes' /\ WaysAreKept'
  BY <1>1 DEF PageInv, PageTypes, WaysAreKept, Stages
<1>3. TextStems'
  BY <1>1 DEF PageInv, TextStems
<1>4. CanaryIsHeld'
  <2>1. ASSUME at = "arrived", switches.canary, at' # "forbidden", NEW f \in Fields, NEW k \in DOMAIN reply[f],
               reply[f][k] = "canary"
        PROVE  FALSE
    <3>1. ChecksCanary
      BY <2>1 DEF ChecksCanary, Parses
    <3>2. "canary" \in Pieces(reply)
      BY <2>1 DEF Pieces
    <3>. QED
      BY <2>1, <3>1, <3>2 DEF ChecksCanary, Forbids, GoesOn
  <2>. QED
    BY <1>1, <2>1 DEF PageInv, CanaryIsHeld
<1>5. ScanIsDone' /\ ContentIsRestored'
  BY <1>1 DEF PageInv, ScanIsDone, ContentIsRestored, Fields
<1>6. BudgetIsKept'
  BY <1>1, SameBudget DEF PageInv
<1>. QED
  BY <1>2, <1>3, <1>4, <1>5, <1>6 DEF PageInv

LEMMA RaisesStep == ASSUME PageInv, RaisesBefore \/ RaisesAfter PROVE PageInv'
<1>1. /\ UNCHANGED <<switches, route, form, reply, text, unscanned, budget>> /\ todo' = Fields
      /\ route = "post" /\ at \in {"scanning", "restoring", "restored"} /\ at' = "fallback"
  BY DEF RaisesBefore, RaisesAfter, Keeps, KeepsText, GoesOn
<1>2. PageTypes' /\ WaysAreKept' /\ BudgetIsKept'
  BY <1>1 DEF PageInv, PageTypes, WaysAreKept, Stages, BudgetIsKept
<1>3. TextStems' /\ CanaryIsHeld'
  BY <1>1 DEF PageInv, TextStems, CanaryIsHeld
<1>4. ScanIsDone' /\ ContentIsRestored'
  BY <1>1 DEF PageInv, ScanIsDone, ContentIsRestored
<1>. QED
  BY <1>2, <1>3, <1>4 DEF PageInv

LEMMA ScansStep == ASSUME PageInv, NEW f \in Fields, ScansField(f) PROVE PageInv'
<1>1. /\ UNCHANGED <<switches, route, form, reply, budget>> /\ at = "scanning" /\ f \in todo
      /\ at' \in {"scanning", "restoring"}
      /\ at' = "scanning" => todo' = todo \ {f}
      /\ at' = "restoring" => todo' = Fields /\ todo = {f}
  BY DEF ScansField, Keeps, GoesOn
<1>2. /\ DOMAIN text' = Fields /\ unscanned \subseteq unscanned' /\ unscanned' \subseteq Fields
      /\ \A g \in Fields : g # f => text'[g] = text[g]
      /\ text'[f] = text[f] \/ text'[f] = Scanned(text[f])
      /\ f \notin Structural \cup unscanned' => text'[f] = Scanned(text[f])
  BY DEF ScansField, PageInv, PageTypes
<1>3. \A g \in Fields :
        /\ DOMAIN text'[g] = DOMAIN text[g]
        /\ \A k \in DOMAIN text[g] :
             text'[g][k] = text[g][k] \/ (text'[g][k] = "redacted" /\ text[g][k] \in {"pii", "value"})
  BY <1>2, ScannedText
<1>4. PageTypes' /\ WaysAreKept'
  BY <1>1, <1>2 DEF PageInv, PageTypes, WaysAreKept, Stages
<1>5. TextStems'
  <2>. HIDE DEF ScansField
  <2>1. route # "error"
    BY <1>1 DEF PageInv, WaysAreKept
  <2>2. \A g \in Fields : \A k \in DOMAIN text[g] : text[g][k] # "value"
    BY <1>1 DEF PageInv, TextStems
  <2>3. \A g \in Fields : DOMAIN text[g] = DOMAIN reply[g]
    BY <2>1 DEF PageInv, TextStems
  <2>4. \A g \in Fields : \A k \in DOMAIN text'[g] :
          /\ text'[g][k] # "value"
          /\ text'[g][k] = "canary" => reply[g][k] = "canary"
          /\ reply[g][k] = "own" => text'[g][k] \in {"own", "value"}
    <3>. SUFFICES ASSUME NEW g \in Fields, NEW k \in DOMAIN text'[g]
                  PROVE  /\ text'[g][k] # "value"
                         /\ text'[g][k] = "canary" => reply[g][k] = "canary"
                         /\ reply[g][k] = "own" => text'[g][k] \in {"own", "value"}
      OBVIOUS
    <3>1. k \in DOMAIN text[g]
      BY <1>3
    <3>2. /\ text[g][k] = "canary" => reply[g][k] = "canary"
          /\ reply[g][k] = "own" => text[g][k] \in {"own", "value"}
      BY <2>1, <3>1 DEF PageInv, TextStems
    <3>. QED
      BY <1>3, <2>2, <3>1, <3>2
  <2>. QED
    BY <1>1, <1>3, <2>1, <2>3, <2>4 DEF TextStems
<1>6. CanaryIsHeld'
  BY <1>1 DEF PageInv, CanaryIsHeld
<1>7. ScanIsDone'
  <2>. SUFFICES ASSUME switches.scan, route # "error", form # "binary" \/ route = "post",
                       NEW g \in Fields \ (Structural \cup unscanned'),
                       at' = "restoring" \/ g \notin todo', NEW k \in DOMAIN text'[g], text'[g][k] = "pii"
                PROVE  FALSE
    BY <1>1 DEF ScanIsDone
  <2>1. g # f
    BY <1>2, ScannedText
  <2>2. g \notin todo /\ text'[g] = text[g] /\ g \in Fields \ (Structural \cup unscanned)
    BY <1>1, <1>2, <2>1
  <2>. QED
    BY <1>1, <2>2 DEF PageInv, ScanIsDone
<1>8. ContentIsRestored'
  BY <1>1 DEF ContentIsRestored, Fields
<1>9. BudgetIsKept'
  <2>1. \A g \in Fields : \A k \in DOMAIN text'[g] : text'[g][k] # "value"
    <3>1. \A g \in Fields : \A k \in DOMAIN text[g] : text[g][k] # "value"
      BY <1>1 DEF PageInv, TextStems
    <3>. QED
      BY <1>3, <3>1
  <2>2. Cardinality(Places(text', "value")) = 0
    BY <2>1, NoPlace
  <2>. QED
    <3>1. budget' \in Nat /\ budget' <= Limit /\ Limit \in Nat
      BY <1>4, ReplyAssumption DEF PageTypes
    <3>. QED
      BY <2>2, <3>1 DEF BudgetIsKept, Restorations
<1>. QED
  BY <1>4, <1>5, <1>6, <1>7, <1>8, <1>9 DEF PageInv

(* Restoring a field spends for every place it fills: no more than the     *)
(* tokens it counts.                                                       *)
LEMMA FilledPlaces ==
  ASSUME NEW t, DOMAIN t = Fields, NEW f \in Fields, NEW n \in Nat, DOMAIN t[f] = 1 .. n, NEW u,
         DOMAIN u = Fields, u[f] = With(t[f], "own", "value"), \A g \in Fields \ {f} : u[g] = t[g]
  PROVE  /\ Values(t[f]) \in Nat
         /\ Cardinality(Places(u, "value")) <= Cardinality(Places(t, "value")) + Values(t[f])
<1>. DEFINE Own == {k \in DOMAIN t[f] : t[f][k] = "own"}
            New == {p \in Places(u, "value") : p[1] = f /\ p[2] \in Own}
<1>1. IsFiniteSet(Own) /\ Cardinality(Own) \in Nat /\ Values(t[f]) = Cardinality(Own)
  <2>1. IsFiniteSet(1 .. n)
    BY FS_Interval
  <2>. QED
    BY <2>1, FS_Subset, FS_CardinalityType DEF Values
<1>2. IsFiniteSet(New) /\ Cardinality(New) <= Cardinality(Own)
  <2>. DEFINE place == [p \in New |-> p[2]]
  <2>1. place \in [New -> Own]
    OBVIOUS
  <2>2. \A p, q \in New : place[p] = place[q] => p = q
    BY DEF Places
  <2>3. place \in Injection(New, Own)
    BY <2>1, <2>2, Fun_IsInj
  <2>. HIDE DEF place, New, Own
  <2>. QED
    BY <1>1, <2>3, FS_Injection
<1>3. Places(u, "value") \subseteq Places(t, "value") \cup New
  <2>. SUFFICES ASSUME NEW p \in Places(u, "value"), p \notin New PROVE p \in Places(t, "value")
    OBVIOUS
  <2>1. CASE p[1] # f
    BY <2>1 DEF Places
  <2>2. CASE p[1] = f
    BY <2>2, WithReplaces DEF Places
  <2>. QED
    BY <2>1, <2>2
<1>. HIDE DEF New, Own
<1>4. /\ IsFiniteSet(Places(t, "value") \cup New)
      /\ Cardinality(Places(t, "value") \cup New) \in Nat
      /\ Cardinality(Places(t, "value") \cup New) <= Cardinality(Places(t, "value")) + Cardinality(New)
  <2>1. IsFiniteSet(Places(t, "value")) /\ Cardinality(Places(t, "value")) \in Nat
    BY PlacesAreFinite
  <2>2. Cardinality(New) \in Nat
    BY <1>2, FS_CardinalityType
  <2>3. /\ IsFiniteSet(Places(t, "value") \cup New)
        /\ Cardinality(Places(t, "value") \cup New) =
             Cardinality(Places(t, "value")) + Cardinality(New) - Cardinality(Places(t, "value") \cap New)
    BY <1>2, <2>1, FS_Union
  <2>4. Cardinality(Places(t, "value") \cap New) \in Nat
    BY <1>2, <2>1, FS_Intersection, FS_CardinalityType
  <2>5. Cardinality(Places(t, "value") \cup New) \in Nat
    BY <2>3, FS_CardinalityType
  <2>. QED
    BY <2>1, <2>2, <2>3, <2>4, <2>5
<1>5. Cardinality(Places(u, "value")) <= Cardinality(Places(t, "value") \cup New)
  BY <1>3, <1>4, FS_Subset
<1>6. Cardinality(Places(u, "value")) \in Nat /\ Cardinality(Places(t, "value")) \in Nat /\ Cardinality(New) \in Nat
  BY <1>2, PlacesAreFinite, FS_CardinalityType
<1>. QED
  BY <1>1, <1>2, <1>4, <1>5, <1>6

(* A field gone through, its text kept or restored. *)
LEMMA RestoresStep == ASSUME PageInv, NEW f \in Fields, RestoresField(f) PROVE PageInv'
<1>1. /\ UNCHANGED <<switches, route, form, reply, unscanned>> /\ at = "restoring" /\ f \in todo
      /\ at' \in {"restoring", "restored", "too large"} /\ route # "error"
      /\ at' = "restoring" => todo' = todo \ {f}
      /\ at' = "restored" => todo' = Fields /\ todo = {f}
      /\ at' = "too large" => todo' = Fields
  BY DEF RestoresField, Keeps, GoesOn, PageInv, WaysAreKept
<1>2. /\ DOMAIN text' = Fields /\ \A g \in Fields \ {f} : text'[g] = text[g]
      /\ text'[f] = text[f] \/ text'[f] = With(text[f], "own", "value")
      /\ at' # "too large" /\ f = "content" => text'[f] = With(text[f], "own", "value")
  BY DEF RestoresField, Restorable, GoesOn, PageInv, PageTypes
<1>3. \A g \in Fields :
        /\ DOMAIN text'[g] = DOMAIN text[g]
        /\ \A k \in DOMAIN text[g] :
             text'[g][k] = text[g][k] \/ (text'[g][k] = "value" /\ text[g][k] = "own")
  <2>1. CASE text'[f] = text[f]
    BY <1>2, <2>1
  <2>2. CASE text'[f] = With(text[f], "own", "value")
    <3>1. /\ DOMAIN text'[f] = DOMAIN text[f]
          /\ \A k \in DOMAIN text[f] :
               text'[f][k] = IF text[f][k] = "own" THEN "value" ELSE text[f][k]
      BY <2>2, WithReplaces
    <3>. QED
      BY <1>2, <3>1
  <2>. QED
    BY <1>2, <2>1, <2>2
<1>4. \/ UNCHANGED <<text, budget>>
      \/ switches.stateless /\ UNCHANGED budget
      \/ /\ ~switches.stateless /\ budget' = budget - Values(text[f]) /\ ~(Values(text[f]) > budget)
         /\ text' = [text EXCEPT ![f] = With(@, "own", "value")]
  <2>1. CASE Restorable(f) /\ Exceeds(f)
    BY <2>1 DEF RestoresField
  <2>2. CASE ~Restorable(f)
    BY <2>2 DEF RestoresField
  <2>3. CASE Restorable(f) /\ ~Exceeds(f)
    <3>1. text' = [text EXCEPT ![f] = With(@, "own", "value")] /\ Spent(f)
      BY <2>3 DEF RestoresField
    <3>2. CASE switches.stateless
      <4>1. budget' = budget - 0 /\ budget \in Nat
        BY <3>1, <3>2 DEF Spent, PageInv, PageTypes
      <4>. QED
        BY <3>2, <4>1
    <3>3. CASE ~switches.stateless
      BY <2>3, <3>1, <3>3 DEF Spent, Exceeds
    <3>. QED
      BY <3>2, <3>3
  <2>. QED
    BY <2>1, <2>2, <2>3
<1>5. DOMAIN text = Fields /\ DOMAIN text[f] = 1 .. Len(reply[f]) /\ Len(reply[f]) \in Nat
  <2>1. DOMAIN text = Fields /\ reply[f] \in Seq(Given) /\ DOMAIN text[f] = DOMAIN reply[f]
    BY <1>1 DEF PageInv, PageTypes, TextStems
  <2>. QED
    BY <2>1
<1>6. ASSUME ~switches.stateless, ~UNCHANGED <<text, budget>>
      PROVE  budget' \in Nat /\ budget' <= Limit /\ BudgetIsKept'
  <2>1. /\ text'[f] = With(text[f], "own", "value") /\ budget' = budget - Values(text[f])
        /\ ~(Values(text[f]) > budget)
    BY <1>4, <1>5, <1>6
  <2>2. /\ Values(text[f]) \in Nat
        /\ Cardinality(Places(text', "value")) <= Cardinality(Places(text, "value")) + Values(text[f])
    BY <1>2, <1>5, <2>1, FilledPlaces
  <2>3. budget \in Nat /\ budget <= Limit /\ Limit \in Nat
    BY ReplyAssumption DEF PageInv, PageTypes
  <2>4. budget' \in Nat /\ budget' <= Limit
    BY <2>1, <2>2, <2>3
  <2>5. Cardinality(Places(text, "value")) + budget <= Limit
    BY <1>1, <1>6 DEF PageInv, BudgetIsKept, Restorations
  <2>6. Cardinality(Places(text', "value")) \in Nat /\ Cardinality(Places(text, "value")) \in Nat
    BY PlacesAreFinite
  <2>7. Cardinality(Places(text', "value")) + budget' <= Limit
    BY <2>1, <2>2, <2>3, <2>5, <2>6
  <2>. QED
    BY <2>4, <2>7 DEF BudgetIsKept, Restorations
<1>7. budget' \in Nat /\ budget' <= Limit /\ BudgetIsKept'
  <2>1. CASE UNCHANGED <<text, budget>>
    BY <1>1, <2>1, SameBudget DEF PageInv, PageTypes
  <2>2. CASE switches.stateless /\ UNCHANGED budget
    BY <1>1, <2>2 DEF PageInv, PageTypes, BudgetIsKept
  <2>3. CASE ~switches.stateless /\ ~UNCHANGED <<text, budget>>
    BY <1>6, <2>3
  <2>. QED
    BY <1>4, <2>1, <2>2, <2>3
<1>8. PageTypes' /\ WaysAreKept'
  BY <1>1, <1>2, <1>7 DEF PageInv, PageTypes, WaysAreKept, Stages
<1>9. TextStems'
  <2>1. \A g \in Fields : DOMAIN text[g] = DOMAIN reply[g]
    BY <1>1 DEF PageInv, TextStems
  <2>2. \A g \in Fields : \A k \in DOMAIN text'[g] :
          /\ text'[g][k] = "canary" => reply[g][k] = "canary"
          /\ reply[g][k] = "own" => text'[g][k] \in {"own", "value"}
    <3>. SUFFICES ASSUME NEW g \in Fields, NEW k \in DOMAIN text'[g]
                  PROVE  /\ text'[g][k] = "canary" => reply[g][k] = "canary"
                         /\ reply[g][k] = "own" => text'[g][k] \in {"own", "value"}
      OBVIOUS
    <3>1. k \in DOMAIN text[g]
      BY <1>3
    <3>2. /\ text[g][k] = "canary" => reply[g][k] = "canary"
          /\ reply[g][k] = "own" => text[g][k] \in {"own", "value"}
      BY <1>1, <3>1 DEF PageInv, TextStems
    <3>. QED
      BY <1>3, <3>1, <3>2
  <2>. QED
    BY <1>1, <1>3, <2>1, <2>2, ZenonT(60) DEF TextStems
<1>10. CanaryIsHeld'
  BY <1>1 DEF PageInv, CanaryIsHeld
<1>11. ScanIsDone'
  <2>. SUFFICES ASSUME switches.scan, route # "error", form # "binary" \/ route = "post",
                       NEW g \in Fields \ (Structural \cup unscanned),
                       NEW k \in DOMAIN text'[g], text'[g][k] = "pii"
                PROVE  FALSE
    BY <1>1 DEF ScanIsDone
  <2>1. k \in DOMAIN text[g] /\ text[g][k] = "pii"
    BY <1>3
  <2>. QED
    BY <1>1, <2>1 DEF PageInv, ScanIsDone
<1>12. ContentIsRestored'
  <2>. SUFFICES ASSUME route = "post", ~switches.stateless,
                       at' = "restored" \/ (at' = "restoring" /\ "content" \notin todo'),
                       NEW k \in DOMAIN text'["content"], text'["content"][k] = "own"
                PROVE  FALSE
    BY <1>1 DEF ContentIsRestored
  <2>1. "content" \in Fields
    BY DEF Fields
  <2>2. CASE f = "content"
    <3>1. text'[f] = With(text[f], "own", "value")
      BY <1>2, <2>2
    <3>2. \A j \in DOMAIN With(text[f], "own", "value") : With(text[f], "own", "value")[j] # "own"
      BY WithReplaces
    <3>. QED
      BY <2>2, <3>1, <3>2
  <2>3. CASE f # "content"
    BY <1>1, <1>2, <2>1, <2>3 DEF PageInv, ContentIsRestored
  <2>. QED
    BY <2>2, <2>3
<1>. QED
  BY <1>7, <1>8, <1>9, <1>10, <1>11, <1>12 DEF PageInv

(* The text falls back to the reply, scanned as far as it can be. *)
LEMMA FallsBackStep == ASSUME PageInv, FallsBack PROVE PageInv'
<1>1. /\ UNCHANGED <<switches, route, form, reply>> /\ at = "fallback" /\ at' = "text" /\ todo' = Fields
      /\ budget' = Limit /\ route # "error"
      /\ unscanned' \subseteq Fields /\ DOMAIN text' = Fields
  BY DEF FallsBack, Keeps, GoesOn, PageInv, PageTypes, WaysAreKept
<1>2. /\ \A g \in Fields : text'[g] = reply[g] \/ text'[g] = Scanned(reply[g])
      /\ switches.scan => \A g \in Fields \ unscanned' : text'[g] = Scanned(reply[g])
  <2>1. DOMAIN reply = Fields
    BY DEF PageInv, PageTypes
  <2>. QED
    BY <2>1 DEF FallsBack
<1>3. \A g \in Fields :
        /\ DOMAIN text'[g] = DOMAIN reply[g]
        /\ \A k \in DOMAIN text'[g] :
             text'[g][k] = reply[g][k] \/ (text'[g][k] = "redacted" /\ reply[g][k] \in {"pii", "value"})
  BY <1>2, ScannedText
<1>4. PageTypes' /\ WaysAreKept'
  BY <1>1, ReplyAssumption DEF PageInv, PageTypes, WaysAreKept, Stages
<1>5. \A g \in Fields : \A k \in DOMAIN text'[g] : text'[g][k] # "value"
  BY <1>3, ReplyHasNoValue DEF PageInv, PageTypes
<1>6. TextStems'
  BY <1>1, <1>3, <1>5 DEF TextStems
<1>7. CanaryIsHeld'
  BY <1>1 DEF PageInv, CanaryIsHeld
<1>8. ScanIsDone'
  <2>1. \A g \in Fields \ unscanned' : switches.scan => \A k \in DOMAIN text'[g] : text'[g][k] # "pii"
    BY <1>2, ScannedText
  <2>. QED
    BY <1>1, <2>1 DEF ScanIsDone
<1>9. ContentIsRestored'
  BY <1>1 DEF ContentIsRestored
<1>10. BudgetIsKept'
  <2>1. Cardinality(Places(text', "value")) = 0
    BY <1>5, NoPlace
  <2>. QED
    BY <1>1, <2>1, ReplyAssumption DEF BudgetIsKept, Restorations
<1>. QED
  BY <1>4, <1>6, <1>7, <1>8, <1>9, <1>10 DEF PageInv

LEMMA RestoresTextStep == ASSUME PageInv, RestoresText PROVE PageInv'
<1>1. /\ UNCHANGED <<switches, route, form, reply, unscanned>> /\ at = "text" /\ todo' = Fields
      /\ at' \in {"raw", "too large"} /\ route # "error"
  BY DEF RestoresText, Keeps, GoesOn, PageInv, WaysAreKept
<1>2. \/ (switches.stateless \/ at' = "too large") /\ UNCHANGED <<text, budget>>
      \/ /\ ~switches.stateless /\ ~(Total(text) > budget) /\ budget' = budget - Total(text)
         /\ text' = [g \in Fields |-> With(text[g], "own", "value")]
  BY DEF RestoresText, GoesOn
<1>3. DOMAIN text = Fields /\ \A g \in Fields : \A k \in DOMAIN text[g] : text[g][k] # "value"
  BY <1>1 DEF PageInv, PageTypes, TextStems
<1>4. /\ DOMAIN text' = Fields
      /\ \A g \in Fields :
           /\ DOMAIN text'[g] = DOMAIN text[g]
           /\ \A k \in DOMAIN text[g] :
                /\ text'[g][k] = text[g][k] \/ (text'[g][k] = "value" /\ text[g][k] = "own")
                /\ at' = "raw" /\ ~switches.stateless => text'[g][k] # "own"
  <2>1. CASE UNCHANGED text /\ (switches.stateless \/ at' = "too large")
    BY <1>3, <2>1
  <2>2. CASE text' = [g \in Fields |-> With(text[g], "own", "value")]
    <3>1. \A g \in Fields :
            /\ DOMAIN With(text[g], "own", "value") = DOMAIN text[g]
            /\ \A k \in DOMAIN text[g] :
                 With(text[g], "own", "value")[k] = IF text[g][k] = "own" THEN "value" ELSE text[g][k]
      BY WithReplaces
    <3>. QED
      BY <2>2, <3>1
  <2>. QED
    BY <1>2, <2>1, <2>2
<1>5. budget' \in Nat /\ budget' <= Limit /\ BudgetIsKept'
  <2>1. budget \in Nat /\ budget <= Limit /\ Limit \in Nat
    BY ReplyAssumption DEF PageInv, PageTypes
  <2>2. CASE UNCHANGED <<text, budget>>
    BY <1>1, <2>1, <2>2, SameBudget DEF PageInv
  <2>3. CASE /\ ~switches.stateless /\ ~(Total(text) > budget) /\ budget' = budget - Total(text)
             /\ text' = [g \in Fields |-> With(text[g], "own", "value")]
    <3>1. Total(text) \in Nat /\ budget' \in Nat /\ budget' <= Limit
      BY <2>1, <2>3, PlacesAreFinite DEF Total
    <3>2. Places(text', "value") = Places(text, "own")
      <4>1. \A g \in Fields : /\ DOMAIN text'[g] = DOMAIN text[g]
                              /\ \A k \in DOMAIN text[g] : (text'[g][k] = "value") <=> (text[g][k] = "own")
        BY <1>3, <2>3, WithReplaces
      <4>. QED
        BY <4>1 DEF Places
    <3>3. Cardinality(Places(text', "value")) + budget' <= Limit
      BY <2>1, <2>3, <3>1, <3>2 DEF Total
    <3>. QED
      BY <3>1, <3>3 DEF BudgetIsKept, Restorations
  <2>. QED
    BY <1>2, <2>2, <2>3
<1>6. PageTypes' /\ WaysAreKept'
  BY <1>1, <1>4, <1>5 DEF PageInv, PageTypes, WaysAreKept, Stages
<1>7. TextStems'
  <2>1. \A g \in Fields : DOMAIN text[g] = DOMAIN reply[g]
    BY <1>1 DEF PageInv, TextStems
  <2>2. \A g \in Fields : \A k \in DOMAIN text[g] :
          /\ text[g][k] = "canary" => reply[g][k] = "canary"
          /\ reply[g][k] = "own" => text[g][k] \in {"own", "value"}
    BY <1>1 DEF PageInv, TextStems
  <2>3. \A g \in Fields : \A k \in DOMAIN text'[g] :
          /\ text'[g][k] = "canary" => reply[g][k] = "canary"
          /\ reply[g][k] = "own" => text'[g][k] \in {"own", "value"}
    BY <1>4, <2>2
  <2>4. \A g \in Fields : DOMAIN text'[g] = DOMAIN reply[g]
    BY <1>4, <2>1
  <2>. QED
    BY <1>1, <2>3, <2>4 DEF TextStems
<1>8. CanaryIsHeld'
  BY <1>1 DEF PageInv, CanaryIsHeld
<1>9. ScanIsDone'
  <2>. SUFFICES ASSUME switches.scan, route # "error", form # "binary" \/ route = "post",
                       NEW g \in Fields \ (Structural \cup unscanned),
                       NEW k \in DOMAIN text'[g], text'[g][k] = "pii"
                PROVE  FALSE
    BY <1>1 DEF ScanIsDone
  <2>1. k \in DOMAIN text[g] /\ text[g][k] = "pii"
    BY <1>4
  <2>. QED
    BY <1>1, <2>1 DEF PageInv, ScanIsDone
<1>10. ContentIsRestored'
  <2>1. "content" \in Fields
    BY DEF Fields
  <2>. QED
    BY <1>1, <1>4, <2>1 DEF ContentIsRestored
<1>. QED
  BY <1>5, <1>6, <1>7, <1>8, <1>9, <1>10 DEF PageInv

LEMMA ReturnsStep == ASSUME PageInv, IsReturned PROVE PageInv'
<1>1. /\ UNCHANGED <<switches, route, form, reply, text, unscanned, budget>> /\ todo' = Fields
      /\ at \in {"restored", "raw"} /\ at' = "sent"
  BY DEF IsReturned, Keeps, KeepsText, GoesOn
<1>2. PageTypes' /\ WaysAreKept' /\ BudgetIsKept'
  BY <1>1, SameBudget DEF PageInv, PageTypes, WaysAreKept, Stages
<1>3. TextStems' /\ CanaryIsHeld'
  BY <1>1 DEF PageInv, TextStems, CanaryIsHeld
<1>4. ScanIsDone' /\ ContentIsRestored'
  BY <1>1 DEF PageInv, ScanIsDone, ContentIsRestored
<1>. QED
  BY <1>2, <1>3, <1>4 DEF PageInv

(* Of another method: what is neither scanned nor restored, and what is    *)
(* only scanned.                                                           *)
LEMMA PassesStep == ASSUME PageInv, NEW restores \in BOOLEAN, PassesThrough(restores) PROVE PageInv'
<1>1. /\ UNCHANGED <<switches, route, form, reply, budget>> /\ at = "arrived" /\ todo' = Fields
      /\ route = "other" /\ at' \in {"raw", "fallback", "scanning", "restoring"}
  BY DEF PassesThrough, Keeps, GoesOn
<1>2. text = reply /\ DOMAIN reply = Fields
  BY <1>1 DEF PageInv, PageTypes, TextStems
<1>3. /\ unscanned' \subseteq Fields /\ DOMAIN text' = Fields
      /\ \A g \in Fields : text'[g] = reply[g] \/ text'[g] = Scanned(reply[g])
      /\ at' # "raw" => text' = reply
      /\ at' = "restoring" => ~switches.scan
      /\ at' = "raw" /\ switches.scan /\ form # "binary" =>
           \A g \in Fields \ (Structural \cup unscanned') : text'[g] = Scanned(reply[g])
  <2>1. CASE form = "binary" \/ ~(switches.scan \/ restores)
    BY <1>2, <2>1 DEF PassesThrough, GoesOn, PageInv, PageTypes
  <2>2. CASE ~(form = "binary" \/ ~(switches.scan \/ restores)) /\ restores /\ at' # "raw"
    <3>1. UNCHANGED <<text, unscanned>> /\ (at' = "restoring" => ~switches.scan)
      <4>1. CASE form = "text"
        BY <2>2, <4>1 DEF PassesThrough, GoesOn
      <4>2. CASE form = "json" /\ switches.scan
        <5>1. ~(form = "binary" \/ ~(switches.scan \/ restores)) /\ ~(form = "text" /\ restores)
          BY <2>2, <4>2
        <5>2. GoesOn("scanning") /\ UNCHANGED <<text, unscanned>>
          BY <2>2, <4>2, <5>1 DEF PassesThrough
        <5>. QED
          BY <5>2 DEF GoesOn
      <4>3. CASE form = "json" /\ ~switches.scan
        BY <2>2, <4>3 DEF PassesThrough, GoesOn
      <4>4. CASE form \notin {"text", "json"}
        BY <2>2, <4>4 DEF PassesThrough, GoesOn
      <4>. QED
        BY <4>1, <4>2, <4>3, <4>4 DEF PageInv, PageTypes
    <3>. QED
      BY <1>2, <2>2, <3>1 DEF PageInv, PageTypes
  <2>3. CASE /\ GoesOn("raw")
             /\ \/ /\ text' = [f \in Fields |-> IF form = "json" /\ f \in Structural
                                               THEN reply[f] ELSE Scanned(reply[f])]
                   /\ UNCHANGED unscanned
                \/ unscanned' = Fields /\ UNCHANGED text
    <3>1. at' = "raw"
      BY <2>3 DEF GoesOn
    <3>2. CASE /\ text' = [f \in Fields |-> IF form = "json" /\ f \in Structural
                                           THEN reply[f] ELSE Scanned(reply[f])]
               /\ UNCHANGED unscanned
      BY <3>1, <3>2 DEF PageInv, PageTypes
    <3>3. CASE unscanned' = Fields /\ UNCHANGED text
      BY <1>2, <3>1, <3>3
    <3>. QED
      BY <2>3, <3>2, <3>3
  <2>. QED
    BY <2>1, <2>2, <2>3 DEF PassesThrough, GoesOn
<1>4. \A g \in Fields :
        /\ DOMAIN text'[g] = DOMAIN reply[g]
        /\ \A k \in DOMAIN text'[g] :
             text'[g][k] = reply[g][k] \/ (text'[g][k] = "redacted" /\ reply[g][k] \in {"pii", "value"})
  BY <1>3, ScannedText
<1>5. PageTypes' /\ WaysAreKept'
  BY <1>1, <1>3 DEF PageInv, PageTypes, WaysAreKept, Stages
<1>6. \A g \in Fields : \A k \in DOMAIN text'[g] : text'[g][k] # "value"
  <2>1. \A g \in Fields : \A k \in DOMAIN reply[g] : reply[g][k] # "value"
    BY ReplyHasNoValue DEF PageInv, PageTypes
  <2>. QED
    BY <1>4, <2>1
<1>7. TextStems'
  BY <1>1, <1>4, <1>6 DEF TextStems
<1>8. CanaryIsHeld' /\ ContentIsRestored'
  BY <1>1 DEF CanaryIsHeld, ContentIsRestored
<1>9. ScanIsDone'
  <2>1. at' = "raw" /\ switches.scan /\ form # "binary" =>
          \A g \in Fields \ (Structural \cup unscanned') : \A k \in DOMAIN text'[g] : text'[g][k] # "pii"
    BY <1>3, ScannedText
  <2>. QED
    BY <1>1, <1>3, <2>1 DEF ScanIsDone
<1>10. BudgetIsKept'
  <2>1. Cardinality(Places(text', "value")) = 0
    BY <1>6, NoPlace
  <2>2. budget \in Nat /\ budget <= Limit /\ Limit \in Nat
    BY ReplyAssumption DEF PageInv, PageTypes
  <2>. QED
    BY <1>1, <2>1, <2>2 DEF BudgetIsKept, Restorations
<1>. QED
  BY <1>5, <1>7, <1>8, <1>9, <1>10 DEF PageInv

LEMMA ErrorStep == ASSUME PageInv, AnswersError PROVE PageInv'
<1>1. /\ UNCHANGED <<switches, route, form, reply, unscanned, budget>> /\ at = "arrived" /\ todo' = Fields
      /\ route = "error" /\ at' = "raw" /\ DOMAIN text' = Fields
  BY DEF AnswersError, Keeps, GoesOn
<1>2. \A g \in Fields : \A k \in DOMAIN text'[g] : text'[g][k] \notin {"key", "pii", "value"}
  <2>1. CASE text' = [g \in Fields |-> <<>>]
    BY <2>1
  <2>2. CASE text' = [g \in Fields |-> Scrubbed(reply[g])]
    <3>. SUFFICES ASSUME NEW g \in Fields, NEW k \in DOMAIN text'[g]
                  PROVE  text'[g][k] \notin {"key", "pii", "value"}
      OBVIOUS
    <3>. DEFINE t == With(reply[g], "key", "redacted")
    <3>1. \A j \in DOMAIN t : t[j] # "key"
      BY WithReplaces
    <3>2. text'[g] = Scanned(t)
      BY <2>2 DEF Scrubbed
    <3>. HIDE DEF t
    <3>. QED
      BY <3>1, <3>2, ScannedText
  <2>. QED
    BY <2>1, <2>2 DEF AnswersError
<1>3. PageTypes' /\ WaysAreKept'
  BY <1>1 DEF PageInv, PageTypes, WaysAreKept, Stages
<1>4. TextStems' /\ CanaryIsHeld' /\ ScanIsDone' /\ ContentIsRestored'
  BY <1>1, <1>2 DEF TextStems, CanaryIsHeld, ScanIsDone, ContentIsRestored
<1>5. BudgetIsKept'
  <2>1. Cardinality(Places(text', "value")) = 0
    BY <1>2, NoPlace
  <2>2. budget \in Nat /\ budget <= Limit /\ Limit \in Nat
    BY ReplyAssumption DEF PageInv, PageTypes
  <2>. QED
    BY <1>1, <2>1, <2>2 DEF BudgetIsKept, Restorations
<1>. QED
  BY <1>3, <1>4, <1>5 DEF PageInv

LEMMA PageStep == PageInv /\ [RPNext]_pageVars => PageInv'
<1>. SUFFICES ASSUME PageInv, [RPNext]_pageVars PROVE PageInv'
  OBVIOUS
<1>1. CASE UNCHANGED pageVars
  <2>1. UNCHANGED <<switches, route, form, reply, text, unscanned, todo, budget, at>>
    BY <1>1 DEF pageVars
  <2>2. PageTypes' /\ WaysAreKept'
    BY <2>1 DEF PageInv, PageTypes, WaysAreKept
  <2>3. TextStems' /\ CanaryIsHeld'
    BY <2>1 DEF PageInv, TextStems, CanaryIsHeld
  <2>4. ScanIsDone' /\ ContentIsRestored'
    BY <2>1 DEF PageInv, ScanIsDone, ContentIsRestored
  <2>5. BudgetIsKept'
    BY <2>1 DEF PageInv, BudgetIsKept, Restorations, Places
  <2>. QED
    BY <2>2, <2>3, <2>4, <2>5 DEF PageInv
<1>. QED
  BY <1>1, ChecksStep, RaisesStep, ScansStep, RestoresStep, FallsBackStep, RestoresTextStep, ReturnsStep,
     PassesStep, ErrorStep DEF RPNext

(* Whatever fails on the way, what is sent of a reply holds no canary, no  *)
(* key of ours and no identifier a scan went through, leaves out none of   *)
(* the caller's values where a field is known, and restores no more than   *)
(* the budget (main.py:1986-2107, 2246-2305, 2350-2387, 546-584).          *)
THEOREM RequestReplyIsCleanAndWhole == RPSpec => []ReplyIsCleanAndWhole
<1>1. PageInv => ReplyIsCleanAndWhole
  <2>. SUFFICES ASSUME PageInv, at = "sent" PROVE ReplyIsCleanAndWhole
    BY DEF ReplyIsCleanAndWhole
  <2>1. route = "post" /\ switches.canary => "canary" \notin Pieces(text)
    <3>. SUFFICES ASSUME route = "post", switches.canary, NEW f \in Fields, NEW k \in DOMAIN text[f],
                         text[f][k] = "canary"
                  PROVE  FALSE
      BY DEF Pieces
    <3>1. k \in DOMAIN reply[f] /\ reply[f][k] = "canary"
      BY DEF PageInv, TextStems
    <3>. QED
      BY <3>1 DEF PageInv, CanaryIsHeld
  <2>2. route = "error" => Pieces(text) \cap {"key", "pii"} = {}
    <3>1. route = "error" => \A f \in Fields : \A k \in DOMAIN text[f] : text[f][k] \notin {"key", "pii"}
      BY DEF PageInv, TextStems
    <3>. QED
      BY <3>1 DEF Pieces
  <2>3. switches.scan /\ route # "error" /\ (form # "binary" \/ route = "post") =>
          \A f \in Fields \ (Structural \cup unscanned) : \A k \in DOMAIN text[f] : text[f][k] # "pii"
    BY DEF PageInv, ScanIsDone
  <2>4. route # "error" => \A f \in Fields : \A k \in DOMAIN text[f] :
          reply[f][k] = "own" => text[f][k] \in {"own", "value"}
    BY DEF PageInv, TextStems
  <2>5. route = "post" /\ ~switches.stateless => \A k \in DOMAIN text["content"] : text["content"][k] # "own"
    BY DEF PageInv, ContentIsRestored
  <2>6. ~switches.stateless => Restorations <= Limit
    <3>1. Restorations \in Nat /\ budget \in Nat /\ Limit \in Nat
      BY PlacesAreFinite, ReplyAssumption DEF PageInv, PageTypes, Restorations
    <3>. QED
      BY <3>1 DEF PageInv, BudgetIsKept
  <2>. QED
    BY <2>1, <2>2, <2>3, <2>4, <2>5, <2>6 DEF ReplyIsCleanAndWhole
<1>. QED
  BY <1>1, PageInit, PageStep, PTL DEF RPSpec

(***************************************************************************)
(* The spans of one text (SpanSelection).  Sorted, those kept are in order *)
(* and each reported one begins in one kept; grown over the digits behind  *)
(* it, a span stays before the next; and every step of the replacement,    *)
(* from the last span to the first, leaves the text before the span as the *)
(* caller wrote it and behind it the rest of the reference text.           *)
(***************************************************************************)
Spans == Nat \X Nat
Symbols == Character \cup [token : Spans, half : {1, 2}]

(* Spans one after the other, each with something in it. *)
InOrder(chosen, t) ==
  /\ \A k \in 1 .. Len(chosen) : chosen[k] \in Span(t)
  /\ \A k, l \in 1 .. Len(chosen) : k < l => chosen[k][2] <= chosen[l][1]

(* What comes after a span is not the rest of its digits. *)
RunIsOver(t, past, masked) ==
  IsDigit(t, past - 1) =>
    /\ IsDigit(t, past) => past \in masked
    /\ (past \in DOMAIN t /\ t[past] = "-" /\ IsDigit(t, past + 1)) => past \in masked \/ past + 1 \in masked

LEMMA SpanIs ==
  ASSUME NEW t \in Seq(Character), NEW s \in Span(t)
  PROVE  /\ s \in Spans /\ s[1] \in 1 .. Len(t) /\ s[2] \in 2 .. Len(t) + 1 /\ s[1] < s[2]
         /\ Len(t) \in Nat /\ s = <<s[1], s[2]>>
BY DEF Span, Spans

LEMMA ReportedIsSpan ==
  ASSUME NEW t \in Seq(Character) PROVE Reported(t) \subseteq Span(t)
<1>1. Guard \in Nat \ {0} /\ Framing \in Nat \ {0} /\ MaxInspected \in Nat /\ 2 * Guard <= MaxInspected
  BY SpanAssumption
<1>2. ASSUME NEW s \in Runs(t), Oversized(s)
      PROVE  <<s[1], s[1] + Guard>> \in Span(t) /\ <<TailGuard(s), s[2]>> \in Span(t)
  <2>1. /\ s[1] \in 1 .. Len(t) /\ s[2] \in 2 .. Len(t) + 1 /\ s[1] < s[2] /\ Len(t) \in Nat
        /\ s[2] - s[1] > MaxInspected
    BY <1>2, SpanIs DEF Runs, Oversized
  <2>2. PICK a \in Nat, b \in Nat : a = s[1] /\ b = s[2]
    BY <2>1
  <2>3. PICK o \in Nat : o = (b - a) - Guard
    BY <1>1, <2>1, <2>2
  <2>4. o % Framing \in 0 .. o
    <3>1. o % Framing \in 0 .. Framing - 1 /\ (o < Framing => o % Framing = o)
      BY <1>1
    <3>. QED  BY <1>1, <3>1
  <2>5. TailGuard(s) = a + (o - (o % Framing))
    BY <2>2, <2>3 DEF TailGuard
  <2>6. PICK c \in 0 .. o : c = o % Framing
    BY <2>4
  <2>7. TailGuard(s) \in 1 .. Len(t) /\ TailGuard(s) < b
    <3>1. TailGuard(s) = a + (o - c)
      BY <2>5, <2>6
    <3>4. c \in Nat /\ c <= o
      BY <2>6
    <3>3. o < b - a /\ o - c \in 0 .. o
      BY <1>1, <2>3, <3>4
    <3>2. a \in 1 .. Len(t) /\ b \in 2 .. Len(t) + 1 /\ o = (b - a) - Guard /\ Len(t) \in Nat
      BY <2>1, <2>2, <2>3
    <3>. QED  BY <3>1, <3>2, <3>3, SMTT(30)
  <2>8. a + Guard \in 2 .. Len(t) + 1 /\ a < a + Guard
    BY <1>1, <2>1, <2>2
  <2>. QED  BY <2>1, <2>2, <2>7, <2>8 DEF Span
<1>3. Encoded(t) \subseteq Span(t)
  <2>1. Runs(t) \subseteq Span(t)
    BY DEF Runs
  <2>2. {s \in Runs(t) : ~Oversized(s)} \subseteq Span(t)
    BY <2>1
  <2>. DEFINE Ends == UNION {{<<s[1], s[1] + Guard>>, <<TailGuard(s), s[2]>>} : s \in {run \in Runs(t) : Oversized(run)}}
  <2>3. ASSUME NEW e \in Ends PROVE e \in Span(t)
    <3>1. PICK s \in Runs(t) : Oversized(s) /\ e \in {<<s[1], s[1] + Guard>>, <<TailGuard(s), s[2]>>}
      BY <2>3, Zenon
    <3>2. e = <<s[1], s[1] + Guard>> \/ e = <<TailGuard(s), s[2]>>
      BY <3>1, Zenon
    <3>. QED  BY <1>2, <3>1, <3>2, Zenon
  <2>4. Encoded(t) = {s \in Runs(t) : ~Oversized(s)} \cup Ends
    BY DEF Encoded
  <2>. QED  BY <2>2, <2>3, <2>4, Zenon
<1>. QED  BY <1>3 DEF Reported, Escaped

-----------------------------------------------------------------------------
(* Which of the spans are kept *)

LEMMA KeptSteps ==
  ASSUME NEW S, NEW order \in Seq(S)
  PROVE  \E f \in [0 .. Len(order) -> Seq(S)] :
           /\ f[0] = <<>>
           /\ \A k \in 1 .. Len(order) :
                f[k] = IF f[k - 1] = <<>> \/ order[k][1] >= Last(f[k - 1])[2] THEN Append(f[k - 1], order[k])
                       ELSE f[k - 1]
           /\ NonOverlapping(order) = f[Len(order)]
<1>1. Len(order) \in Nat /\ <<>> \in Seq(S)
  OBVIOUS
<1>. DEFINE step == [k \in Nat |-> [q \in Seq(S) |->
                       IF k \in 1 .. Len(order) /\ (q = <<>> \/ order[k][1] >= Last(q)[2])
                       THEN Append(q, order[k]) ELSE q]]
<1>2. step \in [Nat -> [Seq(S) -> Seq(S)]]
  <2>1. ASSUME NEW k \in 1 .. Len(order), NEW q \in Seq(S) PROVE Append(q, order[k]) \in Seq(S)
    BY ElementOfSeq, AppendProperties
  <2>. QED  BY <2>1
<1>. HIDE DEF step
<1>3. PICK f \in [0 .. Len(order) -> Seq(S)] : Follows(f, Len(order), <<>>, step)
  BY <1>1, <1>2, Recursion
<1>4. f[0] = <<>>
  BY <1>3 DEF Follows
<1>5. ASSUME NEW k \in 1 .. Len(order)
      PROVE  f[k] = IF f[k - 1] = <<>> \/ order[k][1] >= Last(f[k - 1])[2] THEN Append(f[k - 1], order[k])
                    ELSE f[k - 1]
  <2>1. k - 1 \in 0 .. Len(order) /\ k \in Nat /\ f[k - 1] \in Seq(S)
    OBVIOUS
  <2>2. f[k] = step[k][f[k - 1]]
    BY <1>3 DEF Follows
  <2>. QED  BY <2>1, <2>2 DEF step
<1>6. NonOverlapping(order) = f[Len(order)]
  <2>. DEFINE Shape(g) == [k \in 0 .. Len(order) |->
                IF k = 0 THEN <<>>
                ELSE IF g[k - 1] = <<>> \/ order[k][1] >= Last(g[k - 1])[2] THEN Append(g[k - 1], order[k])
                ELSE g[k - 1]]
              kept == CHOOSE g : g = Shape(g)
  <2>1. f = Shape(f)
    <3>1. ASSUME NEW n \in 0 .. Len(order) PROVE f[n] = Shape(f)[n]
      <4>1. CASE n = 0
        BY <1>4, <4>1
      <4>2. CASE n # 0
        <5>1. n \in 1 .. Len(order)
          BY <4>2
        <5>2. f[n] = IF f[n - 1] = <<>> \/ order[n][1] >= Last(f[n - 1])[2] THEN Append(f[n - 1], order[n])
                     ELSE f[n - 1]
          BY <1>5, <5>1
        <5>. QED  BY <4>2, <5>2, Zenon
      <4>. QED  BY <4>1, <4>2
    <3>. QED  BY <3>1
  <2>2. kept = Shape(kept)
    <3>. HIDE DEF Shape
    <3>. QED  BY <2>1
  <2>. HIDE DEF kept
  <2>. DEFINE Same == {k \in 0 .. Len(order) : kept[k] = f[k]}
  <2>3. 0 \in Same
    BY <1>1, <1>4, <2>2
  <2>4. ASSUME NEW k \in 0 .. Len(order) - 1, k \in Same PROVE k + 1 \in Same
    <3>1. k + 1 \in 1 .. Len(order) /\ k + 1 \in 0 .. Len(order) /\ (k + 1) - 1 = k /\ k + 1 # 0
      BY <1>1
    <3>2. kept[k + 1] = IF kept[k] = <<>> \/ order[k + 1][1] >= Last(kept[k])[2]
                        THEN Append(kept[k], order[k + 1]) ELSE kept[k]
      BY <2>2, <3>1
    <3>3. f[k + 1] = IF f[k] = <<>> \/ order[k + 1][1] >= Last(f[k])[2] THEN Append(f[k], order[k + 1]) ELSE f[k]
      BY <1>5, <3>1
    <3>. QED  BY <2>4, <3>1, <3>2, <3>3
  <2>5. Len(order) \in Same
    <3>. HIDE DEF Same
    <3>1. 0 .. Len(order) \subseteq Same
      BY <1>1, <2>3, <2>4, UpTo
    <3>. QED  BY <1>1, <3>1
  <2>6. NonOverlapping(order) = kept[Len(order)]
    BY DEF NonOverlapping, kept
  <2>. QED  BY <2>5, <2>6
<1>. QED  BY <1>4, <1>5, <1>6

(* Of sorted spans those kept are in order, and each begins in one kept.   *)
LEMMA KeptAreInOrder ==
  ASSUME NEW t \in Seq(Character), NEW found \in SUBSET Span(t), NEW order \in Sorted(found), IsFiniteSet(found)
  PROVE  /\ NonOverlapping(order) \in Seq(Spans) /\ InOrder(NonOverlapping(order), t)
         /\ \A s \in found : \E k \in 1 .. Len(NonOverlapping(order)) :
              NonOverlapping(order)[k][1] <= s[1] /\ s[1] < NonOverlapping(order)[k][2]
<1>1. PICK n \in Nat : n = Cardinality(found)
  BY FS_CardinalityType
<1>2. /\ order \in [1 .. n -> found] /\ \A s \in found : \E k \in 1 .. n : order[k] = s
      /\ \A k, l \in 1 .. n : k < l => Before(order[k], order[l])
  BY <1>1 DEF Sorted
<1>3. order \in Seq(Span(t)) /\ Len(order) = n /\ \A k \in 1 .. n : order[k] \in found /\ order[k] \in Span(t)
  BY <1>2
<1>4. PICK f \in [0 .. n -> Seq(Span(t))] :
        /\ f[0] = <<>>
        /\ \A k \in 1 .. n :
             f[k] = IF f[k - 1] = <<>> \/ order[k][1] >= Last(f[k - 1])[2] THEN Append(f[k - 1], order[k])
                    ELSE f[k - 1]
        /\ NonOverlapping(order) = f[n]
  BY <1>3, KeptSteps
<1>. DEFINE Covered(j, q) == \E k \in 1 .. Len(q) : q[k][1] <= order[j][1] /\ order[j][1] < q[k][2]
            Good(k) == /\ \A i, j \in 1 .. Len(f[k]) : i < j => f[k][i][2] <= f[k][j][1]
                       /\ \A j \in 1 .. k : Covered(j, f[k])
                       /\ \A i \in 1 .. Len(f[k]) : \E j \in 1 .. k : f[k][i] = order[j]
            All == {k \in 0 .. n : Good(k)}
<1>5. 0 \in All
  BY <1>4
<1>6. ASSUME NEW k \in 0 .. n - 1, k \in All PROVE k + 1 \in All
  <2>1. k + 1 \in 1 .. n /\ (k + 1) - 1 = k /\ k \in 0 .. n /\ k + 1 \in 0 .. n /\ k \in Nat
    BY <1>1
  <2>2. PICK q \in Seq(Span(t)), s \in Span(t) : q = f[k] /\ s = order[k + 1]
    BY <1>3, <1>4, <2>1
  <2>3. f[k + 1] = IF q = <<>> \/ s[1] >= Last(q)[2] THEN Append(q, s) ELSE q
    BY <1>4, <2>1, <2>2
  <2>4. /\ \A i, j \in 1 .. Len(q) : i < j => q[i][2] <= q[j][1]
        /\ \A j \in 1 .. k : Covered(j, q)
        /\ \A i \in 1 .. Len(q) : \E j \in 1 .. k : q[i] = order[j]
    BY <1>6, <2>2
  <2>5. /\ s[1] \in Nat /\ s[2] \in Nat /\ s[1] < s[2] /\ Len(q) \in Nat
        /\ \A i \in 1 .. Len(q) : q[i] \in Span(t) /\ q[i][1] \in Nat /\ q[i][2] \in Nat /\ q[i][1] < q[i][2]
    <3>1. \A i \in 1 .. Len(q) : q[i] \in Span(t)
      BY ElementOfSeq
    <3>2. \A x \in Span(t) : x[1] \in Nat /\ x[2] \in Nat /\ x[1] < x[2]
      BY SpanIs
    <3>3. Len(q) \in Nat
      OBVIOUS
    <3>. QED  BY <3>1, <3>2, <3>3, Zenon
  <2>9. \A j \in 1 .. k + 1 : j \in 1 .. k \/ j = k + 1
    BY <2>1
  <2>. HIDE DEF Covered
  <2>6. CASE q = <<>> \/ s[1] >= Last(q)[2]
    <3>0. PICK g \in Seq(Span(t)) : g = f[k + 1]
      BY <1>4, <2>1
    <3>1. /\ g = Append(q, s) /\ Len(g) = Len(q) + 1
          /\ g[Len(q) + 1] = s /\ \A i \in 1 .. Len(q) : g[i] = q[i]
      BY <2>3, <2>6, <3>0, AppendProperties
    <3>7. \A i \in 1 .. Len(g) : i \in 1 .. Len(q) \/ i = Len(q) + 1
      BY <2>5, <3>1
    <3>8. 1 .. Len(q) \subseteq 1 .. Len(g) /\ Len(q) + 1 \in 1 .. Len(g)
      BY <2>5, <3>1
    <3>2. \A i \in 1 .. Len(q) : q[i][2] <= s[1]
      <4>. SUFFICES ASSUME NEW i \in 1 .. Len(q) PROVE q[i][2] <= s[1]
        OBVIOUS
      <4>0. PICK e \in 1 .. Len(q) : e = Len(q)
        BY <2>5
      <4>1. q[e][2] <= s[1]
        BY <2>5, <2>6, <4>0 DEF Last
      <4>2. CASE i = e
        BY <4>1, <4>2
      <4>3. CASE i < e
        <5>1. q[i][2] <= q[e][1]
          BY <2>4, <4>3
        <5>2. q[e][1] \in Nat /\ q[e][2] \in Nat /\ q[e][1] < q[e][2] /\ q[i][2] \in Nat
          BY <2>5
        <5>3. PICK u \in Nat, v \in Nat, w \in Nat, x \in Nat : u = q[i][2] /\ v = q[e][1] /\ w = q[e][2] /\ x = s[1]
          BY <2>5, <5>2
        <5>4. u <= v /\ v < w /\ w <= x
          BY <4>1, <5>1, <5>2, <5>3
        <5>5. u <= x
          BY <5>4
        <5>. QED  BY <5>3, <5>5, Zenon
      <4>. QED  BY <4>0, <4>2, <4>3
    <3>3. \A i, j \in 1 .. Len(g) : i < j => g[i][2] <= g[j][1]
      <4>. SUFFICES ASSUME NEW i \in 1 .. Len(g), NEW j \in 1 .. Len(g), i < j PROVE g[i][2] <= g[j][1]
        OBVIOUS
      <4>1. i \in 1 .. Len(q) /\ g[i] = q[i]
        BY <2>5, <3>1, <3>7
      <4>2. CASE j \in 1 .. Len(q)
        <5>1. g[j] = q[j] /\ q[i][2] <= q[j][1]
          BY <2>4, <3>1, <4>1, <4>2
        <5>. QED  BY <4>1, <5>1
      <4>3. CASE j = Len(q) + 1
        <5>1. g[j] = s /\ q[i][2] <= s[1]
          BY <3>1, <3>2, <4>1, <4>3
        <5>. QED  BY <4>1, <5>1
      <4>. QED  BY <3>7, <4>2, <4>3
    <3>4. \A j \in 1 .. k : Covered(j, g)
      <4>. SUFFICES ASSUME NEW j \in 1 .. k PROVE Covered(j, g)
        OBVIOUS
      <4>1. PICK i \in 1 .. Len(q) : q[i][1] <= order[j][1] /\ order[j][1] < q[i][2]
        BY <2>4 DEF Covered
      <4>2. i \in 1 .. Len(g) /\ g[i] = q[i]
        BY <3>1, <3>8
      <4>. QED  BY <4>1, <4>2 DEF Covered
    <3>5. Covered(k + 1, g)
      <4>1. PICK i \in 1 .. Len(g) : g[i] = order[k + 1]
        BY <2>2, <3>1, <3>8
      <4>2. order[k + 1][1] <= order[k + 1][1] /\ order[k + 1][1] < order[k + 1][2]
        BY <2>2, <2>5
      <4>. QED  BY <4>1, <4>2 DEF Covered
    <3>6. \A i \in 1 .. Len(g) : \E j \in 1 .. k + 1 : g[i] = order[j]
      <4>. SUFFICES ASSUME NEW i \in 1 .. Len(g) PROVE \E j \in 1 .. k + 1 : g[i] = order[j]
        OBVIOUS
      <4>1. CASE i \in 1 .. Len(q)
        <5>1. PICK j \in 1 .. k : q[i] = order[j]
          BY <2>4, <4>1
        <5>2. j \in 1 .. k + 1 /\ g[i] = q[i]
          BY <2>1, <3>1, <4>1
        <5>. QED  BY <5>1, <5>2
      <4>2. CASE i = Len(q) + 1
        <5>1. g[i] = order[k + 1] /\ k + 1 \in 1 .. k + 1
          BY <2>1, <2>2, <3>1, <4>2
        <5>. QED  BY <5>1
      <4>. QED  BY <3>7, <4>1, <4>2
    <3>10. \A j \in 1 .. k + 1 : Covered(j, g)
      BY <2>9, <3>4, <3>5, Zenon
    <3>. QED  BY <2>1, <3>0, <3>3, <3>6, <3>10
  <2>7. CASE ~(q = <<>> \/ s[1] >= Last(q)[2])
    <3>0. PICK e \in 1 .. Len(q) : e = Len(q)
      BY <2>5, <2>7
    <3>1. f[k + 1] = q /\ s[1] < q[e][2]
      <4>1. f[k + 1] = q /\ ~(s[1] >= q[e][2])
        BY <2>3, <2>7, <3>0 DEF Last
      <4>2. q[e][2] \in Nat /\ s[1] \in Nat
        BY <2>5
      <4>. QED  BY <4>1, <4>2
    <3>2. PICK j \in 1 .. k : q[e] = order[j]
      BY <2>4
    <3>3. Before(q[e], s)
      BY <1>2, <2>1, <2>2, <3>2
    <3>4. q[e][1] <= s[1]
      <4>1. PICK u \in Nat, v \in Nat : u = q[e][1] /\ v = s[1]
        BY <2>5
      <4>2. u < v \/ u = v
        BY <3>3, <4>1 DEF Before
      <4>. QED  BY <4>1, <4>2
    <3>5. Covered(k + 1, q)
      BY <2>2, <3>1, <3>4 DEF Covered
    <3>6. \A i \in 1 .. Len(q) : \E l \in 1 .. k + 1 : q[i] = order[l]
      BY <2>1, <2>4
    <3>7. \A l \in 1 .. k + 1 : Covered(l, q)
      BY <2>4, <2>9, <3>5, Zenon
    <3>. QED  BY <2>1, <2>4, <3>1, <3>6, <3>7
  <2>. QED  BY <2>6, <2>7
<1>7. n \in All
  <2>. HIDE DEF All
  <2>1. 0 .. n \subseteq All
    BY <1>1, <1>5, <1>6, UpTo
  <2>. QED  BY <1>1, <2>1
<1>8. Good(n) /\ f[n] \in Seq(Span(t))
  BY <1>1, <1>4, <1>7
<1>9. NonOverlapping(order) \in Seq(Spans)
  <2>1. Span(t) \subseteq Spans
    BY SpanIs
  <2>. QED  BY <1>4, <1>8, <2>1
<1>10. InOrder(NonOverlapping(order), t)
  <2>1. \A k \in 1 .. Len(f[n]) : f[n][k] \in Span(t)
    BY <1>8, ElementOfSeq
  <2>. QED  BY <1>4, <1>8, <2>1 DEF InOrder
<1>11. ASSUME NEW s \in found
       PROVE  \E k \in 1 .. Len(f[n]) : f[n][k][1] <= s[1] /\ s[1] < f[n][k][2]
  <2>1. PICK j \in 1 .. n : order[j] = s
    BY <1>2
  <2>. QED  BY <1>8, <2>1
<1>. QED  BY <1>4, <1>9, <1>10, <1>11

-----------------------------------------------------------------------------
(* How far a span grows *)

(* A run of digits has an end: behind it there is neither a digit nor a    *)
(* separator with a digit behind that, below the limit.                    *)
LEMMA RunHasAnEnd ==
  ASSUME NEW t \in Seq(Character), NEW past \in Nat, NEW limit \in Nat, past <= limit
  PROVE  LET e == ExtendSpanOverDigitRun(t, past, limit) IN
         /\ e \in past .. limit
         /\ e < limit => t[e] # "d" /\ ~(t[e] = "-" /\ e + 1 < limit /\ IsDigit(t, e + 1))
<1>. DEFINE InRun(i, e) == t[i] = "d" \/ (t[i] = "-" /\ i + 1 < e /\ IsDigit(t, i + 1))
            Reaches(e) == \A i \in past .. e - 1 : InRun(i, e)
            Ends(e) == e < limit => t[e] # "d" /\ ~(t[e] = "-" /\ e + 1 < limit /\ IsDigit(t, e + 1))
            Rest == {left \in Nat : \E e \in past .. limit : left = limit - e /\ Reaches(e)}
<1>1. limit - past \in Rest
  <2>1. Reaches(past) /\ past \in past .. limit /\ limit - past \in Nat
    OBVIOUS
  <2>. QED  BY <2>1
<1>2. PICK left \in Rest : \A x \in Rest : left <= x
  BY <1>1, LeastNatural
<1>3. PICK e \in past .. limit : left = limit - e /\ Reaches(e)
  BY <1>2
<1>. HIDE DEF Rest
<1>4. \A x \in past .. limit : Reaches(x) => x <= e
  <2>. SUFFICES ASSUME NEW x \in past .. limit, Reaches(x) PROVE x <= e
    OBVIOUS
  <2>1. limit - x \in Rest
    BY DEF Rest
  <2>. QED  BY <1>2, <1>3, <2>1
<1>5. e \in Nat /\ past <= e /\ \A i, x \in Nat : x > e /\ InRun(i, e) => InRun(i, x)
  <2>1. e \in Nat /\ past <= e
    OBVIOUS
  <2>2. ASSUME NEW i \in Nat, NEW x \in Nat, x > e, InRun(i, e) PROVE InRun(i, x)
    BY <2>1, <2>2
  <2>. QED  BY <2>1, <2>2
<1>6. \A i \in past .. e - 1 : InRun(i, e)
  BY <1>3
<1>. HIDE DEF InRun
<1>7. Ends(e)
  <2>. SUFFICES ASSUME e < limit PROVE t[e] # "d" /\ ~(t[e] = "-" /\ e + 1 < limit /\ IsDigit(t, e + 1))
    OBVIOUS
  <2>1. ASSUME t[e] = "d" PROVE FALSE
    <3>1. \A i \in past .. (e + 1) - 1 : i \in Nat /\ (i \in past .. e - 1 \/ i = e)
      BY <1>5
    <3>2. InRun(e, e + 1)
      BY <2>1 DEF InRun
    <3>3. \A i \in past .. e - 1 : i \in Nat /\ InRun(i, e + 1)
      BY <1>5, <1>6
    <3>4. Reaches(e + 1)
      BY <3>1, <3>2, <3>3
    <3>5. e + 1 \in past .. limit
      BY <1>5
    <3>. QED  BY <1>4, <1>5, <3>4, <3>5
  <2>2. ASSUME t[e] = "-", e + 1 < limit, IsDigit(t, e + 1) PROVE FALSE
    <3>1. \A i \in past .. (e + 2) - 1 : i \in Nat /\ (i \in past .. e - 1 \/ i = e \/ i = e + 1)
      BY <1>5
    <3>2. InRun(e, e + 2) /\ InRun(e + 1, e + 2)
      BY <1>5, <2>2 DEF InRun, IsDigit
    <3>3. \A i \in past .. e - 1 : i \in Nat /\ InRun(i, e + 2)
      BY <1>5, <1>6
    <3>4. Reaches(e + 2)
      BY <3>1, <3>2, <3>3
    <3>5. e + 2 \in past .. limit
      BY <1>5, <2>2
    <3>. QED  BY <1>4, <1>5, <3>4, <3>5
  <2>. QED  BY <2>1, <2>2
<1>8. \E x \in past .. limit : Reaches(x) /\ Ends(x)
  BY <1>3, <1>7
<1>. DEFINE found == CHOOSE x \in past .. limit : Reaches(x) /\ Ends(x)
<1>9. ExtendSpanOverDigitRun(t, past, limit) = found
  BY DEF ExtendSpanOverDigitRun, InRun
<1>10. found \in past .. limit /\ Ends(found)
  <2>. HIDE DEF Reaches, Ends
  <2>. QED  BY <1>8
<1>. QED  BY <1>9, <1>10

Masked(chosen) == UNION {Chars(chosen[k]) : k \in 1 .. Len(chosen)}

LEMMA MaskedIs ==
  ASSUME NEW t \in Seq(Character), NEW chosen \in Seq(Spans), InOrder(chosen, t), NEW i \in Nat
  PROVE  i \in Masked(chosen) <=> \E k \in 1 .. Len(chosen) : chosen[k][1] <= i /\ i < chosen[k][2]
<1>1. \A k \in 1 .. Len(chosen) : chosen[k][1] \in Nat /\ chosen[k][2] \in Nat
  BY SpanIs DEF InOrder
<1>2. ASSUME NEW k \in 1 .. Len(chosen)
      PROVE  i \in Chars(chosen[k]) <=> chosen[k][1] <= i /\ i < chosen[k][2]
  <2>1. PICK a \in Nat, b \in Nat : a = chosen[k][1] /\ b = chosen[k][2]
    BY <1>1
  <2>2. i \in a .. b - 1 <=> a <= i /\ i < b
    OBVIOUS
  <2>. QED  BY <2>1, <2>2 DEF Chars
<1>. QED  BY <1>2 DEF Masked

LEMMA CompletedSpans ==
  ASSUME NEW t \in Seq(Character), NEW chosen \in Seq(Spans), InOrder(chosen, t)
  PROVE  LET grown == Completed(t, chosen) IN
         /\ grown \in Seq(Spans) /\ Len(grown) = Len(chosen) /\ InOrder(grown, t)
         /\ \A k \in 1 .. Len(chosen) : grown[k][1] = chosen[k][1] /\ chosen[k][2] <= grown[k][2]
         /\ \A k \in 1 .. Len(grown) : RunIsOver(t, grown[k][2], Masked(grown))
<1>1. Len(chosen) \in Nat /\ Len(t) \in Nat /\ DOMAIN chosen = 1 .. Len(chosen) /\ DOMAIN t = 1 .. Len(t)
  OBVIOUS
<1>. DEFINE Ceiling(k) == IF k < Len(chosen) THEN chosen[k + 1][1] ELSE Len(t) + 1
            Grown(k) == IF IsDigit(t, chosen[k][2] - 1)
                        THEN <<chosen[k][1], ExtendSpanOverDigitRun(t, chosen[k][2], Ceiling(k))>> ELSE chosen[k]
<1>2. \A k \in 1 .. Len(chosen) :
        /\ chosen[k] \in Span(t) /\ chosen[k][1] \in Nat /\ chosen[k][2] \in Nat
        /\ chosen[k][1] \in 1 .. Len(t) /\ chosen[k][2] \in 2 .. Len(t) + 1 /\ chosen[k][1] < chosen[k][2]
  BY SpanIs DEF InOrder
<1>3. ASSUME NEW k \in 1 .. Len(chosen)
      PROVE  /\ Ceiling(k) \in Nat /\ chosen[k][2] <= Ceiling(k) /\ Ceiling(k) <= Len(t) + 1
             /\ \A l \in 1 .. Len(chosen) : k < l => Ceiling(k) <= chosen[l][1]
  <2>1. CASE k < Len(chosen)
    <3>1. k + 1 \in 1 .. Len(chosen) /\ k < k + 1 /\ Ceiling(k) = chosen[k + 1][1]
      BY <1>1, <2>1
    <3>2. chosen[k][2] <= chosen[k + 1][1] /\ chosen[k + 1][1] \in 1 .. Len(t)
      BY <1>2, <3>1 DEF InOrder
    <3>3. ASSUME NEW l \in 1 .. Len(chosen), k < l PROVE chosen[k + 1][1] <= chosen[l][1]
      <4>1. CASE l = k + 1
        BY <1>2, <4>1
      <4>2. CASE k + 1 < l
        <5>1. chosen[k + 1][2] <= chosen[l][1]
          BY <3>1, <4>2 DEF InOrder
        <5>2. PICK u \in Nat, v \in Nat, w \in Nat : u = chosen[k + 1][1] /\ v = chosen[k + 1][2] /\ w = chosen[l][1]
          BY <1>2, <3>1
        <5>3. u < v /\ v <= w
          BY <1>2, <3>1, <5>1, <5>2
        <5>4. u <= w
          BY <5>3
        <5>. QED  BY <5>2, <5>4, Zenon
      <4>. QED  BY <3>3, <4>1, <4>2
    <3>. HIDE DEF Ceiling
    <3>4. PICK y \in Nat : y = Ceiling(k) /\ y \in 1 .. Len(t)
      BY <3>1, <3>2
    <3>. QED  BY <3>1, <3>2, <3>3, <3>4
  <2>2. CASE ~(k < Len(chosen))
    <3>1. Ceiling(k) = Len(t) + 1 /\ \A l \in 1 .. Len(chosen) : ~(k < l)
      BY <1>1, <2>2
    <3>. QED  BY <1>1, <1>2, <3>1
  <2>. QED  BY <2>1, <2>2
<1>4. PICK grown : grown = Completed(t, chosen)
  OBVIOUS
<1>5. /\ DOMAIN grown = 1 .. Len(chosen) /\ \A k \in 1 .. Len(chosen) : grown[k] = Grown(k)
      /\ grown = [k \in 1 .. Len(chosen) |-> Grown(k)]
  BY <1>1, <1>4 DEF Completed
<1>. HIDE DEF Ceiling
<1>6. ASSUME NEW k \in 1 .. Len(chosen)
      PROVE  /\ grown[k] \in Span(t) /\ grown[k][1] = chosen[k][1] /\ chosen[k][2] <= grown[k][2]
             /\ grown[k][2] <= Ceiling(k) /\ grown[k][2] \in Nat
             /\ IsDigit(t, grown[k][2] - 1) /\ grown[k][2] < Ceiling(k) =>
                  /\ t[grown[k][2]] # "d"
                  /\ ~(t[grown[k][2]] = "-" /\ grown[k][2] + 1 < Ceiling(k) /\ IsDigit(t, grown[k][2] + 1))
  <2>1. CASE IsDigit(t, chosen[k][2] - 1)
    <3>1. PICK e : e = ExtendSpanOverDigitRun(t, chosen[k][2], Ceiling(k))
      OBVIOUS
    <3>2. grown[k] = <<chosen[k][1], e>>
      BY <1>5, <2>1, <3>1
    <3>3. /\ e \in chosen[k][2] .. Ceiling(k)
          /\ e < Ceiling(k) => t[e] # "d" /\ ~(t[e] = "-" /\ e + 1 < Ceiling(k) /\ IsDigit(t, e + 1))
      BY <1>2, <1>3, <3>1, RunHasAnEnd
    <3>4. PICK a \in Nat, b \in Nat, l \in Nat : a = chosen[k][1] /\ b = chosen[k][2] /\ l = Ceiling(k)
      BY <1>2, <1>3
    <3>5. a \in 1 .. Len(t) /\ a < b /\ b \in 2 .. Len(t) + 1 /\ l <= Len(t) + 1 /\ e \in b .. l
      BY <1>2, <1>3, <3>3, <3>4
    <3>6. e \in Nat /\ b <= e /\ e <= l /\ e \in 2 .. Len(t) + 1 /\ a < e
      BY <1>1, <3>5
    <3>7. <<a, e>> \in Span(t)
      BY <3>5, <3>6 DEF Span
    <3>. QED  BY <3>2, <3>3, <3>4, <3>6, <3>7
  <2>2. CASE ~IsDigit(t, chosen[k][2] - 1)
    <3>1. grown[k] = chosen[k]
      BY <1>5, <2>2
    <3>. QED  BY <1>2, <1>3, <2>2, <3>1
  <2>. QED  BY <2>1, <2>2
<1>. HIDE DEF Grown
<1>7. grown \in Seq(Spans) /\ Len(grown) = Len(chosen)
  <2>1. \A k \in 1 .. Len(chosen) : Grown(k) \in Spans
    BY <1>5, <1>6, SpanIs
  <2>. QED  BY <1>1, <1>5, <2>1
<1>8. InOrder(grown, t)
  <2>1. ASSUME NEW k \in 1 .. Len(chosen), NEW l \in 1 .. Len(chosen), k < l PROVE grown[k][2] <= grown[l][1]
    <3>1. PICK u \in Nat, v \in Nat, w \in Nat : u = grown[k][2] /\ v = Ceiling(k) /\ w = chosen[l][1]
      BY <1>2, <1>3, <1>6
    <3>2. u <= v /\ v <= w
      BY <1>3, <1>6, <2>1, <3>1
    <3>3. u <= w
      BY <3>2
    <3>4. grown[l][1] = w
      BY <1>6, <3>1
    <3>. QED  BY <3>1, <3>3, <3>4, Zenon
  <2>. QED  BY <1>6, <1>7, <2>1 DEF InOrder
<1>9. ASSUME NEW k \in 1 .. Len(chosen)
      PROVE  Ceiling(k) \in Masked(grown) \/ Ceiling(k) = Len(t) + 1
  <2>1. CASE k < Len(chosen)
    <3>1. k + 1 \in 1 .. Len(grown) /\ Ceiling(k) = grown[k + 1][1]
      BY <1>1, <1>6, <1>7, <2>1 DEF Ceiling
    <3>2. grown[k + 1][1] <= Ceiling(k) /\ Ceiling(k) < grown[k + 1][2] /\ Ceiling(k) \in Nat
      <4>1. grown[k + 1] \in Span(t)
        BY <1>6, <1>7, <3>1
      <4>. QED  BY <3>1, <4>1, SpanIs
    <3>. QED  BY <1>7, <1>8, <3>1, <3>2, MaskedIs
  <2>2. CASE ~(k < Len(chosen))
    BY <2>2 DEF Ceiling
  <2>. QED  BY <2>1, <2>2
<1>10. ASSUME NEW k \in 1 .. Len(chosen), IsDigit(t, grown[k][2] - 1)
       PROVE  RunIsOver(t, grown[k][2], Masked(grown))
  <2>1. PICK e \in Nat, l \in Nat : e = grown[k][2] /\ l = Ceiling(k) /\ e <= l
    BY <1>3, <1>6
  <2>2. e < l => t[e] # "d" /\ ~(t[e] = "-" /\ e + 1 < l /\ IsDigit(t, e + 1))
    BY <1>6, <1>10, <2>1
  <2>3. l \in Masked(grown) \/ l = Len(t) + 1
    BY <1>9, <2>1
  <2>4. \A i \in Nat : i \in DOMAIN t => i # Len(t) + 1
    BY <1>1
  <2>5. IsDigit(t, e) => e \in Masked(grown)
    BY <2>1, <2>2, <2>3, <2>4 DEF IsDigit
  <2>6. (e \in DOMAIN t /\ t[e] = "-" /\ IsDigit(t, e + 1)) => e \in Masked(grown) \/ e + 1 \in Masked(grown)
    <3>. SUFFICES ASSUME e \in DOMAIN t, t[e] = "-", IsDigit(t, e + 1) PROVE l \in Masked(grown) /\ (l = e \/ l = e + 1)
      OBVIOUS
    <3>1. l = e \/ l = e + 1
      BY <2>1, <2>2
    <3>2. l # Len(t) + 1
      BY <2>4, <3>1 DEF IsDigit
    <3>. QED  BY <2>3, <3>1, <3>2
  <2>. QED  BY <2>1, <2>5, <2>6 DEF RunIsOver
<1>11. \A k \in 1 .. Len(grown) : RunIsOver(t, grown[k][2], Masked(grown))
  BY <1>7, <1>10 DEF RunIsOver
<1>. QED  BY <1>4, <1>6, <1>7, <1>8, <1>11

-----------------------------------------------------------------------------
(* The replacement, from the last span to the first *)

LEMMA RedactSteps ==
  ASSUME NEW S, NEW t \in Seq(S), NEW chosen \in Seq(Spans)
  PROVE  \E f \in [0 .. Len(chosen) -> Seq(S)] :
           /\ f[0] = t
           /\ \A k \in 1 .. Len(chosen) :
                LET s == chosen[Len(chosen) + 1 - k] IN
                f[k] = IF Put(f[k - 1], s) \in Seq(S) THEN Put(f[k - 1], s) ELSE f[k - 1]
           /\ (\A k \in 1 .. Len(chosen) : Put(f[k - 1], chosen[Len(chosen) + 1 - k]) \in Seq(S)) =>
                RedactTextBackwards(t, chosen) = f[Len(chosen)]
<1>1. Len(chosen) \in Nat
  OBVIOUS
<1>. DEFINE After(k, u) == Put(u, chosen[Len(chosen) + 1 - k])
            step == [k \in Nat |-> [u \in Seq(S) |-> IF After(k, u) \in Seq(S) THEN After(k, u) ELSE u]]
<1>2. step \in [Nat -> [Seq(S) -> Seq(S)]]
  <2>. HIDE DEF After
  <2>. QED  OBVIOUS
<1>. HIDE DEF step, After
<1>3. PICK f \in [0 .. Len(chosen) -> Seq(S)] : Follows(f, Len(chosen), t, step)
  BY <1>1, <1>2, Recursion
<1>4. f[0] = t
  BY <1>3 DEF Follows
<1>5. ASSUME NEW k \in 1 .. Len(chosen)
      PROVE  f[k] = IF After(k, f[k - 1]) \in Seq(S) THEN After(k, f[k - 1]) ELSE f[k - 1]
  <2>1. k - 1 \in 0 .. Len(chosen) /\ k \in Nat /\ f[k - 1] \in Seq(S)
    OBVIOUS
  <2>2. f[k] = step[k][f[k - 1]]
    BY <1>3 DEF Follows
  <2>. QED  BY <2>1, <2>2 DEF step
<1>6. ASSUME \A k \in 1 .. Len(chosen) : After(k, f[k - 1]) \in Seq(S)
      PROVE  RedactTextBackwards(t, chosen) = f[Len(chosen)]
  <2>. DEFINE Shape(g) == [k \in 0 .. Len(chosen) |-> IF k = 0 THEN t ELSE After(k, g[k - 1])]
              after == CHOOSE g : g = Shape(g)
  <2>1. f = Shape(f)
    <3>1. ASSUME NEW n \in 0 .. Len(chosen) PROVE f[n] = Shape(f)[n]
      <4>1. CASE n = 0
        BY <1>4, <4>1
      <4>2. CASE n # 0
        <5>1. n \in 1 .. Len(chosen)
          BY <4>2
        <5>2. f[n] = After(n, f[n - 1])
          BY <1>5, <1>6, <5>1
        <5>. QED  BY <4>2, <5>2, Zenon
      <4>. QED  BY <4>1, <4>2
    <3>. QED  BY <3>1
  <2>2. after = Shape(after)
    <3>. HIDE DEF Shape
    <3>. QED  BY <2>1
  <2>. HIDE DEF after
  <2>. DEFINE Same == {k \in 0 .. Len(chosen) : after[k] = f[k]}
  <2>3. 0 \in Same
    BY <1>1, <1>4, <2>2
  <2>4. ASSUME NEW k \in 0 .. Len(chosen) - 1, k \in Same PROVE k + 1 \in Same
    <3>1. k + 1 \in 1 .. Len(chosen) /\ k + 1 \in 0 .. Len(chosen) /\ (k + 1) - 1 = k /\ k + 1 # 0
      BY <1>1
    <3>2. after[k + 1] = After(k + 1, after[k])
      BY <2>2, <3>1
    <3>3. f[k + 1] = After(k + 1, f[k])
      BY <1>5, <1>6, <3>1
    <3>. QED  BY <2>4, <3>1, <3>2, <3>3
  <2>5. Len(chosen) \in Same
    <3>. HIDE DEF Same
    <3>1. 0 .. Len(chosen) \subseteq Same
      BY <1>1, <2>3, <2>4, UpTo
    <3>. QED  BY <1>1, <3>1
  <2>6. RedactTextBackwards(t, chosen) = after[Len(chosen)]
    BY DEF RedactTextBackwards, after, After
  <2>. QED  BY <2>5, <2>6
<1>. QED  BY <1>4, <1>5, <1>6 DEF After

(* Of two sequences joined, the first is what stands up to its length. *)
JoinedIs(S, s, t, d) ==
  /\ s \o t \in Seq(S) /\ Len(s \o t) = d + Len(t)
  /\ \A i \in 1 .. d : (s \o t)[i] = s[i]
  /\ \A i \in 1 .. Len(t) : (s \o t)[d + i] = t[i]

LEMMA JoinProperties ==
  ASSUME NEW S, NEW s \in Seq(S), NEW t \in Seq(S), NEW d \in Nat, Len(s) = d PROVE JoinedIs(S, s, t, d)
<1>1. Len(t) \in Nat
  OBVIOUS
<1>2. /\ s \o t \in Seq(S) /\ Len(s \o t) = d + Len(t)
      /\ \A i \in 1 .. d + Len(t) : (s \o t)[i] = IF i <= d THEN s[i] ELSE t[i - d]
  BY ConcatProperties
<1>3. \A i \in 1 .. d : i \in 1 .. d + Len(t) /\ i <= d
  BY <1>1
<1>4. \A i \in 1 .. Len(t) : d + i \in 1 .. d + Len(t) /\ ~(d + i <= d) /\ (d + i) - d = i
  BY <1>1
<1>5. \A i \in 1 .. d : (s \o t)[i] = s[i]
  BY <1>2, <1>3
<1>6. \A i \in 1 .. Len(t) : (s \o t)[d + i] = t[i]
  BY <1>2, <1>4
<1>. QED  BY <1>2, <1>5, <1>6 DEF JoinedIs

Associate(s, t, u) == (s \o t) \o u = s \o (t \o u)

LEMMA JoinsAssociate ==
  ASSUME NEW S, NEW s \in Seq(S), NEW t \in Seq(S), NEW u \in Seq(S) PROVE Associate(s, t, u)
BY ConcatAssociative, SMTT(30) DEF Associate

(* What joins at the end joins at the end of the rest. *)
JoinsBehind(S, new, before, old, token, mid, rest) ==
  \E more \in Seq(S) : new = before \o more /\ ((old \o token) \o mid) \o rest = old \o more

LEMMA OneMoreToken ==
  ASSUME NEW S, NEW before \in Seq(S), NEW old \in Seq(S), NEW token \in Seq(S), NEW mid \in Seq(S), NEW rest \in Seq(S)
  PROVE  JoinsBehind(S, (before \o token) \o (mid \o rest), before, old, token, mid, rest)
<1>0. mid \o rest \in Seq(S) /\ old \o token \in Seq(S)
  OBVIOUS
<1>1. PICK tail \in Seq(S) : tail = mid \o rest
  BY ONLY <1>0, Zenon
<1>9. token \o tail \in Seq(S)
  OBVIOUS
<1>2. PICK more \in Seq(S) : more = token \o tail
  BY ONLY <1>9, Zenon
<1>3. (before \o token) \o tail = before \o (token \o tail)
  <2>1. Associate(before, token, tail)
    BY JoinsAssociate, Zenon
  <2>. QED  BY <2>1, Zenon DEF Associate
<1>4. (old \o token) \o tail = old \o (token \o tail)
  <2>1. Associate(old, token, tail)
    BY JoinsAssociate, Zenon
  <2>. QED  BY <2>1, Zenon DEF Associate
<1>5. PICK head \in Seq(S) : head = old \o token
  BY ONLY <1>0, Zenon
<1>6. (head \o mid) \o rest = head \o (mid \o rest)
  <2>1. Associate(head, mid, rest)
    BY JoinsAssociate, Zenon
  <2>. QED  BY <2>1, Zenon DEF Associate
<1>7. (before \o token) \o (mid \o rest) = before \o more
  BY ONLY <1>1, <1>2, <1>3, Zenon
<1>8. ((old \o token) \o mid) \o rest = old \o more
  BY ONLY <1>1, <1>2, <1>4, <1>5, <1>6, Zenon
<1>. QED  BY <1>7, <1>8, Zenon DEF JoinsBehind

(* A stretch of pieces that are the text's own characters is that part of  *)
(* the text, and one of empty pieces adds nothing.                         *)
LEMMA PlainStretch ==
  ASSUME NEW S, NEW t \in Seq(S), NEW f \in [0 .. Len(t) -> Seq(S)], NEW a \in 0 .. Len(t), NEW b \in a .. Len(t),
         \A i \in a + 1 .. b : f[i] = Append(f[i - 1], t[i])
  PROVE  f[b] = f[a] \o SubSeq(t, a + 1, b)
<1>1. a \in Nat /\ b \in Nat /\ a <= b /\ Len(t) \in Nat /\ b <= Len(t)
  OBVIOUS
<1>. DEFINE Good == {d \in 0 .. b - a : f[a + d] = f[a] \o SubSeq(t, a + 1, a + d)}
<1>2. 0 \in Good
  <2>1. SubSeq(t, a + 1, a + 0) = <<>> /\ f[a] \in Seq(S) /\ a + 0 = a
    BY <1>1
  <2>. QED  BY <1>1, <2>1
<1>3. ASSUME NEW d \in 0 .. (b - a) - 1, d \in Good PROVE d + 1 \in Good
  <2>1. PICK i \in 1 .. Len(t) : i = a + d + 1
    BY <1>1
  <2>2. i \in a + 1 .. b /\ i - 1 = a + d /\ i - 1 \in 0 .. Len(t) /\ i = a + (d + 1) /\ d + 1 \in 0 .. b - a
    BY <1>1, <2>1
  <2>3. f[i] = Append(f[i - 1], t[i])
    BY <2>2
  <2>4. f[i - 1] = f[a] \o SubSeq(t, a + 1, i - 1)
    BY <1>3, <2>2
  <2>9. t[i] \in S /\ f[a] \in Seq(S)
    BY <1>1, ElementOfSeq
  <2>10. SubSeq(t, a + 1, i - 1) \in Seq(S) /\ SubSeq(t, a + 1, i) = Append(SubSeq(t, a + 1, i - 1), t[i])
    BY <1>1, <2>2
  <2>5. PICK x \in Seq(S), y \in Seq(S), e \in S : x = f[a] /\ y = SubSeq(t, a + 1, i - 1) /\ e = t[i]
    BY <2>9, <2>10, Zenon
  <2>6. SubSeq(t, a + 1, i) = Append(y, e)
    BY <2>5, <2>10
  <2>7. x \o Append(y, e) = Append(x \o y, e)
    BY AppendOfConcat
  <2>8. f[i] = f[a] \o SubSeq(t, a + 1, i)
    BY <2>3, <2>4, <2>5, <2>6, <2>7, Zenon
  <2>. QED  BY <2>2, <2>8
<1>4. b - a \in Good
  <2>. HIDE DEF Good
  <2>1. b - a \in Nat
    BY <1>1
  <2>2. 0 .. b - a \subseteq Good
    BY <1>2, <1>3, <2>1, UpTo
  <2>. QED  BY <2>1, <2>2
<1>5. a + (b - a) = b
  BY <1>1
<1>. QED  BY <1>4, <1>5

LEMMA SilentStretch ==
  ASSUME NEW f, NEW a \in Nat, NEW b \in Nat, a <= b, \A i \in a + 1 .. b : f[i] = f[i - 1]
  PROVE  f[b] = f[a]
<1>1. a \in Nat /\ b \in Nat /\ a <= b
  OBVIOUS
<1>. DEFINE Good == {d \in 0 .. b - a : f[a + d] = f[a]}
<1>2. 0 \in Good
  BY <1>1
<1>3. ASSUME NEW d \in 0 .. (b - a) - 1, d \in Good PROVE d + 1 \in Good
  <2>1. /\ a + (d + 1) \in a + 1 .. b /\ (a + (d + 1)) - 1 = a + d /\ d + 1 \in 0 .. b - a
    BY <1>1
  <2>. QED  BY <1>3, <2>1
<1>4. b - a \in Good
  <2>. HIDE DEF Good
  <2>1. b - a \in Nat
    BY <1>1
  <2>2. 0 .. b - a \subseteq Good
    BY <1>2, <1>3, <2>1, UpTo
  <2>. QED  BY <2>1, <2>2
<1>. QED  BY <1>1, <1>4

(* What the replacement of one span does to a text not yet changed before  *)
(* the span and changed only behind it.                                    *)
(* The span's token stands between what is before it and what is behind. *)
PutsToken(t, rest, a, b, p) ==
  Put(SubSeq(t, 1, p - 1) \o rest, <<a, b>>)
    = (SubSeq(t, 1, a - 1) \o Token(<<a, b>>)) \o (SubSeq(t, b, p - 1) \o rest)

LEMMA PutIs ==
  ASSUME NEW S, NEW t \in Seq(S), NEW rest \in Seq(S), NEW a \in 1 .. Len(t), NEW b \in 2 .. Len(t) + 1,
         NEW p \in 1 .. Len(t) + 1, a < b, b <= p, Token(<<a, b>>) \in Seq(S)
  PROVE  PutsToken(t, rest, a, b, p)
<1>. DEFINE u == SubSeq(t, 1, p - 1) \o rest
<1>1. /\ SubSeq(t, 1, p - 1) \in Seq(S) /\ u \in Seq(S) /\ Len(SubSeq(t, 1, p - 1)) = p - 1 /\ Len(u) = (p - 1) + Len(rest)
      /\ Len(rest) \in Nat /\ Len(t) \in Nat
      /\ \A i \in 1 .. p - 1 : u[i] = t[i]
      /\ \A i \in 1 .. Len(rest) : u[(p - 1) + i] = rest[i]
  <2>1. PICK x : x = SubSeq(t, 1, p - 1)
    OBVIOUS
  <2>2. x \in Seq(S) /\ Len(x) = p - 1 /\ (\A i \in 1 .. p - 1 : x[i] = t[i]) /\ Len(rest) \in Nat /\ Len(t) \in Nat
    BY <2>1
  <2>3. PICK v : v = x \o rest
    OBVIOUS
  <2>4. /\ v \in Seq(S) /\ Len(v) = (p - 1) + Len(rest)
        /\ \A i \in 1 .. p - 1 : v[i] = x[i]
        /\ \A i \in 1 .. Len(rest) : v[(p - 1) + i] = rest[i]
    <3>1. PICK d \in Nat : d = p - 1
      OBVIOUS
    <3>2. x \in Seq(S) /\ rest \in Seq(S) /\ Len(x) = d
      BY <2>2, <3>1
    <3>3. JoinedIs(S, x, rest, d)
      BY <3>2, JoinProperties, Zenon
    <3>. QED  BY <2>3, <3>1, <3>3, Zenon DEF JoinedIs
  <2>. QED  BY <2>1, <2>2, <2>3, <2>4, Zenon
<1>. HIDE DEF u
<1>2. SubSeq(u, 1, a - 1) = SubSeq(t, 1, a - 1)
  <2>1. \A i \in 1 .. a - 1 : u[i] = t[i]
    BY <1>1
  <2>. QED  BY <2>1 DEF SubSeq
<1>3. SubSeq(u, b, Len(u)) = SubSeq(t, b, p - 1) \o rest
  <2>. DEFINE v == SubSeq(u, b, Len(u))
              w == SubSeq(t, b, p - 1) \o rest
  <2>1. v \in Seq(S) /\ Len(v) = (p - b) + Len(rest) /\ \A i \in 1 .. (p - b) + Len(rest) : v[i] = u[(b - 1) + i]
    BY <1>1
  <2>2. /\ w \in Seq(S) /\ Len(w) = (p - b) + Len(rest)
        /\ \A i \in 1 .. p - b : w[i] = t[(b - 1) + i]
        /\ \A i \in 1 .. Len(rest) : w[(p - b) + i] = rest[i]
    <3>. DEFINE x == SubSeq(t, b, p - 1)
    <3>1. x \in Seq(S) /\ Len(x) = p - b /\ \A i \in 1 .. p - b : x[i] = t[(b - 1) + i]
      <4>1. b \in 1 .. Len(t) + 1 /\ p - 1 \in b - 1 .. Len(t) /\ (p - 1) - b + 1 = p - b
        BY <1>1
      <4>2. x \in Seq(S) /\ Len(x) = (p - 1) - b + 1 /\ \A i \in 1 .. (p - 1) - b + 1 : x[i] = t[b + i - 1]
        <5>1. b \in Int /\ p - 1 \in Int /\ (b <= p - 1 \/ (p - 1) - b + 1 = 0)
          BY <1>1
        <5>2. \A i \in b .. p - 1 : t[i] \in S
          BY <1>1, ElementOfSeq
        <5>. QED  BY ONLY <5>1, <5>2, SubSeqProperties, SMTT(30) DEF x
      <4>3. \A i \in 1 .. p - b : b + i - 1 = (b - 1) + i
        BY <1>1
      <4>. QED  BY <4>1, <4>2, <4>3
    <3>. HIDE DEF x
    <3>2. /\ x \o rest \in Seq(S) /\ Len(x \o rest) = (p - b) + Len(rest)
          /\ \A i \in 1 .. p - b : (x \o rest)[i] = x[i]
          /\ \A i \in 1 .. Len(rest) : (x \o rest)[(p - b) + i] = rest[i]
      <4>1. PICK d \in Nat : d = p - b
        BY <1>1
      <4>2. x \in Seq(S) /\ Len(x) = d /\ rest \in Seq(S)
        BY <3>1, <4>1
      <4>3. JoinedIs(S, x, rest, d)
        BY <4>2, JoinProperties, Zenon
      <4>. QED  BY <4>1, <4>3, Zenon DEF JoinedIs
    <3>. QED  BY <3>1, <3>2 DEF x
  <2>. HIDE DEF v, w
  <2>3. ASSUME NEW i \in 1 .. (p - b) + Len(rest) PROVE v[i] = w[i]
    <3>1. CASE i \in 1 .. p - b
      <4>1. (b - 1) + i \in 1 .. p - 1
        BY <3>1
      <4>. QED  BY <1>1, <2>1, <2>2, <3>1, <4>1
    <3>2. CASE i \notin 1 .. p - b
      <4>1. PICK j \in 1 .. Len(rest) : i = (p - b) + j
        BY <1>1, <3>2
      <4>2. (b - 1) + i = (p - 1) + j
        BY <4>1
      <4>. QED  BY <1>1, <2>1, <2>2, <4>1, <4>2
    <3>. QED  BY <3>1, <3>2
  <2>4. v = w
    BY <2>1, <2>2, <2>3, SeqEqual
  <2>. QED  BY <2>4 DEF v, w
<1>4. Put(u, <<a, b>>) = SubSeq(u, 1, a - 1) \o Token(<<a, b>>) \o SubSeq(u, b, Len(u))
  BY DEF Put
<1>5. /\ SubSeq(t, 1, a - 1) \in Seq(S) /\ SubSeq(t, b, p - 1) \in Seq(S) /\ SubSeq(t, b, p - 1) \o rest \in Seq(S)
  BY <1>1
<1>7. Put(u, <<a, b>>) = (SubSeq(t, 1, a - 1) \o Token(<<a, b>>)) \o (SubSeq(t, b, p - 1) \o rest)
  BY <1>2, <1>3, <1>4
<1>. QED  BY <1>7 DEF u, PutsToken

PieceOf(t, chosen, i) ==
  IF \E k \in DOMAIN chosen : chosen[k][1] = i
  THEN Token(chosen[CHOOSE k \in DOMAIN chosen : chosen[k][1] = i])
  ELSE IF i \in UNION {Chars(chosen[k]) : k \in DOMAIN chosen} THEN <<>> ELSE <<t[i]>>

LEMMA TokenType == ASSUME NEW s \in Spans PROVE Token(s) \in Seq(Symbols)
<1>1. [token |-> s, half |-> 1] \in Symbols /\ [token |-> s, half |-> 2] \in Symbols
  BY DEF Symbols
<1>. QED  BY <1>1 DEF Token

(* The piece of a span's first character is its token, those of the others *)
(* are empty, and elsewhere a piece is the character.                      *)
LEMMA PieceIs ==
  ASSUME NEW t \in Seq(Character), NEW chosen \in Seq(Spans), InOrder(chosen, t)
  PROVE  /\ \A i \in 1 .. Len(t) : PieceOf(t, chosen, i) \in Seq(Symbols)
         /\ \A k \in 1 .. Len(chosen) : PieceOf(t, chosen, chosen[k][1]) = Token(chosen[k])
         /\ \A k \in 1 .. Len(chosen) : \A i \in chosen[k][1] + 1 .. chosen[k][2] - 1 : PieceOf(t, chosen, i) = <<>>
         /\ \A i \in 1 .. Len(t) : i \notin Masked(chosen) => PieceOf(t, chosen, i) = <<t[i]>>
<1>1. DOMAIN chosen = 1 .. Len(chosen) /\ Len(chosen) \in Nat
  OBVIOUS
<1>2. \A k \in 1 .. Len(chosen) :
        /\ chosen[k] \in Spans /\ chosen[k][1] \in Nat /\ chosen[k][2] \in Nat /\ chosen[k][1] < chosen[k][2]
  BY SpanIs DEF InOrder
<1>3. \A k, l \in 1 .. Len(chosen) : k < l => chosen[k][2] <= chosen[l][1]
  BY DEF InOrder
<1>4. ASSUME NEW k \in 1 .. Len(chosen), NEW l \in 1 .. Len(chosen), NEW i \in Nat,
             chosen[k][1] <= i, i < chosen[k][2], chosen[l][1] = i
      PROVE  k = l
  <2>1. PICK a \in Nat, b \in Nat, c \in Nat, d \in Nat :
          a = chosen[k][1] /\ b = chosen[k][2] /\ c = chosen[l][1] /\ d = chosen[l][2]
    BY <1>2
  <2>2. a <= i /\ i < b /\ c = i /\ c < d /\ (k < l => b <= c) /\ (l < k => d <= a)
    BY <1>2, <1>3, <1>4, <2>1
  <2>3. ~(k < l) /\ ~(l < k)
    BY <2>2
  <2>. QED  BY <2>3
<1>5. ASSUME NEW k \in 1 .. Len(chosen) PROVE PieceOf(t, chosen, chosen[k][1]) = Token(chosen[k])
  <2>1. \A l \in 1 .. Len(chosen) : chosen[l][1] = chosen[k][1] => k = l
    BY <1>2, <1>4
  <2>2. (CHOOSE l \in 1 .. Len(chosen) : chosen[l][1] = chosen[k][1]) = k
    BY <2>1
  <2>. QED  BY <1>1, <2>2 DEF PieceOf
<1>6. ASSUME NEW k \in 1 .. Len(chosen), NEW i \in chosen[k][1] + 1 .. chosen[k][2] - 1
      PROVE  PieceOf(t, chosen, i) = <<>>
  <2>1. i \in Nat /\ chosen[k][1] <= i /\ i < chosen[k][2] /\ chosen[k][1] # i
    <3>1. PICK a \in Nat, b \in Nat : a = chosen[k][1] /\ b = chosen[k][2]
      BY <1>2
    <3>2. i \in a + 1 .. b - 1
      BY <3>1
    <3>3. i \in Nat /\ a <= i /\ i < b /\ a # i
      BY <3>2
    <3>. QED  BY <3>1, <3>3
  <2>2. ~ \E l \in 1 .. Len(chosen) : chosen[l][1] = i
    BY <1>4, <2>1
  <2>3. i \in Masked(chosen)
    BY <2>1, MaskedIs
  <2>. QED  BY <1>1, <2>2, <2>3 DEF PieceOf, Masked
<1>7. ASSUME NEW i \in 1 .. Len(t), i \notin Masked(chosen) PROVE PieceOf(t, chosen, i) = <<t[i]>>
  <2>1. ~ \E l \in 1 .. Len(chosen) : chosen[l][1] = i
    <3>. SUFFICES ASSUME NEW l \in 1 .. Len(chosen), chosen[l][1] = i PROVE FALSE
      OBVIOUS
    <3>1. i \in Nat /\ chosen[l][1] <= i /\ i < chosen[l][2]
      BY <1>2
    <3>. QED  BY <1>7, <3>1, MaskedIs
  <2>. QED  BY <1>1, <1>7, <2>1 DEF PieceOf, Masked
<1>8. ASSUME NEW i \in 1 .. Len(t) PROVE PieceOf(t, chosen, i) \in Seq(Symbols)
  <2>1. CASE i \notin Masked(chosen)
    <3>1. t[i] \in Symbols
      BY ElementOfSeq DEF Symbols
    <3>2. \A x \in Symbols : <<x>> \in Seq(Symbols)
      OBVIOUS
    <3>3. <<t[i]>> \in Seq(Symbols)
      BY <3>1, <3>2, Zenon
    <3>. QED  BY <1>7, <2>1, <3>3, Zenon
  <2>2. CASE i \in Masked(chosen)
    <3>1. PICK k \in 1 .. Len(chosen) : chosen[k][1] <= i /\ i < chosen[k][2]
      BY <2>2, MaskedIs
    <3>2. CASE chosen[k][1] = i
      BY <1>2, <1>5, <3>2, TokenType
    <3>3. CASE chosen[k][1] # i
      <4>1. i \in chosen[k][1] + 1 .. chosen[k][2] - 1
        <5>1. PICK a \in Nat, b \in Nat : a = chosen[k][1] /\ b = chosen[k][2]
          BY <1>2
        <5>2. i \in a + 1 .. b - 1
          BY <3>1, <3>3, <5>1
        <5>. QED  BY <5>1, <5>2
      <4>2. <<>> \in Seq(Symbols)
        OBVIOUS
      <4>. QED  BY <1>6, <4>1, <4>2, Zenon
    <3>. QED  BY <3>2, <3>3
  <2>. QED  BY <2>1, <2>2
<1>. QED  BY <1>5, <1>6, <1>7, <1>8

LEMMA RedactedIs ==
  ASSUME NEW t \in Seq(Character), NEW chosen \in Seq(Spans), InOrder(chosen, t)
  PROVE  RedactTextBackwards(t, chosen) = FlattenSeq([i \in 1 .. Len(t) |-> PieceOf(t, chosen, i)])
<1>. DEFINE m == Len(chosen)
            n == Len(t)
            Start(l) == IF l <= m THEN chosen[l][1] ELSE n + 1
<1>1. m \in Nat /\ n \in Nat
  OBVIOUS
<1>2. PICK ss : ss = [i \in 1 .. n |-> PieceOf(t, chosen, i)]
  OBVIOUS
<1>3. /\ ss \in Seq(Seq(Symbols)) /\ Len(ss) = n
      /\ \A k \in 1 .. m : ss[chosen[k][1]] = Token(chosen[k])
      /\ \A k \in 1 .. m : \A i \in chosen[k][1] + 1 .. chosen[k][2] - 1 : ss[i] = <<>>
      /\ \A i \in 1 .. n : i \notin Masked(chosen) => ss[i] = <<t[i]>>
  <2>1. ss \in [1 .. n -> Seq(Symbols)]
    BY <1>2, PieceIs
  <2>2. ss \in Seq(Seq(Symbols)) /\ Len(ss) = n
    BY <1>1, <2>1
  <2>3. ASSUME NEW k \in 1 .. m
        PROVE  chosen[k][1] \in 1 .. n /\ \A i \in chosen[k][1] + 1 .. chosen[k][2] - 1 : i \in 1 .. n
    <3>1. /\ chosen[k][1] \in 1 .. n /\ chosen[k][2] \in 2 .. n + 1
      BY SpanIs DEF InOrder
    <3>2. PICK a \in 1 .. n, b \in 2 .. n + 1 : a = chosen[k][1] /\ b = chosen[k][2]
      BY <3>1
    <3>3. \A i \in a + 1 .. b - 1 : i \in 1 .. n
      BY <1>1
    <3>. QED  BY <3>2, <3>3
  <2>. QED  BY <1>2, <2>2, <2>3, PieceIs
<1>4. PICK f \in [0 .. n -> Seq(Symbols)] :
        f[0] = <<>> /\ (\A k \in 1 .. n : f[k] = f[k - 1] \o ss[k]) /\ FlattenSeq(ss) = f[n]
  <2>1. PICK f \in [0 .. Len(ss) -> Seq(Symbols)] :
          f[0] = <<>> /\ (\A k \in 1 .. Len(ss) : f[k] = f[k - 1] \o ss[k]) /\ FlattenSeq(ss) = f[Len(ss)]
    BY <1>3, FlattenSteps
  <2>. HIDE DEF n
  <2>. QED  BY <1>3, <2>1, Zenon
<1>5. t \in Seq(Symbols)
  BY <1>1, ElementOfSeq DEF Symbols
<1>6. PICK g \in [0 .. m -> Seq(Symbols)] :
        /\ g[0] = t
        /\ \A k \in 1 .. m :
             LET s == chosen[m + 1 - k] IN
             g[k] = IF Put(g[k - 1], s) \in Seq(Symbols) THEN Put(g[k - 1], s) ELSE g[k - 1]
        /\ (\A k \in 1 .. m : Put(g[k - 1], chosen[m + 1 - k]) \in Seq(Symbols)) =>
             RedactTextBackwards(t, chosen) = g[m]
  <2>1. PICK g \in [0 .. Len(chosen) -> Seq(Symbols)] :
          /\ g[0] = t
          /\ \A k \in 1 .. Len(chosen) :
               LET s == chosen[Len(chosen) + 1 - k] IN
               g[k] = IF Put(g[k - 1], s) \in Seq(Symbols) THEN Put(g[k - 1], s) ELSE g[k - 1]
          /\ (\A k \in 1 .. Len(chosen) : Put(g[k - 1], chosen[Len(chosen) + 1 - k]) \in Seq(Symbols)) =>
               RedactTextBackwards(t, chosen) = g[Len(chosen)]
    BY <1>5, RedactSteps, Zenon
  <2>. QED  BY <2>1, Zenon
<1>7. ASSUME NEW l \in 1 .. m
      PROVE  /\ chosen[l] = <<chosen[l][1], chosen[l][2]>> /\ chosen[l] \in Spans
             /\ chosen[l][1] \in 1 .. n /\ chosen[l][2] \in 2 .. n + 1 /\ chosen[l][1] < chosen[l][2]
  BY SpanIs DEF InOrder
<1>8. ASSUME NEW l \in 1 .. m + 1 PROVE Start(l) \in 1 .. n + 1
  <2>1. CASE l <= m
    <3>1. chosen[l][1] \in 1 .. n
      BY <1>1, <1>7, <2>1
    <3>. QED  BY <1>1, <2>1, <3>1
  <2>2. CASE ~(l <= m)
    BY <1>1, <2>2
  <2>. QED  BY <2>1, <2>2
<1>0. m = Len(chosen) /\ n = Len(t)
  OBVIOUS
<1>. HIDE DEF m, n
<1>21. ASSUME NEW a \in 0 .. n, NEW b \in a .. n, \A i \in a + 1 .. b : f[i] = f[i - 1] PROVE f[b] = f[a]
  <2>1. a \in Nat /\ b \in Nat /\ a <= b
    BY <1>1
  <2>. QED  BY <1>21, <2>1, SilentStretch, Zenon
<1>22. ASSUME NEW a \in 1 .. Len(t), NEW b \in 2 .. Len(t) + 1, NEW p \in 1 .. Len(t) + 1, NEW rest \in Seq(Symbols),
              a < b, b <= p, <<a, b>> \in Spans
       PROVE  PutsToken(t, rest, a, b, p)
  <2>1. Token(<<a, b>>) \in Seq(Symbols)
    BY <1>22, TokenType
  <2>. QED  BY <1>5, <1>22, <2>1, PutIs, Zenon
<1>16. PICK A \in [1 .. m -> Nat], B \in [1 .. m -> Nat] : \A k \in 1 .. m : A[k] = chosen[k][1] /\ B[k] = chosen[k][2]
  <2>1. \A k \in 1 .. m : chosen[k][1] \in Nat /\ chosen[k][2] \in Nat
    <3>1. ASSUME NEW k \in 1 .. m PROVE chosen[k][1] \in Nat /\ chosen[k][2] \in Nat
      <4>1. chosen[k][1] \in 1 .. n /\ chosen[k][2] \in 2 .. n + 1
        BY <1>7, Zenon
      <4>2. (\A x \in 1 .. n : x \in Nat) /\ (\A x \in 2 .. n + 1 : x \in Nat)
        OBVIOUS
      <4>. QED  BY <4>1, <4>2, Zenon
    <3>. QED  BY <3>1, Zenon
  <2>2. [k \in 1 .. m |-> chosen[k][1]] \in [1 .. m -> Nat] /\ [k \in 1 .. m |-> chosen[k][2]] \in [1 .. m -> Nat]
    BY <2>1
  <2>. QED  BY <2>2
<1>17. /\ \A k \in 1 .. m : A[k] < B[k] /\ B[k] <= n + 1 /\ 1 <= A[k]
       /\ \A k, l \in 1 .. m : k < l => B[k] <= A[l]
       /\ \A l \in 1 .. m : Start(l) = A[l]
       /\ Start(m + 1) = n + 1
  <2>1. \A k, l \in 1 .. m : k < l => B[k] <= A[l]
    BY <1>0, <1>16 DEF InOrder
  <2>2. \A k \in 1 .. m : A[k] < B[k] /\ B[k] <= n + 1 /\ 1 <= A[k]
    <3>. SUFFICES ASSUME NEW k \in 1 .. m PROVE A[k] < B[k] /\ B[k] <= n + 1 /\ 1 <= A[k]
      OBVIOUS
    <3>1. A[k] \in 1 .. n /\ B[k] \in 2 .. n + 1 /\ A[k] < B[k]
      BY <1>7, <1>16
    <3>. QED  BY <1>1, <3>1
  <2>3. \A l \in 1 .. m : Start(l) = A[l]
    <3>1. \A l \in 1 .. m : l <= m
      BY <1>1
    <3>. QED  BY <1>16, <3>1, Zenon
  <2>4. Start(m + 1) = n + 1
    BY <1>1
  <2>. QED  BY <2>1, <2>2, <2>3, <2>4
<1>18. \A i \in 1 .. n : i \in Masked(chosen) => \E k \in 1 .. m : A[k] <= i /\ i < B[k]
  <2>1. \A i \in 1 .. n : i \in Nat
    OBVIOUS
  <2>. QED  BY <1>0, <1>16, <2>1, MaskedIs
<1>. HIDE DEF Start
<1>20. \A k \in 1 .. m : A[k] \in Nat /\ B[k] \in Nat
  OBVIOUS
(* Between a span and the next start there is only the text's own. *)
<1>9. ASSUME NEW l \in 1 .. m
      PROVE  /\ B[l] <= Start(l + 1)
             /\ \A i \in 1 .. n : B[l] <= i /\ i < Start(l + 1) => i \notin Masked(chosen)
  <2>1. l = m \/ (l < m /\ l + 1 \in 1 .. m)
    BY <1>1
  <2>2. B[l] <= Start(l + 1)
    <3>1. CASE l = m
      BY <1>17, <3>1
    <3>2. CASE l < m /\ l + 1 \in 1 .. m
      <4>1. B[l] <= A[l + 1] /\ Start(l + 1) = A[l + 1]
        BY <1>1, <1>17, <3>2
      <4>. QED  BY <4>1
    <3>. QED  BY <2>1, <3>1, <3>2
  <2>3. ASSUME NEW i \in 1 .. n, B[l] <= i, i < Start(l + 1), NEW k \in 1 .. m, A[k] <= i, i < B[k] PROVE FALSE
    <3>0. i \in Nat /\ A[k] \in Nat /\ B[k] \in Nat /\ A[l] \in Nat /\ B[l] \in Nat
      BY <1>20
    <3>1. CASE k < l
      BY <1>17, <2>3, <3>0, <3>1
    <3>2. CASE k = l
      BY <2>3, <3>0, <3>2
    <3>3. CASE l < k
      <4>1. l + 1 \in 1 .. m /\ A[l + 1] \in Nat /\ B[l + 1] \in Nat /\ Start(l + 1) = A[l + 1]
        BY <1>1, <1>17, <1>20, <3>3
      <4>2. A[l + 1] <= A[k]
        <5>1. CASE k = l + 1
          BY <4>1, <5>1
        <5>2. CASE l + 1 < k
          <6>1. B[l + 1] <= A[k] /\ A[l + 1] < B[l + 1]
            BY <1>17, <4>1, <5>2
          <6>. QED  BY <3>0, <4>1, <6>1
        <5>. QED  BY <1>1, <3>3, <5>1, <5>2
      <4>. QED  BY <2>3, <3>0, <4>1, <4>2
    <3>. QED  BY <3>1, <3>2, <3>3
  <2>. QED  BY <1>18, <2>2, <2>3
<1>10. \A i \in 1 .. n : i < Start(1) => i \notin Masked(chosen)
  <2>1. ASSUME NEW i \in 1 .. n, i < Start(1), NEW k \in 1 .. m, A[k] <= i, i < B[k] PROVE FALSE
    <3>0. i \in Nat /\ A[k] \in Nat /\ B[k] \in Nat /\ 1 \in 1 .. m /\ A[1] \in Nat /\ B[1] \in Nat
      BY <1>1, <1>20
    <3>1. A[1] <= A[k]
      BY <1>17, <3>0
    <3>. QED  BY <1>17, <2>1, <3>0, <3>1
  <2>. QED  BY <1>18, <2>1
<1>11. ASSUME NEW a \in 0 .. n, NEW b \in a .. n, \A i \in a + 1 .. b : i \notin Masked(chosen)
       PROVE  f[b] = f[a] \o SubSeq(t, a + 1, b)
  <2>1. ASSUME NEW i \in a + 1 .. b PROVE f[i] = Append(f[i - 1], t[i])
    <3>1. i \in 1 .. n /\ i - 1 \in 0 .. n
      BY <1>1
    <3>2. f[i] = f[i - 1] \o <<t[i]>>
      BY <1>3, <1>4, <1>11, <3>1
    <3>3. f[i - 1] \in Seq(Symbols) /\ t[i] \in Symbols
      BY <1>0, <1>5, <3>1, ElementOfSeq
    <3>4. \A x \in Seq(Symbols), y \in Symbols : x \o <<y>> = Append(x, y)
      OBVIOUS
    <3>. QED  BY <3>2, <3>3, <3>4, Zenon
  <2>. QED  BY <1>0, <1>5, <2>1, PlainStretch
<1>. DEFINE Done(k) == \E rest \in Seq(Symbols) :
                          /\ g[k] = SubSeq(t, 1, Start((m + 1) - k) - 1) \o rest
                          /\ f[n] = f[Start((m + 1) - k) - 1] \o rest
            Made(k) == \A j \in 1 .. k : Put(g[j - 1], chosen[m + 1 - j]) \in Seq(Symbols)
            All == {k \in 0 .. m : Done(k) /\ Made(k)}
<1>12. 0 \in All
  <2>1. Start((m + 1) - 0) - 1 = n
    BY <1>1, <1>17
  <2>2. f[n] \in Seq(Symbols) /\ <<>> \in Seq(Symbols)
    BY <1>1
  <2>3. SubSeq(t, 1, n) = t
    BY <1>0, <1>1, <1>5
  <2>4. f[n] = f[n] \o <<>> /\ t = t \o <<>>
    BY <1>5, <2>2
  <2>5. Done(0)
    BY <1>6, <2>1, <2>2, <2>3, <2>4, Zenon
  <2>6. Made(0)
    OBVIOUS
  <2>. HIDE DEF Done, Made
  <2>. QED  BY <1>1, <2>5, <2>6
<1>13. ASSUME NEW k \in 0 .. m - 1, k \in All PROVE k + 1 \in All
  <2>1. PICK l \in 1 .. m : l = m - k
    BY <1>1
  <2>2. /\ (m + 1) - k = l + 1 /\ (m + 1) - (k + 1) = l /\ m + 1 - (k + 1) = l /\ k + 1 \in 1 .. m /\ (k + 1) - 1 = k
        /\ k \in 0 .. m /\ k + 1 \in 0 .. m
    BY <1>1, <2>1
  <2>3. PICK rest \in Seq(Symbols) : g[k] = SubSeq(t, 1, Start(l + 1) - 1) \o rest /\ f[n] = f[Start(l + 1) - 1] \o rest
    BY <1>13, <2>2
  <2>4. PICK a \in 1 .. n, b \in 2 .. n + 1, p \in 1 .. n + 1 : a = A[l] /\ b = B[l] /\ p = Start(l + 1)
    <3>1. l + 1 \in 1 .. m + 1
      BY <1>1
    <3>2. Start(l + 1) \in 1 .. n + 1
      BY <1>8, <3>1
    <3>. QED  BY <1>7, <1>16, <3>2
  <2>5. a < b /\ b <= p /\ chosen[l] = <<a, b>> /\ <<a, b>> \in Spans /\ Start(l) = a
    <3>1. chosen[l] = <<chosen[l][1], chosen[l][2]>> /\ chosen[l] \in Spans
      BY <1>7, Zenon
    <3>2. A[l] = chosen[l][1] /\ B[l] = chosen[l][2]
      BY <1>16, Zenon
    <3>3. A[l] < B[l] /\ B[l] <= Start(l + 1) /\ Start(l) = A[l]
      BY <1>9, <1>17, Zenon
    <3>. QED  BY <2>4, <3>1, <3>2, <3>3, Zenon
  <2>19. /\ a \in Nat /\ b \in Nat /\ p \in Nat /\ 1 <= a /\ a < b /\ b <= p /\ p <= n + 1 /\ n \in Nat
    BY <1>1, <2>5
  <2>20. /\ b - 1 \in 0 .. n /\ p - 1 \in b - 1 .. n /\ (b - 1) + 1 = b /\ a \in 0 .. n /\ b - 1 \in a .. n
         /\ a - 1 \in 0 .. n /\ p - 1 \in Nat /\ p - 1 <= n /\ a - 1 <= n
         /\ \A i \in b .. p - 1 : i \in 1 .. n /\ b <= i /\ i < p
         /\ \A i \in a + 1 .. b - 1 : i \in 1 .. n /\ i - 1 \in 0 .. n
    BY <2>19
  <2>6. PICK token \in Seq(Symbols), mid \in Seq(Symbols), before \in Seq(Symbols), old \in Seq(Symbols) :
          token = Token(<<a, b>>) /\ mid = SubSeq(t, b, p - 1) /\ before = SubSeq(t, 1, a - 1) /\ old = f[a - 1]
    <3>1. Token(<<a, b>>) \in Seq(Symbols)
      BY <2>5, TokenType
    <3>2. SubSeq(t, b, p - 1) \in Seq(Symbols) /\ SubSeq(t, 1, a - 1) \in Seq(Symbols) /\ f[a - 1] \in Seq(Symbols)
      <4>1. SubSeq(t, b, p - 1) \in Seq(Symbols) /\ SubSeq(t, 1, a - 1) \in Seq(Symbols)
        BY <1>0, <1>5, <2>19, <2>20
      <4>2. f[a - 1] \in Seq(Symbols)
        BY <2>20
      <4>. QED  BY <4>1, <4>2
    <3>. QED  BY <3>1, <3>2
  <2>7. Put(g[k], chosen[l]) = (before \o token) \o (mid \o rest)
    <3>1. a \in 1 .. Len(t) /\ b \in 2 .. Len(t) + 1 /\ p \in 1 .. Len(t) + 1 /\ Token(<<a, b>>) \in Seq(Symbols)
      BY <1>0, <2>6
    <3>2. Put(SubSeq(t, 1, p - 1) \o rest, <<a, b>>)
            = (SubSeq(t, 1, a - 1) \o Token(<<a, b>>)) \o (SubSeq(t, b, p - 1) \o rest)
      <4>1. PutsToken(t, rest, a, b, p)
        BY <1>22, <2>5, <3>1, Zenon
      <4>. QED  BY <4>1, Zenon DEF PutsToken
    <3>. QED  BY <2>3, <2>4, <2>5, <2>6, <3>2, Zenon
  <2>8. (before \o token) \o (mid \o rest) \in Seq(Symbols)
    OBVIOUS
  <2>9. g[k + 1] = (before \o token) \o (mid \o rest)
    BY <1>6, <2>2, <2>7, <2>8
  <2>10. f[a] = old \o token
    <3>1. ss[a] = token
      BY <1>3, <1>16, <2>4, <2>5, <2>6
    <3>. QED  BY <1>4, <2>6, <3>1
  <2>11. f[b - 1] = f[a]
    <3>1. a \in 0 .. n /\ b - 1 \in a .. n
      BY <2>20
    <3>2. ASSUME NEW i \in a + 1 .. b - 1 PROVE f[i] = f[i - 1]
      <4>1. i \in 1 .. n /\ i - 1 \in 0 .. n
        BY <2>20
      <4>2. ss[i] = <<>>
        BY <1>3, <1>16, <2>4
      <4>3. f[i - 1] \in Seq(Symbols)
        BY <4>1
      <4>4. f[i - 1] \o <<>> = f[i - 1]
        BY <4>3
      <4>. QED  BY <1>4, <4>1, <4>2, <4>4
    <3>3. PICK c \in a .. n : c = b - 1
      BY <3>1
    <3>4. \A i \in a + 1 .. c : f[i] = f[i - 1]
      BY <3>2, <3>3
    <3>5. f[c] = f[a]
      BY <1>21, <3>1, <3>4
    <3>. QED  BY <3>3, <3>5
  <2>12. f[p - 1] = f[b - 1] \o mid
    <3>1. b - 1 \in 0 .. n /\ p - 1 \in b - 1 .. n /\ (b - 1) + 1 = b
      BY <2>20
    <3>2. \A i \in b .. p - 1 : i \in 1 .. n /\ B[l] <= i /\ i < Start(l + 1)
      BY <2>4, <2>20
    <3>3. \A i \in (b - 1) + 1 .. p - 1 : i \notin Masked(chosen)
      BY <1>9, <3>1, <3>2
    <3>4. f[p - 1] = f[b - 1] \o SubSeq(t, (b - 1) + 1, p - 1)
      BY <1>11, <3>1, <3>3
    <3>. QED  BY <2>6, <3>1, <3>4
  <2>13. f[n] = ((old \o token) \o mid) \o rest
    BY <2>3, <2>4, <2>10, <2>11, <2>12, Zenon
  <2>14. JoinsBehind(Symbols, (before \o token) \o (mid \o rest), before, old, token, mid, rest)
    BY OneMoreToken, Zenon
  <2>15. PICK more \in Seq(Symbols) :
           (before \o token) \o (mid \o rest) = before \o more /\ ((old \o token) \o mid) \o rest = old \o more
    BY <2>14, Zenon DEF JoinsBehind
  <2>16. g[k + 1] = SubSeq(t, 1, a - 1) \o more /\ f[n] = f[a - 1] \o more
    BY <2>6, <2>9, <2>13, <2>15, Zenon
  <2>17. Done(k + 1)
    BY <2>2, <2>5, <2>16, Zenon
  <2>18. Made(k + 1)
    <3>1. \A j \in 1 .. k + 1 : j \in 1 .. k \/ j = k + 1
      BY <2>2
    <3>2. \A j \in 1 .. k : Put(g[j - 1], chosen[m + 1 - j]) \in Seq(Symbols)
      BY <1>13
    <3>3. Put(g[(k + 1) - 1], chosen[m + 1 - (k + 1)]) \in Seq(Symbols)
      BY <2>2, <2>7, <2>8, Zenon
    <3>. QED  BY <3>1, <3>2, <3>3, Zenon
  <2>. QED  BY <2>2, <2>17, <2>18
<1>14. m \in All
  <2>. HIDE DEF All
  <2>1. 0 .. m \subseteq All
    BY <1>1, <1>12, <1>13, UpTo
  <2>. QED  BY <1>1, <2>1
<1>15. g[m] = f[n]
  <2>1. PICK rest \in Seq(Symbols) : g[m] = SubSeq(t, 1, Start(1) - 1) \o rest /\ f[n] = f[Start(1) - 1] \o rest
    <3>1. (m + 1) - m = 1
      BY <1>1
    <3>2. Done(m)
      BY <1>14
    <3>. QED  BY <3>1, <3>2
  <2>2. PICK p \in 0 .. n : p = Start(1) - 1
    <3>1. 1 \in 1 .. m + 1
      BY <1>1
    <3>2. Start(1) \in 1 .. n + 1
      BY <1>8, <3>1
    <3>. QED  BY <1>1, <3>2
  <2>3. f[p] = f[0] \o SubSeq(t, 1, p)
    <3>1. 0 \in 0 .. n /\ p \in 0 .. n /\ 0 + 1 = 1
      BY <1>1
    <3>2. \A i \in 1 .. p : i \in 1 .. n /\ i < Start(1)
      <4>1. Start(1) = p + 1
        <5>1. 1 \in 1 .. m + 1
          BY <1>1
        <5>2. Start(1) \in 1 .. n + 1
          BY <1>8, <5>1
        <5>. QED  BY <1>1, <2>2, <5>2
      <4>. QED  BY <1>1, <4>1
    <3>3. \A i \in 0 + 1 .. p : i \notin Masked(chosen)
      BY <1>10, <3>1, <3>2
    <3>. QED  BY <1>11, <3>1, <3>3
  <2>4. SubSeq(t, 1, p) \in Seq(Symbols)
    BY <1>0, <1>1, <1>5
  <2>5. f[0] \o SubSeq(t, 1, p) = SubSeq(t, 1, p)
    BY <1>4, <2>4
  <2>. QED  BY <2>1, <2>2, <2>3, <2>5, Zenon
<1>19. RedactTextBackwards(t, chosen) = g[m]
  BY <1>6, <1>14
<1>. QED  BY <1>0, <1>2, <1>4, <1>15, <1>19, Zenon

-----------------------------------------------------------------------------
(* The spans of a request's text, from the reports to the result *)

Settled(t, found, chosen) ==
  /\ chosen \in Seq(Spans) /\ InOrder(chosen, t)
  /\ \A s \in found : s[1] \in Masked(chosen)
  /\ \A k \in 1 .. Len(chosen) : RunIsOver(t, chosen[k][2], Masked(chosen))

SpanInv ==
  /\ source \in Texts /\ raw \subseteq Span(source) /\ IsFiniteSet(raw)
  /\ phase \in {"detects", "replaces", "done"}
  /\ phase # "detects" => Settled(source, raw, spans)
  /\ phase = "done" => result = RedactTextBackwards(source, spans)

LEMMA SelectedAreSettled ==
  ASSUME NEW t \in Seq(Character), NEW found \in SUBSET Span(t), IsFiniteSet(found), NEW order \in Sorted(found)
  PROVE  Settled(t, found, Completed(t, NonOverlapping(order)))
<1>1. PICK chosen : chosen = NonOverlapping(order)
  OBVIOUS
<1>2. PICK grown : grown = Completed(t, chosen)
  OBVIOUS
<1>3. /\ chosen \in Seq(Spans) /\ InOrder(chosen, t)
      /\ \A s \in found : \E k \in 1 .. Len(chosen) : chosen[k][1] <= s[1] /\ s[1] < chosen[k][2]
  BY <1>1, KeptAreInOrder
<1>4. /\ grown \in Seq(Spans) /\ Len(grown) = Len(chosen) /\ InOrder(grown, t)
      /\ \A k \in 1 .. Len(chosen) : grown[k][1] = chosen[k][1] /\ chosen[k][2] <= grown[k][2]
      /\ \A k \in 1 .. Len(grown) : RunIsOver(t, grown[k][2], Masked(grown))
  BY <1>2, <1>3, CompletedSpans
<1>5. ASSUME NEW s \in found PROVE s[1] \in Masked(grown)
  <2>1. PICK k \in 1 .. Len(chosen) : chosen[k][1] <= s[1] /\ s[1] < chosen[k][2]
    BY <1>3
  <2>2. s[1] \in Nat /\ chosen[k][2] \in Nat /\ grown[k][2] \in Nat /\ k \in 1 .. Len(grown)
    BY <1>3, <1>4, SpanIs DEF InOrder
  <2>3. grown[k][1] <= s[1] /\ s[1] < grown[k][2]
    <3>1. PICK x \in Nat, y \in Nat, z \in Nat : x = s[1] /\ y = chosen[k][2] /\ z = grown[k][2]
      BY <2>2
    <3>2. x < y /\ y <= z
      BY <1>4, <2>1, <3>1
    <3>3. x < z
      BY <3>2
    <3>. QED  BY <1>4, <2>1, <3>1, <3>3
  <2>. QED  BY <1>4, <2>2, <2>3, MaskedIs
<1>. QED  BY <1>1, <1>2, <1>4, <1>5 DEF Settled

LEMMA SpanInit == ASSUME SPInit PROVE SpanInv
BY FS_EmptySet DEF SPInit, SpanInv

LEMMA SpanStepKeeps == ASSUME SpanInv, [SPNext]_spanvars PROVE SpanInv'
<1>1. source \in Seq(Character)
  BY SpanAssumption DEF SpanInv
<1>2. CASE Reports
  <2>1. PICK s \in Reported(source) \ raw : raw' = raw \cup {s}
    BY <1>2 DEF Reports
  <2>2. s \in Span(source)
    BY <1>1, <2>1, ReportedIsSpan
  <2>3. raw' \subseteq Span(source) /\ IsFiniteSet(raw')
    BY <2>1, <2>2, FS_AddElement DEF SpanInv
  <2>. QED  BY <1>2, <2>3 DEF Reports, SpanInv
<1>3. CASE DetectSpans
  <2>1. PICK order \in Sorted(raw) : spans' = Completed(source, NonOverlapping(order))
    BY <1>3 DEF DetectSpans
  <2>2. Settled(source, raw, spans')
    BY <1>1, <2>1, SelectedAreSettled DEF SpanInv
  <2>. QED  BY <1>3, <2>2 DEF DetectSpans, SpanInv
<1>4. CASE ReplacesSpans
  BY <1>4 DEF ReplacesSpans, SpanInv
<1>5. CASE UNCHANGED spanvars
  BY <1>5 DEF spanvars, SpanInv
<1>. QED  BY <1>2, <1>3, <1>4, <1>5 DEF SPNext

LEMMA SpanInvGivesMasked == ASSUME SpanInv PROVE EverySpanIsMasked
<1>. SUFFICES ASSUME phase = "done"
              PROVE  /\ \A s \in raw : s[1] \in MaskedChars
                     /\ \A k, l \in DOMAIN spans : k < l => spans[k][2] <= spans[l][1]
                     /\ \A k \in DOMAIN spans :
                          LET past == spans[k][2] IN
                          IsDigit(source, past - 1) =>
                            /\ IsDigit(source, past) => past \in MaskedChars
                            /\ (past \in DOMAIN source /\ source[past] = "-" /\ IsDigit(source, past + 1)) =>
                                 past \in MaskedChars \/ past + 1 \in MaskedChars
                     /\ result = ReferenceText
  BY DEF EverySpanIsMasked
<1>1. source \in Seq(Character)
  BY SpanAssumption DEF SpanInv
<1>2. /\ spans \in Seq(Spans) /\ InOrder(spans, source) /\ result = RedactTextBackwards(source, spans)
      /\ \A s \in raw : s[1] \in Masked(spans)
      /\ \A k \in 1 .. Len(spans) : RunIsOver(source, spans[k][2], Masked(spans))
  BY DEF SpanInv, Settled
<1>3. DOMAIN spans = 1 .. Len(spans) /\ DOMAIN source = 1 .. Len(source)
  BY <1>1, <1>2
<1>4. MaskedChars = Masked(spans)
  BY <1>3 DEF MaskedChars, Masked
<1>5. result = ReferenceText
  <2>1. \A i \in 1 .. Len(source) : Piece(i) = PieceOf(source, spans, i)
    BY DEF Piece, PieceOf, MaskedChars
  <2>2. ReferenceText = FlattenSeq([i \in 1 .. Len(source) |-> PieceOf(source, spans, i)])
    BY <1>3, <2>1 DEF ReferenceText
  <2>. QED  BY <1>1, <1>2, <2>2, RedactedIs
<1>6. \A k, l \in DOMAIN spans : k < l => spans[k][2] <= spans[l][1]
  BY <1>2, <1>3 DEF InOrder
<1>7. \A k \in DOMAIN spans :
        LET past == spans[k][2] IN
        IsDigit(source, past - 1) =>
          /\ IsDigit(source, past) => past \in MaskedChars
          /\ (past \in DOMAIN source /\ source[past] = "-" /\ IsDigit(source, past + 1)) =>
               past \in MaskedChars \/ past + 1 \in MaskedChars
  BY <1>2, <1>3, <1>4 DEF RunIsOver
<1>. QED  BY <1>2, <1>4, <1>5, <1>6, <1>7

(* The first character of every span a detector reported is replaced, the  *)
(* spans replaced do not overlap, none leaves a digit of its run behind,   *)
(* and what the replacement from the last span to the first makes is the   *)
(* caller's text with each span once as its token, in the order it was     *)
(* written (pii_engine.py: detect_spans, redact_text).                     *)
THEOREM EverySpanMasked == SPSpec => []EverySpanIsMasked
<1>1. SPInit => SpanInv
  BY SpanInit
<1>2. SpanInv /\ [SPNext]_spanvars => SpanInv'
  BY SpanStepKeeps
<1>3. SpanInv => EverySpanIsMasked
  BY SpanInvGivesMasked
<1>. QED  BY <1>1, <1>2, <1>3, PTL DEF SPSpec
=============================================================================

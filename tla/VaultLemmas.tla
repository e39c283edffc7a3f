---------------------------- MODULE VaultLemmas ----------------------------
(***************************************************************************)
(* What the methods of a vault value return and preserve, for every set of *)
(* values, types and stand-ins, every number of reseeds and every draw     *)
(* table.  The vault and the Redis store rest on these facts.              *)
(***************************************************************************)
EXTENDS VaultState, SequenceLemmas

(* _resolve_collision returns a token that is in use nowhere, or the tagged *)
(* fallback of the current count.                                          *)
LEMMA ResolvedIsFree ==
  ASSUME NEW v, NEW e, NEW n, NEW draw \in Draws
  PROVE  LET t == ResolveCollision(v, e, n, draw)
         IN  \/ t \in StandIn /\ ~TokenTaken(v, t)
             \/ t = Tag(e, n)
<1>. DEFINE Free == {k \in 1 .. MaxReseeds : ~TokenTaken(v, draw[k])}
<1>1. CASE Free = {}
  BY <1>1 DEF ResolveCollision
<1>2. CASE Free # {}
  <2>0. Free \in SUBSET Nat
    BY VaultAssumption
  <2>1. PICK m \in Free : \A k \in Free : m <= k
    <3>. HIDE DEF Free
    <3>. QED  BY <1>2, <2>0, LeastNatural
  <2>2. \A j \in 1 .. m - 1 : TokenTaken(v, draw[j])
    BY <2>1, VaultAssumption
  <2>. DEFINE First(k) == /\ ~TokenTaken(v, draw[k])
                          /\ \A j \in 1 .. k - 1 : TokenTaken(v, draw[j])
              c == CHOOSE k \in 1 .. MaxReseeds : First(k)
  <2>3. \E k \in 1 .. MaxReseeds : First(k)
    BY <2>1, <2>2
  <2>4. c \in 1 .. MaxReseeds /\ First(c)
    BY <2>3
  <2>5. ResolveCollision(v, e, n, draw) = draw[c]
    BY <2>3 DEF ResolveCollision
  <2>6. draw[c] \in StandIn
    BY <2>4, VaultAssumption DEF Draws
  <2>. QED  BY <2>4, <2>5, <2>6
<1>. QED  BY <1>1, <1>2

(* What _mint_token returns is a token nobody in this vault holds, and a   *)
(* structural tag it returns carries the new count of its type.            *)
LEMMA MintIsFresh ==
  ASSUME NEW v, VaultInv(v), NEW e \in EntityType, NEW draw \in Draws
  PROVE  LET t == MintToken(v, e, draw)
         IN  /\ t \in Token
             /\ ~TokenTaken(v, t)
             /\ t \in StructuralTag => t.type = e /\ t.n = v.typeCounters[e] + 1
<1>. DEFINE n == v.typeCounters[e] + 1
            t == MintToken(v, e, draw)
<1>1. n \in Nat \ {0}
  BY DEF VaultInv, VaultType
<1>2. Tag(e, n) \in StructuralTag /\ Tag(e, n).type = e /\ Tag(e, n).n = n
  BY <1>1 DEF Tag, StructuralTag
<1>3. ~TokenTaken(v, Tag(e, n))
  <2>1. SUFFICES ASSUME TokenTaken(v, Tag(e, n)) PROVE FALSE
    OBVIOUS
  <2>2. Tag(e, n).n <= v.typeCounters[Tag(e, n).type]
    BY <1>2, <2>1 DEF TokenTaken, VaultInv, CountersAhead
  <2>. QED  BY <1>2, <2>2 DEF VaultInv, VaultType
<1>4. draw[0] \in StandIn
  BY VaultAssumption DEF Draws
<1>5. \/ t \in StandIn /\ ~TokenTaken(v, t)
      \/ t = Tag(e, n)
  BY <1>3, <1>4, ResolvedIsFree DEF MintToken, NextCount
<1>. QED  BY <1>2, <1>3, <1>5, VaultAssumption DEF Token

(* Counting a type changes its counter alone. *)
LEMMA CountedFields ==
  ASSUME NEW v, VaultType(v), NEW e \in EntityType
  PROVE  Counted(v, e) =
           [synthetic    |-> v.synthetic,
            toToken      |-> v.toToken,
            toOriginal   |-> v.toOriginal,
            oneWay       |-> v.oneWay,
            oneWayTokens |-> v.oneWayTokens,
            typeCounters |-> [v.typeCounters EXCEPT ![e] = v.typeCounters[e] + 1]]
<1>1. v = [synthetic    |-> v.synthetic,
           toToken      |-> v.toToken,
           toOriginal   |-> v.toOriginal,
           oneWay       |-> v.oneWay,
           oneWayTokens |-> v.oneWayTokens,
           typeCounters |-> v.typeCounters]
  BY DEF VaultType
<1>. QED  BY <1>1 DEF Counted, NextCount

(* What registering a token on either side does to the fields. *)
LEMMA RestorableFields ==
  ASSUME NEW v, VaultType(v), NEW e \in EntityType, NEW o, NEW t,
         NEW w, w = RegisterRestorable(Counted(v, e), o, t)
  PROVE  w = [synthetic    |-> v.synthetic,
              toToken      |-> Put(v.toToken, o, t),
              toOriginal   |-> Put(v.toOriginal, t, o),
              oneWay       |-> v.oneWay,
              oneWayTokens |-> v.oneWayTokens,
              typeCounters |-> [v.typeCounters EXCEPT ![e] = v.typeCounters[e] + 1]]
<1>1. PICK count : count = [v.typeCounters EXCEPT ![e] = v.typeCounters[e] + 1]
  OBVIOUS
<1>2. PICK c : c = Counted(v, e)
  OBVIOUS
<1>3. c = [synthetic    |-> v.synthetic,
           toToken      |-> v.toToken,
           toOriginal   |-> v.toOriginal,
           oneWay       |-> v.oneWay,
           oneWayTokens |-> v.oneWayTokens,
           typeCounters |-> count]
  BY <1>1, <1>2, CountedFields
<1>4. w = RegisterRestorable(c, o, t)
  BY <1>2
<1>. QED  BY <1>1, <1>3, <1>4 DEF RegisterRestorable

LEMMA OneWayFields ==
  ASSUME NEW v, VaultType(v), NEW e \in EntityType, NEW o, NEW t,
         NEW w, w = RegisterOneWay(Counted(v, e), o, t)
  PROVE  w = [synthetic    |-> v.synthetic,
              toToken      |-> v.toToken,
              toOriginal   |-> v.toOriginal,
              oneWay       |-> Put(v.oneWay, o, t),
              oneWayTokens |-> v.oneWayTokens \cup {t},
              typeCounters |-> [v.typeCounters EXCEPT ![e] = v.typeCounters[e] + 1]]
<1>1. PICK count : count = [v.typeCounters EXCEPT ![e] = v.typeCounters[e] + 1]
  OBVIOUS
<1>2. PICK c : c = Counted(v, e)
  OBVIOUS
<1>3. c = [synthetic    |-> v.synthetic,
           toToken      |-> v.toToken,
           toOriginal   |-> v.toOriginal,
           oneWay       |-> v.oneWay,
           oneWayTokens |-> v.oneWayTokens,
           typeCounters |-> count]
  BY <1>1, <1>2, CountedFields
<1>4. w = RegisterOneWay(c, o, t)
  BY <1>2
<1>. QED  BY <1>1, <1>3, <1>4 DEF RegisterOneWay

(***************************************************************************)
(* A fresh token registered on either side keeps the vault consistent.     *)
(***************************************************************************)
LEMMA RegisterRestorableInv ==
  ASSUME NEW v, VaultInv(v), NEW e \in EntityType,
         NEW o \in Original \ DOMAIN v.toToken,
         NEW t \in Token, ~TokenTaken(v, t),
         t \in StructuralTag => t.type = e /\ t.n = v.typeCounters[e] + 1
  PROVE  VaultInv(RegisterRestorable(Counted(v, e), o, t))
<1>. DEFINE w == RegisterRestorable(Counted(v, e), o, t)
<1>1. /\ w.synthetic = v.synthetic
      /\ w.toToken = Put(v.toToken, o, t)
      /\ w.toOriginal = Put(v.toOriginal, t, o)
      /\ w.oneWay = v.oneWay
      /\ w.oneWayTokens = v.oneWayTokens
      /\ w.typeCounters = [v.typeCounters EXCEPT ![e] = v.typeCounters[e] + 1]
      /\ w = [synthetic    |-> w.synthetic,
              toToken      |-> w.toToken,
              toOriginal   |-> w.toOriginal,
              oneWay       |-> w.oneWay,
              oneWayTokens |-> w.oneWayTokens,
              typeCounters |-> w.typeCounters]
  <2>1. w = [synthetic |-> v.synthetic,
               toToken |-> Put(v.toToken, o, t),
               toOriginal |-> Put(v.toOriginal, t, o),
               oneWay |-> v.oneWay,
               oneWayTokens |-> v.oneWayTokens,
               typeCounters |-> [v.typeCounters EXCEPT ![e] = v.typeCounters[e] + 1]]
    BY RestorableFields DEF VaultInv
  <2>. HIDE DEF w
  <2>. QED  BY <2>1
<1>. HIDE DEF w
<1>2. /\ DOMAIN w.toToken = DOMAIN v.toToken \cup {o}
      /\ w.toToken[o] = t
      /\ \A p \in DOMAIN v.toToken : w.toToken[p] = v.toToken[p]
  BY <1>1 DEF Put
<1>3. /\ DOMAIN w.toOriginal = DOMAIN v.toOriginal \cup {t}
      /\ w.toOriginal[t] = o
      /\ \A u \in DOMAIN v.toOriginal : w.toOriginal[u] = v.toOriginal[u]
  BY <1>1 DEF Put, TokenTaken
<1>4. VaultType(w)
  <2>1. /\ w.synthetic \in BOOLEAN
        /\ DOMAIN w.oneWay \subseteq Original
        /\ w.oneWay \in [DOMAIN w.oneWay -> Token]
        /\ w.oneWayTokens \subseteq Token
        /\ w.typeCounters \in [EntityType -> Nat]
    BY <1>1 DEF VaultInv, VaultType
  <2>2. DOMAIN w.toToken \subseteq Original /\ w.toToken \in [DOMAIN w.toToken -> Token]
    BY <1>1, <1>2 DEF VaultInv, VaultType, Put
  <2>3. DOMAIN w.toOriginal \subseteq Token /\ w.toOriginal \in [DOMAIN w.toOriginal -> Original]
    BY <1>1, <1>3 DEF VaultInv, VaultType, Put
  <2>. QED  BY <1>1, <2>1, <2>2, <2>3 DEF VaultType
<1>5. Bijective(w)
  BY <1>2, <1>3 DEF VaultInv, Bijective, TokenTaken
<1>6. Sealed(w)
  BY <1>1, <1>3 DEF VaultInv, Sealed, TokenTaken
<1>7. CountersAhead(w)
  BY <1>1, <1>3 DEF VaultInv, VaultType, CountersAhead, StructuralTag
<1>. QED  BY <1>4, <1>5, <1>6, <1>7 DEF VaultInv, w

LEMMA RegisterOneWayInv ==
  ASSUME NEW v, VaultInv(v), NEW e \in EntityType,
         NEW o \in Original \ DOMAIN v.oneWay,
         NEW t \in Token, ~TokenTaken(v, t),
         t \in StructuralTag => t.type = e /\ t.n = v.typeCounters[e] + 1
  PROVE  VaultInv(RegisterOneWay(Counted(v, e), o, t))
<1>. DEFINE w == RegisterOneWay(Counted(v, e), o, t)
<1>1. /\ w.synthetic = v.synthetic
      /\ w.toToken = v.toToken
      /\ w.toOriginal = v.toOriginal
      /\ w.oneWay = Put(v.oneWay, o, t)
      /\ w.oneWayTokens = v.oneWayTokens \cup {t}
      /\ w.typeCounters = [v.typeCounters EXCEPT ![e] = v.typeCounters[e] + 1]
      /\ w = [synthetic    |-> w.synthetic,
              toToken      |-> w.toToken,
              toOriginal   |-> w.toOriginal,
              oneWay       |-> w.oneWay,
              oneWayTokens |-> w.oneWayTokens,
              typeCounters |-> w.typeCounters]
  <2>1. w = [synthetic |-> v.synthetic,
               toToken |-> v.toToken,
               toOriginal |-> v.toOriginal,
               oneWay |-> Put(v.oneWay, o, t),
               oneWayTokens |-> v.oneWayTokens \cup {t},
               typeCounters |-> [v.typeCounters EXCEPT ![e] = v.typeCounters[e] + 1]]
    BY OneWayFields DEF VaultInv
  <2>. HIDE DEF w
  <2>. QED  BY <2>1
<1>. HIDE DEF w
<1>2. /\ DOMAIN w.oneWay = DOMAIN v.oneWay \cup {o}
      /\ w.oneWay[o] = t
      /\ \A p \in DOMAIN v.oneWay : w.oneWay[p] = v.oneWay[p]
  BY <1>1 DEF Put
<1>3. VaultType(w)
  <2>1. DOMAIN w.oneWay \subseteq Original /\ w.oneWay \in [DOMAIN w.oneWay -> Token]
    BY <1>1, <1>2 DEF VaultInv, VaultType, Put
  <2>. QED  BY <1>1, <2>1 DEF VaultInv, VaultType
<1>4. Bijective(w)
  BY <1>1 DEF VaultInv, Bijective
<1>5. Sealed(w)
  BY <1>1, <1>2 DEF VaultInv, Sealed, TokenTaken
<1>6. CountersAhead(w)
  BY <1>1 DEF VaultInv, VaultType, CountersAhead, StructuralTag
<1>. QED  BY <1>3, <1>4, <1>5, <1>6 DEF VaultInv, w

(* Each method of the class keeps a consistent vault consistent. *)
LEMMA MethodsInv ==
  ASSUME NEW v, VaultInv(v)
  PROVE  /\ \A o \in Original, e \in EntityType, draw \in Draws :
              /\ VaultInv(GetOrCreateToken(v, o, e, draw))
              /\ VaultInv(GetOrCreateOneWayToken(v, o, e, draw))
         /\ \A synthetic \in BOOLEAN : VaultInv(LoadState(synthetic, DumpState(v)))
<1>1. ASSUME NEW o \in Original, NEW e \in EntityType, NEW draw \in Draws
      PROVE  VaultInv(GetOrCreateToken(v, o, e, draw))
  BY MintIsFresh, RegisterRestorableInv DEF GetOrCreateToken
<1>2. ASSUME NEW o \in Original, NEW e \in EntityType, NEW draw \in Draws
      PROVE  VaultInv(GetOrCreateOneWayToken(v, o, e, draw))
  BY MintIsFresh, RegisterOneWayInv DEF GetOrCreateOneWayToken
<1>3. ASSUME NEW synthetic \in BOOLEAN
      PROVE  VaultInv(LoadState(synthetic, DumpState(v)))
  <2>. DEFINE w == LoadState(synthetic, DumpState(v))
  <2>1. /\ w.synthetic = synthetic
        /\ w.toToken = v.toToken
        /\ w.toOriginal = v.toOriginal
        /\ w.oneWay = v.oneWay
        /\ w.oneWayTokens = v.oneWayTokens
        /\ w.typeCounters = v.typeCounters
        /\ w = [synthetic    |-> w.synthetic,
                toToken      |-> w.toToken,
                toOriginal   |-> w.toOriginal,
                oneWay       |-> w.oneWay,
                oneWayTokens |-> w.oneWayTokens,
                typeCounters |-> w.typeCounters]
    BY DEF LoadState, DumpState, VaultInv, Sealed
  <2>. HIDE DEF w
  <2>. QED
    BY <2>1 DEF VaultInv, VaultType, Bijective, Sealed, CountersAhead, w
<1>. QED  BY <1>1, <1>2, <1>3


(* An empty vault satisfies the invariant of vault values. *)
LEMMA NewVaultInv ==
  ASSUME NEW synthetic \in BOOLEAN
  PROVE  VaultInv(NewVault(synthetic))
<1>1. NewVault(synthetic).typeCounters \in [EntityType -> Nat]
  BY DEF NewVault
<1>2. DOMAIN EmptyMap = {} /\ EmptyMap \in [{} -> {}]
  BY DEF EmptyMap
<1>3. VaultType(NewVault(synthetic))
  BY <1>1, <1>2 DEF NewVault, VaultType
<1>4. Bijective(NewVault(synthetic))
  BY <1>2 DEF NewVault, Bijective
<1>5. Sealed(NewVault(synthetic)) /\ CountersAhead(NewVault(synthetic))
  BY <1>2 DEF NewVault, Sealed, CountersAhead
<1>. QED  BY <1>3, <1>4, <1>5 DEF VaultInv
=============================================================================

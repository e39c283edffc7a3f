----------------------------- MODULE RedisProofs -----------------------------
(***************************************************************************)
(* The Redis-backed store, for every set of values and requests: under any *)
(* adversity every copy of a session's state is sound; without adversity   *)
(* the session behaves as one vault.                                       *)
(***************************************************************************)
EXTENDS RedisVaultStore, VaultLemmas, SequenceTheorems

Maps(K, V) == UNION {[D -> V] : D \in SUBSET K}

State ==
  [toToken      : Maps(Original, Token),
   toOriginal   : Maps(Token, Original),
   oneWay       : Maps(Original, Token),
   typeCounters : [EntityType -> Nat]]

SoundState == {s \in State : VaultInv(LoadState(TRUE, s))}

SoundSave == [by : Request, state : SoundState]

SoundVault(v) == VaultInv(v) /\ DumpState(v) \in SoundState

LEMMA DumpIsSound ==
  ASSUME NEW v, VaultInv(v)
  PROVE  DumpState(v) \in SoundState
<1>1. /\ v.toToken \in Maps(Original, Token)
      /\ v.toOriginal \in Maps(Token, Original)
      /\ v.oneWay \in Maps(Original, Token)
      /\ v.typeCounters \in [EntityType -> Nat]
  BY DEF VaultInv, VaultType, Maps
<1>2. DumpState(v) \in State
  BY <1>1 DEF DumpState, State
<1>3. VaultInv(LoadState(TRUE, DumpState(v)))
  BY MethodsInv
<1>. QED  BY <1>2, <1>3 DEF SoundState

(* The mode is no part of what makes a loaded vault sound. *)
LEMMA LoadIsSound ==
  ASSUME NEW s \in SoundState, NEW synthetic \in BOOLEAN
  PROVE  VaultInv(LoadState(synthetic, s)) /\ DumpState(LoadState(synthetic, s)) = s
<1>. DEFINE v == LoadState(TRUE, s)
<1>1. VaultInv(v)
  BY DEF SoundState
<1>2. s = [toToken |-> s.toToken, toOriginal |-> s.toOriginal,
           oneWay |-> s.oneWay, typeCounters |-> s.typeCounters]
  BY DEF SoundState, State
<1>3. DumpState(v) = s /\ DumpState(LoadState(synthetic, s)) = s
  BY <1>2 DEF DumpState, LoadState
<1>4. VaultInv(LoadState(synthetic, DumpState(v)))
  BY <1>1, MethodsInv
<1>. QED  BY <1>3, <1>4

LEMMA RemoveAtSeq ==
  ASSUME NEW S, NEW s \in Seq(S), NEW i \in DOMAIN s
  PROVE  /\ RemoveAt(s, i) \in Seq(S)
         /\ Len(RemoveAt(s, i)) = Len(s) - 1
         /\ \A j \in 1 .. Len(s) - 1 :
              RemoveAt(s, i)[j] = IF j < i THEN s[j] ELSE s[j + 1]
<1>1. i \in 1 .. Len(s) /\ Len(s) \in Nat
  BY LenProperties
<1>. DEFINE a == SubSeq(s, 1, i - 1)
            b == SubSeq(s, i + 1, Len(s))
<1>2. /\ a \in Seq(S) /\ Len(a) = i - 1
      /\ \A j \in 1 .. i - 1 : a[j] = s[j]
  BY <1>1, SubSeqProperties
<1>3. /\ b \in Seq(S) /\ Len(b) = Len(s) - i
      /\ \A j \in 1 .. Len(s) - i : b[j] = s[i + j]
  BY <1>1, SubSeqProperties
<1>. HIDE DEF a, b
<1>4. /\ a \o b \in Seq(S) /\ Len(a \o b) = Len(s) - 1
      /\ \A j \in 1 .. Len(s) - 1 : (a \o b)[j] = IF j < i THEN s[j] ELSE s[j + 1]
  BY <1>1, <1>2, <1>3, SMTT(30)
<1>. QED  BY <1>4 DEF RemoveAt, a, b

-----------------------------------------------------------------------------
(* The inductive invariant under any adversity. *)
Inv ==
  /\ stored = Nothing \/ stored \in SoundState
  /\ local = [r \in Request |-> local[r]]
  /\ \A r \in Request : local[r] = Nothing \/ VaultInv(local[r])
  /\ pending \in Seq(SoundSave)
  /\ faker \in [Original -> [EntityType -> Draws]]

LEMMA PendingIsSound ==
  ASSUME Inv, NEW i \in DOMAIN pending
  PROVE  /\ pending[i].state \in SoundState
         /\ VaultInv(LoadState(TRUE, pending[i].state))
<1>1. pending \in Seq(SoundSave)
  BY DEF Inv
<1>2. pending[i] \in SoundSave
  BY <1>1
<1>. QED  BY <1>2 DEF SoundSave, SoundState

LEMMA InitInv == Init => Inv
<1>. QED  BY DEF Init, Inv

(* A vault that went through a method, and the save it may cause, are sound. *)
LEMMA HandOutInv ==
  ASSUME Inv, NEW r \in Open, NEW o, NEW side, NEW token, NEW vault,
         VaultInv(vault), HandOut(r, o, side, token, vault)
  PROVE  Inv'
<1>1. DumpState(vault) \in SoundState
  BY DumpIsSound
<1>2. [by |-> r, state |-> DumpState(vault)] \in SoundSave
  BY <1>1 DEF SoundSave, Open
<1>3. pending' \in Seq(SoundSave)
  BY <1>2, AppendProperties, SMTT(30) DEF HandOut, Save, Inv
<1>. QED  BY <1>3 DEF Inv, HandOut

LEMMA StepInv == Inv /\ [Next]_vars => Inv'
<1>. SUFFICES ASSUME Inv, [Next]_vars PROVE Inv'
  OBVIOUS
<1>1. ASSUME NEW r \in Request, Begin(r) PROVE Inv'
  <2>1. PICK synthetic \in BOOLEAN : local' = [local EXCEPT ![r] = Fetched(synthetic)]
    BY <1>1 DEF Begin, AskedModes
  <2>2. VaultInv(Fetched(synthetic))
    BY NewVaultInv, LoadIsSound DEF Inv, Fetched
  <2>3. UNCHANGED <<stored, pending, faker>>
    BY <1>1 DEF Begin
  <2>. QED  BY <2>1, <2>2, <2>3 DEF Inv
<1>2. ASSUME NEW r \in Request, Finish(r) \/ Disconnect(r) PROVE Inv'
  BY <1>2 DEF Inv, Finish, Disconnect, Forget
<1>3. ASSUME NEW r \in Request, NEW o \in Original, NEW e \in EntityType,
             Redact(r, o, e)
      PROVE  Inv'
  <2>1. faker[o][e] \in Draws /\ r \in Open /\ VaultInv(local[r])
    BY <1>3 DEF Inv, Redact, Open
  <2>2. VaultInv(GetOrCreateToken(local[r], o, e, faker[o][e]))
    BY <2>1, MethodsInv
  <2>. QED  BY <1>3, <2>1, <2>2, HandOutInv DEF Redact
<1>4. ASSUME NEW r \in Request, NEW o \in Original, NEW e \in EntityType,
             RedactOneWay(r, o, e)
      PROVE  Inv'
  <2>1. faker[o][e] \in Draws /\ r \in Open /\ VaultInv(local[r])
    BY <1>4 DEF Inv, RedactOneWay, Open
  <2>2. VaultInv(GetOrCreateOneWayToken(local[r], o, e, faker[o][e]))
    BY <2>1, MethodsInv
  <2>. QED  BY <1>4, <2>1, <2>2, HandOutInv DEF RedactOneWay
<1>5. ASSUME NEW i \in DOMAIN pending, SaveLands(i) \/ LoseSave(i) PROVE Inv'
  <2>1. pending[i].state \in SoundState
    BY PendingIsSound
  <2>2. RemoveAt(pending, i) \in Seq(SoundSave)
    BY RemoveAtSeq DEF Inv
  <2>. QED  BY <1>5, <2>1, <2>2 DEF Inv, SaveLands, LoseSave
<1>6. CASE Expire
  BY <1>6 DEF Inv, Expire, Forget
<1>7. CASE UNCHANGED vars
  BY <1>7 DEF Inv, vars
<1>. QED  BY <1>1, <1>2, <1>3, <1>4, <1>5, <1>6, <1>7 DEF Next

LEMMA AlwaysInv == Spec => []Inv
<1>. QED  BY InitInv, StepInv, PTL DEF Spec

(* Overlapping, reordered, lost or expired saves never leave a session with *)
(* a state that is not one the Vault class could have built.               *)
THEOREM RedisEveryCopyIsSound == Spec => []EveryCopyIsSound
<1>1. Inv => EveryCopyIsSound
  <2>. SUFFICES ASSUME Inv PROVE EveryCopyIsSound
    OBVIOUS
  <2>1. stored # Nothing => VaultInv(LoadState(TRUE, stored))
    BY DEF Inv, SoundState
  <2>2. \A r \in Open : VaultInv(local[r])
    BY DEF Inv, Open
  <2>3. ASSUME NEW i \in DOMAIN pending
        PROVE  VaultInv(LoadState(TRUE, pending[i].state))
    BY PendingIsSound
  <2>. QED  BY <2>1, <2>2, <2>3 DEF EveryCopyIsSound
<1>. QED  BY <1>1, AlwaysInv, PTL

-----------------------------------------------------------------------------
(***************************************************************************)
(* Without adversity.  The newest save in flight, or else what Redis       *)
(* holds, is the state of the session; it records all that was handed out, *)
(* and an open request's vault agrees with it.                             *)
(***************************************************************************)
Current == IF pending = <<>> THEN stored ELSE pending[Len(pending)].state

Records(state, h) ==
  IF h.side = "restorable"
    THEN h.original \in DOMAIN state.toToken /\ state.toToken[h.original] = h.token
    ELSE h.original \in DOMAIN state.oneWay /\ state.oneWay[h.original] = h.token

HandedRecord ==
  [original : Original, side : {"restorable", "oneway"}, token : Token]

CalmBody ==
  /\ \A q, r \in Open : q = r
  /\ \A i, j \in DOMAIN pending : pending[i].by = pending[j].by
  /\ \A i \in DOMAIN pending, r \in Open : pending[i].by = r
  /\ \A r \in Open :
       IF Current = Nothing
         THEN DOMAIN local[r].toToken = {} /\ DOMAIN local[r].oneWay = {}
         ELSE Current = DumpState(local[r])
  /\ handed \subseteq HandedRecord
  /\ Current = Nothing => handed = {}
  /\ Current # Nothing => \A h \in handed : Records(Current, h)

CalmInv == Calm => CalmBody

LEMMA NothingIsNoState == Nothing \notin SoundState
<1>. SUFFICES ASSUME Nothing \in State PROVE FALSE
  BY DEF SoundState
<1>1. "toToken" \in DOMAIN Nothing
  BY DEF State
<1>. QED  BY <1>1 DEF Nothing

(* A method keeps what the vault recorded and records what it returns. *)
LEMMA MethodsRecord ==
  ASSUME NEW v, VaultInv(v), NEW o \in Original, NEW e \in EntityType,
         NEW draw \in Draws
  PROVE  LET w == GetOrCreateToken(v, o, e, draw)
             u == GetOrCreateOneWayToken(v, o, e, draw)
         IN  /\ \A p \in DOMAIN v.toToken :
                  p \in DOMAIN w.toToken /\ w.toToken[p] = v.toToken[p]
             /\ w.oneWay = v.oneWay
             /\ o \in DOMAIN w.toToken
             /\ \A p \in DOMAIN v.oneWay :
                  p \in DOMAIN u.oneWay /\ u.oneWay[p] = v.oneWay[p]
             /\ u.toToken = v.toToken
             /\ o \in DOMAIN u.oneWay
<1>. DEFINE t == MintToken(v, e, draw)
            x == RegisterRestorable(Counted(v, e), o, t)
            y == RegisterOneWay(Counted(v, e), o, t)
<1>1. x.toToken = Put(v.toToken, o, t) /\ x.oneWay = v.oneWay
  BY RestorableFields DEF VaultInv
<1>2. y.oneWay = Put(v.oneWay, o, t) /\ y.toToken = v.toToken
  BY OneWayFields DEF VaultInv
<1>3. \A f : /\ o \in DOMAIN Put(f, o, t)
             /\ \A p \in DOMAIN f :
                  /\ p \in DOMAIN Put(f, o, t)
                  /\ o \notin DOMAIN f => Put(f, o, t)[p] = f[p]
  BY DEF Put
<1>. HIDE DEF x, y, t
<1>4. GetOrCreateToken(v, o, e, draw) = IF o \in DOMAIN v.toToken THEN v ELSE x
  BY DEF GetOrCreateToken, x, t
<1>5. GetOrCreateOneWayToken(v, o, e, draw) = IF o \in DOMAIN v.oneWay THEN v ELSE y
  BY DEF GetOrCreateOneWayToken, y, t
<1>. QED  BY <1>1, <1>2, <1>3, <1>4, <1>5

LEMMA CurrentIsSound == Inv => Current = Nothing \/ Current \in SoundState
<1>. SUFFICES ASSUME Inv PROVE Current = Nothing \/ Current \in SoundState
  OBVIOUS
<1>1. CASE pending = <<>>
  BY <1>1 DEF Inv, Current
<1>2. CASE pending # <<>>
  <2>1. Len(pending) \in DOMAIN pending
    BY <1>2 DEF Inv
  <2>. QED  BY <1>2, <2>1, PendingIsSound DEF Current
<1>. QED  BY <1>1, <1>2

LEMMA CalmInit == Init => CalmBody
<1>. SUFFICES ASSUME Init PROVE CalmBody
  OBVIOUS
<1>1. Open = {} /\ pending = <<>> /\ handed = {} /\ Current = Nothing
  BY DEF Init, Open, Current
<1>. QED  BY <1>1 DEF CalmBody

(* A method's answer is in the state its save carries, or was already in   *)
(* the session's current state.                                            *)
LEMMA CalmHandOut ==
  ASSUME Inv, CalmBody, NEW r \in Open, NEW o \in Original,
         NEW side \in {"restorable", "oneway"}, NEW token \in Token,
         NEW vault, VaultInv(vault), HandOut(r, o, side, token, vault),
         Records(DumpState(vault), [original |-> o, side |-> side, token |-> token]),
         \A h : Records(DumpState(local[r]), h) => Records(DumpState(vault), h)
  PROVE  CalmBody'
<1>. DEFINE h0 == [original |-> o, side |-> side, token |-> token]
<1>1. /\ handed' = handed \cup {h0}
      /\ local' = [local EXCEPT ![r] = vault]
      /\ stored' = stored
  BY DEF HandOut
<1>2. h0 \in HandedRecord
  BY DEF HandedRecord
<1>3. Records(DumpState(vault), h0)
  OBVIOUS
<1>. HIDE DEF h0
<1>4. \A q \in Open : q = r
  BY DEF CalmBody
<1>5. Open' \subseteq Open /\ local'[r] = vault
  BY <1>1 DEF Open, Inv
<1>6. \A q \in Open' : q = r
  BY <1>4, <1>5
<1>7. CASE vault = local[r]
  <2>1. pending' = pending /\ Current' = Current
    BY <1>1, <1>7 DEF HandOut, Current
  <2>2. h0.side \in {"restorable", "oneway"}
    BY <1>2 DEF HandedRecord
  <2>3. ~(DOMAIN vault.toToken = {} /\ DOMAIN vault.oneWay = {})
    BY <1>3, <2>2 DEF Records, DumpState
  <2>4. Current # Nothing /\ Current = DumpState(vault)
    BY <1>7, <2>3 DEF CalmBody
  <2>5. \A h \in handed' : Records(Current', h)
    BY <1>1, <1>3, <2>1, <2>4 DEF CalmBody
  <2>. QED
    BY <1>1, <1>2, <1>4, <1>5, <1>6, <2>1, <2>4, <2>5 DEF CalmBody
<1>8. CASE vault # local[r]
  <2>1. pending' = Append(pending, [by |-> r, state |-> DumpState(vault)])
    BY <1>8 DEF HandOut, Save
  <2>2. pending \in Seq(SoundSave)
    BY DEF Inv
  <2>3. /\ Len(pending') = Len(pending) + 1
        /\ DOMAIN pending' = 1 .. Len(pending) + 1
        /\ pending'[Len(pending) + 1] = [by |-> r, state |-> DumpState(vault)]
        /\ \A i \in DOMAIN pending : pending'[i] = pending[i]
        /\ DOMAIN pending = 1 .. Len(pending) /\ Len(pending) \in Nat
    BY <2>1, <2>2
  <2>4. pending' # <<>>
    BY <2>3
  <2>5. Current' = DumpState(vault)
    BY <2>3, <2>4 DEF Current
  <2>6. DumpState(vault) # Nothing
    BY DumpIsSound, NothingIsNoState
  <2>7. \A i \in DOMAIN pending' : pending'[i].by = r
    BY <2>3 DEF CalmBody
  <2>8. \A h \in handed : Records(DumpState(vault), h)
    BY DEF CalmBody
  <2>9. \A h \in handed' : Records(Current', h)
    BY <1>1, <1>3, <2>5, <2>8
  <2>. QED
    BY <1>1, <1>2, <1>5, <1>6, <2>5, <2>6, <2>7, <2>9 DEF CalmBody
<1>. QED  BY <1>7, <1>8

LEMMA CalmStep == Calm /\ Inv /\ CalmBody /\ [Next]_vars => CalmBody'
<1>. SUFFICES ASSUME Calm, Inv, CalmBody, [Next]_vars PROVE CalmBody'
  OBVIOUS
<1>1. ASSUME NEW r \in Request, Begin(r) PROVE CalmBody'
  <2>1. Open = {} /\ pending = <<>> /\ UNCHANGED <<stored, pending, handed>>
    BY <1>1 DEF Begin, Calm
  <2>2. PICK synthetic \in BOOLEAN : local' = [local EXCEPT ![r] = Fetched(synthetic)]
    BY <1>1 DEF Begin, AskedModes
  <2>3. \A q \in Open' : q = r /\ local'[q] = Fetched(synthetic)
    BY <2>1, <2>2 DEF Open, Inv
  <2>4. Current = stored /\ Current' = stored
    BY <2>1 DEF Current
  <2>5. stored = Nothing => /\ DOMAIN Fetched(synthetic).toToken = {}
                            /\ DOMAIN Fetched(synthetic).oneWay = {}
    BY DEF Fetched, NewVault, EmptyMap
  <2>6. stored # Nothing => DumpState(Fetched(synthetic)) = stored
    BY LoadIsSound DEF Inv, Fetched
  <2>. QED
    BY <2>1, <2>3, <2>4, <2>5, <2>6 DEF CalmBody
<1>2. ASSUME NEW r \in Request, Finish(r) PROVE CalmBody'
  <2>1. UNCHANGED <<stored, pending, handed>> /\ Current' = Current
    BY <1>2 DEF Finish, Current
  <2>2. \A q \in Open' : q \in Open /\ local'[q] = local[q]
    BY <1>2 DEF Finish, Open, Inv
  <2>. QED  BY <2>1, <2>2 DEF CalmBody
<1>3. ASSUME NEW r \in Request, Disconnect(r) PROVE CalmBody'
  BY <1>3 DEF Disconnect, Calm
<1>4. ASSUME NEW r \in Request, NEW o \in Original, NEW e \in EntityType,
             Redact(r, o, e)
      PROVE  CalmBody'
  <2>. DEFINE w == GetOrCreateToken(local[r], o, e, faker[o][e])
  <2>1. faker[o][e] \in Draws /\ r \in Open /\ VaultInv(local[r])
    BY <1>4 DEF Inv, Redact, Open
  <2>2. VaultInv(w)
    BY <2>1, MethodsInv
  <2>3. /\ \A p \in DOMAIN local[r].toToken :
             p \in DOMAIN w.toToken /\ w.toToken[p] = local[r].toToken[p]
        /\ w.oneWay = local[r].oneWay
        /\ o \in DOMAIN w.toToken
    BY <2>1, MethodsRecord
  <2>4. HandOut(r, o, "restorable", w.toToken[o], w)
    BY <1>4 DEF Redact
  <2>. HIDE DEF w
  <2>5. w.toToken[o] \in Token
    BY <2>2, <2>3 DEF VaultInv, VaultType
  <2>6. Records(DumpState(w), [original |-> o, side |-> "restorable",
                               token |-> w.toToken[o]])
    BY <2>3 DEF Records, DumpState
  <2>7. \A h : Records(DumpState(local[r]), h) => Records(DumpState(w), h)
    BY <2>3 DEF Records, DumpState
  <2>. QED  BY <2>1, <2>2, <2>4, <2>5, <2>6, <2>7, CalmHandOut
<1>5. ASSUME NEW r \in Request, NEW o \in Original, NEW e \in EntityType,
             RedactOneWay(r, o, e)
      PROVE  CalmBody'
  <2>. DEFINE u == GetOrCreateOneWayToken(local[r], o, e, faker[o][e])
  <2>1. faker[o][e] \in Draws /\ r \in Open /\ VaultInv(local[r])
    BY <1>5 DEF Inv, RedactOneWay, Open
  <2>2. VaultInv(u)
    BY <2>1, MethodsInv
  <2>3. /\ \A p \in DOMAIN local[r].oneWay :
             p \in DOMAIN u.oneWay /\ u.oneWay[p] = local[r].oneWay[p]
        /\ u.toToken = local[r].toToken
        /\ o \in DOMAIN u.oneWay
    BY <2>1, MethodsRecord
  <2>4. HandOut(r, o, "oneway", u.oneWay[o], u)
    BY <1>5 DEF RedactOneWay
  <2>. HIDE DEF u
  <2>5. u.oneWay[o] \in Token
    BY <2>2, <2>3 DEF VaultInv, VaultType
  <2>6. Records(DumpState(u), [original |-> o, side |-> "oneway",
                               token |-> u.oneWay[o]])
    BY <2>3 DEF Records, DumpState
  <2>7. \A h : Records(DumpState(local[r]), h) => Records(DumpState(u), h)
    BY <2>3 DEF Records, DumpState
  <2>. QED  BY <2>1, <2>2, <2>4, <2>5, <2>6, <2>7, CalmHandOut
<1>6. ASSUME NEW i \in DOMAIN pending, SaveLands(i) PROVE CalmBody'
  <2>1. /\ pending \in Seq(SoundSave) /\ DOMAIN pending = 1 .. Len(pending)
        /\ Len(pending) \in Nat /\ i \in 1 .. Len(pending)
    BY DEF Inv
  <2>2. i = 1
    <3>1. ~Overtakes(i)
      BY <1>6 DEF SaveLands, Calm
    <3>. QED  BY <2>1, <3>1 DEF Overtakes, CalmBody
  <2>3. /\ pending' = RemoveAt(pending, i) /\ stored' = pending[i].state
        /\ local' = local /\ handed' = handed
    BY <1>6 DEF SaveLands
  <2>4. /\ pending' \in Seq(SoundSave) /\ Len(pending') = Len(pending) - 1
        /\ \A j \in 1 .. Len(pending) - 1 : pending'[j] = pending[j + 1]
    <3>1. /\ RemoveAt(pending, 1) \in Seq(SoundSave)
          /\ Len(RemoveAt(pending, 1)) = Len(pending) - 1
          /\ \A j \in 1 .. Len(pending) - 1 :
               RemoveAt(pending, 1)[j] = IF j < 1 THEN pending[j] ELSE pending[j + 1]
      BY <2>1, <2>2, RemoveAtSeq
    <3>2. pending' = RemoveAt(pending, 1)
      BY <2>2, <2>3
    <3>. QED  BY <3>1, <3>2
  <2>5. DOMAIN pending' = 1 .. Len(pending) - 1
    BY <2>1, <2>4
  <2>6. Current' = Current
    <3>1. CASE Len(pending) = 1
      <4>1. pending' = <<>> /\ pending # <<>>
        BY <2>1, <2>4, <3>1, EmptySeq
      <4>. QED  BY <2>2, <2>3, <3>1, <4>1 DEF Current
    <3>2. CASE Len(pending) # 1
      <4>1. pending' # <<>> /\ pending # <<>> /\ Len(pending') \in 1 .. Len(pending) - 1
        BY <2>1, <2>4, <3>2
      <4>2. pending'[Len(pending')] = pending[Len(pending)]
        BY <2>1, <2>4, <4>1
      <4>. QED  BY <4>1, <4>2 DEF Current
    <3>. QED  BY <3>1, <3>2
  <2>7. \A j \in DOMAIN pending' : j + 1 \in DOMAIN pending
                                /\ pending'[j] = pending[j + 1]
    BY <2>1, <2>4, <2>5
  <2>8. Open' = Open
    BY <2>3 DEF Open
  <2>. HIDE <1>6
  <2>. QED  BY <2>3, <2>6, <2>7, <2>8 DEF CalmBody
<1>7. ASSUME NEW i \in DOMAIN pending, LoseSave(i) PROVE CalmBody'
  BY <1>7 DEF LoseSave, Calm
<1>8. CASE Expire
  <2>1. /\ Open = {} /\ pending = <<>> /\ handed' = {} /\ stored' = Nothing
        /\ UNCHANGED <<local, pending>>
    BY <1>8 DEF Expire, Forget, Calm
  <2>2. Open' = {} /\ Current' = Nothing
    BY <2>1 DEF Open, Current
  <2>. QED  BY <2>1, <2>2 DEF CalmBody
<1>9. CASE UNCHANGED vars
  <2>1. Open' = Open /\ Current' = Current
    BY <1>9 DEF vars, Open, Current
  <2>. QED  BY <1>9, <2>1 DEF vars, CalmBody
<1>. QED
  BY <1>1, <1>2, <1>3, <1>4, <1>5, <1>6, <1>7, <1>8, <1>9 DEF Next

(* What befalls a session was settled when it began. *)
LEMMA AdversityIsFixed == [Next]_vars => adversity' = adversity
<1>. QED
  BY DEF Next, vars, Begin, Finish, Disconnect, Redact, RedactOneWay, HandOut,
         SaveLands, LoseSave, Expire

LEMMA AlwaysCalm == Spec => [](Inv /\ CalmInv)
<1>1. Init => CalmInv
  BY CalmInit DEF CalmInv
<1>2. Inv /\ CalmInv /\ [Next]_vars => CalmInv'
  BY CalmStep, AdversityIsFixed DEF CalmInv, Calm
<1>. QED  BY <1>1, <1>2, InitInv, StepInv, PTL DEF Spec

(* While a session's requests do not overlap and its saves land in order,  *)
(* the store behaves as one vault: no token is handed out for two values.  *)
THEOREM RedisTokenMeansOneValue == Spec => []CalmTokenMeansOneValue
<1>1. Inv /\ CalmInv => CalmTokenMeansOneValue
  <2>. SUFFICES ASSUME Inv, CalmBody, NEW g \in handed, NEW h \in handed,
                       g.token = h.token
                PROVE  g = h
    BY DEF CalmInv, CalmTokenMeansOneValue, TokenMeansOneValue
  <2>1. Current # Nothing /\ Records(Current, g) /\ Records(Current, h)
    BY DEF CalmBody
  <2>2. g \in HandedRecord /\ h \in HandedRecord
    BY DEF CalmBody
  <2>3. VaultInv(LoadState(TRUE, Current))
    BY <2>1, CurrentIsSound DEF SoundState
  <2>. DEFINE v == LoadState(TRUE, Current)
  <2>4. v.toToken = Current.toToken /\ v.oneWay = Current.oneWay
    BY DEF LoadState
  <2>5. VaultInv(v)
    BY <2>3
  <2>. HIDE DEF v
  <2>6. g.side = h.side /\ g.original = h.original
    BY <2>1, <2>2, <2>4, <2>5
    DEF Records, HandedRecord, VaultInv, Bijective, Sealed
  <2>. QED  BY <2>2, <2>6 DEF HandedRecord
<1>. QED  BY <1>1, AlwaysCalm, PTL

(* Under the same conditions whatever replica serves the next request      *)
(* restores every token the session has handed out.                        *)
THEOREM RedisSessionRemembers == Spec => []SessionRemembers
<1>1. Inv /\ CalmInv => SessionRemembers
  <2>. SUFFICES ASSUME Inv, CalmBody, pending = <<>>, NEW h \in handed
                PROVE  /\ stored # Nothing
                       /\ h.side = "restorable"
                            => /\ h.token \in DOMAIN stored.toOriginal
                               /\ stored.toOriginal[h.token] = h.original
    BY DEF CalmInv, SessionRemembers
  <2>1. Current = stored
    BY DEF Current
  <2>2. stored # Nothing /\ Records(stored, h)
    BY <2>1 DEF CalmBody
  <2>3. VaultInv(LoadState(TRUE, stored))
    BY <2>2 DEF Inv, SoundState
  <2>. DEFINE v == LoadState(TRUE, stored)
  <2>4. v.toToken = stored.toToken /\ v.toOriginal = stored.toOriginal
    BY DEF LoadState
  <2>5. VaultInv(v)
    BY <2>3
  <2>. HIDE DEF v
  <2>. QED  BY <2>2, <2>4, <2>5 DEF Records, VaultInv, Bijective
<1>. QED  BY <1>1, AlwaysCalm, PTL
=============================================================================

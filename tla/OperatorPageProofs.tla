-------------------------- MODULE OperatorPageProofs --------------------------
(***************************************************************************)
(* What the Ledger adapter and the operator page guarantee for any number  *)
(* of page instances, adapters, kits, devices, requests and calls in       *)
(* flight, whatever handlers overlap.                                      *)
(***************************************************************************)
EXTENDS OperatorPage, FiniteSetTheorems, TLAPS

Fields == [dmk : Kits \cup {None}, sessionId : Kits \cup {None}, signer : Kits \cup {None},
           session : Addresses \cup {None}, op : {Idle} \cup Connecting \cup Signing]

PageRecord == [instance : Pages \cup {0}, phase : {"NONE", "CHECKING", "READY", "ERROR", "LEAVING"},
               current : Adapters \cup {None},
               session : Addresses \cup {None}, prepared : Prepared \cup {None},
               signature : Approval \cup {None}, result : Prepared \cup {None}]

\* What an adapter may have done so far, kits aside.
Allowed(a) ==
    /\ a.op.phase = "RESETTING" => a.dmk = None
    /\ a.op.phase = "SIGNING" =>
         /\ "SIGN_TYPED_DATA" \in a.op.steps => a.op.clear
         /\ "SIGN_TYPED_DATA_LEGACY" \notin a.op.steps
         /\ a.session \in {None, AuthorizedSigner[a.op.request]}

\* A kit in an adapter is open and in no other; an open kit is in one.
KitsHeld ==
    /\ \A g \in Adapters : adapter[g].dmk # None => kits[adapter[g].dmk] = "OPEN"
    /\ \A g, h \in Adapters : adapter[g].dmk = adapter[h].dmk /\ adapter[g].dmk # None => g = h
    /\ \A k \in Kits : kits[k] = "OPEN" => \E g \in Adapters : adapter[g].dmk = k

AdaptersInv ==
    /\ AdapterTypeOK
    /\ \A g \in Adapters : Allowed(adapter[g])
    /\ KitsHeld

\* What an approval that left sign() shows.
ClearlySigned(approval) ==
    /\ approval.clear
    /\ RequiredSteps \subseteq approval.steps
    /\ "SIGN_TYPED_DATA_LEGACY" \notin approval.steps
    /\ approval.signer = AuthorizedSigner[approval.request]

\* Only adapters some page created are used, and only a mounted page has state.
PageOwned ==
    /\ page.phase = "READY" => page.current # None
    /\ page.current # None => owner[page.current] # 0
    /\ page.instance = 0 => page = NoPage

BusyOwned == \A g \in Adapters : Busy(g) => owner[g] # 0

PageInv ==
    /\ page.signature # None => ClearlySigned(page.signature)
    /\ page.result # None => rows[page.result] = "CONSUMED"

CallAt(call) ==
    call.kind = "CONSUME" /\ call.served = "AUTHORIZED" =>
        call.approval.request = call.request /\ rows[call.request] = "CONSUMED"

OperatorInv ==
    /\ OperatorTypeOK
    /\ AdaptersInv
    /\ BusyOwned
    /\ PageOwned
    /\ PageInv
    /\ \A call \in calls : CallAt(call)

USE AdapterAssumption, OperatorAssumption

-----------------------------------------------------------------------------
(* The adapters.                                                           *)
LEMMA AdapterShape ==
    ASSUME AdapterTypeOK, NEW g \in Adapters
    PROVE  /\ adapter \in [Adapters -> Fields] /\ adapter[g] \in Fields
           /\ adapter[g].dmk \in Kits \cup {None} /\ adapter[g].sessionId \in Kits \cup {None}
           /\ adapter[g].signer \in Kits \cup {None}
           /\ adapter[g].session \in Addresses \cup {None}
           /\ adapter[g].op \in {Idle} \cup Connecting \cup Signing
           /\ kits \in [Kits -> {"UNUSED", "OPEN", "CLOSING", "CLOSED"}]
BY DEF AdapterTypeOK, Fields

LEMMA PhaseOf ==
    ASSUME AdapterTypeOK, NEW g \in Adapters, NEW phase, Phase(g, phase)
    PROVE  /\ adapter[g].op.phase = phase
           /\ phase \in {"RESETTING", "DISCOVERING", "VERIFYING", "CLEANUP"} =>
                 adapter[g].op \in Connecting /\ adapter[g].op.kit \in Kits \cup {None}
           /\ phase = "SIGNING" =>
                 /\ adapter[g].op \in Signing /\ adapter[g].op.request \in Prepared
                 /\ adapter[g].op.steps \in SUBSET Steps /\ adapter[g].op.clear \in BOOLEAN
BY AdapterShape DEF Phase, Busy, Connecting, Signing, Idle

\* An adapter goes on with the kit it has.
LEMMA GoesOn ==
    ASSUME AdaptersInv, NEW g \in Adapters, NEW a \in Fields, a.dmk = adapter[g].dmk, Allowed(a),
           adapter' = [adapter EXCEPT ![g] = a], kits' = kits
    PROVE  AdaptersInv'
<1>1. /\ adapter \in [Adapters -> Fields] /\ adapter' \in [Adapters -> Fields]
      /\ adapter'[g] = a /\ \A h \in Adapters \ {g} : adapter'[h] = adapter[h]
  BY AdapterShape DEF AdaptersInv
<1>2. \A h \in Adapters : adapter'[h].dmk = adapter[h].dmk
  BY <1>1
<1>3. KitsHeld'
  BY <1>2 DEF AdaptersInv, KitsHeld
<1>4. \A h \in Adapters : Allowed(adapter[h])'
  BY <1>1 DEF AdaptersInv, Allowed
<1>5. AdapterTypeOK'
  BY <1>1 DEF AdaptersInv, AdapterTypeOK, Fields
<1> QED BY <1>3, <1>4, <1>5 DEF AdaptersInv

\* An adapter lets its kit go, which starts closing.
LEMMA LetsGo ==
    ASSUME AdaptersInv, NEW g \in Adapters, NEW a \in Fields, a.dmk = None, Allowed(a),
           adapter' = [adapter EXCEPT ![g] = a], kits' = CloseBegun(adapter[g].dmk)
    PROVE  AdaptersInv'
<1>1. /\ adapter \in [Adapters -> Fields] /\ adapter' \in [Adapters -> Fields]
      /\ adapter'[g] = a /\ \A h \in Adapters \ {g} : adapter'[h] = adapter[h]
      /\ adapter[g].dmk \in Kits \cup {None}
      /\ kits \in [Kits -> {"UNUSED", "OPEN", "CLOSING", "CLOSED"}]
  BY AdapterShape DEF AdaptersInv
<1>2. /\ kits' \in [Kits -> {"UNUSED", "OPEN", "CLOSING", "CLOSED"}]
      /\ \A k \in Kits : k # adapter[g].dmk => kits'[k] = kits[k]
      /\ adapter[g].dmk # None => kits'[adapter[g].dmk] = "CLOSING"
  BY <1>1 DEF CloseBegun
<1>3. KitsHeld'
  <2>1. ASSUME NEW h \in Adapters, adapter'[h].dmk # None
        PROVE  kits'[adapter'[h].dmk] = "OPEN"
    <3>1. h # g /\ adapter'[h].dmk = adapter[h].dmk /\ adapter[h].dmk # adapter[g].dmk
      BY <1>1, <2>1 DEF AdaptersInv, KitsHeld
    <3>2. adapter[h].dmk \in Kits
      BY <2>1, <3>1, AdapterShape DEF AdaptersInv
    <3> QED BY <1>2, <2>1, <3>1, <3>2 DEF AdaptersInv, KitsHeld
  <2>2. ASSUME NEW k \in Kits, kits'[k] = "OPEN"
        PROVE  \E h \in Adapters : adapter'[h].dmk = k
    <3>1. k # adapter[g].dmk /\ kits[k] = "OPEN"
      BY <1>2, <2>2
    <3>2. PICK h \in Adapters : adapter[h].dmk = k
      BY <3>1 DEF AdaptersInv, KitsHeld
    <3> QED BY <1>1, <3>1, <3>2
  <2>3. \A x, y \in Adapters : adapter'[x].dmk = adapter'[y].dmk /\ adapter'[x].dmk # None => x = y
    BY <1>1 DEF AdaptersInv, KitsHeld
  <2> QED BY <2>1, <2>2, <2>3 DEF KitsHeld
<1>4. \A h \in Adapters : Allowed(adapter[h])'
  BY <1>1 DEF AdaptersInv, Allowed
<1>5. AdapterTypeOK'
  BY <1>1, <1>2 DEF AdaptersInv, AdapterTypeOK, Fields
<1> QED BY <1>3, <1>4, <1>5 DEF AdaptersInv

LEMMA Cleared ==
    ASSUME AdapterTypeOK, NEW g \in Adapters, NEW a, a = Disconnected(adapter[g])
    PROVE  /\ a \in Fields /\ a.dmk = None /\ a.session = None
           /\ a.sessionId = None /\ a.signer = None /\ a.op = adapter[g].op
BY AdapterShape DEF Disconnected, Fields

LEMMA DisconnectKeeps ==
    ASSUME AdaptersInv, NEW g \in Adapters, Disconnect(g)
    PROVE  AdaptersInv' /\ \A h \in Adapters : adapter'[h].op = adapter[h].op
<1>1. PICK a : a = Disconnected(adapter[g])
  OBVIOUS
<1>2. /\ a \in Fields /\ a.dmk = None /\ a.session = None /\ a.op = adapter[g].op
      /\ adapter \in [Adapters -> Fields]
  BY <1>1, Cleared, AdapterShape DEF AdaptersInv
<1>3. Allowed(a)
  BY <1>2 DEF AdaptersInv, Allowed
<1>4. adapter' = [adapter EXCEPT ![g] = a] /\ kits' = CloseBegun(adapter[g].dmk)
  BY <1>1 DEF Disconnect
<1> QED BY <1>2, <1>3, <1>4, LetsGo

LEMMA ConnectKeeps ==
    ASSUME AdaptersInv, NEW g \in Adapters, Connect(g) \/ ConnectThrows(g)
    PROVE  AdaptersInv' /\ \A h \in Adapters \ {g} : adapter'[h] = adapter[h]
<1>1. PICK cleared : cleared = Disconnected(adapter[g])
  OBVIOUS
<1>2. /\ cleared \in Fields /\ cleared.dmk = None /\ adapter[g].dmk \in Kits \cup {None}
      /\ adapter \in [Adapters -> Fields]
  BY <1>1, Cleared, AdapterShape DEF AdaptersInv
<1>3. PICK phase \in {"RESETTING", "CLEANUP"} :
         adapter' = [adapter EXCEPT ![g] =
            [cleared EXCEPT !.op = [phase |-> phase, kit |-> adapter[g].dmk]]]
  BY <1>1 DEF Connect, ConnectThrows
<1>4. PICK op : op = [phase |-> phase, kit |-> adapter[g].dmk]
  OBVIOUS
<1>5. op \in Connecting /\ op.phase \in {"RESETTING", "CLEANUP"}
  BY <1>2, <1>4 DEF Connecting
<1>6. PICK a : a = [cleared EXCEPT !.op = op]
  OBVIOUS
<1>7. a \in Fields /\ a.dmk = None /\ a.op = op
  BY <1>2, <1>5, <1>6 DEF Fields
<1>8. Allowed(a)
  BY <1>5, <1>7 DEF Allowed
<1>9. adapter' = [adapter EXCEPT ![g] = a] /\ kits' = CloseBegun(adapter[g].dmk)
  BY <1>3, <1>4, <1>6 DEF Connect, ConnectThrows
<1>10. AdaptersInv'
  BY <1>7, <1>8, <1>9, LetsGo
<1> QED BY <1>2, <1>9, <1>10

LEMMA CreateKitKeeps ==
    ASSUME AdaptersInv, NEW g \in Adapters, NEW k \in Kits, CreateKit(g, k)
    PROVE  AdaptersInv' /\ \A h \in Adapters \ {g} : adapter'[h] = adapter[h]
<1>1. /\ adapter \in [Adapters -> Fields] /\ adapter[g] \in Fields
      /\ kits \in [Kits -> {"UNUSED", "OPEN", "CLOSING", "CLOSED"}]
  BY AdapterShape DEF AdaptersInv
<1>2. adapter[g].dmk = None
  BY PhaseOf DEF CreateKit, AdaptersInv, Allowed
<1>3. PICK op : op = [phase |-> "DISCOVERING", kit |-> k]
  OBVIOUS
<1>4. op \in Connecting /\ op.phase = "DISCOVERING"
  BY <1>3 DEF Connecting
<1>5. PICK a : a = [adapter[g] EXCEPT !.dmk = k, !.op = op]
  OBVIOUS
<1>6. a \in Fields /\ a.dmk = k /\ a.op = op
  BY <1>1, <1>4, <1>5 DEF Fields
<1>7. Allowed(a)
  BY <1>4, <1>6 DEF Allowed
<1>8. /\ adapter' = [adapter EXCEPT ![g] = a]
      /\ kits[k] = "UNUSED" /\ kits' = [kits EXCEPT ![k] = "OPEN"]
  BY <1>3, <1>5 DEF CreateKit
<1>9. /\ adapter' \in [Adapters -> Fields] /\ adapter'[g] = a
      /\ \A h \in Adapters \ {g} : adapter'[h] = adapter[h]
  BY <1>1, <1>6, <1>8
<1>10. /\ kits' \in [Kits -> {"UNUSED", "OPEN", "CLOSING", "CLOSED"}] /\ kits'[k] = "OPEN"
       /\ \A other \in Kits \ {k} : kits'[other] = kits[other]
  BY <1>1, <1>8
<1>11. \A h \in Adapters : adapter[h].dmk # k
  BY <1>8 DEF AdaptersInv, KitsHeld
<1>12. KitsHeld'
  <2>1. ASSUME NEW h \in Adapters, adapter'[h].dmk # None
        PROVE  kits'[adapter'[h].dmk] = "OPEN"
    <3>1. CASE h = g
      BY <1>6, <1>9, <1>10, <3>1
    <3>2. CASE h # g
      <4>1. adapter'[h].dmk = adapter[h].dmk /\ adapter[h].dmk \in Kits \ {k}
        BY <1>9, <1>11, <2>1, <3>2, AdapterShape DEF AdaptersInv
      <4> QED BY <1>10, <2>1, <4>1 DEF AdaptersInv, KitsHeld
    <3> QED BY <3>1, <3>2
  <2>2. ASSUME NEW other \in Kits, kits'[other] = "OPEN"
        PROVE  \E h \in Adapters : adapter'[h].dmk = other
    <3>1. CASE other = k
      BY <1>6, <1>9, <3>1
    <3>2. CASE other # k
      <4>1. PICK h \in Adapters : adapter[h].dmk = other
        BY <1>10, <2>2, <3>2 DEF AdaptersInv, KitsHeld
      <4>2. h # g
        BY <1>2, <4>1
      <4> QED BY <1>9, <4>1, <4>2
    <3> QED BY <3>1, <3>2
  <2>3. \A x, y \in Adapters : adapter'[x].dmk = adapter'[y].dmk /\ adapter'[x].dmk # None => x = y
    BY <1>6, <1>9, <1>11 DEF AdaptersInv, KitsHeld
  <2> QED BY <2>1, <2>2, <2>3 DEF KitsHeld
<1>13. \A h \in Adapters : Allowed(adapter[h])'
  BY <1>7, <1>9 DEF AdaptersInv, Allowed
<1>14. AdapterTypeOK'
  BY <1>9, <1>10 DEF AdapterTypeOK, Fields
<1> QED BY <1>9, <1>12, <1>13, <1>14 DEF AdaptersInv

LEMMA KitRefusedKeeps ==
    ASSUME AdaptersInv, NEW g \in Adapters, NEW k \in Kits, KitRefused(g, k)
    PROVE  AdaptersInv' /\ \A h \in Adapters \ {g} : adapter'[h] = adapter[h]
<1>1. /\ adapter \in [Adapters -> Fields] /\ adapter[g].dmk = None
      /\ kits \in [Kits -> {"UNUSED", "OPEN", "CLOSING", "CLOSED"}]
  BY PhaseOf, AdapterShape DEF KitRefused, AdaptersInv, Allowed
<1>2. PICK cleared : cleared = Disconnected(adapter[g])
  OBVIOUS
<1>3. cleared \in Fields /\ cleared.dmk = None
  BY <1>2, Cleared DEF AdaptersInv
<1>4. PICK op : op = [phase |-> "CLEANUP", kit |-> None]
  OBVIOUS
<1>5. op \in Connecting /\ op.phase = "CLEANUP"
  BY <1>4 DEF Connecting
<1>6. PICK a : a = [cleared EXCEPT !.op = op]
  OBVIOUS
<1>7. a \in Fields /\ a.dmk = None /\ Allowed(a)
  BY <1>3, <1>5, <1>6 DEF Fields, Allowed
<1>8. /\ adapter' = [adapter EXCEPT ![g] = a]
      /\ kits[k] = "UNUSED" /\ kits' = [kits EXCEPT ![k] = "CLOSED"]
  BY <1>1, <1>2, <1>4, <1>6 DEF KitRefused
<1>9. /\ adapter' \in [Adapters -> Fields] /\ adapter'[g] = a
      /\ \A h \in Adapters \ {g} : adapter'[h] = adapter[h]
      /\ kits' \in [Kits -> {"UNUSED", "OPEN", "CLOSING", "CLOSED"}] /\ kits'[k] = "CLOSED"
      /\ \A other \in Kits \ {k} : kits'[other] = kits[other]
  BY <1>1, <1>7, <1>8
<1>10. \A h \in Adapters : adapter'[h].dmk = adapter[h].dmk /\ adapter[h].dmk \in Kits \cup {None}
  BY <1>1, <1>7, <1>9, AdapterShape DEF AdaptersInv
<1>11. KitsHeld'
  BY <1>8, <1>9, <1>10 DEF AdaptersInv, KitsHeld
<1>12. \A h \in Adapters : Allowed(adapter[h])'
  BY <1>7, <1>9 DEF AdaptersInv, Allowed
<1>13. AdapterTypeOK'
  BY <1>9 DEF AdapterTypeOK, Fields
<1> QED BY <1>9, <1>11, <1>12, <1>13 DEF AdaptersInv

LEMMA CloseKitKeeps ==
    ASSUME AdaptersInv, NEW k \in Kits, CloseKit(k)
    PROVE  AdaptersInv' /\ adapter' = adapter
<1>1. /\ kits \in [Kits -> {"UNUSED", "OPEN", "CLOSING", "CLOSED"}]
      /\ kits[k] = "CLOSING" /\ kits' = [kits EXCEPT ![k] = "CLOSED"] /\ adapter' = adapter
  BY DEF CloseKit, AdaptersInv, AdapterTypeOK
<1>2. /\ kits' \in [Kits -> {"UNUSED", "OPEN", "CLOSING", "CLOSED"}] /\ kits'[k] = "CLOSED"
      /\ \A other \in Kits \ {k} : kits'[other] = kits[other]
  BY <1>1
<1>3. \A g \in Adapters : adapter[g].dmk \in Kits \cup {None}
  BY AdapterShape DEF AdaptersInv
<1>4. KitsHeld'
  BY <1>1, <1>2, <1>3 DEF AdaptersInv, KitsHeld
<1> QED BY <1>1, <1>2, <1>4 DEF AdaptersInv, AdapterTypeOK, Allowed

\* The steps of an operation that neither open nor let go a kit.
LEMMA OperationGoesOn ==
    ASSUME AdaptersInv, NEW g \in Adapters,
           NEW op \in {Idle} \cup Connecting \cup Signing, op.phase # "RESETTING",
           op.phase = "SIGNING" =>
             /\ "SIGN_TYPED_DATA" \in op.steps => op.clear
             /\ "SIGN_TYPED_DATA_LEGACY" \notin op.steps
             /\ adapter[g].session \in {None, AuthorizedSigner[op.request]},
           adapter' = [adapter EXCEPT ![g].op = op], kits' = kits
    PROVE  AdaptersInv' /\ \A h \in Adapters \ {g} : adapter'[h] = adapter[h]
<1>1. adapter \in [Adapters -> Fields] /\ adapter[g] \in Fields
  BY AdapterShape DEF AdaptersInv
<1>2. PICK a : a = [adapter[g] EXCEPT !.op = op]
  OBVIOUS
<1>3. a \in Fields /\ a.op = op /\ a.dmk = adapter[g].dmk /\ a.session = adapter[g].session
  BY <1>1, <1>2 DEF Fields
<1>4. adapter' = [adapter EXCEPT ![g] = a]
  BY <1>2
<1>5. Allowed(a)
  BY <1>3 DEF Allowed
<1> QED BY <1>1, <1>3, <1>4, <1>5, GoesOn

LEMMA DiscoveredKeeps ==
    ASSUME AdaptersInv, NEW g \in Adapters, Discovered(g)
    PROVE  AdaptersInv' /\ \A h \in Adapters \ {g} : adapter'[h] = adapter[h]
<1>1. adapter \in [Adapters -> Fields] /\ adapter[g] \in Fields
  BY AdapterShape DEF AdaptersInv
<1>2. PICK k \in Kits \cup {None} : k = adapter[g].op.kit
  BY PhaseOf DEF Discovered, AdaptersInv
<1>3. PICK op : op = [phase |-> "VERIFYING", kit |-> k]
  OBVIOUS
<1>4. op \in Connecting /\ op.phase = "VERIFYING"
  BY <1>3 DEF Connecting
<1>5. PICK a : a = [adapter[g] EXCEPT !.sessionId = k, !.signer = k, !.op = op]
  OBVIOUS
<1>6. a \in Fields /\ a.op = op /\ a.dmk = adapter[g].dmk
  BY <1>1, <1>4, <1>5 DEF Fields
<1>7. adapter' = [adapter EXCEPT ![g] = a] /\ kits' = kits
  BY <1>2, <1>3, <1>5 DEF Discovered
<1>8. Allowed(a)
  BY <1>4, <1>6 DEF Allowed
<1> QED BY <1>1, <1>6, <1>7, <1>8, GoesOn

LEMMA ConnectReturnsKeeps ==
    ASSUME AdaptersInv, NEW g \in Adapters, NEW address \in Addresses, ConnectReturns(g, address)
    PROVE  AdaptersInv' /\ \A h \in Adapters \ {g} : adapter'[h] = adapter[h]
<1>1. adapter \in [Adapters -> Fields] /\ adapter[g] \in Fields
  BY AdapterShape DEF AdaptersInv
<1>2. PICK a : a = [adapter[g] EXCEPT !.session = address, !.op = Idle]
  OBVIOUS
<1>3. a \in Fields /\ a.op = Idle /\ a.dmk = adapter[g].dmk
  BY <1>1, <1>2 DEF Fields
<1>4. adapter' = [adapter EXCEPT ![g] = a] /\ kits' = kits
  BY <1>2 DEF ConnectReturns
<1>5. Allowed(a)
  BY <1>3 DEF Allowed, Idle
<1> QED BY <1>1, <1>3, <1>4, <1>5, GoesOn

\* An operation ends.
LEMMA EndKeeps ==
    ASSUME AdaptersInv, NEW g \in Adapters, ConnectRejects(g) \/ SignReturns(g) \/ SignThrows(g)
    PROVE  AdaptersInv' /\ \A h \in Adapters \ {g} : adapter'[h] = adapter[h]
<1>1. adapter' = [adapter EXCEPT ![g].op = Idle] /\ kits' = kits
  BY DEF ConnectRejects, SignReturns, SignThrows
<1>2. Idle \in {Idle} \cup Connecting \cup Signing /\ Idle.phase = "IDLE"
  BY DEF Idle
<1> HIDE DEF Idle
<1> QED BY <1>1, <1>2, OperationGoesOn

LEMMA SignKeeps ==
    ASSUME AdaptersInv, NEW g \in Adapters, NEW request \in Prepared, Sign(g, request)
    PROVE  AdaptersInv' /\ \A h \in Adapters \ {g} : adapter'[h] = adapter[h]
<1>1. PICK op : op = [phase |-> "SIGNING", request |-> request, resolved |-> FALSE,
                    clear |-> FALSE, steps |-> {}]
  OBVIOUS
<1>2. op \in Signing /\ op.phase = "SIGNING" /\ op.request = request /\ op.steps = {}
  BY <1>1 DEF Signing
<1>3. /\ adapter' = [adapter EXCEPT ![g].op = op] /\ kits' = kits
      /\ adapter[g].session = AuthorizedSigner[request]
  BY <1>1 DEF Sign
<1> QED BY <1>2, <1>3, OperationGoesOn

LEMMA AnswerFiltersKeeps ==
    ASSUME AdaptersInv, NEW g \in Adapters, NEW exact \in BOOLEAN, AnswerFilters(g, exact)
    PROVE  AdaptersInv' /\ \A h \in Adapters \ {g} : adapter'[h] = adapter[h]
<1>1. /\ adapter[g].op \in Signing /\ adapter[g].op.phase = "SIGNING"
  BY PhaseOf DEF AnswerFilters, AdaptersInv
<1>2. PICK op : op = [adapter[g].op EXCEPT !.resolved = exact]
  OBVIOUS
<1>3. /\ op \in Signing /\ op.phase = "SIGNING"
      /\ op.request = adapter[g].op.request /\ op.steps = adapter[g].op.steps
      /\ op.clear = adapter[g].op.clear
  BY <1>1, <1>2 DEF Signing
<1>4. adapter' = [adapter EXCEPT ![g].op = op] /\ kits' = kits
  BY <1>2 DEF AnswerFilters
<1>5. Allowed(adapter[g])
  BY DEF AdaptersInv
<1> QED BY <1>1, <1>3, <1>4, <1>5, OperationGoesOn DEF Allowed

LEMMA ReportStepKeeps ==
    ASSUME AdaptersInv, NEW g \in Adapters, NEW step \in Steps, ReportStep(g, step)
    PROVE  AdaptersInv' /\ \A h \in Adapters \ {g} : adapter'[h] = adapter[h]
<1>1. PICK op \in Signing : op = adapter[g].op /\ op.phase = "SIGNING"
  BY PhaseOf DEF ReportStep, AdaptersInv
<1>2. /\ kits' = kits
      /\ adapter' = [adapter EXCEPT ![g].op =
            IF Forbidden(op, step) THEN Idle ELSE Reported(op, step)]
  BY <1>1 DEF ReportStep
<1>3. CASE Forbidden(op, step)
  <2>1. adapter' = [adapter EXCEPT ![g].op = Idle]
    BY <1>2, <1>3
  <2>2. Idle \in {Idle} \cup Connecting \cup Signing /\ Idle.phase = "IDLE"
    BY DEF Idle
  <2> HIDE DEF Idle
  <2> QED BY <1>2, <2>1, <2>2, OperationGoesOn
<1>4. CASE ~Forbidden(op, step)
  <2>1. PICK next : next = Reported(op, step)
    OBVIOUS
  <2>2. /\ next \in Signing /\ next.phase = "SIGNING" /\ next.request = op.request
        /\ next.clear = (IF step = "SIGN_TYPED_DATA" THEN op.resolved ELSE op.clear)
        /\ next.steps = op.steps \cup {step}
    BY <1>1, <2>1 DEF Signing, Reported
  <2>3. adapter' = [adapter EXCEPT ![g].op = next]
    BY <1>2, <1>4, <2>1
  <2>4. Allowed(adapter[g])
    BY DEF AdaptersInv
  <2>5. /\ "SIGN_TYPED_DATA" \in next.steps => next.clear
        /\ "SIGN_TYPED_DATA_LEGACY" \notin next.steps
        /\ adapter[g].session \in {None, AuthorizedSigner[next.request]}
    BY <1>1, <1>4, <2>2, <2>4 DEF Allowed, Forbidden
  <2> QED BY <1>2, <2>2, <2>3, <2>5, OperationGoesOn
<1> QED BY <1>3, <1>4

-----------------------------------------------------------------------------
(* The page and the calls.                                                 *)
LEMMA PageShape ==
    ASSUME OperatorInv
    PROVE  /\ page \in PageRecord /\ owner \in [Adapters -> Pages \cup {0}]
           /\ calls \subseteq Call /\ storage \in Prepared \cup {None}
           /\ rows \in [Prepared -> {"NONE", "ISSUED", "CONSUMED"}]
           /\ page.instance \in Pages \cup {0} /\ page.current \in Adapters \cup {None}
           /\ page.session \in Addresses \cup {None} /\ page.prepared \in Prepared \cup {None}
           /\ page.signature \in Approval \cup {None} /\ page.result \in Prepared \cup {None}
BY DEF OperatorInv, OperatorTypeOK, PageRecord

LEMMA NoPageShape ==
    /\ NoPage \in PageRecord /\ NoPage.instance = 0 /\ NoPage.current = None
    /\ NoPage.phase = "NONE"
    /\ NoPage.session = None /\ NoPage.prepared = None
    /\ NoPage.signature = None /\ NoPage.result = None
BY DEF NoPage, PageRecord

\* A page with no session, request or signature to act on is not mounted.
LEMMA MountedPage ==
    ASSUME OperatorInv,
           \/ page.current # None \/ page.session # None \/ page.prepared # None
           \/ page.signature # None \/ page.phase # "NONE" \/ page.instance # 0
    PROVE  /\ page.instance \in Pages /\ page.instance # 0
           /\ page.current # None => page.current \in Adapters /\ owner[page.current] # 0
           /\ page.phase = "READY" => page.current # None
<1>1. page.instance # 0
  BY NoPageShape DEF OperatorInv, PageOwned
<1> QED BY <1>1, PageShape DEF OperatorInv, PageOwned

\* The row of a consumed request stays.
Stable == \A p \in Prepared : rows[p] = "CONSUMED" => rows'[p] = "CONSUMED"

LEMMA Unchanging ==
    ASSUME OperatorInv, rows' = rows
    PROVE  Stable
BY DEF Stable

LEMMA CallsKeep ==
    ASSUME OperatorInv, Stable, calls' \subseteq calls
    PROVE  calls' \subseteq Call /\ \A call \in calls' : CallAt(call)'
<1> SUFFICES ASSUME NEW call \in calls'
             PROVE  call \in Call /\ CallAt(call)'
  OBVIOUS
<1>1. call \in Call /\ CallAt(call)
  BY PageShape DEF OperatorInv
<1>2. call.kind = "CONSUME" => call.request \in Prepared
  BY <1>1 DEF Call
<1> QED BY <1>1, <1>2 DEF CallAt, Stable

LEMMA CallsChange ==
    ASSUME OperatorInv, Stable, NEW new \in Call, calls' \subseteq calls \cup {new}, CallAt(new)'
    PROVE  calls' \subseteq Call /\ \A call \in calls' : CallAt(call)'
<1> SUFFICES ASSUME NEW call \in calls' \ {new}
             PROVE  call \in Call /\ CallAt(call)'
  OBVIOUS
<1>1. call \in Call /\ CallAt(call)
  BY PageShape DEF OperatorInv
<1>2. call.kind = "CONSUME" => call.request \in Prepared
  BY <1>1 DEF Call
<1> QED BY <1>1, <1>2 DEF CallAt, Stable

LEMMA PageStays ==
    ASSUME OperatorInv, Stable, page' = page, owner' = owner
    PROVE  page' \in PageRecord /\ PageOwned' /\ PageInv'
<1>1. PageOwned'
  BY DEF OperatorInv, PageOwned
<1>2. PageInv'
  BY PageShape DEF OperatorInv, PageInv, Stable
<1> QED BY <1>1, <1>2, PageShape

\* What a mounted instance shows when a call of it returns.
LEMMA MountedKeeps ==
    ASSUME OperatorInv, Stable, owner' = owner,
           NEW instance \in Pages, NEW updated \in PageRecord, Mounted(instance, updated),
           updated.instance = page.instance, updated.current = page.current,
           updated.phase = page.phase,
           updated.signature # None => ClearlySigned(updated.signature),
           updated.result # None => rows'[updated.result] = "CONSUMED"
    PROVE  page' \in PageRecord /\ PageOwned' /\ PageInv'
<1>1. CASE page.instance = instance
  <2>1. page' = updated /\ page.instance # 0
    BY <1>1 DEF Mounted
  <2>2. PageOwned'
    BY <2>1 DEF OperatorInv, PageOwned
  <2>3. PageInv'
    BY <2>1 DEF PageInv
  <2> QED BY <2>1, <2>2, <2>3
<1>2. CASE page.instance # instance
  BY <1>2, PageStays DEF Mounted
<1> QED BY <1>1, <1>2

LEMMA OwnersKeep ==
    ASSUME OperatorInv, NEW g \in Adapters, owner[g] # 0, owner' = owner,
           \A h \in Adapters \ {g} : adapter'[h] = adapter[h]
    PROVE  BusyOwned'
BY DEF OperatorInv, BusyOwned, Busy

LEMMA BusyIsOwned ==
    ASSUME OperatorInv, NEW g \in Adapters, Busy(g)
    PROVE  owner[g] # 0 /\ owner[g] \in Pages
BY PageShape DEF OperatorInv, BusyOwned

LEMMA Gathered ==
    ASSUME AdaptersInv', BusyOwned', page' \in PageRecord, PageOwned', PageInv',
           owner' \in [Adapters -> Pages \cup {0}], storage' \in Prepared \cup {None},
           rows' \in [Prepared -> {"NONE", "ISSUED", "CONSUMED"}],
           calls' \subseteq Call, \A call \in calls' : CallAt(call)'
    PROVE  OperatorInv'
BY DEF OperatorInv, OperatorTypeOK, AdaptersInv, PageRecord

\* Steps of the adapters alone.
LEMMA AdaptersMove ==
    ASSUME OperatorInv, NEW g \in Adapters, owner[g] # 0, UNCHANGED pageVars, AdaptersInv',
           \A h \in Adapters \ {g} : adapter'[h] = adapter[h]
    PROVE  OperatorInv'
<1>1. page' = page /\ owner' = owner /\ storage' = storage /\ calls' = calls /\ rows' = rows
  BY DEF pageVars
<1>2. Stable
  BY <1>1, Unchanging
<1> QED BY <1>1, <1>2, CallsKeep, PageStays, OwnersKeep, Gathered, PageShape

LEMMA AdapterStepKeeps ==
    ASSUME OperatorInv, NEW g \in Adapters, AdapterStep(g), UNCHANGED pageVars
    PROVE  OperatorInv'
<1>1. Busy(g)
  BY DEF AdapterStep, CreateKit, KitRefused, Discovered, ConnectThrows, ConnectRejects,
         AnswerFilters, ReportStep, SignThrows, Phase
<1>2. AdaptersInv
  BY DEF OperatorInv
<1>3. AdaptersInv' /\ \A h \in Adapters \ {g} : adapter'[h] = adapter[h]
  BY <1>2, CreateKitKeeps, KitRefusedKeeps, DiscoveredKeeps, ConnectKeeps, EndKeeps,
     AnswerFiltersKeeps, ReportStepKeeps DEF AdapterStep
<1> QED BY <1>1, <1>3, BusyIsOwned, AdaptersMove

LEMMA ClosingKeeps ==
    ASSUME OperatorInv, NEW k \in Kits, CloseKit(k), UNCHANGED pageVars
    PROVE  OperatorInv'
<1>1. page' = page /\ owner' = owner /\ storage' = storage /\ calls' = calls /\ rows' = rows
  BY DEF pageVars
<1>2. AdaptersInv' /\ adapter' = adapter
  BY CloseKitKeeps DEF OperatorInv
<1>3. BusyOwned'
  BY <1>1, <1>2 DEF OperatorInv, BusyOwned, Busy
<1>4. Stable
  BY <1>1, Unchanging
<1> QED BY <1>1, <1>2, <1>3, <1>4, CallsKeep, PageStays, Gathered, PageShape

LEMMA ClickKeeps ==
    ASSUME OperatorInv, ClickConnect \/ ClickApprove
    PROVE  OperatorInv'
<1>1. page.current \in Adapters /\ owner[page.current] # 0 /\ UNCHANGED pageVars
  BY MountedPage DEF ClickConnect, ClickApprove
<1>2. AdaptersInv
  BY DEF OperatorInv
<1>3. /\ AdaptersInv'
      /\ \A h \in Adapters \ {page.current} : adapter'[h] = adapter[h]
  <2>1. CASE ClickConnect
    BY <1>1, <1>2, <2>1, ConnectKeeps DEF ClickConnect
  <2>2. CASE ClickApprove
    BY <1>1, <1>2, <2>2, SignKeeps, PageShape DEF ClickApprove
  <2> QED BY <2>1, <2>2
<1> QED BY <1>1, <1>3, AdaptersMove

\* The adapters stay as they are.
LEMMA AdaptersStay ==
    ASSUME OperatorInv, UNCHANGED adapterVars
    PROVE  /\ AdaptersInv'
           /\ owner' = owner => BusyOwned'
BY DEF OperatorInv, AdaptersInv, AdapterTypeOK, Allowed, KitsHeld, adapterVars, BusyOwned, Busy

LEMMA MountKeeps ==
    ASSUME OperatorInv, Mount
    PROVE  OperatorInv'
<1>1. PICK instance \in Pages :
         page' = [NoPage EXCEPT !.instance = instance, !.phase = "CHECKING"]
  BY DEF Mount
<1>2. /\ UNCHANGED adapterVars /\ owner' = owner /\ storage' = storage
      /\ calls' = calls /\ rows' = rows
  BY DEF Mount
<1>3. /\ page' \in PageRecord /\ page'.instance # 0 /\ page'.phase = "CHECKING"
      /\ page'.current = None /\ page'.signature = None /\ page'.result = None
  BY <1>1, NoPageShape DEF PageRecord
<1>4. PageOwned' /\ PageInv'
  BY <1>3 DEF PageOwned, PageInv
<1>5. Stable
  BY <1>2, Unchanging
<1> QED BY <1>2, <1>3, <1>4, <1>5, AdaptersStay, CallsKeep, Gathered, PageShape

LEMMA LeavingKeeps ==
    ASSUME OperatorInv, page.instance # 0, LeaveAdapter, owner' = owner
    PROVE  AdaptersInv' /\ BusyOwned'
<1>1. CASE page.current = None
  BY <1>1, AdaptersStay DEF LeaveAdapter
<1>2. CASE page.current # None
  <2>1. page.current \in Adapters /\ Disconnect(page.current)
    BY <1>2, MountedPage DEF LeaveAdapter
  <2>2. AdaptersInv' /\ \A h \in Adapters : adapter'[h].op = adapter[h].op
    BY <2>1, DisconnectKeeps DEF OperatorInv
  <2> QED BY <2>2 DEF OperatorInv, BusyOwned, Busy
<1> QED BY <1>1, <1>2

LEMMA RerunKeeps ==
    ASSUME OperatorInv, RerunEffect
    PROVE  OperatorInv'
<1>1. /\ page.instance # 0 /\ LeaveAdapter /\ owner' = owner
      /\ page' = [page EXCEPT !.phase = "CHECKING", !.current = None, !.prepared = None]
      /\ storage' = storage /\ calls' = calls /\ rows' = rows
  BY DEF RerunEffect
<1>2. /\ page' \in PageRecord /\ page'.instance = page.instance /\ page'.phase = "CHECKING"
      /\ page'.current = None
      /\ page'.signature = page.signature /\ page'.result = page.result
  BY <1>1, PageShape DEF PageRecord
<1>3. PageOwned' /\ PageInv'
  BY <1>1, <1>2 DEF PageOwned, OperatorInv, PageInv
<1>4. Stable
  BY <1>1, Unchanging
<1> QED BY <1>1, <1>2, <1>3, <1>4, LeavingKeeps, CallsKeep, Gathered, PageShape

LEMMA UnmountKeeps ==
    ASSUME OperatorInv, Unmount
    PROVE  OperatorInv'
<1>1. /\ page.instance # 0 /\ LeaveAdapter /\ page' = NoPage /\ owner' = owner
      /\ storage' = storage /\ calls' = calls /\ rows' = rows
  BY DEF Unmount
<1>2. page' \in PageRecord /\ PageOwned' /\ PageInv'
  BY <1>1, NoPageShape DEF PageOwned, PageInv
<1>3. Stable
  BY <1>1, Unchanging
<1> QED BY <1>1, <1>2, <1>3, LeavingKeeps, CallsKeep, Gathered, PageShape

\* What the effect's answer changes of the page.
LEMMA EffectAnswered ==
    ASSUME OperatorInv, page.phase = "CHECKING", Stable, PageOwned',
           NEW phase \in {"READY", "ERROR", "LEAVING"}, NEW prepared \in Prepared \cup {None},
           NEW current \in Adapters \cup {None},
           page' = [page EXCEPT !.phase = phase, !.current = current, !.prepared = prepared]
    PROVE  page' \in PageRecord /\ PageInv'
<1>1. /\ page' \in PageRecord
      /\ page'.signature = page.signature /\ page'.result = page.result
  BY PageShape DEF PageRecord
<1> QED BY <1>1, PageShape DEF OperatorInv, PageInv, Stable

LEMMA InitializeKeeps ==
    ASSUME OperatorInv, NEW g \in Adapters, Initialize(g)
    PROVE  OperatorInv'
<1>1. PICK prepared \in Prepared \cup {None} :
         /\ LoadHandoff(prepared)
         /\ page' = [page EXCEPT !.phase = "READY", !.current = g, !.prepared = prepared]
  BY DEF Initialize
<1>2. /\ page.instance \in Pages /\ page.instance # 0 /\ page \in PageRecord
      /\ page.phase = "CHECKING"
  BY MountedPage, PageShape DEF Initialize
<1>3. /\ owner' = [owner EXCEPT ![g] = page.instance] /\ UNCHANGED adapterVars
      /\ storage' \in Prepared \cup {None} /\ calls' = calls /\ rows' = rows
  BY <1>1, PageShape DEF Initialize, LoadHandoff
<1>4. /\ owner' \in [Adapters -> Pages \cup {0}] /\ owner'[g] # 0
      /\ \A h \in Adapters \ {g} : owner'[h] = owner[h]
  BY <1>2, <1>3, PageShape
<1>5. Stable
  BY <1>3, Unchanging
<1>6. page'.instance # 0 /\ page'.phase = "READY" /\ page'.current = g
  BY <1>1, <1>2 DEF PageRecord
<1>7. PageOwned'
  BY <1>4, <1>6 DEF PageOwned
<1>8. page' \in PageRecord /\ PageInv'
  BY <1>1, <1>2, <1>5, <1>7, EffectAnswered
<1>9. AdaptersInv' /\ BusyOwned'
  BY <1>3, <1>4, AdaptersStay DEF OperatorInv, BusyOwned, Busy, adapterVars
<1> QED BY <1>3, <1>4, <1>5, <1>7, <1>8, <1>9, CallsKeep, Gathered, PageShape

LEMMA NotInitializedKeeps ==
    ASSUME OperatorInv, InitializeFails \/ ProbeFails
    PROVE  OperatorInv'
<1>1. /\ page.phase = "CHECKING" /\ UNCHANGED adapterVars /\ owner' = owner
      /\ calls' = calls /\ rows' = rows
  BY DEF InitializeFails, ProbeFails
<1>2. page.instance # 0 /\ page \in PageRecord /\ page.prepared \in Prepared \cup {None}
  BY <1>1, MountedPage, PageShape
<1>3. storage' \in Prepared \cup {None}
  BY PageShape DEF InitializeFails, ProbeFails, LoadHandoff
<1>4. PICK phase \in {"ERROR", "LEAVING"}, prepared \in Prepared \cup {None} :
         page' = [page EXCEPT !.phase = phase, !.prepared = prepared]
  <2>1. CASE InitializeFails
    BY <2>1 DEF InitializeFails
  <2>2. CASE ProbeFails
    <3>1. PICK phase \in {"ERROR", "LEAVING"} : page' = [page EXCEPT !.phase = phase]
      BY <2>2 DEF ProbeFails
    <3>2. page' = [page EXCEPT !.phase = phase, !.prepared = page.prepared]
      BY <1>2, <3>1 DEF PageRecord
    <3> QED BY <1>2, <3>2
  <2> QED BY <2>1, <2>2
<1>5. page' = [page EXCEPT !.phase = phase, !.current = page.current, !.prepared = prepared]
  BY <1>2, <1>4 DEF PageRecord
<1>6. page'.instance = page.instance /\ page'.phase = phase /\ page'.current = page.current
  BY <1>2, <1>4 DEF PageRecord
<1>7. PageOwned'
  BY <1>1, <1>2, <1>6 DEF OperatorInv, PageOwned
<1>8. Stable
  BY <1>1, Unchanging
<1>9. page' \in PageRecord /\ PageInv'
  BY <1>1, <1>5, <1>7, <1>8, EffectAnswered, PageShape
<1> QED BY <1>1, <1>3, <1>7, <1>8, <1>9, AdaptersStay, CallsKeep, Gathered, PageShape

LEMMA ConnectedKeeps ==
    ASSUME OperatorInv, NEW g \in Adapters, NEW address \in Addresses, Connected(g, address)
    PROVE  OperatorInv'
<1>1. PICK updated : updated = [page EXCEPT !.session = address, !.signature = None,
                                            !.result = None]
  OBVIOUS
<1>2. /\ updated \in PageRecord
      /\ updated.instance = page.instance /\ updated.current = page.current
      /\ updated.phase = page.phase
      /\ updated.signature = None /\ updated.result = None
  BY <1>1, PageShape DEF PageRecord
<1>3. /\ ConnectReturns(g, address) /\ Mounted(owner[g], updated) /\ owner' = owner
      /\ storage' = storage /\ calls' = calls /\ rows' = rows
  BY <1>1 DEF Connected
<1>4. owner[g] # 0 /\ owner[g] \in Pages
  BY <1>3, BusyIsOwned DEF ConnectReturns, Phase
<1>5. Stable
  BY <1>3, Unchanging
<1>6. page' \in PageRecord /\ PageOwned' /\ PageInv'
  BY <1>2, <1>3, <1>4, <1>5, MountedKeeps
<1>7. AdaptersInv' /\ \A h \in Adapters \ {g} : adapter'[h] = adapter[h]
  BY <1>3, ConnectReturnsKeeps DEF OperatorInv
<1>8. BusyOwned'
  BY <1>3, <1>4, <1>7, OwnersKeep
<1> QED BY <1>3, <1>5, <1>6, <1>7, <1>8, CallsKeep, Gathered, PageShape

\* What sign() returns was resolved, took the full path and is of the authorized device.
LEMMA ReturnedApproval ==
    ASSUME AdaptersInv, NEW g \in Adapters, SignReturns(g),
           NEW approval, approval = ApprovalOf(g)
    PROVE  approval \in Approval /\ ClearlySigned(approval)
<1>1. PICK op \in Signing : op = adapter[g].op /\ op.phase = "SIGNING"
  BY PhaseOf DEF SignReturns, AdaptersInv
<1>2. /\ op.request \in Prepared /\ op.clear \in BOOLEAN /\ op.steps \in SUBSET Steps
      /\ RequiredSteps \subseteq op.steps /\ adapter[g].session # None
      /\ adapter[g].session \in Addresses \cup {None} /\ Allowed(adapter[g])
  BY <1>1, AdapterShape DEF SignReturns, AdaptersInv, Signing
<1>3. approval = [request |-> op.request, signer |-> adapter[g].session,
                  clear |-> op.clear, steps |-> op.steps]
  BY <1>1 DEF ApprovalOf
<1>4. /\ op.clear /\ "SIGN_TYPED_DATA_LEGACY" \notin op.steps
      /\ adapter[g].session = AuthorizedSigner[op.request]
  BY <1>1, <1>2 DEF Allowed, RequiredSteps
<1>5. approval \in Approval
  BY <1>2, <1>3 DEF Approval
<1> QED BY <1>2, <1>3, <1>4, <1>5 DEF ClearlySigned

LEMMA ApprovedKeeps ==
    ASSUME OperatorInv, NEW g \in Adapters, Approved(g)
    PROVE  OperatorInv'
<1>1. PICK approval : approval = ApprovalOf(g)
  OBVIOUS
<1>2. /\ SignReturns(g) /\ owner' = owner
      /\ storage' = storage /\ calls' = calls /\ rows' = rows
      /\ Mounted(owner[g], [page EXCEPT !.signature = approval])
  BY <1>1 DEF Approved
<1>3. approval \in Approval /\ ClearlySigned(approval)
  BY <1>1, <1>2, ReturnedApproval DEF OperatorInv
<1>4. PICK updated : updated = [page EXCEPT !.signature = approval]
  OBVIOUS
<1>5. /\ updated \in PageRecord
      /\ updated.instance = page.instance /\ updated.current = page.current
      /\ updated.phase = page.phase
      /\ updated.signature = approval /\ updated.result = page.result
  BY <1>3, <1>4, PageShape DEF PageRecord
<1>6. owner[g] # 0 /\ owner[g] \in Pages
  BY <1>2, BusyIsOwned DEF SignReturns, Phase
<1>7. Stable
  BY <1>2, Unchanging
<1>8. updated.result # None => rows'[updated.result] = "CONSUMED"
  BY <1>2, <1>5 DEF OperatorInv, PageInv
<1>9. page' \in PageRecord /\ PageOwned' /\ PageInv'
  BY <1>2, <1>3, <1>4, <1>5, <1>6, <1>7, <1>8, MountedKeeps
<1>10. AdaptersInv' /\ \A h \in Adapters \ {g} : adapter'[h] = adapter[h]
  BY <1>2, EndKeeps DEF OperatorInv
<1>11. BusyOwned'
  BY <1>2, <1>6, <1>10, OwnersKeep
<1> QED BY <1>2, <1>7, <1>9, <1>10, <1>11, CallsKeep, Gathered, PageShape

LEMMA PrepareReturnedKeeps ==
    ASSUME OperatorInv, NEW call \in calls, PrepareReturned(call)
    PROVE  OperatorInv'
<1>1. call.page \in Pages /\ call.served \in Prepared
  BY PageShape DEF PrepareReturned, Call
<1>2. PICK updated : updated = [page EXCEPT !.prepared = call.served, !.signature = None,
                                            !.result = None]
  OBVIOUS
<1>3. /\ updated \in PageRecord
      /\ updated.instance = page.instance /\ updated.current = page.current
      /\ updated.phase = page.phase
      /\ updated.signature = None /\ updated.result = None
  BY <1>1, <1>2, PageShape DEF PageRecord
<1>4. /\ Mounted(call.page, updated) /\ owner' = owner /\ UNCHANGED adapterVars
      /\ storage' = None /\ calls' \subseteq calls /\ rows' = rows
  BY <1>2 DEF PrepareReturned
<1>5. Stable
  BY <1>4, Unchanging
<1>6. page' \in PageRecord /\ PageOwned' /\ PageInv'
  BY <1>1, <1>3, <1>4, <1>5, MountedKeeps
<1> QED BY <1>4, <1>5, <1>6, AdaptersStay, CallsKeep, Gathered, PageShape

LEMMA ConsumeReturnedKeeps ==
    ASSUME OperatorInv, NEW call \in calls, ConsumeReturned(call)
    PROVE  OperatorInv'
<1>1. call.page \in Pages /\ call.request \in Prepared
  BY PageShape DEF ConsumeReturned, Call
<1>2. /\ owner' = owner /\ UNCHANGED adapterVars
      /\ storage' = storage /\ calls' \subseteq calls /\ rows' = rows
  BY DEF ConsumeReturned
<1>3. Stable
  BY <1>2, Unchanging
<1>4. page' \in PageRecord /\ PageOwned' /\ PageInv'
  <2>1. CASE call.served # "AUTHORIZED"
    BY <1>2, <1>3, <2>1, PageStays DEF ConsumeReturned
  <2>2. CASE call.served = "AUTHORIZED"
    <3>1. PICK updated : updated = [page EXCEPT !.result = call.request]
      OBVIOUS
    <3>2. /\ updated \in PageRecord
          /\ updated.instance = page.instance /\ updated.current = page.current
          /\ updated.phase = page.phase
          /\ updated.signature = page.signature /\ updated.result = call.request
      BY <1>1, <3>1, PageShape DEF PageRecord
    <3>3. Mounted(call.page, updated)
      BY <2>2, <3>1 DEF ConsumeReturned
    <3>4. rows'[updated.result] = "CONSUMED"
      BY <1>2, <2>2, <3>2 DEF ConsumeReturned, OperatorInv, CallAt
    <3>5. updated.signature # None => ClearlySigned(updated.signature)
      BY <3>2 DEF OperatorInv, PageInv
    <3> QED BY <1>1, <1>2, <1>3, <3>2, <3>3, <3>4, <3>5, MountedKeeps
  <2> QED BY <2>1, <2>2
<1> QED BY <1>2, <1>3, <1>4, AdaptersStay, CallsKeep, Gathered, PageShape

LEMMA CallLostKeeps ==
    ASSUME OperatorInv, NEW call \in calls, CallLost(call)
    PROVE  OperatorInv'
<1>1. /\ UNCHANGED adapterVars /\ page' = page /\ owner' = owner /\ storage' = storage
      /\ rows' = rows /\ calls' \subseteq calls
  BY DEF CallLost
<1>2. Stable
  BY <1>1, Unchanging
<1> QED BY <1>1, <1>2, AdaptersStay, CallsKeep, PageStays, Gathered, PageShape

LEMMA EditKeeps ==
    ASSUME OperatorInv, EditClearance
    PROVE  OperatorInv'
<1>1. /\ UNCHANGED adapterVars /\ owner' = owner /\ storage' = None /\ calls' = calls
      /\ rows' = rows /\ page.instance # 0
      /\ page' = [page EXCEPT !.prepared = None, !.signature = None, !.result = None]
  BY MountedPage DEF EditClearance
<1>2. /\ page' \in PageRecord /\ page'.signature = None /\ page'.result = None
      /\ page'.instance = page.instance /\ page'.current = page.current
      /\ page'.phase = page.phase
  BY <1>1, PageShape DEF PageRecord
<1>3. PageOwned' /\ PageInv'
  BY <1>1, <1>2 DEF OperatorInv, PageOwned, PageInv
<1>4. Stable
  BY <1>1, Unchanging
<1> QED BY <1>1, <1>2, <1>3, <1>4, AdaptersStay, CallsKeep, Gathered, PageShape

LEMMA HandOffKeeps ==
    ASSUME OperatorInv, NEW request \in Prepared, HandOff(request)
    PROVE  OperatorInv'
<1>1. /\ UNCHANGED adapterVars /\ page' = page /\ owner' = owner /\ storage' = request
      /\ calls' = calls /\ rows[request] = "NONE"
      /\ rows' = [rows EXCEPT ![request] = "ISSUED"]
  BY DEF HandOff
<1>2. rows' \in [Prepared -> {"NONE", "ISSUED", "CONSUMED"}] /\ Stable
  BY <1>1, PageShape DEF Stable
<1> QED BY <1>1, <1>2, AdaptersStay, CallsKeep, PageStays, Gathered, PageShape

LEMMA ClickPrepareKeeps ==
    ASSUME OperatorInv, ClickPrepare
    PROVE  OperatorInv'
<1>1. PICK new : new = [kind |-> "PREPARE", page |-> page.instance,
                        signer |-> page.session, served |-> None]
  OBVIOUS
<1>2. /\ UNCHANGED adapterVars /\ page' = page /\ owner' = owner /\ storage' = storage
      /\ rows' = rows /\ calls' = calls \cup {new}
  BY <1>1 DEF ClickPrepare
<1>3. page.instance \in Pages /\ page.session \in Addresses
  BY MountedPage, PageShape DEF ClickPrepare
<1>4. new \in Call /\ CallAt(new)'
  BY <1>1, <1>3 DEF Call, CallAt
<1>5. Stable
  BY <1>2, Unchanging
<1> QED BY <1>2, <1>4, <1>5, AdaptersStay, CallsChange, PageStays, Gathered, PageShape

LEMMA ClickConsumeKeeps ==
    ASSUME OperatorInv, ClickConsume
    PROVE  OperatorInv'
<1>1. PICK new : new = [kind |-> "CONSUME", page |-> page.instance, request |-> page.prepared,
                        approval |-> page.signature, served |-> None]
  OBVIOUS
<1>2. /\ UNCHANGED adapterVars /\ page' = page /\ owner' = owner /\ storage' = storage
      /\ rows' = rows /\ calls' = calls \cup {new}
  BY <1>1 DEF ClickConsume
<1>3. page.instance \in Pages /\ page.prepared \in Prepared /\ page.signature \in Approval
  BY MountedPage, PageShape DEF ClickConsume
<1>4. new \in Call /\ new.served = None
  BY <1>1, <1>3 DEF Call
<1>5. CallAt(new)'
  BY <1>4 DEF CallAt
<1>6. Stable
  BY <1>2, Unchanging
<1> QED BY <1>2, <1>4, <1>5, <1>6, AdaptersStay, CallsChange, PageStays, Gathered, PageShape

LEMMA ServePrepareKeeps ==
    ASSUME OperatorInv, NEW call \in calls, NEW request \in Prepared, ServePrepare(call, request)
    PROVE  OperatorInv'
<1>1. PICK new : new = [call EXCEPT !.served = request]
  OBVIOUS
<1>2. /\ UNCHANGED adapterVars /\ page' = page /\ owner' = owner /\ storage' = storage
      /\ rows[request] = "NONE" /\ rows' = [rows EXCEPT ![request] = "ISSUED"]
      /\ calls' \subseteq calls \cup {new} /\ call.kind = "PREPARE"
  BY <1>1 DEF ServePrepare
<1>3. new \in Call /\ new.kind = "PREPARE"
  BY <1>1, <1>2, PageShape DEF Call
<1>4. CallAt(new)'
  BY <1>3 DEF CallAt
<1>5. rows' \in [Prepared -> {"NONE", "ISSUED", "CONSUMED"}] /\ Stable
  BY <1>2, PageShape DEF Stable
<1> QED BY <1>2, <1>3, <1>4, <1>5, AdaptersStay, CallsChange, PageStays, Gathered, PageShape

\* An approval that verifies for a request is of that request.
LEMMA VerifiedIsOfRequest ==
    ASSUME NEW call, call.request \in Prepared, Verifies(call)
    PROVE  call.approval.request = call.request
BY DEF Verifies, Recovered, AdapterAssumption

LEMMA ServeConsumeKeeps ==
    ASSUME OperatorInv, NEW call \in calls, ServeConsume(call)
    PROVE  OperatorInv'
<1>1. /\ UNCHANGED adapterVars /\ page' = page /\ owner' = owner /\ storage' = storage
      /\ call.kind = "CONSUME" /\ call.request \in Prepared /\ call \in Call
  BY PageShape DEF ServeConsume, Call
<1>2. CASE rows[call.request] = "ISSUED" /\ Verifies(call)
  <2>1. PICK new : new = [call EXCEPT !.served = "AUTHORIZED"]
    OBVIOUS
  <2>2. /\ rows' = [rows EXCEPT ![call.request] = "CONSUMED"]
        /\ calls' \subseteq calls \cup {new}
    BY <1>2, <2>1 DEF ServeConsume
  <2>3. new \in Call /\ new.request = call.request /\ new.approval = call.approval
    BY <1>1, <2>1 DEF Call
  <2>4. /\ rows' \in [Prepared -> {"NONE", "ISSUED", "CONSUMED"}]
        /\ rows'[call.request] = "CONSUMED" /\ Stable
    BY <1>1, <2>2, PageShape DEF Stable
  <2>5. CallAt(new)'
    BY <1>1, <1>2, <2>3, <2>4, VerifiedIsOfRequest DEF CallAt
  <2> QED BY <1>1, <2>2, <2>3, <2>4, <2>5, AdaptersStay, CallsChange, PageStays, Gathered,
             PageShape
<1>3. CASE ~(rows[call.request] = "ISSUED" /\ Verifies(call))
  <2>1. PICK new : new = [call EXCEPT !.served = "REFUSED"]
    OBVIOUS
  <2>2. rows' = rows /\ calls' \subseteq calls \cup {new}
    BY <1>3, <2>1 DEF ServeConsume
  <2>3. new \in Call /\ new.served = "REFUSED"
    BY <1>1, <2>1 DEF Call
  <2>4. CallAt(new)'
    BY <2>3 DEF CallAt
  <2>5. Stable
    BY <2>2, Unchanging
  <2> QED BY <1>1, <2>2, <2>3, <2>4, <2>5, AdaptersStay, CallsChange, PageStays, Gathered,
             PageShape
<1> QED BY <1>2, <1>3

LEMMA OperatorStuttering ==
    ASSUME OperatorInv, UNCHANGED operatorVars
    PROVE  OperatorInv'
<1>1. /\ UNCHANGED adapterVars /\ page' = page /\ owner' = owner /\ storage' = storage
      /\ calls' = calls /\ rows' = rows
  BY DEF operatorVars, pageVars
<1>2. Stable
  BY <1>1, Unchanging
<1> QED BY <1>1, <1>2, AdaptersStay, CallsKeep, PageStays, Gathered, PageShape

LEMMA OperatorStep ==
    ASSUME OperatorInv, [OperatorNext]_operatorVars
    PROVE  OperatorInv'
<1>1. ASSUME NEW g \in Adapters,
             \/ Initialize(g) \/ Approved(g)
             \/ AdapterStep(g) /\ UNCHANGED pageVars
             \/ \E address \in Addresses : Connected(g, address)
      PROVE  OperatorInv'
  BY <1>1, InitializeKeeps, ApprovedKeeps, AdapterStepKeeps, ConnectedKeeps
<1>2. ASSUME NEW k \in Kits, CloseKit(k) /\ UNCHANGED pageVars
      PROVE  OperatorInv'
  BY <1>2, ClosingKeeps
<1>3. ASSUME \/ Mount \/ RerunEffect \/ Unmount \/ InitializeFails \/ ProbeFails
             \/ ClickConnect \/ ClickPrepare \/ ClickApprove \/ ClickConsume
             \/ EditClearance
      PROVE  OperatorInv'
  BY <1>3, MountKeeps, RerunKeeps, UnmountKeeps, NotInitializedKeeps, ClickKeeps,
     ClickPrepareKeeps, ClickConsumeKeeps, EditKeeps
<1>4. ASSUME NEW request \in Prepared, HandOff(request)
      PROVE  OperatorInv'
  BY <1>4, HandOffKeeps
<1>5. ASSUME NEW call \in calls,
             \/ PrepareReturned(call) \/ ConsumeReturned(call) \/ CallLost(call)
             \/ ServeConsume(call)
             \/ \E request \in Prepared : ServePrepare(call, request)
      PROVE  OperatorInv'
  BY <1>5, PrepareReturnedKeeps, ConsumeReturnedKeeps, CallLostKeeps, ServeConsumeKeeps,
     ServePrepareKeeps
<1> QED BY <1>1, <1>2, <1>3, <1>4, <1>5, OperatorStuttering DEF OperatorNext

LEMMA OperatorInitially ==
    ASSUME OperatorInit
    PROVE  OperatorInv
<1>1. \A g \in Adapters : adapter[g] = Blank /\ ~Busy(g)
  BY DEF OperatorInit, AdapterInit, Busy, Blank
<1>2. AdapterTypeOK
  BY DEF OperatorInit, AdapterInit, AdapterTypeOK, Blank
<1>3. \A g \in Adapters : Allowed(adapter[g])
  BY <1>1 DEF Allowed, Blank, Idle
<1>4. KitsHeld
  BY <1>1 DEF KitsHeld, Blank, OperatorInit, AdapterInit
<1>5. PageOwned /\ PageInv /\ page \in PageRecord
  BY NoPageShape DEF OperatorInit, PageOwned, PageInv
<1> QED BY <1>1, <1>2, <1>3, <1>4, <1>5
        DEF OperatorInv, OperatorTypeOK, AdaptersInv, BusyOwned, PageRecord, OperatorInit

-----------------------------------------------------------------------------
(* The operator page over its adapters keeps its types, never loses a kit, *)
(* never lets a signature pass that was not shown in clear, and marks only *)
(* consumed requests as authorized, whatever handlers and calls overlap.   *)
THEOREM OperatorInvariant == OperatorSpec => []OperatorInv
<1>1. OperatorInit => OperatorInv
  BY OperatorInitially
<1>2. OperatorInv /\ [OperatorNext]_operatorVars => OperatorInv'
  BY OperatorStep
<1> QED BY <1>1, <1>2, PTL DEF OperatorSpec

(* A signature the page holds was shown on the device in clear, for the    *)
(* request it names and by the device that request authorizes, although    *)
(* sign() reads the session again after the device answered; and the       *)
(* simulator is never the transport in production.                         *)
THEOREM SignaturesWereClear == OperatorSpec => []SignaturesAreClear
<1>1. OperatorInv => SignaturesAreClear
  BY DEF OperatorInv, PageInv, ClearlySigned, SignaturesAreClear, Transport, LedgerTransport
<1> QED BY <1>1, OperatorInvariant, PTL

(* Overlapping prepares, approvals and consumptions authorize nothing that *)
(* was not signed: a request shown or answered as authorized was consumed  *)
(* with an approval of that very request.                                  *)
THEOREM MixturesAreRefused == OperatorSpec => []MixedHandlersAuthorizeNothing
<1>1. OperatorInv => MixedHandlersAuthorizeNothing
  BY DEF OperatorInv, PageInv, CallAt, MixedHandlersAuthorizeNothing
<1> QED BY <1>1, OperatorInvariant, PTL

(* Across reconnects, failures and disconnects in the middle of a connect, *)
(* an open kit is the kit of exactly one adapter.                          *)
THEOREM NoKitIsLost == OperatorSpec => []OpenKitsAreHeld
<1>1. ASSUME OperatorInv
      PROVE  OpenKitsAreHeld
  <2>1. ASSUME NEW k \in Kits, kits[k] = "OPEN"
        PROVE  Cardinality({g \in Adapters : adapter[g].dmk = k}) = 1
    <3>1. PICK x \in Adapters : adapter[x].dmk = k
      BY <1>1, <2>1 DEF OperatorInv, AdaptersInv, KitsHeld
    <3>2. {g \in Adapters : adapter[g].dmk = k} = {x}
      BY <1>1, <3>1 DEF OperatorInv, AdaptersInv, KitsHeld, AdapterAssumption
    <3> QED BY <3>2, FS_Singleton
  <2> QED BY <2>1 DEF OpenKitsAreHeld
<1> QED BY <1>1, OperatorInvariant, PTL
=============================================================================

----------------------------- MODULE LedgerAdapter -----------------------------
(***************************************************************************)
(* LedgerBrowserAdapter (packages/ledger-gate): one object per operator    *)
(* page effect, holding a device management kit, its session and the       *)
(* signer built on it.  connect() and sign() exclude each other by #busy,  *)
(* which is TRUE exactly while one of them is pending; disconnect() is     *)
(* excluded by nothing and clears every field before its first await.      *)
(*                                                                         *)
(* The kit is external: it may answer a connect() whose kit has been       *)
(* closed meanwhile, reports the steps of a signature in any order, and    *)
(* answers about display filters whenever it likes: the context keeps one  *)
(* flag for all attempts, so the answer to an attempt given up may arrive  *)
(* in a later one.                                                         *)
(***************************************************************************)
EXTENDS Integers, FiniteSets

CONSTANTS
    Adapters,          \* adapter objects, created one after another
    Kits,              \* device management kits created by connect()
    Addresses,         \* addresses a connected device may confirm
    Prepared,          \* prepared signing requests
    AuthorizedSigner,  \* request -> the address it authorizes
    None

ASSUME AdapterAssumption ==
    /\ AuthorizedSigner \in [Prepared -> Addresses]
    /\ None \notin Adapters \cup Kits \cup Addresses \cup Prepared

VARIABLES
    adapter,  \* adapter -> its fields and its pending operation
    kits      \* kit -> life cycle

adapterVars == <<adapter, kits>>

\* Pending steps reported by the signer kit.
Steps == {"BUILD_CONTEXT", "PROVIDE_CONTEXT", "SIGN_TYPED_DATA", "SIGN_TYPED_DATA_LEGACY"}
RequiredSteps == {"BUILD_CONTEXT", "PROVIDE_CONTEXT", "SIGN_TYPED_DATA"}

Idle == [phase |-> "IDLE"]
Connecting == [phase : {"RESETTING", "DISCOVERING", "VERIFYING", "CLEANUP"},
               kit : Kits \cup {None}]
\* clear is a history: the descriptor was resolved when signing was reported.
Signing == [phase : {"SIGNING"}, request : Prepared, resolved : BOOLEAN, clear : BOOLEAN,
            steps : SUBSET Steps]

Blank == [dmk |-> None, sessionId |-> None, signer |-> None, session |-> None, op |-> Idle]

Approval == [request : Prepared, signer : Addresses, clear : BOOLEAN, steps : SUBSET Steps]

AdapterTypeOK ==
    /\ adapter \in [Adapters ->
          [dmk : Kits \cup {None}, sessionId : Kits \cup {None}, signer : Kits \cup {None},
           session : Addresses \cup {None}, op : {Idle} \cup Connecting \cup Signing]]
    /\ kits \in [Kits -> {"UNUSED", "OPEN", "CLOSING", "CLOSED"}]

-----------------------------------------------------------------------------
(* parseLedgerTransportConfig and createLedgerTransportRuntime: the        *)
(* simulator only outside production and only on a loopback endpoint.      *)
LedgerTransport(kind, url, environment) ==
    CASE kind = "webhid" -> "WEBHID"
      [] kind = "speculos" /\ url = "LOOPBACK" /\ environment \in {"development", "test"}
           -> "SPECULOS"
      [] OTHER -> "REFUSED"

Busy(g) == adapter[g].op # Idle

Phase(g, phase) == Busy(g) /\ adapter[g].op.phase = phase

Disconnected(a) ==
    [a EXCEPT !.dmk = None, !.sessionId = None, !.signer = None, !.session = None]

\* The kit starts closing; its stop, disconnect and close are awaited.
CloseBegun(k) == IF k = None THEN kits ELSE [kits EXCEPT ![k] = "CLOSING"]

KitClosed(k) == k # None => kits[k] = "CLOSED"

Disconnect(g) ==
    /\ adapter' = [adapter EXCEPT ![g] = Disconnected(@)]
    /\ kits' = CloseBegun(adapter[g].dmk)

CloseKit(k) ==
    /\ kits[k] = "CLOSING"
    /\ kits' = [kits EXCEPT ![k] = "CLOSED"]
    /\ UNCHANGED adapter

-----------------------------------------------------------------------------
\* Mutant: a second connect() keeps the first kit open.
ConnectKeepingKit(g) ==
    /\ ~Busy(g)
    /\ adapter' = [adapter EXCEPT ![g].op = [phase |-> "RESETTING", kit |-> None]]
    /\ UNCHANGED kits

Connect(g) ==
    /\ ~Busy(g)
    /\ adapter' = [adapter EXCEPT ![g] =
          [Disconnected(@) EXCEPT !.op = [phase |-> "RESETTING", kit |-> adapter[g].dmk]]]
    /\ kits' = CloseBegun(adapter[g].dmk)

CreateKit(g, k) ==
    /\ Phase(g, "RESETTING") /\ KitClosed(adapter[g].op.kit)
    /\ kits[k] = "UNUSED"
    /\ kits' = [kits EXCEPT ![k] = "OPEN"]
    /\ adapter' = [adapter EXCEPT ![g] =
          [@ EXCEPT !.dmk = k, !.op = [phase |-> "DISCOVERING", kit |-> k]]]

\* The new kit cannot run here: it is closed at once and connect() throws.
KitRefused(g, k) ==
    /\ Phase(g, "RESETTING") /\ KitClosed(adapter[g].op.kit)
    /\ kits[k] = "UNUSED"
    /\ kits' = [kits EXCEPT ![k] = "CLOSED"]
    /\ adapter' = [adapter EXCEPT ![g] =
          [Disconnected(@) EXCEPT !.op = [phase |-> "CLEANUP", kit |-> adapter[g].dmk]]]

\* A device was found and connected; the signer and its context are built.
Discovered(g) ==
    /\ Phase(g, "DISCOVERING")
    /\ LET k == adapter[g].op.kit
       IN  adapter' = [adapter EXCEPT ![g] =
              [@ EXCEPT !.sessionId = k, !.signer = k,
                        !.op = [phase |-> "VERIFYING", kit |-> k]]]
    /\ UNCHANGED kits

\* The address is confirmed on the device and the Ethereum app is active.
ConnectReturns(g, address) ==
    /\ Phase(g, "VERIFYING")
    /\ adapter' = [adapter EXCEPT ![g] = [@ EXCEPT !.session = address, !.op = Idle]]
    /\ UNCHANGED kits

\* Any step of connect() throws: disconnect() again, then rethrow.
ConnectThrows(g) ==
    /\ Phase(g, "RESETTING") \/ Phase(g, "DISCOVERING") \/ Phase(g, "VERIFYING")
    /\ adapter' = [adapter EXCEPT ![g] =
          [Disconnected(@) EXCEPT !.op = [phase |-> "CLEANUP", kit |-> adapter[g].dmk]]]
    /\ kits' = CloseBegun(adapter[g].dmk)

ConnectRejects(g) ==
    /\ Phase(g, "CLEANUP") /\ KitClosed(adapter[g].op.kit)
    /\ adapter' = [adapter EXCEPT ![g].op = Idle]
    /\ UNCHANGED kits

-----------------------------------------------------------------------------
\* sign() up to its first await: the attempt begins unresolved.
Sign(g, request) ==
    /\ ~Busy(g)
    /\ adapter[g].session # None /\ adapter[g].signer # None /\ adapter[g].sessionId # None
    /\ adapter[g].session = AuthorizedSigner[request]
    /\ adapter' = [adapter EXCEPT ![g].op =
          [phase |-> "SIGNING", request |-> request, resolved |-> FALSE, clear |-> FALSE,
           steps |-> {}]]
    /\ UNCHANGED kits

(* getTypedDataFilters answers, for this attempt or one before it; exact    *)
(* says whether filters, chain, contract and schema all match.              *)
AnswerFilters(g, exact) ==
    /\ Phase(g, "SIGNING")
    /\ adapter' = [adapter EXCEPT ![g].op.resolved = exact]
    /\ UNCHANGED kits

\* Mutant: the signing step does not ask whether the descriptor was resolved.
ForbiddenLegacyOnly(op, step) == step = "SIGN_TYPED_DATA_LEGACY"

Forbidden(op, step) ==
    \/ step = "SIGN_TYPED_DATA_LEGACY"
    \/ step = "SIGN_TYPED_DATA" /\ ~op.resolved

Reported(op, step) ==
    [op EXCEPT !.steps = @ \cup {step},
               !.clear = IF step = "SIGN_TYPED_DATA" THEN op.resolved ELSE @]

ReportStep(g, step) ==
    /\ Phase(g, "SIGNING")
    /\ LET op == adapter[g].op
       IN  adapter' = [adapter EXCEPT ![g].op =
              IF Forbidden(op, step) THEN Idle ELSE Reported(op, step)]
    /\ UNCHANGED kits

(* The action completes with a signature; the session is read again and    *)
(* reading it after a disconnect throws.                                   *)
SignReturns(g) ==
    /\ Phase(g, "SIGNING")
    /\ RequiredSteps \subseteq adapter[g].op.steps
    /\ adapter[g].session # None
    /\ adapter' = [adapter EXCEPT ![g].op = Idle]
    /\ UNCHANGED kits

ApprovalOf(g) ==
    [request |-> adapter[g].op.request, signer |-> adapter[g].session,
     clear |-> adapter[g].op.clear, steps |-> adapter[g].op.steps]

\* Error, stop, completion without the full path, a malformed signature.
SignThrows(g) ==
    /\ Phase(g, "SIGNING")
    /\ adapter' = [adapter EXCEPT ![g].op = Idle]
    /\ UNCHANGED kits

AdapterInit ==
    /\ adapter = [g \in Adapters |-> Blank]
    /\ kits = [k \in Kits |-> "UNUSED"]
=============================================================================

----------------------------- MODULE OperatorPage -----------------------------
(***************************************************************************)
(* The Ledger operator page (apps/web p5-ledger/operator-page.tsx) over    *)
(* the adapter.  Its handlers are asynchronous and none disables another:  *)
(* each writes the page's state when its call returns, whatever the page   *)
(* then shows.  An effect asks the server who is signed in, then reads the *)
(* handed-off request and creates the adapter; running it again or leaving *)
(* the page disconnects the adapter without waiting, and calls of a page   *)
(* left behind still return.                                               *)
(*                                                                         *)
(* The server is reduced to the row of each request: fresh at a prepare,   *)
(* consumed once, for a signature of exactly that request by the signer it *)
(* authorizes (ReleaseGate models the rest).                               *)
(***************************************************************************)
EXTENDS LedgerAdapter

CONSTANTS
    Pages,      \* 1..n: mounted instances of the page, one after another
    MaxCalls,   \* HTTP calls in flight
    Runtimes    \* [kind, url, environment] the page may be built with

ASSUME OperatorAssumption ==
    /\ Pages \subseteq Nat \ {0}
    /\ None \notin {"AUTHORIZED", "REFUSED"}

VARIABLES
    page,     \* state of the mounted instance
    owner,    \* adapter -> page instance that created it, 0 before
    storage,  \* the request handed off in sessionStorage
    calls,    \* HTTP calls in flight
    rows,     \* request -> its nonce row on the server
    runtime

pageVars == <<page, owner, storage, calls, rows, runtime>>
operatorVars == <<adapterVars, pageVars>>

Call == [kind : {"PREPARE"}, page : Pages, signer : Addresses, served : Prepared \cup {None}]
    \cup [kind : {"CONSUME"}, page : Pages, request : Prepared, approval : Approval,
          served : {None, "AUTHORIZED", "REFUSED"}]

OperatorTypeOK ==
    /\ AdapterTypeOK
    /\ page \in [instance : Pages \cup {0},
                 phase : {"NONE", "CHECKING", "READY", "ERROR", "LEAVING"},
                 current : Adapters \cup {None},
                 session : Addresses \cup {None}, prepared : Prepared \cup {None},
                 signature : Approval \cup {None}, result : Prepared \cup {None}]
    /\ owner \in [Adapters -> Pages \cup {0}]
    /\ storage \in Prepared \cup {None}
    /\ calls \subseteq Call
    /\ rows \in [Prepared -> {"NONE", "ISSUED", "CONSUMED"}]

-----------------------------------------------------------------------------
Transport == LedgerTransport(runtime.kind, runtime.url, runtime.environment)

NoPage == [instance |-> 0, phase |-> "NONE", current |-> None, session |-> None,
           prepared |-> None, signature |-> None, result |-> None]

\* The effect up to the answer about the account it awaits.
Mount ==
    /\ page.instance = 0
    /\ \E instance \in Pages :
          /\ \A other \in Adapters : owner[other] < instance
          /\ page' = [NoPage EXCEPT !.instance = instance, !.phase = "CHECKING"]
    /\ UNCHANGED <<adapterVars, owner, storage, calls, rows, runtime>>

\* The effect's clean-up: an answer it still awaits is ignored from now on.
LeaveAdapter ==
    IF page.current = None THEN UNCHANGED adapterVars ELSE Disconnect(page.current)

\* "Try again" or another query string runs the effect again.
RerunEffect ==
    /\ page.instance # 0
    /\ LeaveAdapter
    /\ page' = [page EXCEPT !.phase = "CHECKING", !.current = None, !.prepared = None]
    /\ UNCHANGED <<owner, storage, calls, rows, runtime>>

Unmount ==
    /\ page.instance # 0
    /\ LeaveAdapter
    /\ page' = NoPage
    /\ UNCHANGED <<owner, storage, calls, rows, runtime>>

\* A request handed off by another account, or in another mode, is removed.
LoadHandoff(prepared) ==
    \/ storage = None /\ prepared = page.prepared /\ UNCHANGED storage
    \/ storage # None /\ prepared = storage /\ UNCHANGED storage
    \/ storage # None /\ prepared = page.prepared /\ storage' = None

\* The account is known: the handed-off request is loaded and an adapter created.
Initialize(g) ==
    /\ page.phase = "CHECKING"
    /\ Transport # "REFUSED"
    /\ owner[g] = 0
    /\ owner' = [owner EXCEPT ![g] = page.instance]
    /\ \E prepared \in Prepared \cup {None} :
          /\ LoadHandoff(prepared)
          /\ page' = [page EXCEPT !.phase = "READY", !.current = g, !.prepared = prepared]
    /\ UNCHANGED <<adapterVars, calls, rows, runtime>>

\* The transport is refused after the request was loaded.
InitializeFails ==
    /\ page.phase = "CHECKING"
    /\ Transport = "REFUSED"
    /\ \E prepared \in Prepared \cup {None} :
          /\ LoadHandoff(prepared)
          /\ page' = [page EXCEPT !.phase = "ERROR", !.prepared = prepared]
    /\ UNCHANGED <<adapterVars, owner, calls, rows, runtime>>

\* No account: nobody is signed in and the page leaves, or the call failed.
ProbeFails ==
    /\ page.phase = "CHECKING"
    /\ storage' = None
    /\ \E phase \in {"LEAVING", "ERROR"} : page' = [page EXCEPT !.phase = phase]
    /\ UNCHANGED <<adapterVars, owner, calls, rows, runtime>>

\* The releases view prepares a request of this account and hands it off.
HandOff(request) ==
    /\ page.instance = 0
    /\ rows[request] = "NONE"
    /\ rows' = [rows EXCEPT ![request] = "ISSUED"]
    /\ storage' = request
    /\ UNCHANGED <<adapterVars, page, owner, calls, runtime>>

-----------------------------------------------------------------------------
Mounted(instance, updated) == page' = IF page.instance = instance THEN updated ELSE page

\* The buttons are there once the page is ready, and then it has an adapter.
ClickConnect ==
    /\ page.phase = "READY"
    /\ Connect(page.current)
    /\ UNCHANGED pageVars

Connected(g, address) ==
    /\ ConnectReturns(g, address)
    /\ Mounted(owner[g], [page EXCEPT !.session = address, !.signature = None, !.result = None])
    /\ UNCHANGED <<owner, storage, calls, rows, runtime>>

ClickPrepare ==
    /\ page.phase = "READY" /\ page.session # None
    /\ Cardinality(calls) < MaxCalls
    /\ calls' = calls \cup {[kind |-> "PREPARE", page |-> page.instance,
                             signer |-> page.session, served |-> None]}
    /\ UNCHANGED <<adapterVars, page, owner, storage, rows, runtime>>

PrepareReturned(call) ==
    /\ call.kind = "PREPARE" /\ call.served # None
    /\ calls' = calls \ {call}
    /\ storage' = None
    /\ Mounted(call.page, [page EXCEPT !.prepared = call.served, !.signature = None,
                                       !.result = None])
    /\ UNCHANGED <<adapterVars, owner, rows, runtime>>

ClickApprove ==
    /\ page.phase = "READY" /\ page.prepared # None
    /\ Sign(page.current, page.prepared)
    /\ UNCHANGED pageVars

Approved(g) ==
    /\ SignReturns(g)
    /\ Mounted(owner[g], [page EXCEPT !.signature = ApprovalOf(g)])
    /\ UNCHANGED <<owner, storage, calls, rows, runtime>>

ClickConsume ==
    /\ page.phase = "READY" /\ page.prepared # None /\ page.signature # None
    /\ Cardinality(calls) < MaxCalls
    /\ calls' = calls \cup {[kind |-> "CONSUME", page |-> page.instance,
                             request |-> page.prepared, approval |-> page.signature,
                             served |-> None]}
    /\ UNCHANGED <<adapterVars, page, owner, storage, rows, runtime>>

ConsumeReturned(call) ==
    /\ call.kind = "CONSUME" /\ call.served # None
    /\ calls' = calls \ {call}
    /\ IF call.served = "AUTHORIZED"
       THEN Mounted(call.page, [page EXCEPT !.result = call.request])
       ELSE UNCHANGED page
    /\ UNCHANGED <<adapterVars, owner, storage, rows, runtime>>

\* A network error, before or after the server served the call.
CallLost(call) ==
    /\ calls' = calls \ {call}
    /\ UNCHANGED <<adapterVars, page, owner, storage, rows, runtime>>

EditClearance ==
    /\ page.phase = "READY"
    /\ page' = [page EXCEPT !.prepared = None, !.signature = None, !.result = None]
    /\ storage' = None
    /\ UNCHANGED <<adapterVars, owner, calls, rows, runtime>>

-----------------------------------------------------------------------------
ServePrepare(call, request) ==
    /\ call.kind = "PREPARE" /\ call.served = None
    /\ rows[request] = "NONE" /\ AuthorizedSigner[request] = call.signer
    /\ rows' = [rows EXCEPT ![request] = "ISSUED"]
    /\ calls' = (calls \ {call}) \cup {[call EXCEPT !.served = request]}
    /\ UNCHANGED <<adapterVars, page, owner, storage, runtime>>

\* An approval verifies for the request whose typed data was signed, and no other.
Recovered(approval, request) ==
    IF approval.request = request THEN approval.signer ELSE None

\* Mutant: the signature is not compared with the request it came with.
VerifiesAny(call) == call.approval.signer = AuthorizedSigner[call.request]

Verifies(call) == Recovered(call.approval, call.request) = AuthorizedSigner[call.request]

ServeConsume(call) ==
    /\ call.kind = "CONSUME" /\ call.served = None
    /\ IF rows[call.request] = "ISSUED" /\ Verifies(call)
       THEN /\ rows' = [rows EXCEPT ![call.request] = "CONSUMED"]
            /\ calls' = (calls \ {call}) \cup {[call EXCEPT !.served = "AUTHORIZED"]}
       ELSE /\ calls' = (calls \ {call}) \cup {[call EXCEPT !.served = "REFUSED"]}
            /\ UNCHANGED rows
    /\ UNCHANGED <<adapterVars, page, owner, storage, runtime>>

-----------------------------------------------------------------------------
OperatorInit ==
    /\ AdapterInit
    /\ page = NoPage
    /\ owner = [g \in Adapters |-> 0]
    /\ storage = None
    /\ calls = {}
    /\ rows = [p \in Prepared |-> "NONE"]
    /\ runtime \in Runtimes

AdapterStep(g) ==
    \/ \E k \in Kits : CreateKit(g, k) \/ KitRefused(g, k)
    \/ Discovered(g) \/ ConnectThrows(g) \/ ConnectRejects(g)
    \/ \E exact \in BOOLEAN : AnswerFilters(g, exact)
    \/ \E step \in Steps : ReportStep(g, step)
    \/ SignThrows(g)

OperatorNext ==
    \/ \E g \in Adapters :
          \/ Initialize(g) \/ Approved(g)
          \/ AdapterStep(g) /\ UNCHANGED pageVars
          \/ \E address \in Addresses : Connected(g, address)
    \/ \E k \in Kits : CloseKit(k) /\ UNCHANGED pageVars
    \/ Mount \/ RerunEffect \/ Unmount \/ InitializeFails \/ ProbeFails
    \/ ClickConnect \/ ClickPrepare \/ ClickApprove \/ ClickConsume \/ EditClearance
    \/ \E request \in Prepared : HandOff(request)
    \/ \E call \in calls :
          \/ PrepareReturned(call) \/ ConsumeReturned(call) \/ CallLost(call)
          \/ ServeConsume(call)
          \/ \E request \in Prepared : ServePrepare(call, request)

OperatorSpec == OperatorInit /\ [][OperatorNext]_operatorVars

-----------------------------------------------------------------------------
(* Every signature that reached the page was shown on the device in clear: *)
(* when signing was reported, the last answer since the attempt began had  *)
(* resolved the exact descriptor, the full typed-data path was taken, and  *)
(* the device that approved is the one the request authorizes, although    *)
(* fields are read again after the device answered.                        *)
SignaturesAreClear ==
    page.signature # None =>
        /\ page.signature.clear
        /\ RequiredSteps \subseteq page.signature.steps
        /\ "SIGN_TYPED_DATA_LEGACY" \notin page.signature.steps
        /\ page.signature.signer = AuthorizedSigner[page.signature.request]
        /\ Transport = "SPECULOS" => runtime.environment # "production"

(* A call or an answer that mixes one request with the signature of        *)
(* another, which overlapping handlers produce, authorizes nothing: what   *)
(* is shown as authorized was consumed with its own approval.              *)
MixedHandlersAuthorizeNothing ==
    /\ page.result # None => rows[page.result] = "CONSUMED"
    /\ \A call \in calls :
          call.kind = "CONSUME" /\ call.served = "AUTHORIZED" =>
              call.approval.request = call.request /\ rows[call.request] = "CONSUMED"

(* No adapter loses track of a device connection: an open kit is the kit   *)
(* of exactly one adapter across reconnects, failures and disconnects in   *)
(* the middle of a connect.  (A page that left may have dropped its        *)
(* adapter; the kit of a connect it did not await then stays that one's.)  *)
OpenKitsAreHeld ==
    \A k \in Kits : kits[k] = "OPEN" => Cardinality({g \in Adapters : adapter[g].dmk = k}) = 1
=============================================================================

------------------------------- MODULE Subgraph -------------------------------
(***************************************************************************)
(* The event index of the registry (integrations/the-graph/subgraph) and   *)
(* the provider that compares a clearance document with it                 *)
(* (apps/api/src/graph/provider.ts).                                       *)
(*                                                                         *)
(* Several indexers serve the gateway; each handles sealed blocks one by   *)
(* one, at its own pace, and a query is answered by any of them.  The      *)
(* events of a block are read off the difference between two blocks, since *)
(* recordClearance and revokeClearance each emit once per digest.  The     *)
(* robot build digest, which the first of a record's two events carries,   *)
(* is counted with the content that the second carries: both belong to one *)
(* transaction, and no query is answered within a block.                   *)
(***************************************************************************)
EXTENDS ReleaseGate

CONSTANT Indexers

VARIABLES
    head,     \* indexer -> number of sealed blocks it has handled
    entities  \* indexer -> digest -> Clearance entity

subgraphVars == <<head, entities>>

NoEntity == [block |-> 0]

Entity == [id : OrZero(Ids), content : OrZero(Contents), issuedAt : Nat, expiresAt : Nat,
           verdict : Verdicts, issuer : OrZero(Accounts), revoked : BOOLEAN, block : Nat]

SubgraphTypeOK ==
    /\ head \in [Indexers -> Nat]
    /\ entities \in [Indexers -> [Digests -> {NoEntity} \cup Entity]]

-----------------------------------------------------------------------------
StatusAt(h, d) == IF h = 0 THEN "ABSENT" ELSE chain[h].clearances[d].status

RecordedIn(h, d) == StatusAt(h - 1, d) = "ABSENT" /\ StatusAt(h, d) # "ABSENT"
RevokedIn(h, d) == StatusAt(h - 1, d) # "REVOKED" /\ StatusAt(h, d) = "REVOKED"

GetOrCreate(entity) ==
    IF entity # NoEntity THEN entity
    ELSE [id |-> Zero, content |-> Zero, issuedAt |-> 0, expiresAt |-> 0,
          verdict |-> "NONE", issuer |-> Zero, revoked |-> FALSE, block |-> 0]

HandleClearanceRecorded(entity, c, h) ==
    [GetOrCreate(entity) EXCEPT !.id = c.bindings.id, !.verdict = c.verdict,
        !.issuer = c.issuer, !.issuedAt = c.bindings.issuedAt,
        !.expiresAt = c.bindings.expiresAt, !.block = h]

\* Mutant: the second event of a record starts a new entity.
HandleBindingsAfresh(entity, c, h) ==
    [GetOrCreate(NoEntity) EXCEPT !.content = c.bindings.content, !.block = h]

HandleClearanceBindingsRecorded(entity, c, h) ==
    [GetOrCreate(entity) EXCEPT !.content = c.bindings.content, !.block = h]

HandleClearanceRevoked(entity, h) ==
    [GetOrCreate(entity) EXCEPT !.revoked = TRUE, !.block = h]

\* The handlers a block triggers for one digest, in log order.
Handled(entity, h, d) ==
    LET c == chain[h].clearances[d]
        recorded == IF RecordedIn(h, d)
                    THEN HandleClearanceBindingsRecorded(
                            HandleClearanceRecorded(entity, c, h), c, h)
                    ELSE entity
    IN  IF RevokedIn(h, d) THEN HandleClearanceRevoked(recorded, h) ELSE recorded

IndexBlock(x) ==
    LET h == head[x] + 1
    IN  /\ h <= Len(chain)
        /\ head' = [head EXCEPT ![x] = h]
        /\ entities' = [entities EXCEPT ![x] =
              [d \in Digests |-> Handled(entities[x][d], h, d)]]

-----------------------------------------------------------------------------
SameBindings(entity, doc) ==
    /\ entity.id = doc.bindings.id
    /\ entity.content = doc.bindings.content
    /\ entity.issuedAt = doc.bindings.issuedAt
    /\ entity.expiresAt = doc.bindings.expiresAt
    /\ entity.verdict = "CLEAR"

\* Mutant: the provider does not look at the revoked flag.
ReadClearanceUnrevoked(x, doc, clock) ==
    LET entity == entities[x][doc.digest]
    IN  CASE entity = NoEntity -> "NOT_FOUND"
          [] entity # NoEntity /\ ~SameBindings(entity, doc) -> "MISMATCH"
          [] entity # NoEntity /\ SameBindings(entity, doc) ->
                IF entity.expiresAt <= clock THEN "EXPIRED" ELSE "MATCHED"

(* readClearance answered by indexer x when the server's own clock, which  *)
(* is not block time, shows clock.                                         *)
ReadClearance(x, doc, clock) ==
    LET entity == entities[x][doc.digest]
    IN  CASE entity = NoEntity -> "NOT_FOUND"
          [] entity # NoEntity /\ ~SameBindings(entity, doc) -> "MISMATCH"
          [] entity # NoEntity /\ SameBindings(entity, doc) ->
                IF entity.revoked THEN "REVOKED"
                ELSE IF entity.expiresAt <= clock THEN "EXPIRED" ELSE "MATCHED"

Clock == 0..MaxTime + 1  \* seconds the server's clock may show

-----------------------------------------------------------------------------
SubgraphInit ==
    /\ head = [x \in Indexers |-> 0]
    /\ entities = [x \in Indexers |-> [d \in Digests |-> NoEntity]]

\* The index over the contract alone; the release gate stays idle.
IndexNext ==
    \/ (Transact \/ SealBlock) /\ UNCHANGED subgraphVars
    \/ \E x \in Indexers : IndexBlock(x) /\ UNCHANGED vars

IndexSpec ==
    /\ Init /\ SubgraphInit
    /\ [][IndexNext]_<<vars, subgraphVars>>
    /\ \A x \in Indexers : WF_<<vars, subgraphVars>>(IndexBlock(x) /\ UNCHANGED vars)

-----------------------------------------------------------------------------
(* What an indexer holds after handling events one by one is what the      *)
(* contract held at its head: bindings, verdict, issuer and revocation of  *)
(* every digest, stamped with a block that touched it.                     *)
IndexAgrees ==
    \A x \in Indexers, d \in Digests :
        LET entity == entities[x][d]
        IN  /\ head[x] <= Len(chain)
            /\ (entity = NoEntity) <=> (StatusAt(head[x], d) = "ABSENT")
            /\ entity # NoEntity =>
                 LET c == chain[head[x]].clearances[d]
                 IN  /\ [id |-> entity.id, content |-> entity.content,
                         issuedAt |-> entity.issuedAt, expiresAt |-> entity.expiresAt]
                           = c.bindings
                     /\ entity.verdict = c.verdict /\ entity.issuer = c.issuer
                     /\ entity.revoked <=> (c.status = "REVOKED")
                     /\ entity.block \in 1..head[x]
                     /\ RecordedIn(entity.block, d) \/ RevokedIn(entity.block, d)

(* MATCHED is true of the block the indexer stands at: the document was    *)
(* then eligible in the registry whenever the server's clock is not behind *)
(* that block.  It says nothing of later blocks.                           *)
MatchedWasEligible ==
    \A x \in Indexers, doc \in Documents, clock \in Clock :
        ReadClearance(x, doc, clock) = "MATCHED" =>
            /\ head[x] > 0
            /\ chain[head[x]].timestamp <= clock => EligibleAt(head[x], doc)
            /\ doc.bindings.issuedAt <= chain[head[x]].timestamp

(* A sealed revocation is eventually what every indexer answers with, as   *)
(* long as indexers keep handling blocks.                                  *)
RevocationsAreIndexed ==
    \A x \in Indexers, doc \in Documents :
        (Len(chain) > 0 /\ StatusAt(Len(chain), doc.digest) = "REVOKED")
            ~> (\A clock \in Clock : ReadClearance(x, doc, clock) # "MATCHED")
=============================================================================

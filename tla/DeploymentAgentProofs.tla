------------------------- MODULE DeploymentAgentProofs -------------------------
(***************************************************************************)
(* What the event index and the deployment agent guarantee for any number  *)
(* of indexers, concurrent runs, callers, accounts and clearances, and any *)
(* bound on model retries; and what an answer of the catalog is, for every *)
(* catalog and text.                                                       *)
(***************************************************************************)
EXTENDS DeploymentAgent, ReleaseGateProofs, FiniteSetTheorems

USE RegistryAssumption, ReleaseAssumption, AgentAssumption DEF OrZero, OrNone

-----------------------------------------------------------------------------
(* The index.  Blocks are sealed over validated records, so a record is    *)
(* never dated after a block that shows it.                                *)
BlocksValidated ==
    \A h \in 1..Len(chain), d \in OrZero(Digests) :
        chain[h].clearances[d].status # "ABSENT" =>
            chain[h].clearances[d].bindings.issuedAt <= chain[h].timestamp

\* IndexAgrees of one digest and one indexer, which stands at block h.
EntityAgrees(entity, h, d) ==
    /\ h <= Len(chain)
    /\ (entity = NoEntity) <=> (StatusAt(h, d) = "ABSENT")
    /\ entity # NoEntity =>
         LET c == chain[h].clearances[d]
         IN  /\ [id |-> entity.id, content |-> entity.content,
                 issuedAt |-> entity.issuedAt, expiresAt |-> entity.expiresAt]
                   = c.bindings
             /\ entity.verdict = c.verdict /\ entity.issuer = c.issuer
             /\ entity.revoked <=> (c.status = "REVOKED")
             /\ entity.block \in 1..h
             /\ RecordedIn(entity.block, d) \/ RevokedIn(entity.block, d)

IndexInv ==
    /\ GateInv
    /\ SubgraphTypeOK
    /\ BlocksValidated
    /\ IndexAgrees

LEMMA IndexAgreesPointwise ==
    IndexAgrees <=> \A x \in Indexers, d \in Digests :
                       EntityAgrees(entities[x][d], head[x], d)
BY DEF IndexAgrees, EntityAgrees

LEMMA BlocksValidatedStep ==
    ASSUME GateInv, BlocksValidated, [Next]_vars
    PROVE  BlocksValidated'
<1> SUFFICES ASSUME NEW h \in 1..Len(chain'), NEW d \in OrZero(Digests),
                    chain'[h].clearances[d].status # "ABSENT"
             PROVE  chain'[h].clearances[d].bindings.issuedAt <= chain'[h].timestamp
  BY DEF BlocksValidated
<1>1. GateTypeOK /\ RegistryInv /\ chain \in Seq(Block) /\ Pending \in Block
  BY PendingIsBlock DEF GateInv, GateTypeOK
<1>2. CASE h \in 1..Len(chain)
  BY <1>1, <1>2, BlocksStay DEF BlocksValidated
<1>3. CASE h \notin 1..Len(chain)
  <2>1. chain' = Append(chain, Pending) /\ h = Len(chain) + 1
    BY <1>1, <1>3, ChainGrows
  <2>2. chain'[h] = Pending
    BY <1>1, <2>1
  <2> QED BY <1>1, <2>2 DEF Pending, RegistryInv, RecordedIsValidated, Exists
<1> QED BY <1>2, <1>3

(* What a sealed block says about a digest no later step changes.          *)
LEMMA StatusStays ==
    ASSUME GateInv, [Next]_vars, NEW h \in 0..Len(chain), NEW d
    PROVE  StatusAt(h, d)' = StatusAt(h, d)
<1>1. h # 0 => h \in 1..Len(chain) /\ chain'[h] = chain[h]
  BY BlocksStay DEF GateInv
<1> QED BY <1>1 DEF StatusAt

LEMMA EntityStays ==
    ASSUME GateInv, [Next]_vars, NEW entity, NEW h \in Nat, NEW d,
           EntityAgrees(entity, h, d)
    PROVE  EntityAgrees(entity, h, d)'
<1>1. /\ Len(chain) \in Nat /\ Len(chain') \in Nat /\ Len(chain) <= Len(chain')
      /\ \A k \in 1..Len(chain) : chain'[k] = chain[k]
      /\ h <= Len(chain)
  BY BlocksStay DEF GateInv, EntityAgrees
<1>2. \A k \in 0..Len(chain) : StatusAt(k, d)' = StatusAt(k, d)
  BY StatusStays
<1>3. (entity = NoEntity) <=> StatusAt(h, d)' = "ABSENT"
  BY <1>1, <1>2 DEF EntityAgrees
<1>4. ASSUME entity # NoEntity
      PROVE  /\ h \in 1..Len(chain) /\ entity.block \in 1..h
             /\ chain'[h] = chain[h]
             /\ RecordedIn(entity.block, d) => RecordedIn(entity.block, d)'
             /\ RevokedIn(entity.block, d) => RevokedIn(entity.block, d)'
  <2>1. h \in 1..Len(chain) /\ entity.block \in 1..h
    BY <1>1, <1>4 DEF EntityAgrees
  <2>2. entity.block \in 0..Len(chain) /\ entity.block - 1 \in 0..Len(chain)
    BY <1>1, <2>1
  <2>3. PICK b : b = entity.block
    OBVIOUS
  <2>4. StatusAt(b, d)' = StatusAt(b, d) /\ StatusAt(b - 1, d)' = StatusAt(b - 1, d)
    BY <1>2, <2>2, <2>3
  <2> QED BY <1>1, <2>1, <2>3, <2>4 DEF RecordedIn, RevokedIn
<1>5. h <= Len(chain')
  BY <1>1
<1> QED BY <1>3, <1>4, <1>5 DEF EntityAgrees

\* The entity and the head of an indexer after a step, named apart from the state.
LEMMA EntityHolds ==
    ASSUME NEW x \in Indexers, NEW d \in Digests, NEW entity, NEW h,
           entity = entities'[x][d], h = head'[x], EntityAgrees(entity, h, d)'
    PROVE  EntityAgrees(entities[x][d], head[x], d)'
<1>1. /\ h <= Len(chain')
      /\ (entity = NoEntity) <=> (StatusAt(h, d)' = "ABSENT")
      /\ entity # NoEntity =>
           /\ [id |-> entity.id, content |-> entity.content,
               issuedAt |-> entity.issuedAt, expiresAt |-> entity.expiresAt]
                 = chain'[h].clearances[d].bindings
           /\ entity.verdict = chain'[h].clearances[d].verdict
           /\ entity.issuer = chain'[h].clearances[d].issuer
           /\ entity.revoked <=> (chain'[h].clearances[d].status = "REVOKED")
           /\ entity.block \in 1..h
           /\ RecordedIn(entity.block, d)' \/ RevokedIn(entity.block, d)'
  BY DEF EntityAgrees
<1>2. StatusAt(h, d)' = StatusAt(head[x], d)'
  BY DEF StatusAt
<1>3. /\ RecordedIn(entity.block, d)' => RecordedIn(entities[x][d].block, d)'
      /\ RevokedIn(entity.block, d)' => RevokedIn(entities[x][d].block, d)'
  BY DEF RecordedIn, RevokedIn, StatusAt
<1> QED BY <1>1, <1>2, <1>3 DEF EntityAgrees

LEMMA IndexUnmoved ==
    ASSUME IndexInv, [Next]_vars, UNCHANGED subgraphVars
    PROVE  IndexInv'
<1> USE DEF IndexInv
<1>1. GateInv' /\ BlocksValidated'
  BY GateStep, BlocksValidatedStep
<1>2. head' = head /\ entities' = entities /\ SubgraphTypeOK'
  BY DEF subgraphVars, SubgraphTypeOK
<1>3. ASSUME NEW x \in Indexers, NEW d \in Digests
      PROVE  EntityAgrees(entities[x][d], head[x], d)'
  <2>0. PICK h \in Nat : h = head[x]
    BY DEF SubgraphTypeOK
  <2>1. PICK entity : entity = entities[x][d] /\ h = head[x]
    BY <2>0
  <2>2. EntityAgrees(entity, h, d)
    BY <2>1, IndexAgreesPointwise
  <2>3. EntityAgrees(entity, h, d)'
    BY <2>2, EntityStays
  <2> QED BY <1>2, <2>1, <2>3, EntityHolds
<1>4. IndexAgrees'
  BY <1>3 DEF IndexAgrees, EntityAgrees
<1> QED BY <1>1, <1>2, <1>4
-----------------------------------------------------------------------------
(* What one block's events make of an entity.                              *)
LEMMA HandledAgrees ==
    ASSUME IndexInv, NEW d \in Digests, NEW h \in 1..Len(chain),
           NEW entity \in {NoEntity} \cup Entity, EntityAgrees(entity, h - 1, d)
    PROVE  /\ EntityAgrees(Handled(entity, h, d), h, d)
           /\ Handled(entity, h, d) \in {NoEntity} \cup Entity
<1> DEFINE c == chain[h].clearances[d]
           b == chain[h - 1].clearances[d]
<1>1. h \in Nat /\ h # 0 /\ h - 1 \in Nat /\ Len(chain) \in Nat /\ h <= Len(chain)
  BY DEF IndexInv, GateInv, GateTypeOK
<1>2. c \in Clearance /\ c.bindings \in Bindings
  <2>1. chain[h] \in Block
    BY DEF IndexInv, GateInv, GateTypeOK
  <2>2. c \in Clearance
    BY <2>1 DEF Block
  <2> QED BY <2>2 DEF Clearance
<1>3. StatusAt(h, d) = c.status /\ c.status \in {"ABSENT", "RECORDED", "REVOKED"}
  BY <1>1, <1>2 DEF StatusAt, Clearance
<1>4. /\ StatusAt(h - 1, d) \in {"ABSENT", "RECORDED", "REVOKED"}
      /\ StatusAt(h - 1, d) # "ABSENT" =>
            /\ c.bindings = b.bindings /\ c.verdict = b.verdict /\ c.issuer = b.issuer
            /\ c.status \in {b.status, "REVOKED"} /\ StatusAt(h - 1, d) = b.status
  <2>1. CASE h - 1 = 0
    BY <2>1 DEF StatusAt
  <2>2. CASE h - 1 # 0
    <3>1. h - 1 \in 1..Len(chain) /\ StatusAt(h - 1, d) = b.status
      BY <1>1, <2>2 DEF StatusAt
    <3>2. Keeps(chain[h - 1], chain[h])
      BY <1>1, <3>1 DEF IndexInv, GateInv, ChainInv
    <3>3. chain[h - 1] \in Block
      BY <3>1 DEF IndexInv, GateInv, GateTypeOK
    <3>4. b.status \in {"ABSENT", "RECORDED", "REVOKED"}
      BY <3>3 DEF Block, Clearance
    <3> QED BY <3>1, <3>2, <3>4 DEF Keeps
  <2> QED BY <2>1, <2>2
<1> HIDE DEF c, b
<1>5. /\ c.bindings.id \in OrZero(Ids) /\ c.bindings.content \in OrZero(Contents)
      /\ c.bindings.issuedAt \in Nat /\ c.bindings.expiresAt \in Nat
      /\ c.verdict \in Verdicts /\ c.issuer \in OrZero(Accounts)
  BY <1>2 DEF Bindings, Clearance
<1>6. CASE StatusAt(h - 1, d) = "ABSENT" /\ c.status = "ABSENT"
  <2>1. entity = NoEntity /\ Handled(entity, h, d) = entity
    BY <1>3, <1>6 DEF EntityAgrees, Handled, RecordedIn, RevokedIn
  <2> QED BY <1>1, <1>3, <1>6, <2>1 DEF EntityAgrees
<1>7. CASE StatusAt(h - 1, d) = "ABSENT" /\ c.status # "ABSENT"
  <2> DEFINE blank == [id |-> Zero, content |-> Zero, issuedAt |-> 0, expiresAt |-> 0,
                       verdict |-> "NONE", issuer |-> Zero, revoked |-> FALSE, block |-> 0]
             first == [blank EXCEPT !.id = c.bindings.id, !.verdict = c.verdict,
                          !.issuer = c.issuer, !.issuedAt = c.bindings.issuedAt,
                          !.expiresAt = c.bindings.expiresAt, !.block = h]
             second == [first EXCEPT !.content = c.bindings.content, !.block = h]
             third == [second EXCEPT !.revoked = TRUE, !.block = h]
             Carries(e) == /\ e \in Entity /\ e.block = h /\ e.id = c.bindings.id
                           /\ e.issuedAt = c.bindings.issuedAt
                           /\ e.expiresAt = c.bindings.expiresAt
                           /\ e.verdict = c.verdict /\ e.issuer = c.issuer
  <2>1. entity = NoEntity /\ RecordedIn(h, d)
    BY <1>3, <1>7 DEF EntityAgrees, RecordedIn
  <2>2. blank \in Entity
    BY DEF Entity, Verdicts
  <2>3. Carries(first) /\ first.revoked = FALSE
    BY <1>1, <1>5, <2>2 DEF Entity
  <2>4. HandleClearanceRecorded(entity, c, h) = first
    BY <2>1 DEF HandleClearanceRecorded, GetOrCreate
  <2> HIDE DEF first
  <2>5. Carries(second) /\ second.revoked = FALSE /\ second.content = c.bindings.content
    BY <1>1, <1>5, <2>3 DEF Entity
  <2>6. HandleClearanceBindingsRecorded(first, c, h) = second
    <3>1. first # NoEntity
      BY <1>1, <2>3 DEF NoEntity
    <3> QED BY <3>1 DEF HandleClearanceBindingsRecorded, GetOrCreate
  <2> HIDE DEF second
  <2>7. Carries(third) /\ third.revoked = TRUE /\ third.content = c.bindings.content
    BY <1>1, <2>5 DEF Entity
  <2>8. HandleClearanceRevoked(second, h) = third
    <3>1. second # NoEntity
      BY <1>1, <2>5 DEF NoEntity
    <3> QED BY <3>1 DEF HandleClearanceRevoked, GetOrCreate
  <2> HIDE DEF third
  <2>9. Handled(entity, h, d) = IF RevokedIn(h, d) THEN third ELSE second
    BY <2>1, <2>4, <2>6, <2>8 DEF Handled, c
  <2>10. RevokedIn(h, d) <=> c.status = "REVOKED"
    BY <1>3, <1>7 DEF RevokedIn
  <2>11. PICK e : e = Handled(entity, h, d)
    OBVIOUS
  <2>12. /\ Carries(e) /\ e.content = c.bindings.content
         /\ e.revoked <=> (c.status = "REVOKED")
    BY <2>5, <2>7, <2>9, <2>10, <2>11
  <2>13. [id |-> e.id, content |-> e.content, issuedAt |-> e.issuedAt,
          expiresAt |-> e.expiresAt] = c.bindings
    BY <1>2, <2>12 DEF Bindings
  <2>14. e # NoEntity
    BY <1>1, <2>12 DEF NoEntity
  <2>15. EntityAgrees(e, h, d)
    BY <1>1, <1>3, <1>7, <2>1, <2>12, <2>13, <2>14 DEF EntityAgrees, c
  <2> QED BY <2>11, <2>12, <2>15
<1>8. CASE StatusAt(h - 1, d) # "ABSENT"
  <2>1. /\ entity # NoEntity /\ entity \in Entity /\ ~RecordedIn(h, d)
        /\ h - 1 # 0
    BY <1>8 DEF EntityAgrees, RecordedIn, StatusAt
  <2>2. /\ [id |-> entity.id, content |-> entity.content,
            issuedAt |-> entity.issuedAt, expiresAt |-> entity.expiresAt] = c.bindings
        /\ entity.verdict = c.verdict /\ entity.issuer = c.issuer
        /\ entity.revoked <=> (StatusAt(h - 1, d) = "REVOKED")
        /\ entity.block \in 1..(h - 1)
        /\ RecordedIn(entity.block, d) \/ RevokedIn(entity.block, d)
    BY <1>4, <1>8, <2>1 DEF EntityAgrees, b
  <2>3. entity.block \in 1..h
    BY <1>1, <2>2
  <2>4. CASE ~RevokedIn(h, d)
    <3>1. Handled(entity, h, d) = entity
      BY <2>1, <2>4 DEF Handled
    <3>2. c.status = StatusAt(h - 1, d)
      BY <1>3, <1>4, <1>8, <2>4 DEF RevokedIn
    <3>3. EntityAgrees(entity, h, d)
      BY <1>1, <1>3, <1>8, <2>1, <2>2, <2>3, <3>2 DEF EntityAgrees, c
    <3> QED BY <2>1, <3>1, <3>3
  <2>5. CASE RevokedIn(h, d)
    <3> DEFINE e == [entity EXCEPT !.revoked = TRUE, !.block = h]
    <3>1. Handled(entity, h, d) = e
      BY <2>1, <2>5 DEF Handled, HandleClearanceRevoked, GetOrCreate
    <3>2. /\ e.id = entity.id /\ e.content = entity.content
          /\ e.issuedAt = entity.issuedAt /\ e.expiresAt = entity.expiresAt
          /\ e.verdict = entity.verdict /\ e.issuer = entity.issuer
          /\ e.revoked = TRUE /\ e.block = h /\ e \in Entity
      BY <1>1, <2>1 DEF Entity
    <3> HIDE DEF e
    <3>3. e # NoEntity
      BY <1>1, <3>2 DEF NoEntity
    <3>4. c.status = "REVOKED"
      BY <1>3, <2>5 DEF RevokedIn
    <3>5. EntityAgrees(e, h, d)
      BY <1>1, <1>3, <2>2, <2>5, <3>2, <3>3, <3>4 DEF EntityAgrees, c
    <3> QED BY <3>1, <3>2, <3>5
  <2> QED BY <2>4, <2>5
<1> QED BY <1>3, <1>4, <1>6, <1>7, <1>8

LEMMA IndexMoves ==
    ASSUME IndexInv, NEW x \in Indexers, IndexBlock(x), UNCHANGED vars
    PROVE  IndexInv'
<1> USE DEF IndexInv
<1>1. GateInv' /\ BlocksValidated' /\ chain' = chain
  BY GateStep, BlocksValidatedStep DEF vars, gateVars
<1>2. PICK h : h = head[x] + 1
  OBVIOUS
<1>3. /\ h \in 1..Len(chain) /\ h - 1 = head[x] /\ head[x] \in Nat
      /\ head' = [head EXCEPT ![x] = h]
      /\ entities' = [entities EXCEPT ![x] = [d \in Digests |-> Handled(entities[x][d], h, d)]]
  <2>1. head[x] \in Nat /\ Len(chain) \in Nat
    BY DEF SubgraphTypeOK, GateInv, GateTypeOK
  <2> QED BY <1>2, <2>1 DEF IndexBlock
<1>4. ASSUME NEW d \in Digests
      PROVE  /\ EntityAgrees(Handled(entities[x][d], h, d), h, d)
             /\ Handled(entities[x][d], h, d) \in {NoEntity} \cup Entity
  <2>1. PICK entity \in {NoEntity} \cup Entity : entity = entities[x][d]
    BY DEF SubgraphTypeOK
  <2>2. EntityAgrees(entity, h - 1, d)
    BY <1>3, <2>1, IndexAgreesPointwise
  <2> QED BY <1>3, <2>1, <2>2, HandledAgrees
<1>5. [d \in Digests |-> Handled(entities[x][d], h, d)] \in [Digests -> {NoEntity} \cup Entity]
  BY <1>4
<1>6. SubgraphTypeOK'
  BY <1>3, <1>5 DEF SubgraphTypeOK
<1>7. ASSUME NEW y \in Indexers, NEW d \in Digests
      PROVE  EntityAgrees(entities[y][d], head[y], d)'
  <2>1. CASE y # x
    <3>1. entities'[y] = entities[y] /\ head'[y] = head[y]
      BY <1>3, <2>1 DEF SubgraphTypeOK
    <3>2. EntityAgrees(entities[y][d], head[y], d)
      BY IndexAgreesPointwise
    <3>3. PICK entity, k : entity = entities[y][d] /\ k = head[y]
      OBVIOUS
    <3>4. k \in Nat /\ EntityAgrees(entity, k, d)
      BY <3>2, <3>3 DEF SubgraphTypeOK
    <3>5. [Next]_vars
      BY DEF vars
    <3> QED BY <3>1, <3>3, <3>4, <3>5, EntityStays, EntityHolds
  <2>2. CASE y = x
    <3>1. entities'[y][d] = Handled(entities[x][d], h, d) /\ head'[y] = h
      BY <1>3, <2>2 DEF SubgraphTypeOK
    <3>2. PICK entity : entity = Handled(entities[x][d], h, d)
      OBVIOUS
    <3>3. EntityAgrees(entity, h, d)
      BY <1>4, <3>2
    <3>4. [Next]_vars /\ h \in Nat
      BY <1>3 DEF vars
    <3>5. EntityAgrees(entity, h, d)'
      BY <3>3, <3>4, EntityStays
    <3> QED BY <3>1, <3>2, <3>5, EntityHolds
  <2> QED BY <2>1, <2>2
<1>8. IndexAgrees'
  BY <1>7 DEF IndexAgrees, EntityAgrees
<1> QED BY <1>1, <1>6, <1>8

LEMMA IndexInitially == Init /\ SubgraphInit => IndexInv
<1> SUFFICES ASSUME Init, SubgraphInit PROVE IndexInv
  OBVIOUS
<1>1. GateInv
  BY GateInit
<1>2. SubgraphTypeOK /\ IndexAgrees
  BY DEF SubgraphInit, SubgraphTypeOK, IndexAgrees, StatusAt, Init
<1>3. BlocksValidated
  BY DEF Init, BlocksValidated
<1> QED BY <1>1, <1>2, <1>3 DEF IndexInv

(* Every step of the index over the contract is a step of the gate that    *)
(* leaves the index alone, or a block handled.                             *)
LEMMA IndexStep == IndexInv /\ [IndexNext]_<<vars, subgraphVars>> => IndexInv'
<1> SUFFICES ASSUME IndexInv, [IndexNext]_<<vars, subgraphVars>> PROVE IndexInv'
  OBVIOUS
<1>1. CASE (Transact \/ SealBlock) /\ UNCHANGED subgraphVars
  BY <1>1, IndexUnmoved DEF Next
<1>2. CASE \E x \in Indexers : IndexBlock(x) /\ UNCHANGED vars
  BY <1>2, IndexMoves
<1>3. CASE UNCHANGED <<vars, subgraphVars>>
  BY <1>3, IndexUnmoved
<1> QED BY <1>1, <1>2, <1>3 DEF IndexNext

(* The invariant of the index over the chain: every indexer, however far   *)
(* behind, stands at a sealed block and holds what that block records.     *)
THEOREM IndexInvariant == IndexSpec => []IndexInv
BY IndexInitially, IndexStep, PTL DEF IndexSpec

(* An event index rebuilds the registry: after any number of records and   *)
(* revocations an indexer's entities are the registry of its own block.    *)
THEOREM IndexFollowsRegistry == IndexSpec => []IndexAgrees
<1>1. IndexInv => IndexAgrees
  BY DEF IndexInv
<1> QED BY <1>1, IndexInvariant, PTL

LEMMA MatchedIsEligible ==
    ASSUME IndexInv, NEW x \in Indexers, NEW doc \in Documents, NEW clock \in Clock,
           ReadClearance(x, doc, clock) = "MATCHED"
    PROVE  /\ head[x] \in 1..Len(chain)
           /\ chain[head[x]].clearances[doc.digest].status = "RECORDED"
           /\ chain[head[x]].timestamp <= clock => EligibleAt(head[x], doc)
           /\ doc.bindings.issuedAt <= chain[head[x]].timestamp
<1> DEFINE entity == entities[x][doc.digest]
           h == head[x]
           c == chain[h].clearances[doc.digest]
<1>1. doc.digest \in Digests /\ doc.bindings \in Bindings
  OBVIOUS
<1>2. /\ entity # NoEntity /\ SameBindings(entity, doc)
      /\ entity.revoked = FALSE /\ ~(entity.expiresAt <= clock)
  BY <1>1 DEF ReadClearance, IndexInv, SubgraphTypeOK, Entity
<1>3. EntityAgrees(entity, h, doc.digest) /\ h \in Nat /\ Len(chain) \in Nat
  BY <1>1, IndexAgreesPointwise DEF IndexInv, SubgraphTypeOK, GateInv, GateTypeOK
<1> HIDE DEF entity, h
<1>4. h \in 1..Len(chain) /\ StatusAt(h, doc.digest) = c.status
  BY <1>2, <1>3 DEF EntityAgrees, StatusAt
<1>5. /\ c.bindings = doc.bindings /\ c.verdict = "CLEAR"
      /\ c.status # "REVOKED" /\ c.status # "ABSENT"
  <2>1. [id |-> doc.bindings.id, content |-> doc.bindings.content,
         issuedAt |-> doc.bindings.issuedAt, expiresAt |-> doc.bindings.expiresAt]
           = doc.bindings
    BY <1>1 DEF Bindings
  <2> QED BY <1>2, <1>3, <1>4, <2>1 DEF EntityAgrees, SameBindings
<1>6. c.status = "RECORDED"
  BY <1>1, <1>4, <1>5, BlockShape DEF IndexInv, GateInv, GateTypeOK, Block, Clearance
<1>7. chain[h].digestByIdHash[doc.bindings.id] = doc.digest
  <2>1. Keeps(chain[h], chain[h])
    BY <1>3, <1>4 DEF IndexInv, GateInv, ChainInv
  <2> QED BY <1>1, <1>5, <2>1 DEF Keeps
<1>8. chain[h].timestamp \in Nat
  <2>1. chain[h] \in Block
    BY <1>4 DEF IndexInv, GateInv, GateTypeOK
  <2> QED BY <2>1 DEF Block
<1>9. chain[h].timestamp <= clock => EligibleAt(h, doc)
  <2>1. doc.bindings.expiresAt \in Nat /\ clock \in Nat /\ entity.expiresAt = doc.bindings.expiresAt
    BY <1>1, <1>2 DEF Bindings, Clock, SameBindings
  <2> QED BY <1>2, <1>5, <1>6, <1>7, <1>8, <2>1 DEF EligibleAt, IsValidAt
<1>10. doc.bindings.issuedAt <= chain[h].timestamp
  BY <1>1, <1>4, <1>5 DEF IndexInv, BlocksValidated
<1> QED BY <1>4, <1>6, <1>9, <1>10 DEF h

(* What the Graph answers MATCHED for is of a sealed block that had begun  *)
(* the clearance's window, and was eligible there unless the clock of the  *)
(* host is behind that block.                                              *)
THEOREM MatchedDocumentsWereEligible == IndexSpec => []MatchedWasEligible
<1>1. IndexInv => MatchedWasEligible
  BY MatchedIsEligible DEF MatchedWasEligible
<1> QED BY <1>1, IndexInvariant, PTL

-----------------------------------------------------------------------------
(* The agent.  RunAt is about one run(): what the Graph and the registry   *)
(* showed it, how far it must have come to be shown that, the row that its *)
(* prepared nonce names, and what the stored attempt and the history say   *)
(* of it.  NonceAt says whom a nonce reached.                              *)
RecordedAt(h, d) == h \in 1..Len(chain) /\ chain[h].clearances[d].status = "RECORDED"

PastRegistry == {"prepareDeploymentIntent", "PREPARE"}
PastGraph == PastRegistry \cup {"getClearance", "REGISTRY"}
Unprepared == PastGraph \cup {"resolveDeploymentTarget", "getDeploymentContext",
                              "getEvaluationStatus", "getGraphContext", "GRAPH"}

\* What a run q has been shown.
Shown(q) ==
    /\ q.indexed # 0 => RecordedAt(q.indexed, q.doc.digest)
    /\ q.inspected # 0 => RecordedAt(q.inspected, q.doc.digest) /\ q.verdict = "CLEAR"
    /\ q.phase \in PastGraph \/ q.nonce # NoNonce => (UsesGraph(q) => q.indexed # 0)
    /\ q.phase \in PastRegistry \/ q.nonce # NoNonce => q.inspected # 0
    /\ q.phase \in Unprepared => q.nonce = NoNonce
    /\ q.phase = "getLedgerAuthorizationStatus" => q.nonce # NoNonce

PrepareOf(q) == [phase |-> "PREPARE", doc |-> q.doc, tenant |-> q.tenant, signer |-> q.signer]

HasPrepared(q) == q \in Run /\ q.nonce # NoNonce

\* The row of a nonce that run q prepared.
RowOf(row, q) ==
    /\ row.state # "NONE"
    /\ row.doc = q.doc /\ row.tenant = q.tenant /\ row.signer = q.signer

Awaited(attempt) == attempt.final \in {"LEDGER_APPROVAL_REQUIRED", "AUTHORIZED"}

\* What the attempt and the history entry of run q say.
AttemptOf(q, attempt, entry) ==
    /\ Awaited(attempt) =>
         /\ HasPrepared(q) /\ attempt.prepared = q.nonce /\ attempt.tenant = q.tenant
    /\ attempt.final = "BLOCKED" => attempt.prepared = NoNonce
    /\ attempt.final = "AUTHORIZED" => q.phase = "DONE"
    /\ q.phase = "RETURNED" => attempt.final \in {"BLOCKED", "LEDGER_APPROVAL_REQUIRED"}
    /\ q.phase \notin {"RETURNED", "DONE"} => attempt = NoAttempt
    /\ q.phase # "DONE" => entry = "NONE"
    /\ entry = "LEDGER_APPROVAL_REQUIRED" => HasPrepared(q)
    /\ entry = "BLOCKED" => ~Awaited(attempt)

\* The nonce of run q reaches nobody: approval is not asked yet, or was refused.
Withheld(q, attempt, entry) ==
    /\ HasPrepared(q)
    /\ \/ q.phase = "getLedgerAuthorizationStatus"
       \/ attempt.final = "BLOCKED"
       \/ entry = "BLOCKED"

RunAt(a) ==
    LET q == runs[a]
    IN  /\ q \in Run => Shown(q)
        /\ q.phase = "PREPARE" => requests[a] = PrepareOf(q)
        /\ HasPrepared(q) => RowOf(rows[q.nonce], q)
        /\ AttemptOf(q, attempts[a], log[a])
        /\ attempts[a].final = "AUTHORIZED" => rows[q.nonce].state = "CONSUMED"
        /\ Withheld(q, attempts[a], log[a]) => delivered[q.nonce] = {}

NoncesDistinct ==
    \A a, b \in Attempts :
        HasPrepared(runs[a]) /\ HasPrepared(runs[b]) /\ runs[a].nonce = runs[b].nonce => a = b

NonceAt(n) ==
    /\ rows[n].state = "NONE" => delivered[n] = {}
    /\ rows[n].state = "CONSUMED" => delivered[n] # {}
    /\ rows[n].state # "NONE" /\ rows[n].tenant # NoTenant
          => delivered[n] \subseteq {rows[n].tenant}

\* Whoever consumes holds the prepared request.
ConsumersHold ==
    \A r \in Requests :
        requests[r].phase = "CONSUME" => delivered[requests[r].nonce] # {}

AgentInv ==
    /\ IndexInv
    /\ AgentTypeOK
    /\ \A a \in Attempts : RunAt(a)
    /\ NoncesDistinct
    /\ \A n \in Nonces : NonceAt(n)
    /\ ConsumersHold

-----------------------------------------------------------------------------
(* What later steps leave standing.                                        *)
LEMMA ActiveRun ==
    ASSUME AgentTypeOK, NEW a \in Attempts, runs[a].phase \notin {"UNUSED", "DONE"}
    PROVE  runs[a] \in Run
BY DEF AgentTypeOK, NoRun, RefusedRun

LEMMA RunShape ==
    ASSUME NEW q \in Run
    PROVE  /\ q.tries \in 1..MaxTries /\ q.route \in Routes /\ q.tenant \in OrNone(Tenants)
           /\ q.graph \in BOOLEAN /\ q.doc \in Documents /\ q.verdict \in {"CLEAR", "HOLD"}
           /\ q.signer \in Signers /\ q.indexed \in Nat /\ q.inspected \in Nat
           /\ q.nonce \in Nonces \cup {NoNonce} /\ q.doc.digest \in Digests
           /\ q.phase # "UNUSED"
BY DocumentShape DEF Run, Tools

LEMMA RecordedStays ==
    ASSUME GateInv, [Next]_vars, NEW h, NEW d, RecordedAt(h, d)
    PROVE  RecordedAt(h, d)'
BY BlocksStay DEF GateInv, RecordedAt

LEMMA RowOfStays ==
    ASSUME GateInv, [Next]_vars, NEW n \in Nonces, NEW q, RowOf(rows[n], q)
    PROVE  RowOf(rows'[n], q)
<1>1. CASE rows'[n] = rows[n]
  BY <1>1
<1>2. CASE rows'[n] # rows[n]
  <2>1. PICK r \in Requests, h \in DOMAIN chain :
           \/ PrepareFinish(r, h, n)
           \/ ConsumeFinish(r, h) /\ requests[r].nonce = n
    BY <1>2, RowWriters DEF GateInv
  <2>2. ConsumeFinish(r, h) /\ requests[r].nonce = n
    BY <2>1 DEF PrepareFinish, NoRow, RowOf
  <2>3. /\ rows'[n].state = "CONSUMED" /\ rows'[n].doc = rows[n].doc
        /\ rows'[n].tenant = rows[n].tenant /\ rows'[n].signer = rows[n].signer
    BY <2>2 DEF ConsumeFinish, GateInv, GateTypeOK
  <2> QED BY <2>3 DEF RowOf
<1> QED BY <1>1, <1>2

\* A run that was shown more or less than another, or nothing new.
LEMMA ShownStays ==
    ASSUME GateInv, [Next]_vars, NEW q, Shown(q)
    PROVE  Shown(q)'
BY RecordedStays DEF Shown, UsesGraph

\* A run after a step, named apart from the state.
LEMMA ShownHolds ==
    ASSUME NEW a \in Attempts, NEW p, p = runs'[a], Shown(p)'
    PROVE  Shown(runs[a])'
<1>1. (runs[a].indexed # 0 => RecordedAt(runs[a].indexed, runs[a].doc.digest))'
  BY DEF Shown, RecordedAt
<1>2. (runs[a].inspected # 0 =>
          RecordedAt(runs[a].inspected, runs[a].doc.digest) /\ runs[a].verdict = "CLEAR")'
  BY DEF Shown, RecordedAt
<1>3. (runs[a].phase \in PastGraph \/ runs[a].nonce # NoNonce =>
          (UsesGraph(runs[a]) => runs[a].indexed # 0))'
  BY DEF Shown, UsesGraph
<1>4. (/\ runs[a].phase \in PastRegistry \/ runs[a].nonce # NoNonce => runs[a].inspected # 0
       /\ runs[a].phase \in Unprepared => runs[a].nonce = NoNonce
       /\ runs[a].phase = "getLedgerAuthorizationStatus" => runs[a].nonce # NoNonce)'
  BY DEF Shown
<1> QED BY <1>1, <1>2, <1>3, <1>4 DEF Shown

\* A run that no one touches.
LEMMA RunStays ==
    ASSUME AgentInv, [Next]_vars, NEW a \in Attempts,
           runs'[a] = runs[a], attempts'[a] = attempts[a], log'[a] = log[a],
           runs[a].phase = "PREPARE" => requests'[a] = requests[a],
           Withheld(runs[a], attempts[a], log[a]) =>
               delivered'[runs[a].nonce] = delivered[runs[a].nonce]
    PROVE  RunAt(a)'
<1> DEFINE q == runs[a]
<1>1. RunAt(a) /\ GateInv /\ GateTypeOK
  BY DEF AgentInv, IndexInv, GateInv
<1>2. q \in Run => Shown(q)'
  BY <1>1, ShownStays DEF RunAt
<1>3. HasPrepared(q) => q.nonce \in Nonces
  BY RunShape DEF HasPrepared
<1>4. HasPrepared(q) => RowOf(rows'[q.nonce], q)
  BY <1>1, <1>3, RowOfStays DEF RunAt
<1>5. attempts[a].final = "AUTHORIZED" => rows'[q.nonce].state = "CONSUMED"
  BY <1>1, <1>3, ConsumedStays DEF RunAt, AttemptOf, Awaited
<1>6. /\ AttemptOf(q, attempts[a], log[a])
      /\ Withheld(q, attempts[a], log[a]) => delivered'[q.nonce] = {}
      /\ q.phase = "PREPARE" => requests'[a] = PrepareOf(q)
  BY <1>1 DEF RunAt
<1>7. PICK p, attempt, entry : p = q /\ attempt = attempts[a] /\ entry = log[a]
  OBVIOUS
<1>8. runs'[a] = p /\ attempts'[a] = attempt /\ log'[a] = entry
  BY <1>7
<1>9. p \in Run => Shown(p)'
  BY <1>1, <1>7, ShownStays DEF RunAt
<1>10. (runs[a] \in Run => Shown(runs[a]))'
  BY <1>8, <1>9, ShownHolds
<1> QED BY <1>4, <1>5, <1>6, <1>7, <1>8, <1>10
        DEF RunAt, HasPrepared, RowOf, PrepareOf, AttemptOf, Awaited, Withheld

LEMMA DistinctStays ==
    ASSUME NoncesDistinct,
           \A a \in Attempts : HasPrepared(runs'[a]) =>
               HasPrepared(runs[a]) /\ runs'[a].nonce = runs[a].nonce
    PROVE  NoncesDistinct'
BY DEF NoncesDistinct, HasPrepared

\* A step of run a alone, which hands nothing out and writes no row.
LEMMA LocalStep ==
    ASSUME AgentInv, [Next]_vars, IndexInv', AgentTypeOK', NEW a \in Attempts,
           UNCHANGED <<rows, delivered>>,
           \A r \in Requests :
               requests'[r] = requests[r] \/ (r = a /\ requests'[r].phase # "CONSUME"),
           \A b \in Attempts \ {a} :
               runs'[b] = runs[b] /\ attempts'[b] = attempts[b] /\ log'[b] = log[b],
           HasPrepared(runs'[a]) => HasPrepared(runs[a]) /\ runs'[a].nonce = runs[a].nonce,
           RunAt(a)'
    PROVE  AgentInv'
<1>1. ASSUME NEW b \in Attempts, b # a PROVE RunAt(b)'
  <2>1. requests'[b] = requests[b]
    BY <1>1
  <2> QED BY <1>1, <2>1, RunStays
<1>2. NoncesDistinct'
  BY DistinctStays DEF AgentInv
<1>3. \A n \in Nonces : NonceAt(n)'
  BY DEF AgentInv, NonceAt
<1>4. ConsumersHold'
  BY DEF AgentInv, ConsumersHold
<1> QED BY <1>1, <1>2, <1>3, <1>4 DEF AgentInv

\* A step of the gate or the index that no run takes.
LEMMA ForeignStep ==
    ASSUME AgentInv, [Next]_vars, IndexInv', AgentTypeOK',
           UNCHANGED <<runs, attempts, log>>,
           \A a \in Attempts : requests'[a] = requests[a],
           \A a \in Attempts : Withheld(runs[a], attempts[a], log[a]) =>
               delivered'[runs[a].nonce] = delivered[runs[a].nonce],
           \A n \in Nonces : NonceAt(n)',
           ConsumersHold'
    PROVE  AgentInv'
<1>1. \A a \in Attempts : RunAt(a)'
  BY RunStays
<1>2. NoncesDistinct'
  BY DistinctStays DEF AgentInv
<1> QED BY <1>1, <1>2 DEF AgentInv

-----------------------------------------------------------------------------
(* The steps of a run.  Phases it may still be in before it is answered.   *)
Asked == Unprepared \cup {"getLedgerAuthorizationStatus"}

\* What Advance leaves of a run.
SameRun(p, q) ==
    /\ p.route = q.route /\ p.tenant = q.tenant /\ p.graph = q.graph /\ p.doc = q.doc
    /\ p.verdict = q.verdict /\ p.signer = q.signer
    /\ p.indexed = q.indexed /\ p.inspected = q.inspected /\ p.nonce = q.nonce

LEMMA AdvanceShape ==
    ASSUME AgentTypeOK, NEW a \in Attempts, runs[a] \in Run,
           NEW phase \in Asked \cup {"RETURNED"}, Advance(a, phase)
    PROVE  /\ runs' \in [Attempts -> {NoRun, RefusedRun} \cup Run]
           /\ runs'[a] \in Run /\ runs'[a].phase = phase /\ SameRun(runs'[a], runs[a])
           /\ \A b \in Attempts \ {a} : runs'[b] = runs[b]
<1> DEFINE q == runs[a]
           p == [q EXCEPT !.phase = phase, !.tries = 1]
<1>1. phase \in Tools \cup {"GRAPH", "REGISTRY", "PREPARE", "RETURNED", "DONE", "LOST"}
  BY DEF Asked, Unprepared, PastGraph, PastRegistry, Tools
<1>2. 1 \in 1..MaxTries
  OBVIOUS
<1>3. p \in Run /\ p.phase = phase /\ SameRun(p, q)
  BY <1>1, <1>2 DEF Run, SameRun
<1>4. runs' = [runs EXCEPT ![a] = p]
  BY DEF Advance
<1> HIDE DEF p
<1> QED BY <1>3, <1>4 DEF AgentTypeOK

\* A run under way, which has prepared nothing yet.
LEMMA OngoingRun ==
    ASSUME AgentInv, [Next]_vars, IndexInv', NEW a \in Attempts,
           runs[a].phase \in Unprepared \cup {"UNUSED"},
           runs' \in [Attempts -> {NoRun, RefusedRun} \cup Run],
           \A b \in Attempts \ {a} : runs'[b] = runs[b],
           NEW p, p = runs'[a], p \in Run, p.phase \in Unprepared, Shown(p),
           p.phase = "PREPARE" => requests'[a] = PrepareOf(p),
           UNCHANGED <<rows, delivered, attempts, log>>,
           \A r \in Requests :
               requests'[r] = requests[r] \/ (r = a /\ requests'[r].phase # "CONSUME")
    PROVE  AgentInv'
<1>1. RunAt(a) /\ AgentTypeOK /\ GateInv
  BY DEF AgentInv, IndexInv
<1>2. runs'[a] = p /\ \A b \in Attempts \ {a} : runs'[b] = runs[b]
  OBVIOUS
<1>3. AgentTypeOK'
  BY <1>1 DEF AgentTypeOK
<1>4. attempts[a] = NoAttempt /\ log[a] = "NONE"
  BY <1>1 DEF RunAt, AttemptOf, Unprepared, PastGraph, PastRegistry
<1>5. p.nonce = NoNonce /\ ~HasPrepared(p)
  BY DEF Shown, HasPrepared
<1>6. Shown(p)'
  BY <1>1, ShownStays
<1>7. Shown(runs[a])'
  BY <1>2, <1>6, ShownHolds
<1>8. AttemptOf(p, NoAttempt, "NONE")
  BY DEF AttemptOf, Awaited, NoAttempt, Unprepared, PastGraph, PastRegistry
<1>9. RunAt(a)'
  BY <1>2, <1>4, <1>5, <1>7, <1>8
     DEF RunAt, AttemptOf, Awaited, HasPrepared, Withheld, NoAttempt, PrepareOf
<1> QED BY <1>1, <1>2, <1>3, <1>5, <1>9, LocalStep

\* A run that ends blocked.
LEMMA BlockedRun ==
    ASSUME AgentInv, [Next]_vars, IndexInv', NEW a \in Attempts,
           runs[a].phase \in Asked, BlockRun(a), UNCHANGED rows,
           \A r \in Requests :
               requests'[r] = requests[r] \/ (r = a /\ requests'[r].phase # "CONSUME")
    PROVE  AgentInv'
<1> DEFINE q == runs[a]
           blocked == [tenant |-> q.tenant, final |-> "BLOCKED", prepared |-> NoNonce]
<1>1. RunAt(a) /\ AgentTypeOK /\ GateInv
  BY DEF AgentInv, IndexInv
<1>2. q \in Run
  BY <1>1, ActiveRun DEF Asked, Unprepared, PastGraph, PastRegistry
<1>3. /\ runs' \in [Attempts -> {NoRun, RefusedRun} \cup Run]
      /\ runs'[a] \in Run /\ runs'[a].phase = "RETURNED" /\ SameRun(runs'[a], q)
      /\ \A b \in Attempts \ {a} : runs'[b] = runs[b]
  BY <1>1, <1>2, AdvanceShape DEF BlockRun
<1>4. /\ attempts' = [attempts EXCEPT ![a] = blocked]
      /\ delivered' = delivered /\ log' = log
  BY DEF BlockRun, StoreBlocked
<1>5. blocked \in Attempt
  BY <1>2, RunShape DEF Attempt
<1>6. /\ attempts'[a] = blocked
      /\ attempts' \in [Attempts -> {NoAttempt} \cup Attempt]
      /\ \A b \in Attempts \ {a} : attempts'[b] = attempts[b]
  BY <1>1, <1>4, <1>5 DEF AgentTypeOK
<1>7. AgentTypeOK'
  BY <1>1, <1>3, <1>4, <1>6 DEF AgentTypeOK
<1>8. log[a] = "NONE"
  BY <1>1 DEF RunAt, AttemptOf, Asked, Unprepared, PastGraph, PastRegistry
<1>9. PICK p : p = runs'[a]
  OBVIOUS
<1>10. Shown(q)
  BY <1>1, <1>2 DEF RunAt
<1>11. Shown(p)
  BY <1>3, <1>9, <1>10 DEF Shown, SameRun, UsesGraph, Unprepared, PastGraph, PastRegistry
<1>12. Shown(p)'
  BY <1>1, <1>11, ShownStays
<1>13. Shown(runs[a])'
  BY <1>9, <1>12, ShownHolds
<1>14. HasPrepared(p) => HasPrepared(q) /\ p.nonce = q.nonce
  BY <1>2, <1>3, <1>9 DEF HasPrepared, SameRun
<1>15. HasPrepared(p) => RowOf(rows[p.nonce], p)
  BY <1>1, <1>3, <1>9, <1>14 DEF RunAt, RowOf, SameRun
<1>16. HasPrepared(p) => delivered[p.nonce] = {}
  <2> SUFFICES ASSUME HasPrepared(p) PROVE delivered[q.nonce] = {}
    BY <1>14
  <2>1. HasPrepared(q) /\ q.phase \notin Unprepared
    BY <1>10, <1>14 DEF Shown, HasPrepared
  <2>2. q.phase = "getLedgerAuthorizationStatus"
    BY <2>1 DEF Asked
  <2> QED BY <1>1, <2>1, <2>2 DEF RunAt, Withheld
<1>17. AttemptOf(p, blocked, "NONE")
  BY <1>3, <1>9 DEF AttemptOf, Awaited
<1>18. RunAt(a)'
  BY <1>3, <1>4, <1>6, <1>8, <1>9, <1>13, <1>15, <1>16, <1>17
     DEF RunAt, AttemptOf, Awaited, HasPrepared, Withheld, RowOf, PrepareOf
<1> QED BY <1>3, <1>4, <1>6, <1>7, <1>9, <1>14, <1>18, LocalStep

LEMMA IdleGate ==
    ASSUME AgentInv, GateIdle
    PROVE  /\ [Next]_vars /\ IndexInv'
           /\ UNCHANGED <<chain, policy, rows, requests, head, entities>>
<1>1. [Next]_vars /\ UNCHANGED subgraphVars
  BY DEF GateIdle
<1>2. IndexInv'
  BY <1>1, IndexUnmoved DEF AgentInv
<1>3. UNCHANGED <<chain, policy, rows, requests, head, entities>>
  BY DEF GateIdle, vars, gateVars, subgraphVars
<1> QED BY <1>1, <1>2, <1>3

LEMMA StartRunKeeps ==
    ASSUME AgentInv, NEW a \in Attempts, NEW route \in Routes, NEW tenant \in OrNone(Tenants),
           NEW graph \in BOOLEAN, NEW doc \in Documents, NEW verdict \in {"CLEAR", "HOLD"},
           NEW signer \in Signers, StartRun(a, route, tenant, graph, doc, verdict, signer)
    PROVE  AgentInv'
<1> DEFINE p == [phase |-> "resolveDeploymentTarget", tries |-> 1, route |-> route,
                 tenant |-> tenant, graph |-> graph, doc |-> doc, verdict |-> verdict,
                 signer |-> signer, indexed |-> 0, inspected |-> 0, nonce |-> NoNonce]
<1>1. p \in Run
  BY DEF Run, Tools
<1>2. p.phase \in Unprepared /\ p.phase # "PREPARE"
  BY DEF Unprepared
<1>3. Shown(p)
  BY DEF Shown, PastGraph, PastRegistry, Unprepared
<1>4. runs' = [runs EXCEPT ![a] = p] /\ runs[a].phase = "UNUSED"
  BY DEF StartRun, NoRun
<1>5. UNCHANGED <<attempts, delivered, log>> /\ GateIdle
  BY DEF StartRun
<1> HIDE DEF p
<1>6. /\ runs' \in [Attempts -> {NoRun, RefusedRun} \cup Run]
      /\ p = runs'[a] /\ \A b \in Attempts \ {a} : runs'[b] = runs[b]
  BY <1>1, <1>4 DEF AgentInv, AgentTypeOK
<1> QED BY <1>1, <1>2, <1>3, <1>4, <1>5, <1>6, IdleGate, OngoingRun

LEMMA RefuseRunKeeps ==
    ASSUME AgentInv, NEW a \in Attempts, NEW route \in Routes, NEW tenant \in OrNone(Tenants),
           RefuseRun(a, route, tenant)
    PROVE  AgentInv'
<1> DEFINE blocked == [tenant |-> tenant, final |-> "BLOCKED", prepared |-> NoNonce]
<1>1. RunAt(a) /\ AgentTypeOK
  BY DEF AgentInv
<1>2. /\ runs' = [runs EXCEPT ![a] = RefusedRun] /\ runs[a] = NoRun
      /\ log' = IF route = "RELEASES" THEN [log EXCEPT ![a] = "BLOCKED"] ELSE log
      /\ attempts' = [attempts EXCEPT ![a] = blocked] \/ attempts' = attempts
      /\ delivered' = delivered /\ GateIdle
  BY DEF RefuseRun, RecordReleaseAttempt, StoreBlocked
<1>3. /\ [Next]_vars /\ IndexInv'
      /\ UNCHANGED <<chain, policy, rows, requests, head, entities>>
  BY <1>2, IdleGate
<1>4. blocked \in Attempt
  BY DEF Attempt
<1> HIDE DEF blocked
<1>5. AgentTypeOK'
  BY <1>1, <1>2, <1>4 DEF AgentTypeOK
<1>6. attempts[a] = NoAttempt
  BY <1>1, <1>2 DEF RunAt, AttemptOf, NoRun
<1>7. /\ runs'[a] = RefusedRun /\ log'[a] \in {"NONE", "BLOCKED"}
      /\ attempts'[a] \in {NoAttempt, blocked}
      /\ \A b \in Attempts \ {a} : runs'[b] = runs[b] /\ attempts'[b] = attempts[b]
                                     /\ log'[b] = log[b]
  <2>1. log[a] = "NONE"
    BY <1>1, <1>2 DEF RunAt, AttemptOf, NoRun
  <2> QED BY <1>1, <1>2, <1>6, <2>1 DEF AgentTypeOK
<1>8. RefusedRun \notin Run
  BY DEF RefusedRun, Run
<1>9. ~HasPrepared(RefusedRun)
  BY <1>8 DEF HasPrepared
<1>10. /\ attempts'[a].final \in {"NONE", "BLOCKED"}
       /\ attempts'[a].final = "BLOCKED" => attempts'[a].prepared = NoNonce
  BY <1>7 DEF blocked, NoAttempt
<1>11. RunAt(a)'
  BY <1>7, <1>8, <1>9, <1>10 DEF RunAt, AttemptOf, Awaited, Withheld, HasPrepared, RefusedRun
<1> QED BY <1>2, <1>3, <1>5, <1>7, <1>9, <1>11, LocalStep

LEMMA CallToolKeeps ==
    ASSUME AgentInv, NEW a \in Attempts, CallTool(a)
    PROVE  AgentInv'
<1> DEFINE q == runs[a]
<1>1. RunAt(a) /\ AgentTypeOK /\ GateIdle
  BY DEF AgentInv, CallTool
<1>2. q.phase \in {"resolveDeploymentTarget", "getDeploymentContext",
                   "getEvaluationStatus", "getGraphContext", "getClearance"}
  BY DEF CallTool
<1>3. q \in Run /\ q.phase \in Unprepared
  BY <1>1, <1>2, ActiveRun DEF Unprepared, PastGraph
<1>4. CASE BlockRun(a)
  BY <1>1, <1>3, <1>4, IdleGate, BlockedRun DEF Asked
<1>5. CASE /\ ~(q.phase = "getGraphContext" /\ ~q.graph)
           /\ Advance(a, After(q.phase, q))
           /\ UNCHANGED <<attempts, delivered, log>>
  <2>1. PICK phase : phase = After(q.phase, q)
    OBVIOUS
  <2>2. /\ phase \in {"getDeploymentContext", "getEvaluationStatus", "getGraphContext",
                      "getClearance", "GRAPH", "REGISTRY"}
        /\ phase \in {"getClearance", "REGISTRY"} =>
              q.phase \in PastGraph \/ ~UsesGraph(q)
    BY <1>2, <2>1 DEF After, PastGraph
  <2>3. phase \in Unprepared /\ phase \notin PastRegistry
        /\ (phase \in PastGraph => phase \in {"getClearance", "REGISTRY"})
    BY <2>2 DEF Unprepared, PastGraph, PastRegistry
  <2>4. PICK p : p = runs'[a]
    OBVIOUS
  <2>6. /\ p \in Run /\ p.phase = phase /\ SameRun(p, q)
        /\ runs' \in [Attempts -> {NoRun, RefusedRun} \cup Run]
        /\ \A b \in Attempts \ {a} : runs'[b] = runs[b]
    <3>1. phase \in Asked
      BY <2>3 DEF Asked
    <3> QED BY <1>1, <1>3, <1>5, <2>1, <2>4, <3>1, AdvanceShape
  <2>7. Shown(q) /\ q.nonce = NoNonce
    BY <1>1, <1>3 DEF RunAt, Shown
  <2>8. Shown(p)
    BY <2>2, <2>3, <2>6, <2>7 DEF Shown, SameRun, UsesGraph
  <2>9. p.phase # "PREPARE" /\ UNCHANGED <<rows, requests>>
    BY <1>1, <2>2, <2>6, IdleGate
  <2> QED BY <1>1, <1>3, <1>5, <2>3, <2>4, <2>6, <2>8, <2>9, IdleGate, OngoingRun
<1> QED BY <1>4, <1>5 DEF CallTool

LEMMA FailKeeps ==
    ASSUME AgentInv, NEW a \in Attempts, FailModel(a) \/ FailRead(a)
    PROVE  AgentInv'
<1>1. runs[a].phase \in Asked /\ BlockRun(a) /\ GateIdle
  BY DEF FailModel, FailRead, Asked, Tools, Unprepared, PastGraph, PastRegistry
<1> QED BY <1>1, IdleGate, BlockedRun

LEMMA AnswerGraphKeeps ==
    ASSUME AgentInv, NEW a \in Attempts, NEW x \in Indexers, NEW clock \in Clock,
           AnswerGraph(a, x, clock)
    PROVE  AgentInv'
<1> DEFINE q == runs[a]
           p == [q EXCEPT !.phase = "getClearance", !.tries = 1, !.indexed = head[x]]
<1>1. RunAt(a) /\ AgentTypeOK /\ GateIdle /\ IndexInv
  BY DEF AgentInv, AnswerGraph
<1>2. q \in Run /\ q.phase = "GRAPH" /\ q.phase \in Unprepared
  BY <1>1, ActiveRun DEF Unprepared, AnswerGraph
<1>3. CASE BlockRun(a)
  BY <1>1, <1>2, <1>3, IdleGate, BlockedRun DEF Asked
<1>4. CASE /\ ReadClearance(x, q.doc, clock) = "MATCHED"
           /\ runs' = [runs EXCEPT ![a] =
                 [@ EXCEPT !.phase = "getClearance", !.tries = 1, !.indexed = head[x]]]
           /\ UNCHANGED <<attempts, delivered, log>>
  <2>1. q.doc \in Documents /\ q.nonce = NoNonce /\ Shown(q)
    BY <1>1, <1>2, RunShape DEF RunAt, Shown
  <2>2. head[x] \in 1..Len(chain) /\ RecordedAt(head[x], q.doc.digest) /\ Len(chain) \in Nat
    <3>1. PICK doc \in Documents : doc = q.doc
      BY <2>1
    <3>2. ReadClearance(x, doc, clock) = "MATCHED"
      BY <1>4, <3>1
    <3>3. /\ head[x] \in 1..Len(chain)
          /\ chain[head[x]].clearances[doc.digest].status = "RECORDED"
      BY <1>1, <3>2, MatchedIsEligible
    <3>4. RecordedAt(head[x], doc.digest)
      BY <3>3 DEF RecordedAt
    <3>5. Len(chain) \in Nat
      BY <1>1 DEF IndexInv, GateInv, GateTypeOK
    <3> QED BY <3>1, <3>3, <3>4, <3>5
  <2>3. head[x] \in Nat /\ head[x] # 0 /\ 1 \in 1..MaxTries
    BY <2>2
  <2>4. /\ p \in Run /\ p.phase = "getClearance" /\ p.doc = q.doc /\ p.nonce = q.nonce
        /\ p.indexed = head[x] /\ p.inspected = q.inspected /\ p.verdict = q.verdict
    BY <1>2, <2>3 DEF Run, Tools
  <2>5. runs' = [runs EXCEPT ![a] = p]
    BY <1>4
  <2> HIDE DEF p
  <2>6. Shown(p)
    BY <2>1, <2>2, <2>3, <2>4 DEF Shown, PastRegistry
  <2>7. p.phase \in Unprepared
    BY <2>4 DEF Unprepared, PastGraph
  <2>8. /\ runs' \in [Attempts -> {NoRun, RefusedRun} \cup Run]
        /\ p = runs'[a] /\ \A b \in Attempts \ {a} : runs'[b] = runs[b]
    BY <1>1, <2>4, <2>5 DEF AgentTypeOK
  <2> QED BY <1>1, <1>2, <1>4, <2>4, <2>6, <2>7, <2>8, IdleGate, OngoingRun
<1> QED BY <1>3, <1>4 DEF AnswerGraph, GraphMatches

LEMMA AnswerRegistryKeeps ==
    ASSUME AgentInv, NEW a \in Attempts, NEW h \in DOMAIN chain, AnswerRegistry(a, h)
    PROVE  AgentInv'
<1> DEFINE q == runs[a]
           p == [q EXCEPT !.phase = "prepareDeploymentIntent", !.tries = 1, !.inspected = h]
<1>1. RunAt(a) /\ AgentTypeOK /\ GateIdle /\ GateTypeOK
  BY DEF AgentInv, AnswerRegistry, IndexInv, GateInv
<1>2. q \in Run /\ q.phase = "REGISTRY" /\ q.phase \in Unprepared /\ q.phase \in PastGraph
  BY <1>1, ActiveRun DEF Unprepared, PastGraph, AnswerRegistry
<1>3. CASE BlockRun(a)
  BY <1>1, <1>2, <1>3, IdleGate, BlockedRun DEF Asked
<1>4. CASE /\ q.verdict = "CLEAR" /\ EligibleAt(h, q.doc)
           /\ runs' = [runs EXCEPT ![a] =
                 [@ EXCEPT !.phase = "prepareDeploymentIntent", !.tries = 1, !.inspected = h]]
           /\ UNCHANGED <<attempts, delivered, log>>
  <2>1. q.doc \in Documents /\ q.nonce = NoNonce /\ Shown(q)
    BY <1>1, <1>2, RunShape DEF RunAt, Shown
  <2>2. RecordedAt(h, q.doc.digest)
    BY <1>1, <1>4, BlockShape DEF RecordedAt, EligibleAt, IsValidAt
  <2>3. h \in Nat /\ h # 0 /\ 1 \in 1..MaxTries
    BY <1>1, BlockShape
  <2>4. /\ p \in Run /\ p.phase = "prepareDeploymentIntent" /\ p.doc = q.doc
        /\ p.nonce = q.nonce /\ p.indexed = q.indexed /\ p.inspected = h
        /\ p.verdict = q.verdict /\ p.tenant = q.tenant /\ p.graph = q.graph
    BY <1>2, <2>3 DEF Run, Tools
  <2>5. runs' = [runs EXCEPT ![a] = p]
    BY <1>4
  <2> HIDE DEF p
  <2>6. Shown(p)
    BY <1>2, <1>4, <2>1, <2>2, <2>3, <2>4 DEF Shown, UsesGraph
  <2>7. p.phase \in Unprepared
    BY <2>4 DEF Unprepared, PastGraph, PastRegistry
  <2>8. /\ runs' \in [Attempts -> {NoRun, RefusedRun} \cup Run]
        /\ p = runs'[a] /\ \A b \in Attempts \ {a} : runs'[b] = runs[b]
    BY <1>1, <2>4, <2>5 DEF AgentTypeOK
  <2> QED BY <1>1, <1>2, <1>4, <2>4, <2>6, <2>7, <2>8, IdleGate, OngoingRun
<1> QED BY <1>3, <1>4 DEF AnswerRegistry

\* Only the model was asked again.
LEMMA RetryKeeps ==
    ASSUME AgentInv, NEW a \in Attempts, RetryModel(a)
    PROVE  AgentInv'
<1> DEFINE q == runs[a]
<1>0. PICK p : p = [q EXCEPT !.tries = q.tries + 1]
  OBVIOUS
<1>1. RunAt(a) /\ AgentTypeOK /\ GateIdle /\ GateInv
  BY DEF AgentInv, RetryModel, IndexInv
<1>2. q \in Run /\ q.phase \in Tools /\ q.tries + 1 \in 1..MaxTries
  <2>1. q.phase \in Tools /\ q.tries < MaxTries
    BY DEF RetryModel
  <2>2. q \in Run
    BY <1>1, <2>1, ActiveRun DEF Tools
  <2> QED BY <2>1, <2>2, RunShape
<1>3. runs' = [runs EXCEPT ![a] = p] /\ UNCHANGED <<attempts, delivered, log>>
  BY <1>0 DEF RetryModel
<1>4. p \in Run /\ SameRun(p, q) /\ p.phase = q.phase
  BY <1>0, <1>2 DEF Run, SameRun
<1>5. runs'[a] = p /\ \A b \in Attempts \ {a} : runs'[b] = runs[b]
  BY <1>1, <1>3 DEF AgentTypeOK
<1>6. AgentTypeOK'
  BY <1>1, <1>3, <1>4 DEF AgentTypeOK
<1>7. /\ [Next]_vars /\ IndexInv'
      /\ UNCHANGED <<chain, policy, rows, requests, head, entities>>
  BY <1>1, IdleGate
<1>8. Shown(p)
  BY <1>1, <1>2, <1>4 DEF RunAt, Shown, SameRun, UsesGraph
<1>9. Shown(p)'
  BY <1>1, <1>7, <1>8, ShownStays
<1>10. Shown(runs[a])'
  BY <1>5, <1>9 DEF Shown, UsesGraph, RecordedAt
<1>11. HasPrepared(p) <=> HasPrepared(q)
  BY <1>2, <1>4 DEF HasPrepared, SameRun
<1>12. /\ p.phase = "PREPARE" => requests[a] = PrepareOf(p)
       /\ HasPrepared(p) => RowOf(rows[p.nonce], p)
       /\ AttemptOf(p, attempts[a], log[a])
       /\ attempts[a].final = "AUTHORIZED" => rows[p.nonce].state = "CONSUMED"
       /\ Withheld(p, attempts[a], log[a]) => delivered[p.nonce] = {}
  BY <1>1, <1>4, <1>11 DEF RunAt, SameRun, PrepareOf, RowOf, AttemptOf, Withheld
<1>13. RunAt(a)'
  BY <1>3, <1>5, <1>7, <1>10, <1>12
     DEF RunAt, AttemptOf, Awaited, HasPrepared, Withheld, RowOf, PrepareOf
<1> QED BY <1>3, <1>4, <1>5, <1>6, <1>7, <1>11, <1>13, LocalStep DEF SameRun

LEMMA CallPrepareKeeps ==
    ASSUME AgentInv, NEW a \in Attempts, CallPrepare(a)
    PROVE  AgentInv'
<1> DEFINE q == runs[a]
<1>1. RunAt(a) /\ AgentTypeOK /\ IndexInv /\ GateTypeOK
  BY DEF AgentInv, IndexInv, GateInv
<1>2. q \in Run /\ q.phase = "prepareDeploymentIntent" /\ q.phase \in Unprepared
  BY <1>1, ActiveRun DEF CallPrepare, Unprepared, PastGraph, PastRegistry
<1>3. CASE BlockRun(a) /\ GateIdle
  BY <1>2, <1>3, IdleGate, BlockedRun DEF Asked
<1>4. CASE /\ PrepareStart(a, q.doc, q.tenant, q.signer)
           /\ Advance(a, "PREPARE")
           /\ UNCHANGED <<attempts, delivered, log, subgraphVars>>
  <2>1. /\ q.doc \in Documents /\ q.tenant \in OrNone(Tenants) /\ q.signer \in Signers
        /\ q.nonce = NoNonce /\ Shown(q)
    BY <1>1, <1>2, RunShape DEF RunAt, Shown
  <2>2. PICK doc \in Documents, tenant \in OrNone(Tenants), signer \in Signers :
           doc = q.doc /\ tenant = q.tenant /\ signer = q.signer
    BY <2>1
  <2>3. PrepareStart(a, doc, tenant, signer) /\ a \in Requests
    BY <1>4, <2>2
  <2>4. [Next]_vars /\ IndexInv'
    <3>1. Next
      BY <2>3 DEF Next
    <3> QED BY <1>1, <1>4, <3>1, IndexUnmoved
  <2>5. PICK p : p = runs'[a]
    OBVIOUS
  <2>6. /\ p \in Run /\ p.phase = "PREPARE" /\ SameRun(p, q)
        /\ runs' \in [Attempts -> {NoRun, RefusedRun} \cup Run]
        /\ \A b \in Attempts \ {a} : runs'[b] = runs[b]
    <3>1. "PREPARE" \in Asked
      BY DEF Asked, Unprepared, PastGraph, PastRegistry
    <3>2. /\ runs' \in [Attempts -> {NoRun, RefusedRun} \cup Run]
          /\ runs'[a] \in Run /\ runs'[a].phase = "PREPARE" /\ SameRun(runs'[a], q)
          /\ \A b \in Attempts \ {a} : runs'[b] = runs[b]
      BY <1>1, <1>2, <1>4, <3>1, AdvanceShape
    <3> QED BY <2>5, <3>2
  <2>7. Shown(p)
    BY <1>2, <2>1, <2>6 DEF Shown, SameRun, UsesGraph, PastGraph, PastRegistry
  <2>8. p.phase \in Unprepared
    BY <2>6 DEF Unprepared, PastGraph, PastRegistry
  <2>9. /\ requests'[a] = PrepareOf(p) /\ requests'[a].phase = "PREPARE"
        /\ \A r \in Requests \ {a} : requests'[r] = requests[r]
        /\ rows' = rows
    BY <1>1, <2>2, <2>3, <2>6 DEF PrepareStart, PrepareOf, SameRun, GateTypeOK
  <2>10. UNCHANGED <<rows, delivered, attempts, log>>
    BY <1>4, <2>9
  <2>11. \A r \in Requests :
           requests'[r] = requests[r] \/ (r = a /\ requests'[r].phase # "CONSUME")
    BY <2>9
  <2> QED BY <1>2, <2>4, <2>5, <2>6, <2>7, <2>8, <2>9, <2>10, <2>11, OngoingRun
<1> QED BY <1>3, <1>4 DEF CallPrepare

LEMMA PrepareThrowsKeeps ==
    ASSUME AgentInv, NEW a \in Attempts, PrepareThrows(a)
    PROVE  AgentInv'
<1>1. /\ runs[a].phase = "PREPARE" /\ Fail(a) /\ BlockRun(a) /\ UNCHANGED subgraphVars
      /\ a \in Requests
  BY DEF PrepareThrows
<1>2. Next
  BY <1>1 DEF Next
<1>3. IndexInv' /\ runs[a].phase \in Asked
  BY <1>1, <1>2, IndexUnmoved DEF AgentInv, Asked, Unprepared, PastGraph, PastRegistry
<1>4. /\ rows' = rows /\ requests'[a].phase = "IDLE"
      /\ \A r \in Requests \ {a} : requests'[r] = requests[r]
  BY <1>1 DEF Fail, Idle, AgentInv, IndexInv, GateInv, GateTypeOK
<1> QED BY <1>1, <1>2, <1>3, <1>4, BlockedRun

\* What is carried over to a phase after the last question.
LEMMA LateRun ==
    ASSUME AgentInv, NEW a \in Attempts, runs[a] \in Run,
           NEW p \in Run, SameRun(p, runs[a]), p.phase \notin Asked
    PROVE  /\ Shown(p)
           /\ HasPrepared(p) <=> HasPrepared(runs[a])
           /\ p.nonce = runs[a].nonce
           /\ HasPrepared(p) => p.nonce \in Nonces /\ RowOf(rows[p.nonce], p)
<1>1. RunAt(a)
  BY DEF AgentInv
<1>2. Shown(runs[a])
  BY <1>1 DEF RunAt
<1>3. Shown(p)
  BY <1>2 DEF Shown, SameRun, UsesGraph, Asked, Unprepared, PastGraph, PastRegistry
<1>4. /\ HasPrepared(p) <=> HasPrepared(runs[a])
      /\ p.nonce = runs[a].nonce
  BY DEF HasPrepared, SameRun
<1>5. HasPrepared(p) => p.nonce \in Nonces
  BY RunShape DEF HasPrepared
<1>6. HasPrepared(p) => RowOf(rows[p.nonce], p)
  BY <1>1, <1>4 DEF RunAt, RowOf, SameRun
<1> QED BY <1>3, <1>4, <1>5, <1>6

LEMMA PrepareReturnsKeeps ==
    ASSUME AgentInv, NEW a \in Attempts, NEW h \in DOMAIN chain, NEW n \in Nonces,
           PrepareReturns(a, h, n)
    PROVE  AgentInv'
<1> DEFINE q == runs[a]
           p == [q EXCEPT !.phase = "getLedgerAuthorizationStatus", !.tries = 1, !.nonce = n]
<1>1. RunAt(a) /\ AgentTypeOK /\ IndexInv /\ GateInv /\ GateTypeOK
  BY DEF AgentInv, IndexInv, GateInv
<1>2. /\ q \in Run /\ q.phase = "PREPARE" /\ PrepareFinish(a, h, n) /\ a \in Requests
      /\ UNCHANGED <<attempts, delivered, log, subgraphVars>>
  BY <1>1, ActiveRun DEF PrepareReturns
<1>3. [Next]_vars /\ IndexInv'
  <2>1. Next
    BY <1>2 DEF Next
  <2> QED BY <1>1, <1>2, <2>1, IndexUnmoved
<1>4. /\ p \in Run /\ p.phase = "getLedgerAuthorizationStatus" /\ p.nonce = n
      /\ p.tenant = q.tenant /\ p.graph = q.graph /\ p.doc = q.doc /\ p.verdict = q.verdict
      /\ p.signer = q.signer /\ p.indexed = q.indexed /\ p.inspected = q.inspected
  <2>1. 1 \in 1..MaxTries
    OBVIOUS
  <2> QED BY <1>2, <2>1 DEF Run, Tools
<1>5. runs' = [runs EXCEPT ![a] = p]
  BY DEF PrepareReturns
<1> HIDE DEF p
<1>6. /\ runs'[a] = p /\ \A b \in Attempts \ {a} : runs'[b] = runs[b]
      /\ AgentTypeOK'
  BY <1>1, <1>2, <1>4, <1>5 DEF AgentTypeOK
<1>7. /\ rows[n] = NoRow /\ rows'[n].state = "ISSUED" /\ RowOf(rows'[n], p)
      /\ \A m \in Nonces \ {n} : rows'[m] = rows[m]
  <2>1. requests[a] = PrepareOf(q)
    BY <1>1, <1>2 DEF RunAt
  <2>2. /\ requests[a].doc = q.doc /\ requests[a].tenant = q.tenant
        /\ requests[a].signer = q.signer
    BY <2>1 DEF PrepareOf
  <2> QED BY <1>1, <1>2, <1>4, <2>2 DEF PrepareFinish, RowOf, GateTypeOK
<1>8. /\ requests'[a].phase = "IDLE"
      /\ \A r \in Requests \ {a} : requests'[r] = requests[r]
  BY <1>1, <1>2 DEF PrepareFinish, Idle, GateTypeOK
<1>9. delivered[n] = {}
  BY <1>7 DEF AgentInv, NonceAt, NoRow
<1>10. attempts[a] = NoAttempt /\ log[a] = "NONE"
  BY <1>1, <1>2 DEF RunAt, AttemptOf
<1>11. n # NoNonce /\ HasPrepared(p)
  BY <1>4 DEF HasPrepared
<1>12. Shown(p)
  BY <1>1, <1>2, <1>4 DEF RunAt, Shown, UsesGraph, PastGraph, PastRegistry, Unprepared
<1>13. PICK k : k = p
  OBVIOUS
<1>14. Shown(k)'
  BY <1>1, <1>3, <1>12, <1>13, ShownStays
<1>15. Shown(runs[a])'
  BY <1>6, <1>13, <1>14 DEF Shown, UsesGraph, RecordedAt
<1>16. AttemptOf(p, NoAttempt, "NONE")
  BY <1>4 DEF AttemptOf, Awaited, NoAttempt
<1>17. RunAt(a)'
  BY <1>2, <1>4, <1>6, <1>7, <1>9, <1>10, <1>15, <1>16
     DEF RunAt, AttemptOf, Awaited, HasPrepared, Withheld, RowOf, NoAttempt
<1>18. ASSUME NEW b \in Attempts, b # a PROVE RunAt(b)'
  BY <1>2, <1>3, <1>6, <1>8, <1>18, RunStays
<1>19. ASSUME NEW b \in Attempts, b # a, HasPrepared(runs[b])
       PROVE  runs[b].nonce # n
  <2>1. RowOf(rows[runs[b].nonce], runs[b])
    BY <1>19 DEF AgentInv, RunAt
  <2> QED BY <1>7, <2>1 DEF RowOf, NoRow
<1>20. NoncesDistinct'
  BY <1>1, <1>4, <1>6, <1>19 DEF AgentInv, NoncesDistinct, HasPrepared
<1>21. ASSUME NEW m \in Nonces PROVE NonceAt(m)'
  <2>1. CASE m = n
    BY <1>2, <1>7, <1>9, <2>1 DEF NonceAt
  <2>2. CASE m # n
    BY <1>2, <1>7, <2>2 DEF AgentInv, NonceAt
  <2> QED BY <2>1, <2>2
<1>22. ConsumersHold'
  BY <1>2, <1>8 DEF AgentInv, ConsumersHold
<1> QED BY <1>3, <1>6, <1>17, <1>18, <1>20, <1>21, <1>22 DEF AgentInv

LEMMA CallStatusKeeps ==
    ASSUME AgentInv, NEW a \in Attempts, CallStatus(a)
    PROVE  AgentInv'
<1> DEFINE q == runs[a]
           awaited == [tenant |-> q.tenant, final |-> "LEDGER_APPROVAL_REQUIRED",
                       prepared |-> q.nonce]
<1>1. RunAt(a) /\ AgentTypeOK /\ GateIdle /\ GateInv
  BY DEF AgentInv, IndexInv, CallStatus
<1>2. q \in Run /\ q.phase = "getLedgerAuthorizationStatus" /\ q.phase \in Asked
  BY <1>1, ActiveRun DEF CallStatus, Asked
<1>3. CASE BlockRun(a)
  BY <1>1, <1>2, <1>3, IdleGate, BlockedRun
<1>4. CASE /\ attempts' = [attempts EXCEPT ![a] = awaited]
           /\ Advance(a, "RETURNED")
           /\ UNCHANGED <<delivered, log>>
  <2>1. PICK p : p = runs'[a]
    OBVIOUS
  <2>2. /\ runs' \in [Attempts -> {NoRun, RefusedRun} \cup Run]
        /\ p \in Run /\ p.phase = "RETURNED" /\ SameRun(p, q)
        /\ \A b \in Attempts \ {a} : runs'[b] = runs[b]
    BY <1>1, <1>2, <1>4, <2>1, AdvanceShape
  <2>3. awaited \in Attempt
    BY <1>2, RunShape DEF Attempt
  <2>4. /\ attempts'[a] = awaited
        /\ attempts' \in [Attempts -> {NoAttempt} \cup Attempt]
        /\ \A b \in Attempts \ {a} : attempts'[b] = attempts[b]
    BY <1>1, <1>4, <2>3 DEF AgentTypeOK
  <2>5. AgentTypeOK' /\ log' = log /\ delivered' = delivered
    BY <1>1, <1>4, <2>2, <2>4 DEF AgentTypeOK
  <2>6. /\ [Next]_vars /\ IndexInv'
        /\ UNCHANGED <<chain, policy, rows, requests, head, entities>>
    BY <1>1, IdleGate
  <2>7. log[a] = "NONE" /\ HasPrepared(q)
    BY <1>1, <1>2 DEF RunAt, AttemptOf, Shown, HasPrepared
  <2>8. p.phase \notin Asked
    BY <2>2 DEF Asked, Unprepared, PastGraph, PastRegistry
  <2>9. /\ Shown(p) /\ HasPrepared(p) /\ p.nonce = q.nonce /\ RowOf(rows[p.nonce], p)
    BY <1>2, <2>2, <2>7, <2>8, LateRun
  <2>10. Shown(p)'
    BY <1>1, <2>6, <2>9, ShownStays
  <2>11. Shown(runs[a])'
    BY <2>1, <2>10 DEF Shown, UsesGraph, RecordedAt
  <2>12. AttemptOf(p, awaited, "NONE")
    BY <2>2, <2>9 DEF AttemptOf, Awaited, SameRun
  <2>13. RunAt(a)'
    BY <2>1, <2>2, <2>4, <2>5, <2>6, <2>7, <2>9, <2>11, <2>12
       DEF RunAt, AttemptOf, Awaited, HasPrepared, Withheld, RowOf
  <2> QED BY <2>1, <2>2, <2>4, <2>5, <2>6, <2>7, <2>9, <2>13, LocalStep
<1> QED BY <1>3, <1>4 DEF CallStatus

\* The prepared request of run a is handed to a caller of its account.
LEMMA HandedOut ==
    ASSUME AgentInv, GateIdle, AgentTypeOK', NEW a \in Attempts, NEW n \in Nonces, NEW tenant,
           HasPrepared(runs[a]), runs[a].nonce = n,
           HasPrepared(runs'[a]), runs'[a].nonce = n,
           Deliver(n, tenant), rows[n].tenant # NoTenant => tenant = rows[n].tenant,
           \A b \in Attempts \ {a} :
               runs'[b] = runs[b] /\ attempts'[b] = attempts[b] /\ log'[b] = log[b],
           RunAt(a)'
    PROVE  AgentInv'
<1>1. /\ [Next]_vars /\ IndexInv' /\ AgentTypeOK
      /\ UNCHANGED <<chain, policy, rows, requests, head, entities>>
  BY IdleGate DEF AgentInv
<1>2. /\ delivered'[n] = delivered[n] \cup {tenant}
      /\ \A m \in Nonces \ {n} : delivered'[m] = delivered[m]
  BY <1>1 DEF Deliver, AgentTypeOK
<1>3. ASSUME NEW b \in Attempts, b # a PROVE RunAt(b)'
  <2>1. HasPrepared(runs[b]) => runs[b].nonce # n /\ runs[b].nonce \in Nonces
    BY <1>3, RunShape DEF AgentInv, NoncesDistinct, HasPrepared
  <2>2. Withheld(runs[b], attempts[b], log[b]) =>
           delivered'[runs[b].nonce] = delivered[runs[b].nonce]
    BY <1>2, <2>1 DEF Withheld
  <2> QED BY <1>1, <1>3, <2>2, RunStays
<1>4. NoncesDistinct'
  <2>1. \A b \in Attempts : HasPrepared(runs'[b]) =>
           HasPrepared(runs[b]) /\ runs'[b].nonce = runs[b].nonce
    OBVIOUS
  <2> QED BY <2>1, DistinctStays DEF AgentInv
<1>5. rows[n].state # "NONE"
  BY DEF AgentInv, RunAt, RowOf
<1>6. ASSUME NEW m \in Nonces PROVE NonceAt(m)'
  <2>1. NonceAt(m)
    BY DEF AgentInv
  <2>2. CASE m = n
    BY <1>1, <1>2, <1>5, <2>1, <2>2 DEF NonceAt
  <2>3. CASE m # n
    BY <1>1, <1>2, <2>1, <2>3 DEF NonceAt
  <2> QED BY <2>2, <2>3
<1>7. ConsumersHold'
  <2> SUFFICES ASSUME NEW r \in Requests, requests[r].phase = "CONSUME"
               PROVE  delivered'[requests[r].nonce] # {}
    BY <1>1 DEF ConsumersHold
  <2>1. delivered[requests[r].nonce] # {} /\ requests[r].nonce \in Nonces
    BY RequestShape DEF AgentInv, ConsumersHold, IndexInv, GateInv
  <2> QED BY <1>2, <2>1
<1> QED BY <1>1, <1>3, <1>4, <1>6, <1>7 DEF AgentInv

LEMMA RespondKeeps ==
    ASSUME AgentInv, NEW a \in Attempts, Respond(a)
    PROVE  AgentInv'
<1> DEFINE q == runs[a]
<1>1. RunAt(a) /\ AgentTypeOK /\ GateIdle /\ GateInv
  BY DEF AgentInv, IndexInv, Respond
<1>2. q \in Run /\ q.phase = "RETURNED"
  BY <1>1, ActiveRun DEF Respond
<1>3. PICK p : p = [q EXCEPT !.phase = "DONE"]
  OBVIOUS
<1>4. p \in Run /\ SameRun(p, q) /\ p.phase = "DONE"
  BY <1>2, <1>3 DEF Run, SameRun
<1>5. runs' = [runs EXCEPT ![a] = p] /\ attempts' = attempts
  BY <1>3 DEF Respond
<1>6. runs'[a] = p /\ \A b \in Attempts \ {a} : runs'[b] = runs[b]
  BY <1>1, <1>5 DEF AgentTypeOK
<1>7. /\ log[a] = "NONE"
      /\ attempts[a].final \in {"BLOCKED", "LEDGER_APPROVAL_REQUIRED"}
  BY <1>1, <1>2 DEF RunAt, AttemptOf
<1>8. /\ log'[a] \in {"NONE", attempts[a].final}
      /\ log' \in [Attempts -> {"NONE", "BLOCKED", "LEDGER_APPROVAL_REQUIRED"}]
      /\ \A b \in Attempts \ {a} : log'[b] = log[b]
  BY <1>1, <1>7 DEF Respond, RecordReleaseAttempt, Outcome, AgentTypeOK
<1>9. /\ [Next]_vars /\ IndexInv'
      /\ UNCHANGED <<chain, policy, rows, requests, head, entities>>
  BY <1>1, IdleGate
<1>10. p.phase \notin Asked
  BY <1>4 DEF Asked, Unprepared, PastGraph, PastRegistry
<1>11. /\ Shown(p) /\ (HasPrepared(p) <=> HasPrepared(q)) /\ p.nonce = q.nonce
       /\ HasPrepared(p) => p.nonce \in Nonces /\ RowOf(rows[p.nonce], p)
  BY <1>2, <1>4, <1>10, LateRun
<1>12. Shown(p)'
  BY <1>1, <1>9, <1>11, ShownStays
<1>13. Shown(runs[a])'
  BY <1>6, <1>12 DEF Shown, UsesGraph, RecordedAt
<1>14. CASE attempts[a].final = "BLOCKED"
  <2>1. attempts[a].prepared = NoNonce
    BY <1>1, <1>14 DEF RunAt, AttemptOf
  <2>2. delivered' = delivered
    BY <2>1 DEF Respond
  <2>3. AgentTypeOK'
    BY <1>1, <1>4, <1>5, <1>8, <2>2 DEF AgentTypeOK
  <2>4. HasPrepared(p) => delivered[p.nonce] = {}
    BY <1>1, <1>11, <1>14 DEF RunAt, Withheld
  <2>5. AttemptOf(p, attempts[a], log'[a])
    BY <1>1, <1>4, <1>8, <1>14, <2>1 DEF AttemptOf, Awaited
  <2>6. RunAt(a)'
    BY <1>4, <1>5, <1>6, <1>9, <1>11, <1>13, <1>14, <2>2, <2>4, <2>5
       DEF RunAt, AttemptOf, Awaited, HasPrepared, Withheld, RowOf
  <2> QED BY <1>4, <1>5, <1>6, <1>8, <1>9, <1>11, <2>2, <2>3, <2>6, LocalStep
<1>15. CASE attempts[a].final = "LEDGER_APPROVAL_REQUIRED"
  <2>1. /\ HasPrepared(q) /\ attempts[a].prepared = q.nonce /\ attempts[a].tenant = q.tenant
    BY <1>1, <1>15 DEF RunAt, AttemptOf, Awaited
  <2>2. PICK n \in Nonces : n = q.nonce
    BY <1>11, <2>1
  <2>3. PICK tenant \in OrNone(Tenants) : tenant = q.tenant
    BY <1>2, RunShape
  <2>4. Deliver(n, tenant)
    BY <2>1, <2>2, <2>3 DEF Respond, HasPrepared
  <2>5. AgentTypeOK'
    <3>1. delivered' \in [Nonces -> SUBSET OrNone(Tenants)]
      BY <1>1, <2>2, <2>3, <2>4 DEF AgentTypeOK, Deliver
    <3>2. runs' \in [Attempts -> {NoRun, RefusedRun} \cup Run]
      BY <1>1, <1>4, <1>5 DEF AgentTypeOK
    <3> QED BY <1>1, <1>5, <1>8, <3>1, <3>2 DEF AgentTypeOK
  <2>6. rows[n].tenant = tenant
    BY <1>1, <2>1, <2>2, <2>3 DEF RunAt, RowOf
  <2>7. AttemptOf(p, attempts[a], log'[a])
    BY <1>4, <1>8, <1>11, <1>15, <2>1 DEF AttemptOf, Awaited, SameRun
  <2>8. RunAt(a)'
    BY <1>4, <1>5, <1>6, <1>8, <1>9, <1>11, <1>13, <1>15, <2>1, <2>7
       DEF RunAt, AttemptOf, Awaited, HasPrepared, Withheld, RowOf
  <2>9. HasPrepared(runs'[a]) /\ runs'[a].nonce = n
    BY <1>6, <1>11, <2>1, <2>2
  <2> QED BY <1>1, <1>5, <1>6, <1>8, <2>1, <2>2, <2>4, <2>5, <2>6, <2>8, <2>9, HandedOut
<1> QED BY <1>7, <1>14, <1>15

LEMMA AskStatusKeeps ==
    ASSUME AgentInv, NEW a \in Attempts, NEW tenant \in OrNone(Tenants), AskStatus(a, tenant)
    PROVE  AgentInv'
<1> DEFINE q == runs[a]
<1>1. RunAt(a) /\ AgentTypeOK /\ GateIdle /\ GateInv
  BY DEF AgentInv, IndexInv, AskStatus
<1>2. /\ q.phase = "DONE" /\ attempts[a] # NoAttempt /\ attempts[a].prepared # NoNonce
      /\ attempts[a].tenant \in {NoTenant, tenant} /\ UNCHANGED <<runs, log>>
  BY DEF AskStatus, MayAsk
<1>3. attempts[a] \in Attempt
  BY <1>1, <1>2 DEF AgentTypeOK
<1>4. /\ HasPrepared(q) /\ attempts[a].prepared = q.nonce /\ attempts[a].tenant = q.tenant
      /\ Awaited(attempts[a])
  <2>1. attempts[a].final \in {"BLOCKED", "LEDGER_APPROVAL_REQUIRED", "AUTHORIZED"}
    BY <1>3 DEF Attempt
  <2> QED BY <1>1, <1>2, <2>1 DEF RunAt, AttemptOf, Awaited
<1>5. PICK n \in Nonces : n = q.nonce
  BY <1>4, RunShape DEF HasPrepared
<1>6. Deliver(n, tenant)
  BY <1>4, <1>5 DEF AskStatus
<1>7. rows[n].tenant # NoTenant => tenant = rows[n].tenant
  BY <1>1, <1>2, <1>4, <1>5 DEF RunAt, RowOf
<1>8. /\ [Next]_vars /\ IndexInv'
      /\ UNCHANGED <<chain, policy, rows, requests, head, entities>>
  BY <1>1, IdleGate
<1>9. PICK attempt : attempt = attempts'[a]
  OBVIOUS
<1>10. /\ attempt \in Attempt /\ attempt.prepared = q.nonce /\ attempt.tenant = q.tenant
       /\ Awaited(attempt)
       /\ attempt.final = "AUTHORIZED" => rows[n].state = "CONSUMED"
       /\ attempts' \in [Attempts -> {NoAttempt} \cup Attempt]
       /\ \A b \in Attempts \ {a} : attempts'[b] = attempts[b]
  <2>1. CASE StatusAuthorized(rows[n])
    <3>1. attempts' = [attempts EXCEPT ![a].final = "AUTHORIZED"]
      BY <1>4, <1>5, <2>1 DEF AskStatus
    <3>2. PICK new : new = [attempts[a] EXCEPT !.final = "AUTHORIZED"]
      OBVIOUS
    <3>3. /\ new \in Attempt /\ new.final = "AUTHORIZED" /\ new.prepared = q.nonce
          /\ new.tenant = q.tenant
      BY <1>3, <1>4, <3>2 DEF Attempt
    <3>4. attempts' = [attempts EXCEPT ![a] = new]
      BY <3>1, <3>2
    <3>5. attempt = new
      BY <1>1, <1>9, <3>4 DEF AgentTypeOK
    <3> QED BY <1>1, <2>1, <3>3, <3>4, <3>5 DEF AgentTypeOK, StatusAuthorized, Awaited
  <2>2. CASE ~StatusAuthorized(rows[n])
    <3>1. attempts' = attempts
      BY <1>4, <1>5, <2>2 DEF AskStatus
    <3>2. attempt.final = "AUTHORIZED" => rows[n].state = "CONSUMED"
      BY <1>1, <1>5, <1>9, <3>1 DEF RunAt
    <3> QED BY <1>1, <1>3, <1>4, <1>9, <3>1, <3>2 DEF AgentTypeOK
  <2> QED BY <2>1, <2>2
<1>11. AgentTypeOK'
  BY <1>1, <1>2, <1>6, <1>10 DEF AgentTypeOK, Deliver
<1>12. Shown(q)
  BY <1>1, <1>4 DEF RunAt, HasPrepared
<1>13. PICK p : p = q
  OBVIOUS
<1>14. Shown(p)'
  BY <1>1, <1>8, <1>12, <1>13, ShownStays
<1>15. Shown(runs[a])'
  BY <1>2, <1>13, <1>14 DEF Shown, UsesGraph, RecordedAt
<1>16. AttemptOf(p, attempt, log[a]) /\ ~Withheld(p, attempt, log[a])
  BY <1>1, <1>2, <1>4, <1>10, <1>13 DEF RunAt, AttemptOf, Awaited, Withheld
<1>17. HasPrepared(p) => RowOf(rows[p.nonce], p)
  BY <1>1, <1>13 DEF RunAt
<1>18. RunAt(a)'
  BY <1>2, <1>5, <1>8, <1>9, <1>10, <1>13, <1>15, <1>16, <1>17
     DEF RunAt, AttemptOf, Awaited, HasPrepared, Withheld, RowOf
<1> QED BY <1>1, <1>2, <1>4, <1>5, <1>6, <1>7, <1>10, <1>11, <1>18, HandedOut

-----------------------------------------------------------------------------
(* The other callers of the release routes, restarts and the index.        *)
LEMMA DirectPrepareKeeps ==
    ASSUME AgentInv, NEW r \in Requests \ Attempts, DirectPrepare(r)
    PROVE  AgentInv'
<1>1. AgentTypeOK /\ IndexInv /\ GateInv /\ GateTypeOK
  BY DEF AgentInv, IndexInv, GateInv
<1>2. UNCHANGED <<runs, attempts, log, subgraphVars>>
  BY DEF DirectPrepare
<1>3. ASSUME NEW doc \in Documents, NEW tenant \in OrNone(Tenants), NEW signer \in Signers,
             PrepareStart(r, doc, tenant, signer), UNCHANGED delivered
      PROVE  AgentInv'
  <2>1. Next
    BY <1>3 DEF Next
  <2>2. IndexInv'
    BY <1>1, <1>2, <2>1, IndexUnmoved
  <2>3. /\ rows' = rows /\ requests'[r].phase = "PREPARE"
        /\ \A q \in Requests \ {r} : requests'[q] = requests[q]
    BY <1>1, <1>3 DEF PrepareStart, GateTypeOK
  <2>4. AgentTypeOK'
    BY <1>1, <1>2, <1>3 DEF AgentTypeOK
  <2>5. \A n \in Nonces : NonceAt(n)'
    BY <1>3, <2>3 DEF AgentInv, NonceAt
  <2>6. ConsumersHold'
    BY <1>3, <2>3 DEF AgentInv, ConsumersHold
  <2>7. \A a \in Attempts : requests'[a] = requests[a]
    BY <2>3
  <2> QED BY <1>2, <1>3, <2>1, <2>2, <2>4, <2>5, <2>6, <2>7, ForeignStep
<1>4. ASSUME NEW h \in DOMAIN chain, NEW n \in Nonces, PrepareFinish(r, h, n),
             UNCHANGED delivered \/ Deliver(n, requests[r].tenant)
      PROVE  AgentInv'
  <2>1. Next
    BY <1>4 DEF Next
  <2>2. IndexInv'
    BY <1>1, <1>2, <2>1, IndexUnmoved
  <2>3. PICK tenant \in OrNone(Tenants) : tenant = requests[r].tenant
    BY <1>1, <1>4, RequestShape DEF PrepareFinish
  <2>4. /\ rows[n] = NoRow /\ rows'[n].state = "ISSUED" /\ rows'[n].tenant = tenant
        /\ \A m \in Nonces \ {n} : rows'[m] = rows[m]
    BY <1>1, <1>4, <2>3 DEF PrepareFinish, GateTypeOK
  <2>5. /\ requests'[r].phase = "IDLE"
        /\ \A q \in Requests \ {r} : requests'[q] = requests[q]
    BY <1>1, <1>4 DEF PrepareFinish, Idle, GateTypeOK
  <2>6. /\ delivered'[n] \in {delivered[n], delivered[n] \cup {tenant}}
        /\ \A m \in Nonces \ {n} : delivered'[m] = delivered[m]
        /\ delivered' \in [Nonces -> SUBSET OrNone(Tenants)]
    BY <1>1, <1>4, <2>3 DEF Deliver, AgentTypeOK
  <2>7. delivered[n] = {}
    BY <2>4 DEF AgentInv, NonceAt, NoRow
  <2>8. AgentTypeOK'
    BY <1>1, <1>2, <2>6 DEF AgentTypeOK
  <2>9. ASSUME NEW m \in Nonces PROVE NonceAt(m)'
    <3>1. CASE m = n
      BY <2>4, <2>6, <2>7, <3>1 DEF NonceAt
    <3>2. CASE m # n
      BY <2>4, <2>6, <3>2 DEF AgentInv, NonceAt
    <3> QED BY <3>1, <3>2
  <2>10. ConsumersHold'
    <3> SUFFICES ASSUME NEW q \in Requests, requests'[q].phase = "CONSUME"
                 PROVE  delivered'[requests'[q].nonce] # {}
      BY DEF ConsumersHold
    <3>1. requests'[q] = requests[q]
      BY <2>5
    <3>2. delivered[requests[q].nonce] # {} /\ requests[q].nonce \in Nonces
      BY <1>1, <3>1, RequestShape DEF AgentInv, ConsumersHold
    <3> QED BY <2>6, <3>1, <3>2
  <2>11. ASSUME NEW a \in Attempts, HasPrepared(runs[a])
         PROVE  delivered'[runs[a].nonce] = delivered[runs[a].nonce]
    <3>1. rows[runs[a].nonce].state # "NONE" /\ runs[a].nonce \in Nonces
      BY <2>11, RunShape DEF AgentInv, RunAt, RowOf, HasPrepared
    <3> QED BY <2>4, <2>6, <3>1 DEF NoRow
  <2>12. \A a \in Attempts : Withheld(runs[a], attempts[a], log[a]) =>
            delivered'[runs[a].nonce] = delivered[runs[a].nonce]
    BY <2>11 DEF Withheld
  <2>13. \A a \in Attempts : requests'[a] = requests[a]
    BY <2>5
  <2> QED BY <1>2, <2>1, <2>2, <2>8, <2>9, <2>10, <2>12, <2>13, ForeignStep
<1> QED BY <1>3, <1>4 DEF DirectPrepare

LEMMA ConsumeKeeps ==
    ASSUME AgentInv, NEW r \in Requests \ Attempts, Consume(r)
    PROVE  AgentInv'
<1>1. AgentTypeOK /\ IndexInv /\ GateInv /\ GateTypeOK
  BY DEF AgentInv, IndexInv, GateInv
<1>2. UNCHANGED <<runs, attempts, delivered, log, subgraphVars>>
  BY DEF Consume, agentVars
<1>3. Next
  BY DEF Consume, Next
<1>4. IndexInv' /\ AgentTypeOK'
  BY <1>1, <1>2, <1>3, IndexUnmoved DEF AgentTypeOK
<1>5. PICK handler : requests' = [requests EXCEPT ![r] = handler]
  BY DEF Consume, ConsumeStart, ConsumeFinish, Fail, Answer
<1>6. ConsumersHold'
  <2>1. requests'[r].phase = "CONSUME" => delivered[requests'[r].nonce] # {}
    <3>1. ASSUME NEW n \in Nonces, NEW tenant \in OrNone(Tenants), NEW signer \in Signers,
                 delivered[n] # {}, ConsumeStart(r, n, tenant, signer)
          PROVE  requests'[r].nonce = n
      BY <1>1, <3>1 DEF ConsumeStart, GateTypeOK
    <3>2. ASSUME NEW h \in DOMAIN chain, ConsumeFinish(r, h)
          PROVE  requests'[r].phase # "CONSUME"
      BY <1>1, <3>2 DEF ConsumeFinish, GateTypeOK
    <3>3. ASSUME Fail(r) PROVE requests'[r].phase # "CONSUME"
      BY <1>1, <3>3 DEF Fail, Idle, GateTypeOK
    <3>4. ASSUME Answer(r) PROVE requests'[r].phase # "CONSUME"
      BY <1>1, <3>4 DEF Answer, Idle, GateTypeOK
    <3> QED BY <3>1, <3>2, <3>3, <3>4 DEF Consume
  <2>2. \A q \in Requests \ {r} : requests'[q] = requests[q]
    BY <1>1, <1>5 DEF GateTypeOK
  <2> QED BY <1>2, <2>1, <2>2 DEF AgentInv, ConsumersHold
<1>7. ASSUME NEW n \in Nonces PROVE NonceAt(n)'
  <2>1. NonceAt(n)
    BY DEF AgentInv
  <2>2. CASE rows'[n] = rows[n]
    BY <1>2, <2>1, <2>2 DEF NonceAt
  <2>3. CASE rows'[n] # rows[n]
    <3>1. PICK h \in DOMAIN chain : ConsumeFinish(r, h)
      BY <2>3 DEF Consume, ConsumeStart, Fail, Answer
    <3>2. requests[r].nonce = n /\ requests[r].phase = "CONSUME"
      BY <1>1, <2>3, <3>1 DEF ConsumeFinish, GateTypeOK
    <3>3. delivered[n] # {}
      BY <3>2 DEF AgentInv, ConsumersHold
    <3>4. /\ rows[n].state = "ISSUED" /\ rows'[n].state = "CONSUMED"
          /\ rows'[n].tenant = rows[n].tenant
      BY <1>1, <3>1, <3>2 DEF ConsumeFinish, StillConsumable, GateTypeOK
    <3> QED BY <1>2, <2>1, <3>3, <3>4 DEF NonceAt
  <2> QED BY <2>2, <2>3
<1>8. \A a \in Attempts : requests'[a] = requests[a]
  BY <1>1, <1>5 DEF GateTypeOK
<1> QED BY <1>2, <1>3, <1>4, <1>6, <1>7, <1>8, ForeignStep

LEMMA RestartKeeps ==
    ASSUME AgentInv, NEW allowlist \in SUBSET Signers, RestartServer(allowlist)
    PROVE  AgentInv'
<1>1. AgentTypeOK /\ IndexInv /\ GateInv
  BY DEF AgentInv, IndexInv
<1>2. /\ Restart(allowlist) /\ UNCHANGED <<delivered, log, subgraphVars>>
      /\ attempts' = [a \in Attempts |-> NoAttempt]
  BY DEF RestartServer
<1>3. Next
  BY <1>2 DEF Next
<1>4. IndexInv'
  BY <1>1, <1>2, <1>3, IndexUnmoved
<1>5. /\ rows' = rows /\ requests' = [r \in Requests |-> Idle]
  BY <1>2 DEF Restart
<1>6. ASSUME NEW a \in Attempts
      PROVE  /\ runs'[a] \in {NoRun, RefusedRun} \cup Run
             /\ RunAt(a)'
             /\ HasPrepared(runs'[a]) => HasPrepared(runs[a]) /\ runs'[a].nonce = runs[a].nonce
  <2> DEFINE q == runs[a]
  <2>1. RunAt(a) /\ attempts'[a] = NoAttempt /\ log'[a] = log[a]
    BY <1>2 DEF AgentInv
  <2>2. CASE q = NoRun \/ q.phase = "DONE"
    <3>1. runs'[a] = q
      BY <2>2 DEF RestartServer
    <3>2. PICK p : p = q
      OBVIOUS
    <3>3. p \in Run => Shown(p)'
      BY <1>1, <1>3, <2>1, <3>2, ShownStays DEF RunAt
    <3>4. runs[a] \in Run => Shown(runs[a])'
      BY <3>1, <3>2, <3>3 DEF Shown, UsesGraph, RecordedAt
    <3>5. p.phase \in {"UNUSED", "DONE"}
      BY <2>2, <3>2 DEF NoRun
    <3>6. AttemptOf(p, NoAttempt, log[a])
      BY <2>1, <3>2, <3>5 DEF RunAt, AttemptOf, Awaited, NoAttempt
    <3>7. Withheld(p, NoAttempt, log[a]) => Withheld(p, attempts[a], log[a])
      BY <3>5 DEF Withheld, NoAttempt
    <3>8. RunAt(a)'
      BY <1>2, <1>5, <2>1, <3>1, <3>2, <3>4, <3>5, <3>6, <3>7
         DEF RunAt, AttemptOf, Awaited, HasPrepared, Withheld, RowOf, NoAttempt
    <3> QED BY <1>1, <3>1, <3>8 DEF AgentTypeOK
  <2>3. CASE ~(q = NoRun \/ q.phase = "DONE")
    <3>1. PICK p : p = [q EXCEPT !.phase = "LOST"]
      OBVIOUS
    <3>2. runs'[a] = p
      BY <2>3, <3>1 DEF RestartServer
    <3>3. q \in Run
      BY <1>1, <2>3 DEF AgentTypeOK, RefusedRun
    <3>4. p \in Run /\ SameRun(p, q) /\ p.phase = "LOST"
      BY <3>1, <3>3 DEF Run, SameRun
    <3>5. p.phase \notin Asked
      BY <3>4 DEF Asked, Unprepared, PastGraph, PastRegistry
    <3>6. /\ Shown(p) /\ (HasPrepared(p) <=> HasPrepared(q)) /\ p.nonce = q.nonce
          /\ HasPrepared(p) => RowOf(rows[p.nonce], p)
      BY <3>3, <3>4, <3>5, LateRun
    <3>7. Shown(p)'
      BY <1>1, <1>3, <3>6, ShownStays
    <3>8. Shown(runs[a])'
      BY <3>2, <3>7 DEF Shown, UsesGraph, RecordedAt
    <3>9. log[a] = "NONE"
      BY <2>1, <2>3 DEF RunAt, AttemptOf
    <3>10. AttemptOf(p, NoAttempt, "NONE")
      BY <3>4 DEF AttemptOf, Awaited, NoAttempt
    <3>11. RunAt(a)'
      BY <1>2, <1>5, <2>1, <3>2, <3>4, <3>6, <3>8, <3>9, <3>10
         DEF RunAt, AttemptOf, Awaited, HasPrepared, Withheld, RowOf, NoAttempt
    <3> QED BY <3>2, <3>4, <3>6, <3>11
  <2> QED BY <2>2, <2>3
<1>7. AgentTypeOK'
  <2>1. runs' \in [Attempts -> {NoRun, RefusedRun} \cup Run]
    BY <1>6 DEF RestartServer
  <2> QED BY <1>1, <1>2, <2>1 DEF AgentTypeOK
<1>8. NoncesDistinct'
  BY <1>6, DistinctStays DEF AgentInv
<1>9. \A n \in Nonces : NonceAt(n)'
  BY <1>2, <1>5 DEF AgentInv, NonceAt
<1>10. ConsumersHold'
  BY <1>5 DEF ConsumersHold, Idle
<1> QED BY <1>4, <1>6, <1>7, <1>8, <1>9, <1>10 DEF AgentInv

\* The chain moves on, or an indexer does.
LEMMA IndexKeeps ==
    ASSUME AgentInv, IndexNext \/ UNCHANGED <<vars, subgraphVars>>, UNCHANGED agentVars
    PROVE  AgentInv'
<1>1. IndexInv'
  BY IndexStep DEF AgentInv
<1>2. [Next]_vars /\ UNCHANGED <<rows, requests>>
  BY DEF IndexNext, Next, Transact, SealBlock, vars, gateVars
<1>3. AgentTypeOK' /\ UNCHANGED <<runs, attempts, delivered, log>>
  BY DEF AgentInv, AgentTypeOK, agentVars
<1>4. \A n \in Nonces : NonceAt(n)'
  BY <1>2, <1>3 DEF AgentInv, NonceAt
<1>5. ConsumersHold'
  BY <1>2, <1>3 DEF AgentInv, ConsumersHold
<1> QED BY <1>1, <1>2, <1>3, <1>4, <1>5, ForeignStep

LEMMA AgentInitially == AgentInit => AgentInv
<1> SUFFICES ASSUME AgentInit PROVE AgentInv
  OBVIOUS
<1>1. IndexInv
  BY IndexInitially DEF AgentInit
<1>2. AgentTypeOK
  BY DEF AgentInit, AgentTypeOK
<1>3. ASSUME NEW a \in Attempts
      PROVE  runs[a] = NoRun /\ attempts[a] = NoAttempt /\ log[a] = "NONE"
  BY DEF AgentInit
<1>4. NoRun \notin Run
  BY DEF NoRun, Run, Tools
<1>5. \A a \in Attempts : RunAt(a)
  BY <1>3, <1>4 DEF RunAt, AttemptOf, Awaited, HasPrepared, Withheld, NoRun, NoAttempt
<1>6. NoncesDistinct
  BY <1>3, <1>4 DEF NoncesDistinct, HasPrepared
<1>7. \A n \in Nonces : NonceAt(n)
  BY DEF AgentInit, Init, NonceAt, NoRow
<1>8. ConsumersHold
  BY DEF AgentInit, Init, ConsumersHold, Idle
<1> QED BY <1>1, <1>2, <1>5, <1>6, <1>7, <1>8 DEF AgentInv

\* One case per action of the agent, its routes and what goes on around it.
LEMMA AgentStep == AgentInv /\ [AgentNext]_allVars => AgentInv'
<1> SUFFICES ASSUME AgentInv, [AgentNext]_allVars PROVE AgentInv'
  OBVIOUS
<1>1. CASE IndexNext /\ UNCHANGED agentVars
  BY <1>1, IndexKeeps
<1>2. CASE UNCHANGED allVars
  BY <1>2, IndexKeeps DEF allVars
<1>3. ASSUME NEW a \in Attempts, NEW route \in Routes, NEW tenant \in OrNone(Tenants),
             RefuseRun(a, route, tenant)
      PROVE  AgentInv'
  BY <1>3, RefuseRunKeeps
<1>4. ASSUME NEW a \in Attempts, NEW route \in Routes, NEW tenant \in OrNone(Tenants),
             NEW graph \in BOOLEAN, NEW doc \in Documents, NEW verdict \in {"CLEAR", "HOLD"},
             NEW signer \in Signers, StartRun(a, route, tenant, graph, doc, verdict, signer)
      PROVE  AgentInv'
  BY <1>4, StartRunKeeps
<1>5. ASSUME NEW a \in Attempts, RunStep(a) PROVE AgentInv'
  <2>1. CASE CallTool(a)
    BY <2>1, CallToolKeeps
  <2>2. CASE RetryModel(a)
    BY <2>2, RetryKeeps
  <2>3. CASE FailModel(a) \/ FailRead(a)
    BY <2>3, FailKeeps
  <2>4. ASSUME NEW x \in Indexers, NEW clock \in Clock, AnswerGraph(a, x, clock)
        PROVE  AgentInv'
    BY <2>4, AnswerGraphKeeps
  <2>5. ASSUME NEW h \in DOMAIN chain, AnswerRegistry(a, h) PROVE AgentInv'
    BY <2>5, AnswerRegistryKeeps
  <2>6. CASE CallPrepare(a)
    BY <2>6, CallPrepareKeeps
  <2>7. CASE PrepareThrows(a)
    BY <2>7, PrepareThrowsKeeps
  <2>8. ASSUME NEW h \in DOMAIN chain, NEW n \in Nonces, PrepareReturns(a, h, n)
        PROVE  AgentInv'
    BY <2>8, PrepareReturnsKeeps
  <2>9. CASE CallStatus(a)
    BY <2>9, CallStatusKeeps
  <2>10. CASE Respond(a)
    BY <2>10, RespondKeeps
  <2> QED BY <1>5, <2>1, <2>2, <2>3, <2>4, <2>5, <2>6, <2>7, <2>8, <2>9, <2>10 DEF RunStep
<1>6. ASSUME NEW a \in Attempts, NEW tenant \in OrNone(Tenants), AskStatus(a, tenant)
      PROVE  AgentInv'
  BY <1>6, AskStatusKeeps
<1>7. ASSUME NEW r \in Requests \ Attempts, DirectPrepare(r) \/ Consume(r) PROVE AgentInv'
  BY <1>7, DirectPrepareKeeps, ConsumeKeeps
<1>8. ASSUME NEW allowlist \in SUBSET Signers, RestartServer(allowlist) PROVE AgentInv'
  BY <1>8, RestartKeeps
<1> QED BY <1>1, <1>2, <1>3, <1>4, <1>5, <1>6, <1>7, <1>8 DEF AgentNext

(* The invariant of the agent, its callers, the gate, the index and the    *)
(* contract together, in every reachable state.                            *)
THEOREM AgentInvariant == AgentSpec => []AgentInv
BY AgentInitially, AgentStep, PTL DEF AgentSpec

-----------------------------------------------------------------------------
(* What the invariant gives.                                               *)
LEMMA PreparedRun ==
    ASSUME AgentInv, NEW a \in Attempts, runs[a] # NoRun, runs[a].nonce # NoNonce
    PROVE  /\ HasPrepared(runs[a]) /\ runs[a].nonce \in Nonces
           /\ runs[a].doc \in Documents
           /\ RowOf(rows[runs[a].nonce], runs[a]) /\ Shown(runs[a])
<1>1. runs[a] \in Run
  BY DEF AgentInv, AgentTypeOK, RefusedRun
<1>2. HasPrepared(runs[a])
  BY <1>1 DEF HasPrepared
<1> QED BY <1>1, <1>2, RunShape DEF AgentInv, RunAt

\* A revocation is for good, so what two blocks record, those between do.
LEMMA RecordedBetween ==
    ASSUME GateTypeOK, ChainInv, NEW d \in OrZero(Digests), NEW h \in 1..Len(chain),
           NEW first, NEW last, first <= h, h <= last,
           RecordedAt(first, d), RecordedAt(last, d)
    PROVE  chain[h].clearances[d].status = "RECORDED"
<1>1. Keeps(chain[first], chain[h]) /\ Keeps(chain[h], chain[last])
  BY DEF ChainInv, RecordedAt
<1>2. chain[h].clearances[d].status \in {"RECORDED", "REVOKED"}
  BY <1>1 DEF Keeps, RecordedAt
<1>3. chain[h].clearances[d].status = "REVOKED" => chain[last].clearances[d].status = "REVOKED"
  BY <1>1 DEF Keeps
<1> QED BY <1>2, <1>3 DEF RecordedAt

(* What the agent reported blocked, and what a restart cut off before it   *)
(* was reported, is never consumed, for any number of runs, callers and    *)
(* restarts.                                                               *)
THEOREM BlockedRunsAreNotReleased == AgentSpec => []BlockedIsNeverReleased
<1>1. ASSUME AgentInv, NEW a \in Attempts, runs[a] # NoRun, runs[a].nonce # NoNonce
      PROVE  LET n == runs[a].nonce
             IN  /\ attempts[a].final = "BLOCKED" => rows[n].state = "ISSUED"
                 /\ log[a] = "BLOCKED" => rows[n].state = "ISSUED"
                 /\ runs[a].phase \in {"getLedgerAuthorizationStatus", "LOST"}
                       /\ attempts[a] = NoAttempt /\ delivered[n] = {}
                       => rows[n].state = "ISSUED"
  <2> DEFINE n == runs[a].nonce
  <2>1. HasPrepared(runs[a]) /\ n \in Nonces /\ RowOf(rows[n], runs[a])
    BY <1>1, PreparedRun
  <2>2. RunAt(a) /\ NonceAt(n) /\ GateTypeOK
    BY <1>1, <2>1 DEF AgentInv, IndexInv, GateInv
  <2>3. rows[n].state \in {"ISSUED", "CONSUMED"}
    BY <2>1, <2>2, RowShape DEF RowOf
  <2>4. delivered[n] = {} => rows[n].state = "ISSUED"
    BY <2>2, <2>3 DEF NonceAt
  <2>5. attempts[a].final = "BLOCKED" \/ log[a] = "BLOCKED" => delivered[n] = {}
    BY <2>1, <2>2 DEF RunAt, Withheld
  <2> QED BY <2>4, <2>5
<1>2. AgentInv => BlockedIsNeverReleased
  BY <1>1 DEF BlockedIsNeverReleased
<1> QED BY <1>2, AgentInvariant, PTL

(* A release through the agent was recorded and unrevoked in every block   *)
(* between the earliest and the latest of the four reads that vetted it,   *)
(* however far apart lagging indexers and nodes put them.                  *)
THEOREM ReleasesAreVetted == AgentSpec => []VettedThroughout
<1>1. ASSUME AgentInv, NEW a \in Attempts, runs[a] # NoRun, runs[a].nonce # NoNonce,
             rows[runs[a].nonce].state = "CONSUMED"
      PROVE  /\ UsesGraph(runs[a]) => runs[a].indexed > 0
             /\ runs[a].verdict = "CLEAR"
             /\ \A first, last \in BlocksSeen(a) : \A h \in first..last :
                   chain[h].clearances[runs[a].doc.digest].status = "RECORDED"
  <2> DEFINE q == runs[a]
             row == rows[q.nonce]
             d == q.doc.digest
  <2>1. /\ HasPrepared(q) /\ q.nonce \in Nonces /\ q.doc \in Documents
        /\ RowOf(row, q) /\ Shown(q)
    BY <1>1, PreparedRun
  <2>2. GateInv /\ GateTypeOK /\ ChainInv /\ d \in OrZero(Digests)
    BY <1>1, <2>1, DocumentShape DEF AgentInv, IndexInv, GateInv
  <2>3. IssueJustified(row) /\ UseJustified(row) /\ row.doc = q.doc
    BY <1>1, <2>1, <2>2 DEF GateInv, RowsInv, RowOf
  <2>4. RecordedAt(row.precheck, d) /\ RecordedAt(row.postcheck, d)
    <3>1. PICK settled, doc : settled = row /\ doc = q.doc
      OBVIOUS
    <3>2. /\ settled.doc = doc /\ doc.digest = d
          /\ settled.precheck \in 1..Len(chain) /\ EligibleAt(settled.precheck, doc)
          /\ settled.postcheck \in 1..Len(chain) /\ EligibleAt(settled.postcheck, doc)
      BY <2>3, <3>1 DEF IssueJustified, UseJustified
    <3>3. RecordedAt(settled.precheck, d) /\ RecordedAt(settled.postcheck, d)
      BY <3>2 DEF EligibleAt, IsValidAt, RecordedAt
    <3> QED BY <3>1, <3>3
  <2>5. /\ q.indexed # 0 => RecordedAt(q.indexed, d)
        /\ RecordedAt(q.inspected, d) /\ q.verdict = "CLEAR"
        /\ UsesGraph(q) => q.indexed # 0
    BY <1>1, <2>1 DEF Shown
  <2>6. \A h \in BlocksSeen(a) : RecordedAt(h, d)
    BY <2>4, <2>5 DEF BlocksSeen
  <2>7. q.indexed \in Nat
    BY <2>1, RunShape DEF HasPrepared
  <2>8. ASSUME NEW first \in BlocksSeen(a), NEW last \in BlocksSeen(a), NEW h \in first..last
        PROVE  chain[h].clearances[d].status = "RECORDED"
    <3>1. RecordedAt(first, d) /\ RecordedAt(last, d)
      BY <2>6
    <3>2. Len(chain) \in Nat
      BY <2>2 DEF GateTypeOK
    <3>3. first \in 1..Len(chain) /\ last \in 1..Len(chain)
      BY <3>1 DEF RecordedAt
    <3>4. h \in 1..Len(chain) /\ first <= h /\ h <= last
      BY <3>2, <3>3
    <3> QED BY <2>2, <3>1, <3>4, RecordedBetween
  <2>9. UsesGraph(q) => q.indexed > 0
    BY <2>5, <2>7
  <2> QED BY <2>5, <2>8, <2>9
<1>2. AgentInv => VettedThroughout
  BY <1>1 DEF VettedThroughout
<1> QED BY <1>2, AgentInvariant, PTL

(* What the agent and the account's history say agrees with the gate's     *)
(* rows, across restarts and concurrent runs.                              *)
THEOREM ReportsAreTrue == AgentSpec => []ReportsAgreeWithGate
<1>1. ASSUME AgentInv, NEW a \in Attempts
      PROVE  /\ attempts[a].final \in {"LEDGER_APPROVAL_REQUIRED", "AUTHORIZED"}
                   \/ log[a] = "LEDGER_APPROVAL_REQUIRED" =>
                  LET row == rows[runs[a].nonce]
                  IN  /\ runs[a].nonce # NoNonce
                      /\ row.state # "NONE"
                      /\ row.doc = runs[a].doc
                      /\ row.tenant = runs[a].tenant
                      /\ row.signer = runs[a].signer
             /\ attempts[a].final = "AUTHORIZED" => rows[attempts[a].prepared].state = "CONSUMED"
  <2>1. RunAt(a)
    BY <1>1 DEF AgentInv
  <2>2. Awaited(attempts[a]) \/ log[a] = "LEDGER_APPROVAL_REQUIRED" => HasPrepared(runs[a])
    BY <2>1 DEF RunAt, AttemptOf
  <2>3. HasPrepared(runs[a]) => RowOf(rows[runs[a].nonce], runs[a])
    BY <2>1 DEF RunAt
  <2>4. attempts[a].final = "AUTHORIZED" =>
           attempts[a].prepared = runs[a].nonce /\ rows[runs[a].nonce].state = "CONSUMED"
    BY <2>1 DEF RunAt, AttemptOf, Awaited
  <2> QED BY <2>2, <2>3, <2>4 DEF Awaited, RowOf, HasPrepared
<1>2. AgentInv => ReportsAgreeWithGate
  BY <1>1 DEF ReportsAgreeWithGate
<1> QED BY <1>2, AgentInvariant, PTL

(* No route hands the prepared request of an account to anyone else.       *)
THEOREM PreparedIsPrivate == AgentSpec => []PreparedStaysInAccount
<1>1. AgentInv => PreparedStaysInAccount
  BY DEF AgentInv, NonceAt, PreparedStaysInAccount
<1> QED BY <1>1, AgentInvariant, PTL

-----------------------------------------------------------------------------
(* Composition.  The index adds a reader to the gate's chain and the agent *)
(* callers to its service; neither adds a step that the gate alone cannot  *)
(* take, so what the gate promises it promises to them.                    *)
LEMMA IdleIsStutter == GateIdle => [Next]_vars
BY DEF GateIdle

LEMMA IndexStepOfGate == [IndexNext]_<<vars, subgraphVars>> => [Next]_vars
<1>1. Transact \/ SealBlock => Next
  BY DEF Next
<1> QED BY <1>1 DEF IndexNext

\* What is asked of the service by a run's prepare call.
LEMMA CallPrepareOfGate ==
    ASSUME AgentInv, NEW a \in Attempts, CallPrepare(a)
    PROVE  [Next]_vars
<1>1. CASE GateIdle
  BY <1>1, IdleIsStutter
<1>2. CASE PrepareStart(a, runs[a].doc, runs[a].tenant, runs[a].signer)
  <2>1. runs[a] \in Run
    BY ActiveRun DEF AgentInv, CallPrepare
  <2>2. PICK doc \in Documents, tenant \in OrNone(Tenants), signer \in Signers :
           doc = runs[a].doc /\ tenant = runs[a].tenant /\ signer = runs[a].signer
    BY <2>1, RunShape
  <2>3. PrepareStart(a, doc, tenant, signer) /\ a \in Requests
    BY <1>2, <2>2
  <2> QED BY <2>3 DEF Next
<1> QED BY <1>1, <1>2 DEF CallPrepare

LEMMA RunStepOfGate ==
    ASSUME AgentInv, NEW a \in Attempts, RunStep(a)
    PROVE  [Next]_vars
<1>1. a \in Requests
  OBVIOUS
<1>2. CASE CallTool(a) \/ RetryModel(a) \/ FailModel(a) \/ FailRead(a)
  BY <1>2, IdleIsStutter DEF CallTool, RetryModel, FailModel, FailRead
<1>3. CASE \E x \in Indexers, clock \in Clock : AnswerGraph(a, x, clock)
  BY <1>3, IdleIsStutter DEF AnswerGraph
<1>4. CASE \E h \in DOMAIN chain : AnswerRegistry(a, h)
  BY <1>4, IdleIsStutter DEF AnswerRegistry
<1>5. CASE CallPrepare(a)
  BY <1>5, CallPrepareOfGate
<1>6. CASE PrepareThrows(a)
  <2>1. Fail(a)
    BY <1>6 DEF PrepareThrows
  <2> QED BY <1>1, <2>1 DEF Next
<1>7. CASE \E h \in DOMAIN chain, n \in Nonces : PrepareReturns(a, h, n)
  <2>1. PICK h \in DOMAIN chain, n \in Nonces : PrepareFinish(a, h, n)
    BY <1>7 DEF PrepareReturns
  <2> QED BY <1>1, <2>1 DEF Next
<1>8. CASE CallStatus(a) \/ Respond(a)
  BY <1>8, IdleIsStutter DEF CallStatus, Respond
<1> QED BY <1>2, <1>3, <1>4, <1>5, <1>6, <1>7, <1>8 DEF RunStep

LEMMA AgentStepOfGate ==
    ASSUME AgentInv, [AgentNext]_allVars
    PROVE  [Next]_vars
<1>1. CASE IndexNext /\ UNCHANGED agentVars
  BY <1>1, IndexStepOfGate
<1>2. CASE UNCHANGED allVars
  BY <1>2 DEF allVars
<1>3. ASSUME NEW a \in Attempts, NEW route \in Routes, NEW tenant \in OrNone(Tenants),
             \/ RefuseRun(a, route, tenant)
             \/ \E graph \in BOOLEAN, doc \in Documents, verdict \in {"CLEAR", "HOLD"},
                   signer \in Signers : StartRun(a, route, tenant, graph, doc, verdict, signer)
      PROVE  [Next]_vars
  BY <1>3, IdleIsStutter DEF RefuseRun, StartRun
<1>4. ASSUME NEW a \in Attempts, NEW tenant \in OrNone(Tenants), AskStatus(a, tenant)
      PROVE  [Next]_vars
  BY <1>4, IdleIsStutter DEF AskStatus
<1>5. ASSUME NEW a \in Attempts, RunStep(a) PROVE [Next]_vars
  BY <1>5, RunStepOfGate
<1>6. ASSUME NEW r \in Requests, DirectPrepare(r) PROVE [Next]_vars
  <2>1. CASE \E doc \in Documents, tenant \in OrNone(Tenants), signer \in Signers :
                PrepareStart(r, doc, tenant, signer)
    BY <2>1 DEF Next
  <2>2. CASE \E h \in DOMAIN chain, n \in Nonces : PrepareFinish(r, h, n)
    BY <2>2 DEF Next
  <2> QED BY <1>6, <2>1, <2>2 DEF DirectPrepare
<1>7. ASSUME NEW r \in Requests, Consume(r) PROVE [Next]_vars
  <2>1. CASE \E n \in Nonces, tenant \in OrNone(Tenants), signer \in Signers :
                ConsumeStart(r, n, tenant, signer)
    BY <2>1 DEF Next
  <2>2. CASE (\E h \in DOMAIN chain : ConsumeFinish(r, h)) \/ Fail(r) \/ Answer(r)
    BY <2>2 DEF Next
  <2> QED BY <1>7, <2>1, <2>2 DEF Consume
<1>8. ASSUME NEW allowlist \in SUBSET Signers, RestartServer(allowlist) PROVE [Next]_vars
  <2>1. Restart(allowlist)
    BY <1>8 DEF RestartServer
  <2> QED BY <2>1 DEF Next
<1> QED BY <1>1, <1>2, <1>3, <1>4, <1>5, <1>6, <1>7, <1>8 DEF AgentNext

(* With the agent, its routes and the index around it, the gate is still   *)
(* the gate: every behaviour of the whole is one of ReleaseGate.           *)
THEOREM AgentImplementsGate == AgentSpec => Spec
<1>1. AgentInit => Init
  BY DEF AgentInit
<1>2. AgentInv /\ [AgentNext]_allVars => [Next]_vars
  BY AgentStepOfGate
<1> QED BY <1>1, <1>2, AgentInvariant, PTL DEF AgentSpec, Spec

(* And the gate's chain is the contract's: every behaviour of the whole is *)
(* one of Registry.                                                        *)
THEOREM AgentImplementsRegistry == AgentSpec => RegistrySpec
<1>1. Init => RegistryInit
  BY DEF Init
<1> QED BY <1>1, AgentImplementsGate, RegistryStep, PTL DEF Spec, RegistrySpec

(* So no run, route or restart makes an authorization that is answered     *)
(* twice, outlives its window, names a signer that was not allowed, or     *)
(* rests on a clearance that was not valid from its first check to its     *)
(* last; and none brings an invalid clearance back.                        *)
THEOREM AgentKeepsGate ==
    AgentSpec => /\ [](AtMostOneAnswer /\ ValidThroughout /\ WithinWindow)
                 /\ PolicyIsCurrent /\ OneShotPermits /\ NeverRevalidates
BY AgentImplementsGate, AgentImplementsRegistry, NonceIsSingleUse, AuthorizationsAreBacked,
   IntentsStayInWindow, ConsumersAreAllowed, GateImplementsPermits, InvalidityIsPermanent, PTL

-----------------------------------------------------------------------------
(* The catalog: what the text of a request names is what the agent's tool  *)
(* call names.                                                             *)
CONSTANTS Keys, AliasLists, Dotted, Undot(_)  \* the constants of Catalog

Deployments == INSTANCE Catalog

\* The instance has a Cardinality of its own, which is the same function.
LEMMA CardinalityIsTheirs == \A S : Deployments!Cardinality(S) = Cardinality(S)
  BY DEF Deployments!Cardinality, Cardinality

\* An answer that is not an error is the one match.
LEMMA TheOnlyIsOnly ==
    ASSUME NEW S, IsFiniteSet(S), NEW answer, answer = Deployments!TheOnly(S), answer \notin {"NOT_FOUND", "AMBIGUOUS"}
    PROVE  S = {answer}
<1>1. S # {} /\ Cardinality(S) = 1 /\ answer = CHOOSE k \in S : TRUE
  BY CardinalityIsTheirs DEF Deployments!TheOnly
<1>2. PICK k : S = {k}
  BY <1>1, FS_Singleton
<1> QED BY <1>1, <1>2

\* A single match is the answer.
LEMMA TheOnlyOf == \A k : Deployments!TheOnly({k}) = k
<1> TAKE k
<1>1. Cardinality({k}) = 1 /\ (CHOOSE j \in {k} : TRUE) = k
  BY FS_Singleton
<1> QED BY <1>1, CardinalityIsTheirs DEF Deployments!TheOnly

\* A request text that is answered with a target reads as no other entry's form, and
\* the same references in a tool call name that target (catalog.ts).
THEOREM NoNamesake ==
    ASSUME IsFiniteSet(Keys), "NOT_FOUND" \notin Keys, "AMBIGUOUS" \notin Keys,
           NEW catalog, NEW text, NEW answer \in Keys, answer = Deployments!ResolvePublicRequest(catalog, text)
    PROVE  /\ \A k \in Keys : Deployments!Normalize(text) \in Deployments!PublicRequestForms(catalog[k]) <=> k = answer
           /\ \A s \in catalog[answer].site, r \in catalog[answer].robot, b \in catalog[answer].build :
                 Deployments!Normalize(text) = Deployments!DeployFor(s, r, b) => Deployments!Resolve(catalog, s, r, b) = answer
<1>1. PICK matches : matches = {k \in Keys : Deployments!Normalize(text) \in Deployments!PublicRequestForms(catalog[k])}
  OBVIOUS
<1>2. IsFiniteSet(matches)
  BY <1>1, FS_Subset
<1>3. matches = {answer}
  BY <1>1, <1>2, TheOnlyIsOnly DEF Deployments!ResolvePublicRequest
<1>4. ASSUME NEW s \in catalog[answer].site, NEW r \in catalog[answer].robot,
             NEW b \in catalog[answer].build, Deployments!Normalize(text) = Deployments!DeployFor(s, r, b)
      PROVE  Deployments!Resolve(catalog, s, r, b) = answer
  <2>1. ASSUME NEW k \in Keys, Deployments!Names(catalog[k], s, r, b) PROVE k \in matches
    <3>1. Deployments!DeployFor(s, r, b) \in Deployments!Forms(s, r, b)
      BY DEF Deployments!Forms
    <3>2. Deployments!Forms(s, r, b) \subseteq Deployments!PublicRequestForms(catalog[k])
      BY <2>1 DEF Deployments!Names, Deployments!PublicRequestForms
    <3> QED BY <1>1, <1>4, <3>1, <3>2
  <2>2. {k \in Keys : Deployments!Names(catalog[k], s, r, b)} = {answer}
    BY <1>3, <1>4, <2>1 DEF Deployments!Names
  <2> QED BY <2>2, TheOnlyOf DEF Deployments!Resolve
<1> QED BY <1>1, <1>3, <1>4
=============================================================================

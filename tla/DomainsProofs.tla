----------------------------- MODULE DomainsProofs -----------------------------
(***************************************************************************)
(* Proofs about Domains, for any number of requests, hosts and businesses, *)
(* and any rows to start with that satisfy the constraints of the table.   *)
(***************************************************************************)
EXTENDS Domains, TLAPS

-----------------------------------------------------------------------------
(* The inductive invariant.                                                *)

DSteps == {"idle", "dns", "verify", "tls", "good", "bad", "primary", "done"}
Ended == {"idle", "done"}

\* A row satisfies the constraints; a pending one waits for the token issued
\* last, and a verified one was verified with it.
Sound(h) ==
  row[h] # NoRow =>
    /\ CheckHolds(row[h]) /\ issued[h] \in Token
    /\ row[h].status = "pending" => row[h].token = issued[h]
    /\ row[h].status = "verified" => <<h, issued[h]>> \in proven

\* Between its steps a request holds a host that has a row, and commits a
\* verification only once it has found the token it holds.
Holds(r) ==
  dpc[r] \notin Ended =>
    /\ held[r] \in Held /\ row[held[r].host] # NoRow
    /\ dpc[r] \in {"dns", "verify"} => held[r].token \in Token
    /\ dpc[r] = "verify" => <<held[r].host, held[r].token>> \in proven

\* The token that a request will issue is nowhere yet.
Unused(r) ==
  dpc[r] = "idle" =>
    /\ \A h \in Host : issued[h] # r
    /\ \A p \in proven : p[2] # r
    /\ \A s \in DReq : held[s] # NoRow => held[s].token # r

Types ==
  /\ row \in [Host -> Row \cup {NoRow}]
  /\ issued \in [Host -> Token \cup {NoRow}]
  /\ dns \in [Host -> SUBSET Token]
  /\ open \subseteq Business
  /\ proven \subseteq Host \X Token
  /\ dpc \in [DReq -> DSteps]
  /\ held \in [DReq -> Held \cup {NoRow}]

DomainsInv ==
  /\ Types
  /\ \A h \in Host : Sound(h)
  /\ \A r \in DReq : Holds(r) /\ Unused(r)

-----------------------------------------------------------------------------
(* What each operation makes of a row.                                     *)

\* A new token, for a claim or a rotation.
LEMMA CreatedRow ==
  ASSUME NEW b \in Business, NEW t \in Token
  PROVE  /\ Created(b, t) \in Row /\ CheckHolds(Created(b, t))
         /\ Created(b, t).business = b /\ Created(b, t).status = "pending"
         /\ Created(b, t).token = t /\ PhaseOf(Created(b, t)) = "pending"
         /\ Created(b, t) # NoRow
<1> DEFINE d == Created(b, t)
<1>1. d \in Row
  BY DEF Created, Row
<1>2. /\ d.business = b /\ d.status = "pending" /\ ~d.active /\ ~d.primary
      /\ d.token = t /\ d.tls = "pending"
  BY DEF Created
<1>3. d # NoRow /\ t # NoRow
  BY <1>1, DomainsAssumption
<1> HIDE DEF d
<1>4. CheckHolds(d) /\ PhaseOf(d) = "pending"
  BY <1>2, <1>3 DEF CheckHolds, PhaseOf
<1> QED
  BY <1>1, <1>2, <1>3, <1>4 DEF d

\* A verified row is owned, and nothing more.
LEMMA VerifiedRow ==
  ASSUME NEW d \in Row, CheckHolds(d), d.status = "pending"
  PROVE  /\ Verified(d) \in Row /\ CheckHolds(Verified(d)) /\ Verified(d) # NoRow
         /\ Verified(d).business = d.business /\ Verified(d).status = "verified"
         /\ PhaseOf(d) = "pending" /\ PhaseOf(Verified(d)) = "owned"
<1> DEFINE d1 == [d EXCEPT !.status = "verified"]
           d2 == [d1 EXCEPT !.token = NoRow]
           d3 == [d2 EXCEPT !.tls = "pending"]
<1>1. Verified(d) = d3
  BY DEF Verified
<1>2. d1 \in Row /\ d2 \in Row /\ d3 \in Row
  BY DEF Row
<1>3. /\ d3.business = d.business /\ d3.status = "verified" /\ d3.active = d.active
      /\ d3.primary = d.primary /\ d3.token = NoRow /\ d3.tls = "pending"
  BY DEF Row
<1>4. ~d.active /\ ~d.primary
  BY DEF CheckHolds
<1> HIDE DEF d3
<1> QED
  BY <1>1, <1>2, <1>3, <1>4, DomainsAssumption DEF CheckHolds, PhaseOf

\* A good certificate keeps a live row as it is; a bad one stops it.
LEMMA InspectedRow ==
  ASSUME NEW d \in Row, CheckHolds(d), d.status = "verified", NEW good \in BOOLEAN
  PROVE  /\ Inspected(d, good) \in Row /\ CheckHolds(Inspected(d, good))
         /\ Inspected(d, good) # NoRow
         /\ Inspected(d, good).business = d.business
         /\ Inspected(d, good).status = "verified"
         /\ ~good => PhaseOf(Inspected(d, good)) = "insecure"
         /\ good => \/ PhaseOf(Inspected(d, good)) = PhaseOf(d)
                    \/ /\ PhaseOf(d) \in {"owned", "insecure"}
                       /\ PhaseOf(Inspected(d, good)) = "secure"
<1> DEFINE g == [d EXCEPT !.tls = "verified"]
           b1 == [d EXCEPT !.tls = "failed"]
           b2 == [b1 EXCEPT !.active = FALSE]
           b3 == [b2 EXCEPT !.primary = FALSE]
<1>1. Inspected(d, good) = IF good THEN g ELSE b3
  BY DEF Inspected
<1>2. g \in Row /\ b1 \in Row /\ b2 \in Row /\ b3 \in Row
  BY DEF Row
<1>3. /\ b3.business = d.business /\ b3.status = d.status /\ b3.active = FALSE
      /\ b3.primary = FALSE /\ b3.token = d.token /\ b3.tls = "failed"
  BY DEF Row
<1>4. /\ g.business = d.business /\ g.status = d.status /\ g.active = d.active
      /\ g.primary = d.primary /\ g.token = d.token /\ g.tls = "verified"
  BY DEF Row
<1>5. d.tls \in {"pending", "verified", "failed"} /\ d # NoRow
  BY DomainsAssumption DEF Row
<1> HIDE DEF g, b3
<1>6. CASE good
  BY <1>1, <1>2, <1>4, <1>5, <1>6, DomainsAssumption DEF CheckHolds, PhaseOf
<1>7. CASE ~good
  BY <1>1, <1>2, <1>3, <1>7, DomainsAssumption DEF CheckHolds, PhaseOf
<1> QED
  BY <1>6, <1>7

\* Activation takes a secure row, and leaves a live one.
LEMMA ActivatedRow ==
  ASSUME NEW d \in Row, CheckHolds(d), d.status = "verified", d.tls = "verified"
  PROVE  /\ Activated(d) \in Row /\ CheckHolds(Activated(d)) /\ Activated(d) # NoRow
         /\ Activated(d).business = d.business /\ Activated(d).status = "verified"
         /\ \/ PhaseOf(Activated(d)) = PhaseOf(d)
            \/ PhaseOf(d) = "secure" /\ PhaseOf(Activated(d)) = "live"
<1>1. Activated(d) \in Row
  BY DEF Activated, Row
<1>2. /\ Activated(d).business = d.business /\ Activated(d).status = d.status
      /\ Activated(d).active /\ Activated(d).primary = d.primary
      /\ Activated(d).token = d.token /\ Activated(d).tls = d.tls
  BY DEF Activated, Row
<1> QED
  BY <1>1, <1>2, DomainsAssumption DEF CheckHolds, PhaseOf

\* Deactivating a domain keeps the table's CHECK, its business and its proof,
\* and takes it out of the phases in which it serves.
LEMMA DeactivatedRow ==
  ASSUME NEW d \in Row, CheckHolds(d)
  PROVE  /\ Deactivated(d) \in Row /\ CheckHolds(Deactivated(d)) /\ Deactivated(d) # NoRow
         /\ Deactivated(d).business = d.business /\ Deactivated(d).status = d.status
         /\ Deactivated(d).token = d.token
         /\ \/ PhaseOf(Deactivated(d)) = PhaseOf(d)
            \/ PhaseOf(d) \in {"live", "primary"} /\ PhaseOf(Deactivated(d)) = "secure"
<1> DEFINE d1 == [d EXCEPT !.active = FALSE]
           d2 == [d1 EXCEPT !.primary = FALSE]
<1>1. Deactivated(d) = d2
  BY DEF Deactivated
<1>2. d1 \in Row /\ d2 \in Row
  BY DEF Row
<1>3. /\ d2.business = d.business /\ d2.status = d.status /\ d2.active = FALSE
      /\ d2.primary = FALSE /\ d2.token = d.token /\ d2.tls = d.tls
  BY DEF Row
<1>4. d # NoRow
  BY DomainsAssumption
<1> HIDE DEF d2
<1> QED
  BY <1>1, <1>2, <1>3, <1>4, DomainsAssumption DEF CheckHolds, PhaseOf

\* Revoking a domain keeps the table's CHECK and leaves it revoked.
LEMMA RevokedRow ==
  ASSUME NEW d \in Row, CheckHolds(d)
  PROVE  /\ Revoked(d) \in Row /\ CheckHolds(Revoked(d)) /\ Revoked(d) # NoRow
         /\ Revoked(d).business = d.business /\ Revoked(d).status = "revoked"
         /\ PhaseOf(Revoked(d)) = "revoked"
<1> DEFINE d1 == [d EXCEPT !.status = "revoked"]
           d2 == [d1 EXCEPT !.active = FALSE]
           d3 == [d2 EXCEPT !.primary = FALSE]
           d4 == [d3 EXCEPT !.token = NoRow]
           d5 == [d4 EXCEPT !.tls = "pending"]
<1>1. Revoked(d) = d5
  BY DEF Revoked
<1>2. d1 \in Row /\ d2 \in Row /\ d3 \in Row
  BY DEF Row
<1>3. d3.business = d.business /\ d3.status = "revoked" /\ ~d3.active /\ ~d3.primary
  BY DEF Row
<1>4. d4 \in Row /\ d5 \in Row
  BY <1>2 DEF Row
<1>5. /\ d5.business = d3.business /\ d5.status = d3.status /\ d5.active = d3.active
      /\ d5.primary = d3.primary /\ d5.token = NoRow /\ d5.tls = "pending"
  <2> HIDE DEF d3
  <2> QED
    BY <1>2 DEF Row
<1> HIDE DEF d3, d5
<1> QED
  BY <1>1, <1>3, <1>4, <1>5, DomainsAssumption DEF CheckHolds, PhaseOf

\* A row whose host becomes, or stops being, the primary one.
LEMMA PrimaryRow ==
  ASSUME NEW d \in Row, CheckHolds(d), NEW p \in BOOLEAN
  PROVE  LET e == [d EXCEPT !.primary = p] IN
         /\ e \in Row /\ e # NoRow /\ e.business = d.business
         /\ e.status = d.status /\ e.token = d.token
         /\ ~p => CheckHolds(e) /\ PhaseOf(e) = IF d.primary THEN "live" ELSE PhaseOf(d)
         /\ p /\ CheckHolds(e) => PhaseOf(e) = "primary" /\ PhaseOf(d) \in {"live", "primary"}
<1> DEFINE e == [d EXCEPT !.primary = p]
<1>1. /\ e \in Row /\ e.business = d.business /\ e.status = d.status /\ e.token = d.token
      /\ e.active = d.active /\ e.tls = d.tls /\ e.primary = p
  BY DEF Row
<1>2. d # NoRow /\ e # NoRow /\ d.primary \in BOOLEAN
  BY <1>1, DomainsAssumption DEF Row
<1> HIDE DEF e
<1>3. ~p => CheckHolds(e) /\ PhaseOf(e) = IF d.primary THEN "live" ELSE PhaseOf(d)
  BY <1>1, <1>2 DEF CheckHolds, PhaseOf
<1>4. p /\ CheckHolds(e) => PhaseOf(e) = "primary" /\ PhaseOf(d) \in {"live", "primary"}
  BY <1>1, <1>2 DEF CheckHolds, PhaseOf
<1> QED
  BY <1>1, <1>2, <1>3, <1>4 DEF e

-----------------------------------------------------------------------------
(* What a step of a request means for the invariant and for the lifecycle. *)

\* A step that Lifecycle allows, or does not see.
Allowed == L!Next \/ UNCHANGED L!vars

\* The requests and the hosts that a step leaves alone stay as they were.
LEMMA Keep ==
  ASSUME DomainsInv, NEW r \in DReq, Types', \A h \in Host : Sound(h)',
         Holds(r)', dpc'[r] # "idle",
         \A s \in DReq \ {r} : dpc'[s] = dpc[s] /\ held'[s] = held[s],
         \A h \in Host : row[h] # NoRow => row'[h] # NoRow,
         proven \subseteq proven',
         \A h \in Host : issued'[h] \in {issued[h], r},
         \A p \in proven' : p \in proven \/ (held'[r] # NoRow /\ p[2] = held'[r].token),
         \A s \in DReq \ {r} : dpc[s] = "idle" => held'[r] = NoRow \/ held'[r].token # s
  PROVE  DomainsInv'
<1>1. ASSUME NEW s \in DReq \ {r}
      PROVE  Holds(s)' /\ Unused(s)'
  <2>0. Holds(s) /\ Unused(s) /\ dpc'[s] = dpc[s] /\ held'[s] = held[s]
    BY DEF DomainsInv
  <2>1. Holds(s)'
    BY <2>0 DEF Holds, Held
  <2>2. Unused(s)'
    BY <2>0 DEF Unused
  <2> QED
    BY <2>1, <2>2
<1>2. Unused(r)'
  BY DEF Unused
<1> QED
  BY <1>1, <1>2 DEF DomainsInv

\* A request ends.
LEMMA EndsTells ==
  ASSUME DomainsInv, NEW r \in DReq, NEW how, Ends(r, how)
  PROVE  /\ dpc' \in [DReq -> DSteps] /\ held' \in [DReq -> Held \cup {NoRow}]
         /\ dpc'[r] = "done" /\ held' = held
         /\ \A s \in DReq \ {r} : dpc'[s] = dpc[s]
         /\ Holds(r)'
BY DEF DomainsInv, Types, Ends, DSteps, Holds, Ended

\* The token that a request holds is not one that another will issue.
LEMMA HeldIsUsed ==
  ASSUME DomainsInv, NEW r \in DReq, held'[r] = held[r]
  PROVE  \A s \in DReq \ {r} : dpc[s] = "idle" => held'[r] = NoRow \/ held'[r].token # s
BY DEF DomainsInv, Unused

\* A step that leaves the rows alone and ends.
LEMMA QuietEnds ==
  ASSUME DomainsInv, NEW r \in DReq, NEW how, Ends(r, how), UNCHANGED <<table, world>>
  PROVE  DomainsInv' /\ Allowed
<1>1. /\ dpc' \in [DReq -> DSteps] /\ held' \in [DReq -> Held \cup {NoRow}]
      /\ dpc'[r] = "done" /\ held' = held
      /\ \A s \in DReq \ {r} : dpc'[s] = dpc[s]
      /\ Holds(r)'
  BY EndsTells
<1>2. Types' /\ \A h \in Host : Sound(h)'
  BY <1>1 DEF DomainsInv, Types, table, world, Sound
<1>3. UNCHANGED <<row, issued, dns, open, proven>>
  BY DEF table, world
<1>4. DomainsInv'
  <2>1. \A s \in DReq \ {r} : dpc[s] = "idle" => held'[r] = NoRow \/ held'[r].token # s
    BY <1>1, HeldIsUsed
  <2> QED
    BY <1>1, <1>2, <1>3, <2>1, Keep
<1>5. Allowed
  BY <1>3 DEF Allowed, L!vars
<1> QED
  BY <1>4, <1>5

\* A step that leaves the rows alone and waits, holding a host that has a row.
LEMMA QuietWaits ==
  ASSUME DomainsInv, NEW r \in DReq, UNCHANGED <<table, world>>,
         NEW step \in DSteps \ Ended, NEW h \in Host, NEW t \in Token \cup {NoRow},
         Waits(r, step, h, t), row[h] # NoRow,
         step \in {"dns", "verify"} => t \in Token,
         step = "verify" => <<h, t>> \in proven,
         \A s \in DReq \ {r} : dpc[s] = "idle" => t # s
  PROVE  DomainsInv' /\ Allowed
<1>1. [host |-> h, token |-> t] \in Held /\ [host |-> h, token |-> t] # NoRow
  BY DomainsAssumption DEF Held
<1>2. /\ dpc' \in [DReq -> DSteps] /\ held' \in [DReq -> Held \cup {NoRow}]
      /\ dpc'[r] = step /\ held'[r] = [host |-> h, token |-> t]
      /\ \A s \in DReq \ {r} : dpc'[s] = dpc[s] /\ held'[s] = held[s]
  BY <1>1 DEF DomainsInv, Types, Waits
<1>3. UNCHANGED <<row, issued, dns, open, proven>>
  BY DEF table, world
<1>4. Types' /\ \A g \in Host : Sound(g)'
  BY <1>2, <1>3 DEF DomainsInv, Types, Sound
<1>5. Holds(r)' /\ dpc'[r] # "idle"
  BY <1>1, <1>2, <1>3 DEF Holds, Ended
<1>6. DomainsInv'
  BY <1>2, <1>3, <1>4, <1>5, Keep
<1>7. Allowed
  BY <1>3 DEF Allowed, L!vars
<1> QED
  BY <1>6, <1>7

\* A row written by a transaction that ends the request.
LEMMA WriteKeeps ==
  ASSUME DomainsInv, NEW r \in DReq, NEW h \in Host, NEW d \in Row, CheckHolds(d),
         NEW how, Ends(r, how), row' = [row EXCEPT ![h] = d], UNCHANGED world,
         \/ issued' = issued /\ row[h] # NoRow
         \/ issued' = [issued EXCEPT ![h] = r],
         issued'[h] \in Token,
         d.status = "pending" => d.token = issued'[h],
         d.status = "verified" => <<h, issued'[h]>> \in proven
  PROVE  DomainsInv'
<1>0. Types /\ d # NoRow /\ r \in Token
  BY DomainsAssumption DEF DomainsInv, Token
<1>1. /\ dpc' \in [DReq -> DSteps] /\ held' \in [DReq -> Held \cup {NoRow}]
      /\ dpc'[r] = "done" /\ held' = held
      /\ \A s \in DReq \ {r} : dpc'[s] = dpc[s]
      /\ Holds(r)'
  BY EndsTells
<1>2. /\ row' \in [Host -> Row \cup {NoRow}] /\ row'[h] = d
      /\ \A g \in Host \ {h} : row'[g] = row[g]
  BY <1>0 DEF Types
<1>3. /\ issued' \in [Host -> Token \cup {NoRow}] /\ issued'[h] \in {issued[h], r}
      /\ \A g \in Host \ {h} : issued'[g] = issued[g]
  BY <1>0 DEF Types
<1>4. UNCHANGED <<dns, open, proven>>
  BY DEF world
<1>5. Types'
  BY <1>0, <1>1, <1>2, <1>3, <1>4 DEF Types
<1>6. \A g \in Host : Sound(g)'
  <2>1. Sound(h)'
    BY <1>2, <1>4 DEF Sound
  <2>2. ASSUME NEW g \in Host \ {h} PROVE Sound(g)'
    BY <1>2, <1>3, <1>4 DEF DomainsInv, Sound
  <2> QED
    BY <2>1, <2>2
<1>7. \A s \in DReq \ {r} : dpc[s] = "idle" => held'[r] = NoRow \/ held'[r].token # s
  BY <1>1, HeldIsUsed
<1>8. /\ \A g \in Host : row[g] # NoRow => row'[g] # NoRow
      /\ \A g \in Host : issued'[g] \in {issued[g], r}
  BY <1>0, <1>2, <1>3
<1> QED
  BY <1>1, <1>4, <1>5, <1>6, <1>7, <1>8, Keep

\* What Lifecycle sees of it.
LEMMA WriteMoves ==
  ASSUME Types, NEW h \in Host, NEW d \in Row, row' = [row EXCEPT ![h] = d]
  PROVE  /\ L!Move(h, PhaseOf(d))
         /\ [g \in Host |-> IF row[g] = NoRow THEN NoRow ELSE row[g].business]' =
              [[g \in Host |-> IF row[g] = NoRow THEN NoRow ELSE row[g].business]
                 EXCEPT ![h] = d.business]
<1>1. d # NoRow /\ row'[h] = d /\ \A g \in Host \ {h} : row'[g] = row[g]
  BY DomainsAssumption DEF Types
<1> DEFINE phase == [g \in Host |-> PhaseOf(row[g])]
           owner == [g \in Host |-> IF row[g] = NoRow THEN NoRow ELSE row[g].business]
<1>2. phase' = [g \in Host |-> PhaseOf(row'[g])]
  BY DEF PhaseOf
<1>3. phase' = [phase EXCEPT ![h] = PhaseOf(d)]
  <2>1. \A g \in Host : phase'[g] = IF g = h THEN PhaseOf(d) ELSE phase[g]
    BY <1>1, <1>2
  <2>2. phase' = [g \in Host |-> phase'[g]] /\ phase = [g \in Host |-> phase[g]]
    BY <1>2
  <2> HIDE DEF phase
  <2> QED
    BY <2>1, <2>2
<1>4. owner' = [owner EXCEPT ![h] = d.business]
  <2>1. \A g \in Host : owner'[g] = IF g = h THEN d.business ELSE owner[g]
    BY <1>1
  <2>2. owner' = [g \in Host |-> owner'[g]] /\ owner = [g \in Host |-> owner[g]]
    OBVIOUS
  <2> HIDE DEF owner
  <2> QED
    BY <2>1, <2>2
<1> QED
  BY <1>3, <1>4 DEF L!Move

\* A row that keeps its business, and the token issued last.
LEMMA RewriteMoves ==
  ASSUME Types, NEW h \in Host, NEW d \in Row, row' = [row EXCEPT ![h] = d],
         row[h] # NoRow, d.business = row[h].business, UNCHANGED <<issued, proven>>
  PROVE  /\ L!Move(h, PhaseOf(d)) /\ L!Same
         /\ PhaseOf(d) = PhaseOf(row[h]) => UNCHANGED L!vars
<1> DEFINE owner == [g \in Host |-> IF row[g] = NoRow THEN NoRow ELSE row[g].business]
           phase == [g \in Host |-> PhaseOf(row[g])]
<1>1. L!Move(h, PhaseOf(d)) /\ owner' = [owner EXCEPT ![h] = d.business]
  BY WriteMoves
<1>2. owner' = owner
  BY <1>1
<1>3. phase' = [phase EXCEPT ![h] = PhaseOf(d)]
  BY <1>1 DEF L!Move
<1>4. PhaseOf(d) = PhaseOf(row[h]) => phase' = phase
  BY <1>3
<1> QED
  BY <1>1, <1>2, <1>4 DEF L!Same, L!vars

-----------------------------------------------------------------------------
(* The operations.                                                         *)

\* A claim and a rotation issue the token of the request, never seen before.
LEMMA IssueKeeps ==
  ASSUME DomainsInv, NEW r \in DReq, NEW h \in Host, Add(r, h) \/ Rotate(r, h)
  PROVE  DomainsInv' /\ Allowed
<1>0. Types /\ dpc[r] = "idle" /\ UNCHANGED world /\ r \in Token
  BY DEF DomainsInv, Add, Rotate, Begins, Token
<1>1. ASSUME NEW how, Refuse(r, how)
      PROVE  DomainsInv' /\ Allowed
  BY <1>0, <1>1, QuietEnds DEF Refuse
<1>2. ASSUME NEW b \in Business, Write(r, h, Created(b, r)),
             issued' = [issued EXCEPT ![h] = r],
             row[h] # NoRow => b = row[h].business
      PROVE  DomainsInv' /\ Allowed
  <2>1. PICK d \in Row : d = Created(b, r)
    BY <1>0, CreatedRow
  <2>2. /\ CheckHolds(d) /\ d.business = b /\ d.status = "pending" /\ d.token = r
        /\ PhaseOf(d) = "pending"
    BY <1>0, <2>1, CreatedRow
  <2>3. row' = [row EXCEPT ![h] = d] /\ Ends(r, "saved") /\ issued'[h] = r
    BY <1>0, <1>2, <2>1, <2>2 DEF Write, Types
  <2>4. DomainsInv'
    BY <1>0, <1>2, <2>2, <2>3, WriteKeeps
  <2>5. /\ L!Move(h, "pending")
        /\ [g \in Host |-> IF row[g] = NoRow THEN NoRow ELSE row[g].business]' =
              [[g \in Host |-> IF row[g] = NoRow THEN NoRow ELSE row[g].business]
                 EXCEPT ![h] = b]
    BY <1>0, <2>2, <2>3, WriteMoves
  <2>6. r \notin L!Tokens
    BY <1>0 DEF DomainsInv, Unused, L!Tokens
  <2>7. UNCHANGED proven
    BY <1>0 DEF world
  <2>8. CASE row[h] = NoRow
    <3>1. [g \in Host |-> PhaseOf(row[g])][h] = "none"
      BY <2>8 DEF PhaseOf
    <3>2. L!Claim(h, b, r)
      BY <1>2, <2>5, <2>6, <2>7, <3>1 DEF L!Claim
    <3> QED
      BY <1>0, <2>4, <3>2 DEF Allowed, L!Next
  <2>9. CASE row[h] # NoRow
    <3>1. [g \in Host |-> PhaseOf(row[g])][h] # "none"
      BY <1>0, <2>9 DEF PhaseOf, Types, Row
    <3>2. [g \in Host |-> IF row[g] = NoRow THEN NoRow ELSE row[g].business]' =
            [g \in Host |-> IF row[g] = NoRow THEN NoRow ELSE row[g].business]
      BY <1>2, <2>5, <2>9
    <3>3. L!Rotate(h, r)
      BY <1>2, <2>5, <2>6, <2>7, <3>1, <3>2 DEF L!Rotate
    <3> QED
      BY <1>0, <2>4, <3>3 DEF Allowed, L!Next
  <2> QED
    BY <2>8, <2>9
<1>3. CASE Add(r, h)
  <2>1. PICK b \in open :
          \/ \E how \in {"reserved", "taken"} : Refuse(r, how)
          \/ /\ row[h] = NoRow /\ Write(r, h, Created(b, r))
             /\ issued' = [issued EXCEPT ![h] = r]
    BY <1>3 DEF Add
  <2> QED
    BY <1>0, <1>1, <1>2, <2>1 DEF Types
<1>4. CASE Rotate(r, h)
  <2>1. CASE row[h] = NoRow
    BY <1>1, <1>4, <2>1 DEF Rotate
  <2>2. CASE row[h] # NoRow
    <3>1. PICK b \in Business : b = row[h].business
      BY <1>0, <2>2 DEF Types, Row
    <3> QED
      BY <1>2, <1>4, <2>2, <3>1 DEF Rotate, Rotated
  <2> QED
    BY <2>1, <2>2
<1> QED
  BY <1>3, <1>4

\* The operations that rewrite a row in one transaction, and what they do to it.
LEMMA RewriteKeeps ==
  ASSUME DomainsInv, NEW r \in DReq, NEW h \in Host, row[h] # NoRow,
         NEW d \in Row, CheckHolds(d), Write(r, h, d), UNCHANGED <<issued, world>>,
         d.business = row[h].business,
         d.status = "pending" => d.token = issued[h],
         d.status = "verified" => <<h, issued[h]>> \in proven,
         L!Move(h, PhaseOf(d)) /\ L!Same => PhaseOf(d) = PhaseOf(row[h]) \/ L!Next
  PROVE  DomainsInv' /\ Allowed
<1>1. row' = [row EXCEPT ![h] = d] /\ Ends(r, "saved") /\ UNCHANGED proven
  BY DEF Write, world
<1>2. DomainsInv'
  BY <1>1, WriteKeeps DEF DomainsInv, Sound
<1>3. L!Move(h, PhaseOf(d)) /\ L!Same /\ (PhaseOf(d) = PhaseOf(row[h]) => UNCHANGED L!vars)
  BY <1>1, RewriteMoves DEF DomainsInv
<1> QED
  BY <1>2, <1>3 DEF Allowed

\* The panel's switch and the revocation keep the invariant, and move every
\* domain as the lifecycle allows.
LEMMA SetActiveKeeps ==
  ASSUME DomainsInv, NEW r \in DReq, NEW h \in Host, SetActive(r, h) \/ Revoke(r, h)
  PROVE  DomainsInv' /\ Allowed
<1>0. Types /\ UNCHANGED <<issued, world>> /\ Sound(h)
  BY DEF DomainsInv, SetActive, Revoke
<1>1. ASSUME NEW how, Refuse(r, how)
      PROVE  DomainsInv' /\ Allowed
  BY <1>0, <1>1, QuietEnds DEF Refuse
<1>2. CASE row[h] # NoRow
  <2>1. PICK d \in Row : d = row[h]
    BY <1>0, <1>2 DEF Types
  <2>2. /\ CheckHolds(d) /\ (d.status = "pending" => d.token = issued[h])
        /\ d.status = "verified" => <<h, issued[h]>> \in proven
    BY <1>0, <1>2, <2>1 DEF Sound
  <2>3. [g \in Host |-> PhaseOf(row[g])][h] = PhaseOf(d)
    BY <2>1
  <2>4. ASSUME Write(r, h, Activated(d)), d.status = "verified", d.tls = "verified"
        PROVE  DomainsInv' /\ Allowed
    <3>1. PICK e \in Row : e = Activated(d)
      BY <2>2, <2>4, ActivatedRow
    <3>2. /\ CheckHolds(e) /\ e.business = d.business /\ e.status = "verified"
          /\ \/ PhaseOf(e) = PhaseOf(d)
             \/ PhaseOf(d) = "secure" /\ PhaseOf(e) = "live"
      BY <2>2, <2>4, <3>1, ActivatedRow
    <3>3. L!Move(h, PhaseOf(e)) /\ L!Same => PhaseOf(e) = PhaseOf(d) \/ L!Next
      BY <2>3, <3>2 DEF L!Activate, L!Next
    <3> QED
      BY <1>0, <1>2, <2>1, <2>2, <2>4, <3>1, <3>2, <3>3, RewriteKeeps
  <2>5. ASSUME Write(r, h, Deactivated(d))
        PROVE  DomainsInv' /\ Allowed
    <3>1. PICK e \in Row : e = Deactivated(d)
      BY <2>2, DeactivatedRow
    <3>2. /\ CheckHolds(e) /\ e.business = d.business /\ e.status = d.status
          /\ e.token = d.token
          /\ \/ PhaseOf(e) = PhaseOf(d)
             \/ PhaseOf(d) \in {"live", "primary"} /\ PhaseOf(e) = "secure"
      BY <2>2, <3>1, DeactivatedRow
    <3>3. L!Move(h, PhaseOf(e)) /\ L!Same => PhaseOf(e) = PhaseOf(d) \/ L!Next
      BY <2>3, <3>2 DEF L!Stop, L!Next
    <3> QED
      BY <1>0, <1>2, <2>1, <2>2, <2>5, <3>1, <3>2, <3>3, RewriteKeeps
  <2>6. ASSUME Write(r, h, Revoked(d))
        PROVE  DomainsInv' /\ Allowed
    <3>1. PICK e \in Row : e = Revoked(d)
      BY <2>2, RevokedRow
    <3>2. /\ CheckHolds(e) /\ e.business = d.business /\ e.status = "revoked"
          /\ PhaseOf(e) = "revoked"
      BY <2>2, <3>1, RevokedRow
    <3>3. L!Move(h, PhaseOf(e)) /\ L!Same => L!Next
      <4>1. [g \in Host |-> PhaseOf(row[g])][h] # "none"
        BY <1>2, <2>1, <2>3 DEF PhaseOf, Row
      <4> QED
        BY <3>2, <4>1 DEF L!Revoke, L!Next
    <3> QED
      BY <1>0, <1>2, <2>1, <2>2, <2>6, <3>1, <3>2, <3>3, RewriteKeeps
  <2> QED
    BY <1>1, <1>2, <2>1, <2>4, <2>5, <2>6 DEF SetActive, Revoke
<1>3. CASE row[h] = NoRow
  BY <1>1, <1>3 DEF SetActive, Revoke
<1> QED
  BY <1>2, <1>3

\* The reads that the verifications and the choice of the primary begin with.
LEMMA BeginKeeps ==
  ASSUME DomainsInv, NEW r \in DReq, NEW h \in Host, Begin(r, h)
  PROVE  DomainsInv' /\ Allowed
<1>0. Types /\ Sound(h) /\ UNCHANGED <<table, world>>
  BY DEF DomainsInv, Begin, BeginVerify, BeginTls, BeginPrimary
<1>1. CASE Ends(r, "refused")
  BY <1>0, <1>1, QuietEnds
<1>2. CASE row[h] # NoRow /\ Pending(row[h]) /\ Waits(r, "dns", h, row[h].token)
  <2>1. row[h].token = issued[h] /\ row[h].token \in Token
    BY <1>0, <1>2 DEF Pending, Sound
  <2>2. \A s \in DReq \ {r} : dpc[s] = "idle" => row[h].token # s
    BY <2>1 DEF DomainsInv, Unused
  <2>3. "dns" \in DSteps \ Ended /\ row[h].token \in Token \cup {NoRow}
    BY <2>1 DEF DSteps, Ended
  <2> QED
    BY <1>0, <1>2, <2>1, <2>2, <2>3, QuietWaits
<1>3. CASE row[h] # NoRow /\ \E step \in {"tls", "primary"} : Waits(r, step, h, NoRow)
  <2>1. PICK step \in {"tls", "primary"} : Waits(r, step, h, NoRow)
    BY <1>3
  <2>2. \A s \in DReq \ {r} : dpc[s] = "idle" => NoRow # s
    BY DomainsAssumption DEF Token
  <2>3. step \in DSteps \ Ended /\ NoRow \in Token \cup {NoRow} /\ step \notin {"dns", "verify"}
    BY DEF DSteps, Ended
  <2> QED
    BY <1>0, <1>3, <2>1, <2>2, <2>3, QuietWaits
<1> QED
  BY <1>1, <1>2, <1>3 DEF Begin, BeginVerify, BeginTls, BeginPrimary

\* The network's answer: a token found in the DNS is proven.
LEMMA CheckKeeps ==
  ASSUME DomainsInv, NEW r \in DReq, CheckDns(r) \/ CheckTls(r)
  PROVE  DomainsInv' /\ Allowed
<1>0. /\ Types /\ Holds(r) /\ held[r] \in Held /\ row[held[r].host] # NoRow
      /\ dpc[r] # "idle"
  BY DEF DomainsInv, Holds, Ended, CheckDns, CheckTls
<1>1. PICK h \in Host : h = held[r].host
  BY <1>0 DEF Held
<1>2. CASE CheckTls(r)
  <2>1. PICK step \in {"good", "bad"} : Waits(r, step, h, NoRow)
    BY <1>1, <1>2 DEF CheckTls
  <2>2. \A s \in DReq \ {r} : dpc[s] = "idle" => NoRow # s
    BY DomainsAssumption DEF Token
  <2>3. step \in DSteps \ Ended /\ NoRow \in Token \cup {NoRow} /\ step \notin {"dns", "verify"}
    BY DEF DSteps, Ended
  <2>4. UNCHANGED <<table, world>>
    BY <1>2 DEF CheckTls
  <2> QED
    BY <1>0, <1>1, <2>1, <2>2, <2>3, <2>4, QuietWaits
<1>3. CASE CheckDns(r)
  <2>0. UNCHANGED <<row, issued, dns, open>>
    BY <1>3 DEF CheckDns, table
  <2>1. PICK t \in Token : t = held[r].token
    BY <1>0, <1>3 DEF Holds, CheckDns, Ended
  <2>2. CASE Ends(r, "refused") /\ UNCHANGED proven
    BY <2>0, <2>2, QuietEnds DEF table, world
  <2>3. CASE Waits(r, "verify", h, t) /\ proven' = proven \cup {<<h, t>>}
    <3>1. [host |-> h, token |-> t] \in Held /\ [host |-> h, token |-> t] # NoRow
      BY DomainsAssumption DEF Held
    <3>2. /\ dpc' \in [DReq -> DSteps] /\ held' \in [DReq -> Held \cup {NoRow}]
          /\ dpc'[r] = "verify" /\ held'[r] = [host |-> h, token |-> t]
          /\ \A s \in DReq \ {r} : dpc'[s] = dpc[s] /\ held'[s] = held[s]
      BY <1>0, <2>3, <3>1 DEF Types, Waits, DSteps
    <3>3. Types' /\ \A g \in Host : Sound(g)'
      BY <1>0, <2>0, <2>3, <3>2 DEF DomainsInv, Types, Sound
    <3>4. Holds(r)'
      BY <1>0, <1>1, <2>0, <2>3, <3>1, <3>2 DEF Holds
    <3>5. \A s \in DReq \ {r} : dpc[s] = "idle" => held'[r] = NoRow \/ held'[r].token # s
      <4>1. \A s \in DReq \ {r} : dpc[s] = "idle" => held[r].token # s
        BY <1>0, DomainsAssumption DEF DomainsInv, Unused
      <4> QED
        BY <2>1, <3>2, <4>1
    <3>6. \A p \in proven' : p \in proven \/ (held'[r] # NoRow /\ p[2] = held'[r].token)
      BY <2>3, <3>1, <3>2
    <3>7. DomainsInv'
      BY <2>0, <2>3, <3>2, <3>3, <3>4, <3>5, <3>6, Keep
    <3>8. L!Prove(h, t)
      BY <2>0, <2>3 DEF L!Prove
    <3> QED
      BY <3>7, <3>8 DEF Allowed, L!Next
  <2> QED
    BY <1>1, <1>3, <2>1, <2>2, <2>3 DEF CheckDns
<1> QED
  BY <1>2, <1>3

\* The commits of the verifications: whatever the row has become since, it is
\* pending with the token found, or verified.
LEMMA CommitKeeps ==
  ASSUME DomainsInv, NEW r \in DReq, CommitVerify(r) \/ CommitTls(r)
  PROVE  DomainsInv' /\ Allowed
<1>0. /\ Types /\ Holds(r) /\ held[r] \in Held /\ row[held[r].host] # NoRow
      /\ dpc[r] \notin Ended /\ UNCHANGED <<issued, world>>
  BY DEF DomainsInv, Holds, Ended, CommitVerify, CommitTls
<1>1. PICK h \in Host : h = held[r].host
  BY <1>0 DEF Held
<1>2. PICK d \in Row : d = row[h]
  BY <1>0, <1>1 DEF Types
<1>3. /\ CheckHolds(d) /\ (d.status = "pending" => d.token = issued[h])
      /\ d.status = "verified" => <<h, issued[h]>> \in proven
  BY <1>0, <1>1, <1>2 DEF DomainsInv, Sound
<1>4. [g \in Host |-> PhaseOf(row[g])][h] = PhaseOf(d)
  BY <1>2
<1>5. ASSUME NEW how, Ends(r, how), UNCHANGED row
      PROVE  DomainsInv' /\ Allowed
  BY <1>0, <1>5, QuietEnds DEF table
<1>6. CASE CommitVerify(r)
  <2>1. CASE Refuse(r, "conflict")
    BY <1>5, <2>1 DEF Refuse, table
  <2>2. CASE /\ d.status = "pending" /\ d.token = held[r].token /\ Write(r, h, Verified(d))
    <3>1. <<h, issued[h]>> \in proven
      BY <1>0, <1>1, <1>3, <1>6, <2>2 DEF Holds, CommitVerify
    <3>2. PICK e \in Row : e = Verified(d)
      BY <1>3, <2>2, VerifiedRow
    <3>3. /\ CheckHolds(e) /\ e.business = d.business /\ e.status = "verified"
          /\ PhaseOf(d) = "pending" /\ PhaseOf(e) = "owned"
      BY <1>3, <2>2, <3>2, VerifiedRow
    <3>4. L!Move(h, PhaseOf(e)) /\ L!Same => L!Next
      <4>1. L!Move(h, PhaseOf(e)) /\ L!Same => L!Own(h)
        BY <1>4, <3>1, <3>3 DEF L!Own
      <4> QED
        BY <4>1 DEF L!Next
    <3> QED
      BY <1>0, <1>1, <1>2, <2>2, <3>1, <3>2, <3>3, <3>4, RewriteKeeps
  <2> QED
    BY <1>1, <1>2, <1>6, <2>1, <2>2 DEF CommitVerify, MatchesToken
<1>7. CASE CommitTls(r)
  <2>1. CASE d.status = "verified" /\ Write(r, h, Inspected(d, dpc[r] = "good"))
    <3>1. PICK good \in BOOLEAN : good = (dpc[r] = "good")
      OBVIOUS
    <3>2. PICK e \in Row : e = Inspected(d, good)
      BY <1>3, <2>1, InspectedRow
    <3>3. /\ CheckHolds(e) /\ e.business = d.business /\ e.status = "verified"
          /\ \/ PhaseOf(e) = "insecure" \/ PhaseOf(e) = PhaseOf(d)
             \/ PhaseOf(d) \in {"owned", "insecure"} /\ PhaseOf(e) = "secure"
      BY <1>3, <2>1, <3>2, InspectedRow
    <3>4. L!Move(h, PhaseOf(e)) /\ L!Same => PhaseOf(e) = PhaseOf(d) \/ L!Next
      <4>1. d # NoRow /\ PhaseOf(d) \in L!Owned
        <5>1. d # NoRow /\ d.tls \in {"pending", "verified", "failed"}
          BY DomainsAssumption DEF Row
        <5> QED
          BY <2>1, <5>1 DEF PhaseOf, L!Owned
      <4>2. L!Move(h, PhaseOf(e)) /\ L!Same => PhaseOf(e) = PhaseOf(d) \/ L!Inspect(h)
        BY <1>4, <3>3, <4>1 DEF L!Inspect
      <4> QED
        BY <4>2 DEF L!Next
    <3>5. Write(r, h, e)
      BY <2>1, <3>1, <3>2
    <3> QED
      BY <1>0, <1>1, <1>2, <1>3, <2>1, <3>3, <3>4, <3>5, RewriteKeeps
  <2>2. CASE Ends(r, "saved") /\ UNCHANGED row
    BY <1>5, <2>2
  <2> QED
    BY <1>1, <1>2, <1>7, <2>1, <2>2 DEF CommitTls
<1> QED
  BY <1>6, <1>7

\* The choice of the primary host, committed without reading the row again: the
\* constraints of the table refuse a host that is not live any more.
LEMMA CommitPrimaryKeeps ==
  ASSUME DomainsInv, NEW r \in DReq, CommitPrimary(r)
  PROVE  DomainsInv' /\ Allowed
<1>0. /\ Types /\ held[r] \in Held /\ row[held[r].host] # NoRow
      /\ UNCHANGED <<issued, world>>
  BY DEF DomainsInv, Holds, Ended, CommitPrimary
<1>1. PICK h \in Host : h = held[r].host
  BY <1>0 DEF Held
<1>2. CASE Refuse(r, "error")
  BY <1>0, <1>2, QuietEnds DEF Refuse
<1>3. CASE /\ CheckHolds(Elected(row, h)[h])
           /\ row' = Elected(row, h) /\ Ends(r, "saved")
  <2> DEFINE phase == [g \in Host |-> PhaseOf(row[g])]
             owner == [g \in Host |-> IF row[g] = NoRow THEN NoRow ELSE row[g].business]
  <2>1. /\ row' = [g \in Host |-> row'[g]]
        /\ row'[h] = [row[h] EXCEPT !.primary = TRUE]
        /\ \A g \in Host \ {h} :
             row'[g] = IF row[g] # NoRow /\ row[g].business = row[h].business
                         THEN [row[g] EXCEPT !.primary = FALSE] ELSE row[g]
    BY <1>3 DEF Elected
  <2>2. \A g \in Host : row[g] # NoRow => row[g] \in Row /\ CheckHolds(row[g])
    BY <1>0 DEF DomainsInv, Types, Sound
  <2>3. /\ row'[h] \in Row /\ row'[h] # NoRow /\ row'[h].business = row[h].business
        /\ row'[h].status = row[h].status /\ row'[h].token = row[h].token
        /\ CheckHolds(row'[h]) /\ PhaseOf(row'[h]) = "primary"
        /\ PhaseOf(row[h]) \in {"live", "primary"}
    <3>1. PICK d \in Row : d = row[h] /\ CheckHolds(d)
      BY <1>0, <1>1, <2>2
    <3>2. CheckHolds([d EXCEPT !.primary = TRUE])
      BY <1>3, <2>1, <3>1
    <3> QED
      BY <2>1, <3>1, <3>2, PrimaryRow
  <2>4. ASSUME NEW g \in Host \ {h}, row[g] # NoRow
        PROVE  /\ row'[g] \in Row /\ row'[g] # NoRow /\ row'[g].business = row[g].business
               /\ row'[g].status = row[g].status /\ row'[g].token = row[g].token
               /\ CheckHolds(row'[g])
               /\ PhaseOf(row'[g]) = IF PhaseOf(row[g]) = "primary"
                                          /\ row[g].business = row[h].business
                                       THEN "live" ELSE PhaseOf(row[g])
    <3>1. PICK d \in Row : d = row[g] /\ CheckHolds(d)
      BY <2>2, <2>4
    <3>2. PhaseOf(d) = "primary" <=> d.primary
      <4>1. d # NoRow /\ d.status \in {"pending", "verified", "revoked"}
        BY DomainsAssumption DEF Row
      <4> QED
        BY <4>1 DEF PhaseOf
    <3>3. CASE row[g].business = row[h].business
      <4>1. row'[g] = [d EXCEPT !.primary = FALSE]
        BY <2>1, <2>4, <3>1, <3>3
      <4> QED
        BY <3>1, <3>2, <3>3, <4>1, PrimaryRow
    <3>4. CASE row[g].business # row[h].business
      BY <2>1, <2>4, <3>1, <3>4
    <3> QED
      BY <3>3, <3>4
  <2>5. \A g \in Host \ {h} : row[g] = NoRow => row'[g] = NoRow
    BY <2>1
  <2>6. /\ dpc' \in [DReq -> DSteps] /\ held' \in [DReq -> Held \cup {NoRow}]
        /\ dpc'[r] = "done" /\ held' = held
        /\ \A s \in DReq \ {r} : dpc'[s] = dpc[s]
        /\ Holds(r)'
    BY <1>3, EndsTells
  <2>7. Types'
    <3>1. row' \in [Host -> Row \cup {NoRow}]
      <4>1. \A g \in Host : row'[g] \in Row \cup {NoRow}
        BY <2>3, <2>4, <2>5
      <4> QED
        BY <2>1, <4>1
    <3> QED
      BY <1>0, <2>6, <3>1 DEF Types, world
  <2>8. ASSUME NEW g \in Host PROVE Sound(g)'
    <3>1. CASE row[g] # NoRow
      <4>1. /\ CheckHolds(row'[g]) /\ row'[g].status = row[g].status
            /\ row'[g].token = row[g].token
        BY <2>3, <2>4, <3>1
      <4> QED
        BY <1>0, <3>1, <4>1 DEF DomainsInv, Sound, world
    <3>2. CASE row[g] = NoRow
      BY <1>0, <1>1, <2>5, <3>2 DEF Sound
    <3> QED
      BY <3>1, <3>2
  <2>9. DomainsInv'
    <3>1. \A s \in DReq \ {r} : dpc[s] = "idle" => held'[r] = NoRow \/ held'[r].token # s
      BY <2>6, HeldIsUsed
    <3>2. \A g \in Host : row[g] # NoRow => row'[g] # NoRow
      BY <2>3, <2>4
    <3> QED
      BY <1>0, <2>6, <2>7, <2>8, <3>1, <3>2, Keep DEF world
  <2>10. owner' = owner
    <3>1. \A g \in Host : owner'[g] = owner[g]
      BY <1>0, <1>1, <2>3, <2>4, <2>5
    <3>2. owner' = [g \in Host |-> owner'[g]] /\ owner = [g \in Host |-> owner[g]]
      OBVIOUS
    <3> HIDE DEF owner
    <3> QED
      BY <3>1, <3>2
  <2>11. phase' = [g \in Host |->
                     IF g = h THEN "primary"
                     ELSE IF phase[g] = "primary" /\ owner[g] = owner[h] THEN "live"
                     ELSE phase[g]]
    <3>1. phase' = [g \in Host |-> PhaseOf(row'[g])]
      BY DEF PhaseOf
    <3>2. \A g \in Host : phase[g] = PhaseOf(row[g])
      OBVIOUS
    <3>3. owner[h] = row[h].business
      BY <1>0, <1>1
    <3>4. ASSUME NEW g \in Host \ {h}
          PROVE  PhaseOf(row'[g]) = IF phase[g] = "primary" /\ owner[g] = owner[h]
                                      THEN "live" ELSE phase[g]
      <4>1. CASE row[g] = NoRow
        <5>1. PhaseOf(row[g]) = "none" /\ row'[g] = row[g]
          BY <2>5, <4>1 DEF PhaseOf
        <5> QED
          BY <3>2, <5>1
      <4>2. CASE row[g] # NoRow
        <5>1. owner[g] = row[g].business
          BY <4>2
        <5> HIDE DEF owner, phase
        <5> QED
          BY <2>4, <3>2, <3>3, <4>2, <5>1
      <4> QED
        BY <4>1, <4>2
    <3>5. \A g \in Host : PhaseOf(row'[g]) =
            IF g = h THEN "primary"
            ELSE IF phase[g] = "primary" /\ owner[g] = owner[h] THEN "live" ELSE phase[g]
      BY <2>3, <3>4
    <3> HIDE DEF phase, owner
    <3> QED
      BY <3>1, <3>5
  <2>12. L!Elect(h)
    BY <1>0, <2>3, <2>10, <2>11 DEF L!Elect, L!Same, world
  <2> QED
    BY <2>9, <2>12 DEF Allowed, L!Next
<1> QED
  BY <1>1, <1>2, <1>3 DEF CommitPrimary

-----------------------------------------------------------------------------
(* The world around.                                                       *)

\* DNS, the clock, the superadmin and crashes give nobody a token or a row.
LEMMA WorldKeeps ==
  ASSUME DomainsInv,
         \/ \E h \in Host : Publish(h) \/ Expire(h)
         \/ \E b \in Business : Suspend(b)
  PROVE  DomainsInv' /\ Allowed
<1>0. Types /\ UNCHANGED <<issued, proven, dpc, held>>
  BY DEF DomainsInv, Publish, Expire, Suspend, table, world
<1>1. CASE UNCHANGED row /\ dns' \in [Host -> SUBSET Token] /\ open' \subseteq Business
  <2>1. DomainsInv'
    BY <1>0, <1>1 DEF DomainsInv, Types, Sound, Holds, Unused
  <2>2. UNCHANGED L!vars
    BY <1>0, <1>1 DEF L!vars
  <2> QED
    BY <2>1, <2>2 DEF Allowed
<1>2. CASE \E h \in Host : Expire(h)
  <2>1. PICK h \in Host : Expire(h)
    BY <1>2
  <2>2. PICK d \in Row : d = row[h]
    BY <1>0, <2>1 DEF Types, Expire
  <2>3. PICK e : e = [d EXCEPT !.expired = TRUE]
    OBVIOUS
  <2>4. /\ e \in Row /\ e.business = d.business /\ e.status = d.status /\ e.token = d.token
        /\ e.active = d.active /\ e.primary = d.primary /\ e.tls = d.tls
    BY <2>3 DEF Row
  <2>5. d # NoRow /\ e # NoRow
    BY <2>4, DomainsAssumption
  <2>6. (CheckHolds(d) => CheckHolds(e)) /\ PhaseOf(e) = PhaseOf(d)
    BY <2>4, <2>5 DEF CheckHolds, PhaseOf
  <2>7. row' = [row EXCEPT ![h] = e] /\ UNCHANGED <<dns, open>>
    BY <2>1, <2>2, <2>3 DEF Expire, world
  <2>8. row'[h] = e /\ \A g \in Host \ {h} : row'[g] = row[g]
    BY <1>0, <2>7 DEF Types
  <2>9. Types'
    BY <1>0, <2>4, <2>7 DEF Types
  <2>10. \A g \in Host : Sound(g)'
    BY <1>0, <2>2, <2>4, <2>5, <2>6, <2>8 DEF DomainsInv, Sound
  <2>11. \A r \in DReq : Holds(r)' /\ Unused(r)'
    <3>1. \A g \in Host : row[g] # NoRow => row'[g] # NoRow
      BY <2>5, <2>8
    <3>2. \A r \in DReq : Unused(r)'
      BY <1>0 DEF DomainsInv, Unused
    <3>3. \A r \in DReq : Holds(r)'
      BY <1>0, <3>1 DEF DomainsInv, Holds, Held
    <3> QED
      BY <3>2, <3>3
  <2>12. UNCHANGED L!vars
    BY <1>0, <2>2, <2>4, <2>5, <2>6, <2>7, RewriteMoves
  <2> QED
    BY <2>9, <2>10, <2>11, <2>12 DEF DomainsInv, Allowed
<1>3. CASE \E h \in Host : Publish(h)
  <2>1. PICK h \in Host, t \in Token : dns' = [dns EXCEPT ![h] = {t}]
    BY <1>3 DEF Publish
  <2> QED
    BY <1>0, <1>1, <1>3, <2>1 DEF Publish, Types, table
<1>4. CASE \E b \in Business : Suspend(b)
  BY <1>0, <1>1, <1>4 DEF Suspend, Types, table
<1> QED
  BY <1>2, <1>3, <1>4

-----------------------------------------------------------------------------
(* The invariant and the theorems.                                         *)

\* The rows that satisfy the constraints, with tokens of before the start.
LEMMA DomainsInit == Init => DomainsInv /\ L!Init
<1> SUFFICES ASSUME Init PROVE DomainsInv /\ L!Init
  OBVIOUS
<1>1. row \in [Host -> Row \cup {NoRow}]
  BY DomainsAssumption DEF Init
<1>2. ASSUME NEW h \in Host, row[h] # NoRow
      PROVE  /\ CheckHolds(row[h]) /\ issued[h] \in Before
             /\ row[h].status = "pending" => row[h].token = issued[h]
  <2>1. CheckHolds(row[h]) /\ row[h].token \in Before \cup {NoRow} /\ Before # {}
    BY <1>2, DomainsAssumption DEF Init
  <2>2. \E t \in Before : t \in {row[h].token} \/ row[h].token = NoRow
    BY <2>1
  <2>3. issued[h] = CHOOSE t \in Before : t \in {row[h].token} \/ row[h].token = NoRow
    BY <1>2 DEF Init
  <2>4. issued[h] \in Before /\ (issued[h] \in {row[h].token} \/ row[h].token = NoRow)
    BY <2>2, <2>3
  <2> QED
    BY <2>1, <2>4 DEF CheckHolds
<1>3. issued \in [Host -> Before \cup {NoRow}]
  <2>1. \A h \in Host : issued[h] \in Before \cup {NoRow}
    BY <1>2 DEF Init
  <2>2. issued = [h \in Host |-> issued[h]]
    BY DEF Init
  <2> QED
    BY <2>1, <2>2
<1>4. proven = {<<h, issued[h]>> : h \in {g \in Host : row[g] # NoRow /\ row[g].status = "verified"}}
  BY DEF Init
<1>5. Types
  <2>1. proven \subseteq Host \X Token
    BY <1>2, <1>4 DEF Token
  <2> QED
    BY <1>1, <1>3, <2>1 DEF Init, Types, DSteps, Token
<1>6. \A h \in Host : Sound(h)
  BY <1>2, <1>4 DEF Sound, Token
<1>7. \A r \in DReq : Holds(r) /\ Unused(r)
  <2> SUFFICES ASSUME NEW r \in DReq PROVE Holds(r) /\ Unused(r)
    OBVIOUS
  <2>1. r \notin Before \cup {NoRow}
    BY DomainsAssumption DEF Token
  <2>2. (\A h \in Host : issued[h] # r) /\ \A p \in proven : p[2] # r
    BY <1>3, <1>4, <2>1
  <2>3. Holds(r)
    BY DEF Init, Holds, Ended
  <2> QED
    BY <2>2, <2>3 DEF Init, Unused
<1>8. DomainsInv
  BY <1>5, <1>6, <1>7 DEF DomainsInv
<1>9. L!Init
  <2>1. \A g \in Host : /\ PhaseOf(row[g]) \in L!Phases
                        /\ PhaseOf(row[g]) \in L!Owned <=>
                             row[g] # NoRow /\ row[g].status = "verified"
    <3> SUFFICES ASSUME NEW g \in Host
                 PROVE  /\ PhaseOf(row[g]) \in L!Phases
                        /\ PhaseOf(row[g]) \in L!Owned <=>
                             row[g] # NoRow /\ row[g].status = "verified"
      OBVIOUS
    <3>1. CASE row[g] = NoRow
      BY <3>1 DEF PhaseOf, L!Phases, L!Owned
    <3>2. CASE row[g] # NoRow
      <4>1. row[g].status \in {"pending", "verified", "revoked"} /\ CheckHolds(row[g])
        BY <1>1, <1>2, <3>2 DEF Row
      <4> QED
        BY <3>2, <4>1 DEF PhaseOf, L!Phases, L!Owned, CheckHolds
    <3> QED
      BY <3>1, <3>2
  <2>2. [g \in Host |-> PhaseOf(row[g])] \in [Host -> L!Phases]
    BY <2>1
  <2>3. [g \in Host |-> IF row[g] = NoRow THEN NoRow ELSE row[g].business]
          \in [Host -> Business \cup {NoRow}]
    BY <1>1 DEF Row
  <2>4. issued \in [Host -> Token \cup {NoRow}]
    BY <1>5 DEF Types
  <2>5. {g \in Host : [k \in Host |-> PhaseOf(row[k])][g] \in L!Owned}
          = {g \in Host : row[g] # NoRow /\ row[g].status = "verified"}
    BY <2>1
  <2> QED
    BY <1>4, <2>2, <2>3, <2>4, <2>5 DEF L!Init
<1> QED
  BY <1>8, <1>9

\* Every step keeps the invariant and is one that Lifecycle allows.
LEMMA DomainsStep == DomainsInv /\ [Next]_vars => DomainsInv' /\ Allowed
<1> SUFFICES ASSUME DomainsInv, [Next]_vars PROVE DomainsInv' /\ Allowed
  OBVIOUS
<1>1. ASSUME NEW r \in DReq, Finish(r) PROVE DomainsInv' /\ Allowed
  BY <1>1, CheckKeeps, CommitKeeps, CommitPrimaryKeeps DEF Finish
<1>2. ASSUME NEW r \in DReq, Crash(r) PROVE DomainsInv' /\ Allowed
  BY <1>2, QuietEnds DEF Crash
<1>3. ASSUME NEW r \in DReq, NEW h \in Host, Change(r, h) \/ Begin(r, h)
      PROVE  DomainsInv' /\ Allowed
  BY <1>3, IssueKeeps, SetActiveKeeps, BeginKeeps DEF Change
<1>4. ASSUME UNCHANGED vars PROVE DomainsInv' /\ Allowed
  <2>1. UNCHANGED <<row, issued, dns, open, proven, dpc, held>>
    BY <1>4 DEF vars, table, world
  <2>2. DomainsInv'
    BY <2>1 DEF DomainsInv, Types, Sound, Holds, Unused
  <2> QED
    BY <2>1, <2>2 DEF Allowed, L!vars
<1> QED
  BY <1>1, <1>2, <1>3, <1>4, WorldKeeps DEF Next

\* The inductive invariant holds in every reachable state.
THEOREM DomainsSafe == Spec => []DomainsInv
<1>1. Init => DomainsInv
  BY DomainsInit
<1>2. DomainsInv /\ [Next]_vars => DomainsInv'
  BY DomainsStep
<1> QED
  BY <1>1, <1>2, PTL DEF Spec

\* Every variable of the domains stays in its domain, and a verification holds
\* the token it is about.
THEOREM DomainsTyped == Spec => []TypeOK
<1>1. DomainsInv => TypeOK
  <2> SUFFICES ASSUME DomainsInv PROVE TypeOK
    OBVIOUS
  <2>1. \A r \in DReq : dpc[r] \in {"dns", "verify"} => held[r].token \in Token
    BY DEF DomainsInv, Holds, Ended
  <2> QED
    BY <2>1 DEF DomainsInv, Types, DSteps, TypeOK
<1> QED
  BY <1>1, DomainsSafe, PTL

\* load_current_business answers a visit only for an active business, and by a
\* custom host only for the one whose token the DNS of that host has shown,
\* whatever was rotated, revoked, verified and suspended meanwhile.
THEOREM TenantsProven == Spec => []TenantsAreProven
<1>1. DomainsInv => TenantsAreProven
  <2> SUFFICES ASSUME DomainsInv, NEW v \in Visits, Tenant(v) \in Business
               PROVE  /\ Tenant(v) \in open
                      /\ v.slug = NoRow /\ v.host \notin Platform =>
                           /\ Tenant(v) = row[v.host].business /\ v.scheme = "https"
                           /\ \E t \in Token : <<v.host, t>> \in proven
    BY DEF TenantsAreProven
  <2>0. "nobody" \notin Business /\ "not_found" \notin Business
    BY DomainsAssumption
  <2>1. CASE v.slug # NoRow
    BY <2>0, <2>1 DEF Tenant, Resolve
  <2>2. CASE v.slug = NoRow /\ v.page # "platform" /\ v.scheme = "https" /\ Serves(v.host)
    <3>1. /\ Tenant(v) = row[v.host].business /\ Tenant(v) \in open
          /\ v.host \in Host /\ row[v.host] # NoRow /\ row[v.host].status = "verified"
      BY <2>2 DEF Tenant, Serves, Live
    <3>2. <<v.host, issued[v.host]>> \in proven /\ issued[v.host] \in Token
      BY <3>1 DEF DomainsInv, Sound
    <3> QED
      BY <2>2, <3>1, <3>2
  <2>3. CASE v.slug = NoRow /\ ~(v.page # "platform" /\ v.scheme = "https" /\ Serves(v.host))
    <3>1. v.host \in Platform /\ Tenant(v) = Resolve(NoRow, "nobody")
      BY <2>0, <2>3 DEF Tenant
    <3> QED
      BY <2>0, <3>1 DEF Resolve
  <2> QED
    BY <2>1, <2>2, <2>3
<1> QED
  BY <1>1, DomainsSafe, PTL

\* The rows follow the lifecycle of the document however the operations of the
\* panel interleave with the network, the clock and crashes.
THEOREM DomainsImplementLifecycle == Spec => ImplementsLifecycle
<1>1. Init => L!Init
  BY DomainsInit
<1>2. DomainsInv /\ [Next]_vars => [L!Next]_(L!vars)
  BY DomainsStep DEF Allowed
<1> QED
  BY <1>1, <1>2, DomainsSafe, PTL DEF Spec, ImplementsLifecycle, L!Spec
===============================================================================

-------------------------------- MODULE Domains --------------------------------
(***************************************************************************)
(* The custom domains of the businesses (database/business_domains.py,     *)
(* routes/business_domains.py, application/business_domains.py) and the    *)
(* tenant that a visit is given (application/tenant.py).                   *)
(*                                                                         *)
(* Every change of a row is one transaction; the audit record written in   *)
(* it is read by nobody and left out.  The two verifications ask the       *)
(* network between reading the row and writing it, and the choice of the   *)
(* primary host reads it before it waits for the rows it will write;       *)
(* anything may happen to the row in between.                              *)
(***************************************************************************)
EXTENDS Integers

CONSTANTS
  DReq,        \* requests of the panel
  Host,        \* hostnames: a row is named by its host, which is unique
  Business, Default,
  Before,      \* tokens issued before the start
  Rows,        \* the rows there may be at first: functions from Host
  Acts,        \* what the requests may ask for
  Reserved,    \* PLATFORM_HOSTNAMES
  Platform,    \* platform_hosts
  Visits,      \* visits: scheme, host, slug, platform endpoint
  NoRow

VARIABLES
  row,         \* the row of each host
  issued,      \* the token issued last for each host
  dns,         \* the tokens that each host's TXT record shows
  open,        \* the businesses that are active
  proven,      \* history: the tokens that a check found, with their host
  dpc, did, held, ended

table == <<row, issued>>
world == <<dns, open, proven>>
vars == <<table, world, dpc, did, held, ended>>

-----------------------------------------------------------------------------

Token == Before \cup DReq

Row == [business : Business, status : {"pending", "verified", "revoked"}, active : BOOLEAN,
        primary : BOOLEAN, token : Token \cup {NoRow}, expired : BOOLEAN,
        tls : {"pending", "verified", "failed"}]
Held == [host : Host, token : Token \cup {NoRow}]

\* Mutants of a condition, of the check of a request and of the host's lookup.
AnyToken(d, t) == TRUE
AnyStatus(d) == TRUE
Claimed(h) == h \in Host /\ row[h] # NoRow /\ row[h].business \in open

Pending(d) == d.status = "pending" /\ d.token # NoRow

\* The constraints of migrations_pg/003: the database refuses any other row.
CheckHolds(d) ==
  /\ d.status = "pending" <=> d.token # NoRow
  /\ d.active => d.status = "verified" /\ d.tls = "verified"
  /\ d.primary => d.active
  /\ d.tls = "pending" \/ d.status = "verified"

\* The first rows satisfy the constraints, with tokens issued before the start.
ASSUME DomainsAssumption ==
  /\ DReq \cap Before = {} /\ {"nobody", "not_found"} \cap Business = {}
  /\ NoRow \notin Token \cup Row \cup Held
  /\ Rows \subseteq [Host -> Row \cup {NoRow}]
  /\ \A rows \in Rows, h \in Host : rows[h] # NoRow =>
       CheckHolds(rows[h]) /\ rows[h].token \in Before \cup {NoRow} /\ Before # {}

\* The conditions of the conditional updates.
MatchesToken(d, t) == d.token = t
Live(d) == d.status = "verified" /\ d.active /\ d.tls = "verified"

\* The rows as each operation leaves them.
Created(b, t) == [business |-> b, status |-> "pending", active |-> FALSE, primary |-> FALSE,
                  token |-> t, expired |-> FALSE, tls |-> "pending"]
Rotated(d, t) == Created(d.business, t)
Verified(d) == [d EXCEPT !.status = "verified", !.token = NoRow, !.tls = "pending"]
Inspected(d, good) ==
  IF good THEN [d EXCEPT !.tls = "verified"]
  ELSE [d EXCEPT !.tls = "failed", !.active = FALSE, !.primary = FALSE]
Activated(d) == [d EXCEPT !.active = TRUE]
Deactivated(d) == [d EXCEPT !.active = FALSE, !.primary = FALSE]
Revoked(d) == [d EXCEPT !.status = "revoked", !.active = FALSE, !.primary = FALSE,
                        !.token = NoRow, !.tls = "pending"]
\* The first update takes every host of the business out, the second sets one.
Elected(rows, h) == [g \in Host |->
  IF g = h THEN [rows[g] EXCEPT !.primary = TRUE]
  ELSE IF rows[g] # NoRow /\ rows[g].business = rows[h].business
         THEN [rows[g] EXCEPT !.primary = FALSE]
  ELSE rows[g]]

-----------------------------------------------------------------------------

Begins(r, name, h) ==
  /\ dpc[r] = "idle" /\ [name |-> name, host |-> h] \in Acts
  /\ did' = [did EXCEPT ![r] = name]

Ends(r, how) ==
  /\ dpc' = [dpc EXCEPT ![r] = "done"]
  /\ ended' = [ended EXCEPT ![r] = how]
  /\ UNCHANGED held

Waits(r, step, h, t) ==
  /\ dpc' = [dpc EXCEPT ![r] = step]
  /\ held' = [held EXCEPT ![r] = [host |-> h, token |-> t]]
  /\ UNCHANGED ended

\* A transaction: the row with its audit record, or neither.
Write(r, h, d) ==
  IF CheckHolds(d)
    THEN row' = [row EXCEPT ![h] = d] /\ Ends(r, "saved")
    ELSE UNCHANGED row /\ Ends(r, "error")

Refuse(r, how) == Ends(r, how) /\ UNCHANGED table

Add(r, h) ==
  /\ Begins(r, "add", h) /\ UNCHANGED world
  /\ \E b \in open :
       IF h \in Reserved THEN Refuse(r, "reserved")
       ELSE IF row[h] # NoRow THEN Refuse(r, "taken")
       ELSE /\ Write(r, h, Created(b, r))
            /\ issued' = [issued EXCEPT ![h] = r]

Rotate(r, h) ==
  /\ Begins(r, "rotate", h) /\ UNCHANGED world
  /\ IF row[h] = NoRow THEN Refuse(r, "not_found")
     ELSE /\ Write(r, h, Rotated(row[h], r))
          /\ issued' = [issued EXCEPT ![h] = r]

\* verify_business_domain_dns reads the row and its token,
BeginVerify(r, h) ==
  /\ Begins(r, "verify", h) /\ UNCHANGED <<table, world>>
  /\ IF row[h] # NoRow /\ Pending(row[h])
       THEN Waits(r, "dns", h, row[h].token)
       ELSE Ends(r, "refused")

\* looks for that token in the DNS,
CheckDns(r) ==
  LET h == held[r].host
      found == held[r].token \in dns[h] IN
  /\ dpc[r] = "dns" /\ UNCHANGED <<table, dns, open, did>>
  /\ proven' = IF found THEN proven \cup {<<h, held[r].token>>} ELSE proven
  /\ IF found THEN Waits(r, "verify", h, held[r].token) ELSE Ends(r, "refused")

\* and verifies the row if it is still pending with it, and in time.
CommitVerify(r) ==
  LET h == held[r].host
      d == row[h] IN
  /\ dpc[r] = "verify" /\ UNCHANGED <<issued, world, did>>
  /\ IF d.status = "pending" /\ MatchesToken(d, held[r].token) /\ ~d.expired
       THEN Write(r, h, Verified(d))
       ELSE Refuse(r, "conflict")

\* verify_business_domain_tls reads the row,
BeginTls(r, h) ==
  /\ Begins(r, "tls", h) /\ UNCHANGED <<table, world>>
  /\ IF row[h] # NoRow /\ row[h].status = "verified"
       THEN Waits(r, "tls", h, NoRow)
       ELSE Ends(r, "refused")

\* asks for the certificate,
CheckTls(r) ==
  /\ dpc[r] = "tls" /\ UNCHANGED <<table, world, did>>
  /\ \E step \in {"good", "bad"} : Waits(r, step, held[r].host, NoRow)

\* and saves what it found, whichever check came first, if the row is verified.
CommitTls(r) ==
  LET h == held[r].host IN
  /\ dpc[r] \in {"good", "bad"} /\ UNCHANGED <<issued, world, did>>
  /\ IF row[h].status = "verified"
       THEN Write(r, h, Inspected(row[h], dpc[r] = "good"))
       ELSE Ends(r, "saved") /\ UNCHANGED row

SetActive(r, h) ==
  /\ UNCHANGED <<issued, world>>
  /\ \/ /\ Begins(r, "activate", h)
        /\ IF row[h] # NoRow /\ row[h].status = "verified" /\ row[h].tls = "verified"
             THEN Write(r, h, Activated(row[h]))
             ELSE Refuse(r, "refused")
     \/ /\ Begins(r, "deactivate", h)
        /\ IF row[h] # NoRow THEN Write(r, h, Deactivated(row[h]))
                             ELSE Refuse(r, "not_found")

Revoke(r, h) ==
  /\ Begins(r, "revoke", h) /\ UNCHANGED <<issued, world>>
  /\ IF row[h] # NoRow THEN Write(r, h, Revoked(row[h]))
                       ELSE Refuse(r, "not_found")

\* set_primary_business_domain reads the row,
BeginPrimary(r, h) ==
  /\ Begins(r, "primary", h) /\ UNCHANGED <<table, world>>
  /\ IF row[h] # NoRow /\ Live(row[h])
       THEN Waits(r, "primary", h, NoRow)
       ELSE Ends(r, "refused")

\* waits for every row of the business and sets it, without reading it again.
CommitPrimary(r) ==
  LET h == held[r].host
      rows == Elected(row, h) IN
  /\ dpc[r] = "primary" /\ UNCHANGED <<issued, world, did>>
  /\ IF CheckHolds(rows[h])
       THEN row' = rows /\ Ends(r, "saved")
       ELSE Refuse(r, "error")

-----------------------------------------------------------------------------
(* The world around, and the tenant of a visit.                            *)

\* Whoever controls the host's DNS publishes the token issued last, in place of
\* another: an older one, or none, matches no row any more.
Publish(h) == \E t \in Token :
  /\ row[h] # NoRow /\ dns[h] # {t} /\ t = issued[h]
  /\ dns' = [dns EXCEPT ![h] = {t}]
  /\ UNCHANGED <<table, open, proven, dpc, did, held, ended>>

\* Twenty-four hours pass.
Expire(h) ==
  /\ row[h] # NoRow /\ row[h].status = "pending" /\ ~row[h].expired
  /\ row' = [row EXCEPT ![h].expired = TRUE]
  /\ UNCHANGED <<issued, world, dpc, did, held, ended>>

\* The superadmin suspends a business.
Suspend(b) ==
  /\ b \in open
  /\ open' = open \ {b}
  /\ UNCHANGED <<table, dns, proven, dpc, did, held, ended>>

Crash(r) ==
  /\ dpc[r] \notin {"idle", "done"}
  /\ Ends(r, "crashed")
  /\ UNCHANGED <<table, world, did>>

Serves(h) == h \in Host /\ row[h] # NoRow /\ Live(row[h]) /\ row[h].business \in open

\* resolve_business: an active business, by its slug or by default.
Resolve(slug, none) ==
  LET b == IF slug = NoRow THEN Default ELSE slug IN IF b \in open THEN b ELSE none

\* load_current_business: a slug in the path, a platform page, a custom domain
\* over HTTPS, a platform host, in this order.
Tenant(v) ==
  IF v.slug # NoRow THEN Resolve(v.slug, "not_found")
  ELSE IF v.page = "platform" THEN "nobody"
  ELSE IF v.scheme = "https" /\ Serves(v.host) THEN row[v.host].business
  ELSE IF v.host \in Platform THEN Resolve(NoRow, "nobody")
  ELSE "not_found"

-----------------------------------------------------------------------------

Init ==
  /\ row \in Rows
  /\ issued = [h \in Host |-> IF row[h] = NoRow THEN NoRow
                              ELSE CHOOSE t \in Before : t \in {row[h].token} \/ row[h].token = NoRow]
  /\ dns = [h \in Host |-> {}]
  /\ open = Business
  /\ proven = {<<h, issued[h]>> : h \in {g \in Host : row[g] # NoRow /\ row[g].status = "verified"}}
  /\ dpc = [r \in DReq |-> "idle"]
  /\ did = [r \in DReq |-> "none"]
  /\ held = [r \in DReq |-> NoRow]
  /\ ended = [r \in DReq |-> "none"]

Change(r, h) == Add(r, h) \/ Rotate(r, h) \/ SetActive(r, h) \/ Revoke(r, h)
Begin(r, h) == BeginVerify(r, h) \/ BeginTls(r, h) \/ BeginPrimary(r, h)
Finish(r) == \/ CheckDns(r) \/ CommitVerify(r) \/ CheckTls(r) \/ CommitTls(r)
             \/ CommitPrimary(r)

Next ==
  \/ \E r \in DReq : Finish(r) \/ Crash(r) \/ \E h \in Host : Change(r, h) \/ Begin(r, h)
  \/ \E h \in Host : Publish(h) \/ Expire(h)
  \/ \E b \in Business : Suspend(b)

Spec == Init /\ [][Next]_vars

-----------------------------------------------------------------------------
(* Properties.                                                             *)

\* Every variable stays in its domain; a verification holds the token it is
\* about.
TypeOK ==
  /\ row \in [Host -> Row \cup {NoRow}]
  /\ issued \in [Host -> Token \cup {NoRow}]
  /\ dns \in [Host -> SUBSET Token]
  /\ open \subseteq Business
  /\ proven \subseteq Host \X Token
  /\ dpc \in [DReq -> {"idle", "dns", "verify", "tls", "good", "bad", "primary", "done"}]
  /\ held \in [DReq -> Held \cup {NoRow}]
  /\ \A r \in DReq : dpc[r] \in {"dns", "verify"} => held[r].token \in Token

\* The rows follow the lifecycle of the document: a host is owned only with the
\* token issued last, whatever was issued, published and checked meanwhile.
PhaseOf(d) ==
  IF d = NoRow THEN "none"
  ELSE IF d.primary THEN "primary"
  ELSE IF d.status # "verified" THEN d.status
  ELSE IF d.active THEN "live"
  ELSE CASE d.tls = "pending" -> "owned"
         [] d.tls = "failed" -> "insecure"
         [] OTHER -> "secure"
L == INSTANCE Lifecycle WITH
       phase <- [h \in Host |-> PhaseOf(row[h])],
       owner <- [h \in Host |-> IF row[h] = NoRow THEN NoRow ELSE row[h].business],
       token <- issued, Nothing <- NoRow
ImplementsLifecycle == L!Spec

\* Only an active business answers a visit, and a visit by a custom host without
\* a slug reaches only the business of that host, once its DNS has shown a token
\* issued for it, whatever was rotated, revoked and verified meanwhile.
TenantsAreProven ==
  \A v \in Visits : Tenant(v) \in Business =>
    /\ Tenant(v) \in open
    /\ v.slug = NoRow /\ v.host \notin Platform =>
         /\ Tenant(v) = row[v.host].business /\ v.scheme = "https"
         /\ \E t \in Token : <<v.host, t>> \in proven
================================================================================

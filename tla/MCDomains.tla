------------------------------- MODULE MCDomains -------------------------------
EXTENDS Domains, TLC
CONSTANTS q1, q2, q3, o, site, site2, shop, other, local

Fresh(status, active, primary, tls) ==
  [business |-> shop, status |-> status, active |-> active, primary |-> primary,
   token |-> IF status = "pending" THEN o ELSE NoRow, expired |-> FALSE, tls |-> tls]
FirstRows ==
  {[h \in Host |-> IF h = site THEN d ELSE Fresh("verified", TRUE, TRUE, "verified")] :
     d \in {NoRow, Fresh("pending", FALSE, FALSE, "pending"),
            Fresh("verified", TRUE, FALSE, "verified")}}

Act(name, h) == [name |-> name, host |-> h]
AllActs == {Act(name, site) : name \in {"add", "rotate", "verify", "tls", "activate",
                                        "deactivate", "revoke", "primary"}}
           \cup {Act("primary", site2), Act("add", site2)}
AllVisits == [scheme : {"http", "https"}, host : {site, site2, local}, slug : {NoRow, shop, other},
              page : {"platform", "business"}]
Permuted == Permutations(DReq)
================================================================================

------------------------------- MODULE Lifecycle -------------------------------
(***************************************************************************)
(* What the custom domains of a business promise (docs/custom-domains.md): *)
(* a host is owned only by proving, in the DNS, the token issued last for  *)
(* it; it is live only while its certificate was found good; at most one   *)
(* live host of a business is its primary one; a token is never reused.    *)
(***************************************************************************)
CONSTANTS Host, Token, Business, Nothing

VARIABLES
  phase,    \* where each host is
  owner,    \* the business that claims it
  token,    \* the token issued last for it
  proven    \* the tokens found in the DNS, with their host

vars == <<phase, owner, token, proven>>

Phases == {"none", "pending", "owned", "insecure", "secure", "live", "primary", "revoked"}
Owned == {"owned", "insecure", "secure", "live", "primary"}
Tokens == {token[h] : h \in Host} \cup {p[2] : p \in proven}

Init ==
  /\ phase \in [Host -> Phases]
  /\ owner \in [Host -> Business \cup {Nothing}]
  /\ token \in [Host -> Token \cup {Nothing}]
  /\ proven = {<<h, token[h]>> : h \in {g \in Host : phase[g] \in Owned}}

Move(h, to) == phase' = [phase EXCEPT ![h] = to]
Same == UNCHANGED <<owner, token, proven>>

Claim(h, b, t) ==
  /\ phase[h] = "none" /\ t \notin Tokens
  /\ Move(h, "pending")
  /\ owner' = [owner EXCEPT ![h] = b]
  /\ token' = [token EXCEPT ![h] = t]
  /\ UNCHANGED proven

Rotate(h, t) ==
  /\ phase[h] # "none" /\ t \notin Tokens
  /\ Move(h, "pending")
  /\ token' = [token EXCEPT ![h] = t]
  /\ UNCHANGED <<owner, proven>>

Prove(h, t) == proven' = proven \cup {<<h, t>>} /\ UNCHANGED <<phase, owner, token>>

Own(h) == phase[h] = "pending" /\ <<h, token[h]>> \in proven /\ Move(h, "owned") /\ Same

\* A good certificate keeps a live host as it is; a bad one stops it.
Inspect(h) ==
  /\ phase[h] \in Owned /\ Same
  /\ Move(h, "insecure") \/ (phase[h] \in {"owned", "insecure"} /\ Move(h, "secure"))

Activate(h) == phase[h] = "secure" /\ Move(h, "live") /\ Same
Stop(h) == phase[h] \in {"live", "primary"} /\ Move(h, "secure") /\ Same
Revoke(h) == phase[h] # "none" /\ Move(h, "revoked") /\ Same

Elect(h) ==
  /\ phase[h] \in {"live", "primary"} /\ Same
  /\ phase' = [g \in Host |->
                 IF g = h THEN "primary"
                 ELSE IF phase[g] = "primary" /\ owner[g] = owner[h] THEN "live"
                 ELSE phase[g]]

Next == \E h \in Host :
  \/ \E t \in Token : Rotate(h, t) \/ Prove(h, t) \/ \E b \in Business : Claim(h, b, t)
  \/ Own(h) \/ Inspect(h) \/ Activate(h) \/ Stop(h) \/ Revoke(h) \/ Elect(h)

Spec == Init /\ [][Next]_vars
================================================================================

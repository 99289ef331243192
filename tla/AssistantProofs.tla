---------------------------- MODULE AssistantProofs ----------------------------
(***************************************************************************)
(* Proofs about Assistant, for any number of messages, clients and         *)
(* visitors, any limits and any answers of the language model.             *)
(***************************************************************************)
EXTENDS Assistant, TLAPS

-----------------------------------------------------------------------------
(* The inductive invariant.                                                *)

Steps == {"idle", "session", "insert", "store", "track", "intent", "call", "text",
          "escalate", "tool", "result", "done"}

\* The domains that TypeOK does not mention.
Domains ==
  /\ from \in [Msg -> Phone \cup Visitor \cup {Nothing}]
  /\ flag \in [Conversation -> BOOLEAN]
  /\ change \in [Msg -> Seq(Mutations)]
  /\ calls \in [Msg -> Nat]

\* A message under way was sent by somebody.  It has a conversation once it has
\* found or created one: that of its phone, or one that a visitor's message named.
Placed(m) ==
  /\ pc[m] # "idle" => from[m] # Nothing
  /\ pc[m] \in {"idle", "session", "insert"} => work[m].session = Nothing
  /\ pc[m] \notin {"idle", "session", "insert", "done"} =>
       /\ work[m].session \in Conversation
       /\ session[work[m].session] # "none"
  /\ from[m] \in Phone => work[m].session \in {Nothing, from[m]}
  /\ from[m] \in Visitor => work[m].session \in Msg \cup {Nothing}

\* It is in the log of its conversation from its storing on, and it is answered
\* once, at the end.
Kept(m) ==
  /\ \/ pc[m] \in {"track", "intent", "call", "text", "escalate", "tool", "result"}
     \/ answer[m] \notin {"none", "error", "crashed"}
     => work[m].session # Nothing /\ <<m, "user">> \in log[work[m].session]
  /\ answer[m] = "none" <=> pc[m] # "done"

\* Every iteration costs at most MaxAttempts calls.
Budget(m) ==
  /\ pc[m] # "done" => /\ work[m].iteration <= MaxIterations
                       /\ calls[m] + 1 <= MaxAttempts * work[m].iteration + work[m].attempt
  /\ pc[m] \notin {"call", "done"} => work[m].attempt = 1
  /\ calls[m] <= CallLimit

\* A change is made by the tool whose result is read next; whatever that result,
\* the message ends there.
Honest(m) ==
  /\ pc[m] \in {"tool", "result"} => work[m].tools # <<>>
  /\ pc[m] = "escalate" => work[m].text = "unsure"
  /\ pc[m] \notin {"result", "done"} => change[m] = <<>>
  /\ pc[m] = "result" =>
       LET tool == Head(work[m].tools) IN
       IF tool \in Mutations /\ work[m].outcome \in {"done", "broken"}
         THEN change[m] = <<tool>> ELSE change[m] = <<>>
  /\ pc[m] = "result" => work[m].outcome \in Outcomes(Head(work[m].tools))
  /\ change[m] = <<>> \/ \E tool \in Mutations : change[m] = <<tool>>
  /\ pc[m] # "done" => told[m] = Nothing

\* The messages of a visitor that were answered, and whether an answer was an
\* error.
Seen(N, a) == {n \in N : a[n] # "crashed"}
Follows(N, s, a, w) ==
  \/ Seen(N, a) = {} \/ \E n \in Seen(N, a) : a[n] = "error"
  \/ s # Nothing /\ \E n \in Seen(N, a) : w[n].session = s

\* A visitor's message follows those answered before it: first by its token, then
\* by its conversation.
Going(m) ==
  /\ previous[m] \subseteq {n \in Msg : pc[n] = "done" /\ from[n] = from[m]}
  /\ work[m].token # Nothing => session[work[m].token] # "none"
  /\ from[m] \in Visitor =>
       /\ pc[m] \in {"session", "insert"} => Follows(previous[m], work[m].token, answer, work)
       /\ pc[m] = "insert" => work[m].token = Nothing
       /\ work[m].session # Nothing => Follows(previous[m], work[m].session, answer, work)

\* The cookie of a visitor names the conversation of an answered message.
Cookie(v) ==
  /\ cookie[v] # Nothing => session[cookie[v]] # "none"
  /\ Follows({n \in Msg : pc[n] = "done" /\ from[n] = v}, cookie[v], answer, work)

Good(m) == Placed(m) /\ Kept(m) /\ Budget(m) /\ Honest(m) /\ Going(m)

AssistantInv ==
  /\ TypeOK /\ Domains
  /\ \A m \in Msg : Good(m)
  /\ \A v \in Visitor : Cookie(v)

-----------------------------------------------------------------------------
(* What a step leaves alone.                                               *)

\* A step keeps the conversations in order and their messages in the log.
RowsGrow ==
  /\ session' \in [Conversation -> Statuses \cup {"none"}]
  /\ flag' \in [Conversation -> BOOLEAN]
  /\ \A s \in Conversation : flag'[s] = (session'[s] = "needs_human")
  /\ log' \in [Conversation -> SUBSET (Msg \X {"user", "assistant"})]
  /\ counted' \in [Phone \cup Visitor -> Nat]
  /\ \A s \in Conversation : /\ session[s] # "none" => session'[s] # "none"
                             /\ log[s] \subseteq log'[s]

\* A step is about the messages of M only, and none of them was over.
About(M) ==
  /\ from' = from
  /\ \A m \in M : pc[m] # "done"
  /\ \A m \in Msg \ M :
       /\ pc'[m] = pc[m] /\ work'[m] = work[m] /\ change'[m] = change[m]
       /\ calls'[m] = calls[m] /\ answer'[m] = answer[m] /\ told'[m] = told[m]
       /\ previous'[m] = previous[m]

\* What a visitor's messages followed they still follow: the messages of N are
\* over.
LEMMA FollowsStays ==
  ASSUME NEW M \in SUBSET Msg, About(M), NEW s,
         NEW N \in SUBSET Msg, \A n \in N : pc[n] = "done",
         Follows(N, s, answer, work)
  PROVE  Follows(N, s, answer', work')
<1>1. \A n \in N : n \in Msg \ M /\ answer'[n] = answer[n] /\ work'[n] = work[n]
  BY DEF About
<1> QED
  BY <1>1 DEF Follows, Seen

\* The other messages stay as they should be.
LEMMA OthersStay ==
  ASSUME AssistantInv, RowsGrow, NEW M \in SUBSET Msg, About(M),
         NEW n \in Msg \ M
  PROVE  Good(n)'
<1>1. Good(n) /\ work[n] \in Working /\ previous[n] \in SUBSET Msg
  BY DEF AssistantInv, TypeOK
<1>2. /\ pc'[n] = pc[n] /\ work'[n] = work[n] /\ change'[n] = change[n]
      /\ calls'[n] = calls[n] /\ answer'[n] = answer[n] /\ told'[n] = told[n]
      /\ previous'[n] = previous[n] /\ from'[n] = from[n]
  BY DEF About
<1>3. /\ work[n].session \in Conversation \cup {Nothing}
      /\ work[n].token \in Msg \cup {Nothing}
      /\ Msg \subseteq Conversation
  BY <1>1 DEF Working, Conversation
<1>4. Placed(n)'
  BY <1>1, <1>2, <1>3 DEF Good, Placed, RowsGrow
<1>5. Kept(n)'
  BY <1>1, <1>2, <1>3 DEF Good, Kept, RowsGrow
<1>6. Budget(n)' /\ Honest(n)'
  BY <1>1, <1>2 DEF Good, Budget, Honest
<1>7. Going(n)'
  <2>1. /\ \A o \in previous[n] : o \in Msg /\ pc[o] = "done" /\ from[o] = from[n]
        /\ work[n].token # Nothing => session[work[n].token] # "none"
        /\ from[n] \in Visitor =>
             /\ pc[n] \in {"session", "insert"} =>
                  Follows(previous[n], work[n].token, answer, work)
             /\ pc[n] = "insert" => work[n].token = Nothing
             /\ work[n].session # Nothing =>
                  Follows(previous[n], work[n].session, answer, work)
    BY <1>1 DEF Good, Going
  <2>2. \A o \in previous[n] : pc'[o] = "done" /\ from'[o] = from'[n]
    BY <2>1, <1>2 DEF About
  <2>3. \A s : Follows(previous[n], s, answer, work) => Follows(previous[n], s, answer', work')
    BY <2>1, <1>1, FollowsStays
  <2>4. work'[n].token # Nothing => session'[work'[n].token] # "none"
    BY <2>1, <1>2, <1>3 DEF RowsGrow
  <2>5. (pc[n] \in {"session", "insert"} /\ from[n] \in Visitor)
          => Follows(previous'[n], work'[n].token, answer', work')
    BY <2>1, <2>3, <1>2
  <2> QED
    BY <2>1, <2>2, <2>3, <2>4, <1>2 DEF Going
<1> QED
  BY <1>4, <1>5, <1>6, <1>7 DEF Good

\* So do the cookies that no answer writes.
LEMMA CookiesStay ==
  ASSUME AssistantInv, RowsGrow, NEW M \in SUBSET Msg, About(M), cookie' = cookie,
         pc' \in [Msg -> Steps],
         \A m \in M : pc'[m] = "done" => answer'[m] = "crashed",
         NEW v \in Visitor
  PROVE  Cookie(v)'
<1> DEFINE N == {n \in Msg : pc[n] = "done" /\ from[n] = v}
           O == {n \in Msg : pc'[n] = "done" /\ from'[n] = v}
<1>1. Cookie(v) /\ cookie[v] \in Msg \cup {Nothing}
  BY DEF AssistantInv, TypeOK
<1>2. Follows(N, cookie[v], answer', work')
  BY <1>1, FollowsStays DEF Cookie
<1>3. {n \in O : answer'[n] # "crashed"} = {n \in N : answer'[n] # "crashed"}
  BY DEF About
<1>4. Follows(O, cookie'[v], answer', work')
  BY <1>2, <1>3 DEF Follows, Seen
<1>5. cookie'[v] # Nothing => session'[cookie'[v]] # "none"
  BY <1>1 DEF Cookie, RowsGrow, Conversation
<1> QED
  BY <1>4, <1>5 DEF Cookie

-----------------------------------------------------------------------------
(* What a step does to the rows and to its own message.                    *)

\* What a request holds, with another conversation or another token.
With(h, s, t) == [h EXCEPT !.session = s, !.token = t]

\* The rest stays.
LEMMA HeldWith ==
  ASSUME NEW h \in Working, NEW s \in Conversation \cup {Nothing},
         NEW t \in Msg \cup {Nothing}
  PROVE  LET w == With(h, s, t) IN
         /\ w \in Working /\ w.session = s /\ w.token = t /\ w.tools = h.tools
         /\ w.iteration = h.iteration /\ w.attempt = h.attempt
         /\ w.text = h.text /\ w.says = h.says /\ w.outcome = h.outcome
<1> DEFINE outcomes == {"none"} \cup UNION {Outcomes(tool) : tool \in Tools}
<1>1. Working = [session : Conversation \cup {Nothing}, token : Msg \cup {Nothing},
                 tools : Seq(Tools), text : Texts,
                 says : Mutations \cup {Nothing}, iteration : 0 .. MaxIterations + 2,
                 attempt : 1 .. MaxAttempts, outcome : outcomes]
  BY DEF Working
<1> HIDE DEF outcomes
<1> QED
  BY <1>1 DEF With

\* A request that holds nothing yet, or nothing any more.
LEMMA IdleWorks ==
  ASSUME NEW s \in Conversation \cup {Nothing}
  PROVE  /\ Idle \in Working /\ [Idle EXCEPT !.session = s] \in Working
         /\ [Idle EXCEPT !.session = s].session = s
         /\ [Idle EXCEPT !.session = s].token = Nothing
<1> DEFINE outcomes == {"none"} \cup UNION {Outcomes(tool) : tool \in Tools}
<1>1. Working = [session : Conversation \cup {Nothing}, token : Msg \cup {Nothing},
                 tools : Seq(Tools), text : Texts,
                 says : Mutations \cup {Nothing}, iteration : 0 .. MaxIterations + 2,
                 attempt : 1 .. MaxAttempts, outcome : outcomes]
  BY DEF Working
<1>2. /\ <<>> \in Seq(Tools) /\ "empty" \in Texts
      /\ 0 \in 0 .. MaxIterations + 2 /\ 1 \in 1 .. MaxAttempts
  BY AssistantAssumption DEF Texts
<1>3. "none" \in outcomes
  OBVIOUS
<1>4. [Idle EXCEPT !.session = s]
        = [session |-> s, token |-> Nothing, tools |-> <<>>, text |-> "empty",
           says |-> Nothing, iteration |-> 0, attempt |-> 1, outcome |-> "none"]
  BY DEF Idle
<1> HIDE DEF outcomes
<1>5. Idle \in Working
  BY <1>1, <1>2, <1>3 DEF Idle
<1> QED
  BY <1>1, <1>2, <1>3, <1>4, <1>5

\* A step that writes nothing on the conversations keeps them in order,
LEMMA RowsStay ==
  ASSUME AssistantInv, UNCHANGED rows
  PROVE  RowsGrow
BY DEF AssistantInv, TypeOK, Domains, RowsGrow, rows

\* so does asking for a person in a conversation that exists,
LEMMA HandOffKeeps ==
  ASSUME AssistantInv, NEW s \in Conversation, session[s] # "none", HandOff(s),
         UNCHANGED <<log, counted>>
  PROVE  RowsGrow
<1>1. CASE session[s] = "human_resolved"
  BY <1>1, RowsStay DEF HandOff, rows
<1>2. CASE session[s] # "human_resolved"
  BY <1>2 DEF HandOff, AssistantInv, TypeOK, Domains, RowsGrow, Statuses
<1> QED
  BY <1>1, <1>2

\* and adding a message to its log.
LEMMA LogKeeps ==
  ASSUME AssistantInv, NEW s \in Conversation, NEW m \in Msg,
         NEW role \in {"user", "assistant"},
         log' = [log EXCEPT ![s] = @ \cup {<<m, role>>}],
         UNCHANGED <<session, flag, counted>>
  PROVE  RowsGrow
BY DEF AssistantInv, TypeOK, Domains, RowsGrow

\* A step of one message, which does not answer it, leaves the invariant in place
\* when it leaves that message as it should be.
LEMMA MoveKeeps ==
  ASSUME AssistantInv, NEW m \in Msg, pc[m] # "done", RowsGrow, from' = from,
         NEW step \in Steps \ {"idle", "done"}, Go(m, step),
         NEW w \in Working, work' = [work EXCEPT ![m] = w],
         NEW k \in Nat, calls' = [calls EXCEPT ![m] = k],
         NEW made \in Seq(Mutations), change' = [change EXCEPT ![m] = made],
         NEW before \in SUBSET Msg, previous' = [previous EXCEPT ![m] = before],
         Good(m)'
  PROVE  AssistantInv'
<1>1. /\ pc \in [Msg -> Steps] /\ work \in [Msg -> Working] /\ calls \in [Msg -> Nat]
      /\ change \in [Msg -> Seq(Mutations)] /\ previous \in [Msg -> SUBSET Msg]
  BY DEF AssistantInv, TypeOK, Domains, Steps
<1>2. /\ pc' = [pc EXCEPT ![m] = step]
      /\ answer' = answer /\ told' = told /\ cookie' = cookie
  BY DEF Go
<1>3. /\ pc' \in [Msg -> Steps] /\ work' \in [Msg -> Working] /\ calls' \in [Msg -> Nat]
      /\ change' \in [Msg -> Seq(Mutations)] /\ previous' \in [Msg -> SUBSET Msg]
  BY <1>1, <1>2
<1>4. About({m})
  BY <1>1, <1>2 DEF About
<1>5. \A n \in Msg : Good(n)'
  <2>1. ASSUME NEW n \in Msg \ {m} PROVE Good(n)'
    BY <1>4, OthersStay
  <2> QED
    BY <2>1
<1>6. \A v \in Visitor : Cookie(v)'
  <2>1. pc'[m] # "done"
    BY <1>1, <1>2 DEF Steps
  <2> QED
    BY <2>1, <1>2, <1>3, <1>4, CookiesStay
<1>7. TypeOK'
  <2>1. \A n \in Msg : pc'[n] \notin {"idle", "session", "insert", "done"} =>
                         session'[work'[n].session] # "none"
    BY <1>5 DEF Good, Placed
  <2> QED
    BY <2>1, <1>2, <1>3 DEF TypeOK, RowsGrow, AssistantInv, Steps
<1>8. Domains'
  BY <1>3 DEF Domains, RowsGrow, AssistantInv
<1> QED
  BY <1>5, <1>6, <1>7, <1>8 DEF AssistantInv

\* An answer leaves the invariant in place: it is an error, or the message is in
\* the log of its conversation.
LEMMA AnswerKeeps ==
  ASSUME AssistantInv, NEW m \in Msg, pc[m] \notin {"idle", "done"}, RowsGrow,
         UNCHANGED <<from, change, previous>>,
         NEW end \in Ends \ {"crashed"}, NEW about \in Mutations \cup {Hearsay, Nothing},
         Answer(m, end, about),
         NEW k \in Nat, k <= CallLimit, calls' = [calls EXCEPT ![m] = k],
         end # "error" => pc[m] \in {"call", "text", "escalate", "tool", "result"}
  PROVE  AssistantInv'
<1>1. /\ pc \in [Msg -> Steps] /\ work \in [Msg -> Working] /\ calls \in [Msg -> Nat]
      /\ answer \in [Msg -> Ends \cup {"none"}] /\ told \in [Msg -> Mutations \cup {Hearsay, Nothing}]
      /\ cookie \in [Visitor -> Msg \cup {Nothing}]
      /\ from \in [Msg -> Phone \cup Visitor \cup {Nothing}]
      /\ Msg \subseteq Conversation /\ Nothing \notin Conversation
  BY AssistantAssumption DEF AssistantInv, TypeOK, Domains, Steps, Conversation
<1> DEFINE w == [Idle EXCEPT !.session = work[m].session]
<1>2. /\ pc' = [pc EXCEPT ![m] = "done"] /\ answer' = [answer EXCEPT ![m] = end]
      /\ told' = [told EXCEPT ![m] = about] /\ work' = [work EXCEPT ![m] = w]
      /\ cookie' = IF from[m] \in Visitor
                     THEN [cookie EXCEPT ![from[m]] = CookieOf(m, work[m].session, end)]
                     ELSE cookie
  BY DEF Answer, Forget
<1>3. w \in Working /\ w.session = work[m].session /\ w.token = Nothing
  <2>1. work[m].session \in Conversation \cup {Nothing}
    BY <1>1 DEF Working
  <2> QED
    BY <2>1, IdleWorks
<1>4. About({m})
  BY <1>1, <1>2 DEF About
<1>5. Placed(m) /\ Kept(m) /\ Honest(m) /\ Going(m)
  BY DEF AssistantInv, Good
<1>6. /\ pc'[m] = "done" /\ answer'[m] = end /\ told'[m] = about /\ work'[m] = w
      /\ calls'[m] = k /\ change'[m] = change[m] /\ previous'[m] = previous[m]
      /\ from'[m] = from[m]
  BY <1>1, <1>2
<1>7. Placed(m)'
  BY <1>3, <1>5, <1>6 DEF Placed
<1>8. Kept(m)'
  <2>1. end # "error" => /\ work[m].session # Nothing /\ work[m].session \in Conversation
                         /\ <<m, "user">> \in log[work[m].session]
    BY <1>1, <1>5 DEF Kept, Placed
  <2>2. end # "none"
    BY DEF Ends
  <2> QED
    BY <2>1, <2>2, <1>3, <1>6 DEF Kept, RowsGrow
<1>9. Budget(m)' /\ Honest(m)'
  BY <1>5, <1>6 DEF Budget, Honest
<1>10. Going(m)'
  <2>1. \A o \in previous[m] : o \in Msg /\ pc[o] = "done" /\ from[o] = from[m]
    BY <1>5 DEF Going
  <2>2. \A o \in previous[m] : pc'[o] = "done" /\ from'[o] = from'[m]
    BY <2>1, <1>1, <1>2, <1>6
  <2>3. from[m] \in Visitor /\ work[m].session # Nothing =>
          Follows(previous[m], work[m].session, answer, work)
    BY <1>5 DEF Going
  <2>4. from[m] \in Visitor /\ work[m].session # Nothing =>
          Follows(previous[m], work[m].session, answer', work')
    BY <2>1, <2>3, <1>4, FollowsStays
  <2> QED
    BY <2>1, <2>2, <2>4, <1>3, <1>6 DEF Going
<1>11. \A n \in Msg : Good(n)'
  <2>1. ASSUME NEW n \in Msg \ {m} PROVE Good(n)'
    BY <1>4, OthersStay
  <2> QED
    BY <2>1, <1>7, <1>8, <1>9, <1>10 DEF Good
<1>12. ASSUME NEW v \in Visitor PROVE Cookie(v)'
  <2> DEFINE N == {n \in Msg : pc[n] = "done" /\ from[n] = v}
             O == {n \in Msg : pc'[n] = "done" /\ from'[n] = v}
  <2>1. Cookie(v)
    BY DEF AssistantInv
  <2>2. CASE from[m] # v
    <3>1. O = N
      BY <2>2, <1>1, <1>2, <1>4 DEF About
    <3>2. cookie'[v] = cookie[v]
      BY <2>2, <1>1, <1>2
    <3>3. Follows(N, cookie[v], answer', work')
      BY <2>1, <1>4, FollowsStays DEF Cookie
    <3> QED
      BY <3>1, <3>2, <3>3, <2>1, <1>1 DEF Cookie, RowsGrow
  <2>3. CASE from[m] = v /\ end = "error"
    <3>1. m \in O /\ answer'[m] = "error"
      BY <2>3, <1>6
    <3>2. cookie'[v] \in {Nothing, cookie[v]}
      BY <2>3, <1>1, <1>2 DEF CookieOf
    <3>3. Follows(O, cookie'[v], answer', work')
      BY <3>1 DEF Follows, Seen
    <3> QED
      BY <3>2, <3>3, <2>1, <1>1 DEF Cookie, RowsGrow
  <2>4. CASE from[m] = v /\ end # "error"
    <3>1. m \in O /\ answer'[m] # "crashed"
      BY <2>4, <1>6
    <3>2. cookie'[v] = work[m].session
      BY <2>4, <1>1, <1>2 DEF CookieOf
    <3>3. /\ work[m].session \in Conversation /\ work[m].session # Nothing
          /\ session[work[m].session] # "none"
      BY <2>4, <1>1, <1>5 DEF Placed
    <3>4. Follows(O, cookie'[v], answer', work')
      BY <3>1, <3>2, <3>3, <1>3, <1>6 DEF Follows, Seen
    <3> QED
      BY <3>2, <3>3, <3>4 DEF Cookie, RowsGrow
  <2> QED
    BY <2>2, <2>3, <2>4
<1>13. TypeOK'
  <2>1. \A n \in Msg : pc'[n] \notin {"idle", "session", "insert", "done"} =>
                         session'[work'[n].session] # "none"
    BY <1>11 DEF Good, Placed
  <2>2. cookie' \in [Visitor -> Msg \cup {Nothing}]
    <3>1. from[m] \in Visitor => /\ work[m].session \in Msg \cup {Nothing}
                                 /\ cookie[from[m]] \in Msg \cup {Nothing}
      BY <1>1, <1>5 DEF Placed
    <3> QED
      BY <3>1, <1>1, <1>2 DEF CookieOf
  <2>3. /\ pc' \in [Msg -> Steps] /\ work' \in [Msg -> Working]
        /\ answer' \in [Msg -> Ends \cup {"none"}]
        /\ told' \in [Msg -> Mutations \cup {Hearsay, Nothing}]
    <3> HIDE DEF w
    <3> QED
      BY <1>1, <1>2, <1>3 DEF Steps
  <2> QED
    BY <2>1, <2>2, <2>3 DEF TypeOK, RowsGrow, AssistantInv, Steps
<1>14. Domains'
  BY <1>1 DEF Domains, RowsGrow, AssistantInv
<1> QED
  BY <1>11, <1>12, <1>13, <1>14 DEF AssistantInv

-----------------------------------------------------------------------------
(* A message, up to the language model.                                    *)

\* The parts of the invariant that speak of one message.
LEMMA Own ==
  ASSUME AssistantInv, NEW m \in Msg
  PROVE  /\ Placed(m) /\ Kept(m) /\ Budget(m) /\ Honest(m) /\ Going(m)
         /\ pc[m] \in Steps /\ work[m] \in Working /\ work \in [Msg -> Working]
         /\ work[m].session \in Conversation \cup {Nothing}
         /\ work[m].token \in Msg \cup {Nothing}
         /\ work[m].tools \in Seq(Tools) /\ work[m].text \in Texts
         /\ work[m].says \in Mutations \cup {Nothing}
         /\ work[m].iteration \in Nat /\ work[m].attempt \in 1 .. MaxAttempts
         /\ calls \in [Msg -> Nat] /\ change \in [Msg -> Seq(Mutations)]
         /\ previous \in [Msg -> SUBSET Msg]
         /\ from[m] \in Phone \cup Visitor \cup {Nothing}
         /\ Msg \subseteq Conversation /\ Phone \subseteq Conversation
         /\ Nothing \notin Conversation /\ Phone \cap Visitor = {}
         /\ MaxIterations \in Nat /\ MaxAttempts \in Nat \ {0}
BY AssistantAssumption
   DEF AssistantInv, Good, TypeOK, Domains, Steps, Working, Conversation

\* What a message followed it still follows after a move.
LEMMA GoingStays ==
  ASSUME AssistantInv, NEW m \in Msg, pc[m] # "done", RowsGrow, from' = from,
         NEW step \in Steps \ {"idle", "done", "session"}, Go(m, step),
         NEW w \in Working, work' = [work EXCEPT ![m] = w],
         UNCHANGED previous, w.token = work[m].token,
         step = "insert" => w.token = Nothing,
         from[m] \in Visitor /\ step = "insert" =>
           Follows(previous[m], w.token, answer, work),
         from[m] \in Visitor /\ w.session # Nothing =>
           Follows(previous[m], w.session, answer, work)
  PROVE  Going(m)'
<1>1. /\ pc' = [pc EXCEPT ![m] = step] /\ answer' = answer /\ pc \in [Msg -> Steps]
      /\ work \in [Msg -> Working] /\ previous[m] \in SUBSET Msg
      /\ work[m].token \in Msg \cup {Nothing} /\ Msg \subseteq Conversation
  BY Own DEF Go, AssistantInv, TypeOK, Steps
<1>2. pc'[m] = step /\ work'[m] = w /\ previous'[m] = previous[m] /\ from'[m] = from[m]
  BY <1>1
<1>3. /\ \A o \in previous[m] : o \in Msg /\ pc[o] = "done" /\ from[o] = from[m]
      /\ work[m].token # Nothing => session[work[m].token] # "none"
  BY Own DEF Going
<1>4. \A o \in previous[m] : /\ pc'[o] = "done" /\ from'[o] = from'[m]
                             /\ work'[o] = work[o]
  BY <1>1, <1>2, <1>3
<1>5. \A s : Follows(previous[m], s, answer, work) =>
               Follows(previous'[m], s, answer', work')
  BY <1>1, <1>2, <1>4 DEF Follows, Seen
<1>6. w.token # Nothing => session'[w.token] # "none"
  BY <1>1, <1>3 DEF RowsGrow
<1> QED
  BY <1>2, <1>3, <1>4, <1>5, <1>6 DEF Going

LEMMA SendKeeps ==
  ASSUME AssistantInv, NEW m \in Msg, Send(m)
  PROVE  AssistantInv'
<1> DEFINE t == IF from[m] \in Visitor THEN cookie[from[m]] ELSE Nothing
           w == With(work[m], work[m].session, t)
           N == {n \in Msg : pc[n] = "done" /\ from[n] = from[m]}
<1>1. /\ pc[m] = "idle" /\ from[m] # Nothing /\ Go(m, "session")
      /\ work' = [work EXCEPT ![m].token = t]
      /\ previous' = [previous EXCEPT ![m] = N]
      /\ UNCHANGED <<from, rows, change, calls>>
  BY DEF Send, Effects
<1>2. /\ t \in Msg \cup {Nothing}
      /\ from[m] \in Visitor => /\ t # Nothing => session[t] # "none"
                                /\ Follows(N, t, answer, work)
      /\ from[m] \notin Visitor => t = Nothing
  BY DEF AssistantInv, TypeOK, Cookie
<1> HIDE DEF t
<1>3. /\ w \in Working /\ w.token = t /\ work' = [work EXCEPT ![m] = w]
      /\ w.session = work[m].session /\ w.tools = work[m].tools
      /\ w.iteration = work[m].iteration /\ w.attempt = work[m].attempt
  <2>1. work[m] \in Working /\ work \in [Msg -> Working]
        /\ work[m].session \in Conversation \cup {Nothing}
    BY Own
  <2>2. [work[m] EXCEPT !.token = t] = w
    BY <2>1 DEF Working, With
  <2>3. work' = [work EXCEPT ![m] = w]
    BY <1>1, <2>1, <2>2
  <2> QED
    BY <1>2, <2>1, <2>3, HeldWith
<1> HIDE DEF w
<1>4. RowsGrow
  BY <1>1, RowsStay
<1>5. /\ pc' = [pc EXCEPT ![m] = "session"] /\ pc \in [Msg -> Steps]
      /\ answer' = answer /\ told' = told
  BY <1>1 DEF Go, AssistantInv, TypeOK, Steps
<1>6. /\ pc'[m] = "session" /\ work'[m] = w /\ previous'[m] = N
      /\ change'[m] = change[m] /\ calls'[m] = calls[m] /\ from'[m] = from[m]
  BY <1>1, <1>3, <1>5, Own
<1>7. Placed(m)' /\ Kept(m)' /\ Budget(m)' /\ Honest(m)'
  <2>1. Placed(m) /\ Kept(m) /\ Budget(m) /\ Honest(m)
    BY Own
  <2>2. Placed(m)'
    BY <2>1, <1>1, <1>3, <1>6 DEF Placed
  <2>3. Kept(m)'
    BY <2>1, <1>1, <1>3, <1>5, <1>6 DEF Kept
  <2>4. Budget(m)'
    BY <2>1, <1>1, <1>3, <1>6 DEF Budget
  <2>5. Honest(m)'
    BY <2>1, <1>1, <1>3, <1>5, <1>6 DEF Honest
  <2> QED
    BY <2>2, <2>3, <2>4, <2>5
<1>8. Going(m)'
  <2>1. \A n \in N : pc'[n] = "done" /\ from'[n] = from'[m] /\ work'[n] = work[n]
    BY <1>1, <1>3, <1>5, <1>6
  <2>2. from[m] \in Visitor => Follows(N, t, answer', work')
    BY <2>1, <1>2, <1>5 DEF Follows, Seen
  <2>3. w.token # Nothing => session'[w.token] # "none"
    BY <1>1, <1>2, <1>3 DEF rows
  <2>4. w.session = Nothing
    BY <1>1, <1>3, Own DEF Placed
  <2> QED
    BY <2>1, <2>2, <2>3, <2>4, <1>3, <1>6 DEF Going
<1>9. /\ calls' = [calls EXCEPT ![m] = calls[m]] /\ calls[m] \in Nat
      /\ change' = [change EXCEPT ![m] = change[m]] /\ change[m] \in Seq(Mutations)
      /\ N \in SUBSET Msg /\ "session" \in Steps
  BY <1>1, Own DEF Steps
<1>10. Good(m)'
  BY <1>7, <1>8 DEF Good
<1> HIDE DEF N
<1> QED
  BY <1>1, <1>3, <1>4, <1>9, <1>10, MoveKeeps

\* A message joins a conversation that exists: its phone's, or one that a visitor's
\* message named.
LEMMA JoinKeeps ==
  ASSUME AssistantInv, NEW m \in Msg, pc[m] \in {"session", "insert"}, RowsGrow,
         UNCHANGED <<from, previous, change, calls>>,
         NEW s \in Conversation, session'[s] # "none",
         work' = [work EXCEPT ![m].session = s], Go(m, "store"),
         from[m] \in Phone => s = from[m],
         from[m] \in Visitor => s \in Msg /\ Follows(previous[m], s, answer, work)
  PROVE  AssistantInv'
<1> DEFINE w == With(work[m], s, work[m].token)
<1>1. /\ w \in Working /\ w.session = s /\ work' = [work EXCEPT ![m] = w]
      /\ w.token = work[m].token /\ w.tools = work[m].tools
      /\ w.iteration = work[m].iteration /\ w.attempt = work[m].attempt
  <2>1. work[m] \in Working /\ work \in [Msg -> Working]
        /\ work[m].token \in Msg \cup {Nothing}
    BY Own
  <2>2. [work[m] EXCEPT !.session = s] = w
    BY <2>1 DEF Working, With
  <2>3. work' = [work EXCEPT ![m] = w]
    BY <2>1, <2>2
  <2>4. s \in Conversation \cup {Nothing}
    OBVIOUS
  <2>5. /\ w \in Working /\ w.session = s
        /\ w.token = work[m].token /\ w.tools = work[m].tools
        /\ w.iteration = work[m].iteration /\ w.attempt = work[m].attempt
    BY <2>1, <2>4, HeldWith
  <2> HIDE DEF w
  <2> QED
    BY <2>3, <2>5
<1> HIDE DEF w
<1>2. /\ pc' = [pc EXCEPT ![m] = "store"] /\ pc \in [Msg -> Steps]
      /\ answer' = answer /\ told' = told
  BY DEF Go, AssistantInv, TypeOK, Steps
<1>3. /\ pc'[m] = "store" /\ work'[m] = w /\ previous' = previous
      /\ change'[m] = change[m] /\ calls'[m] = calls[m] /\ from'[m] = from[m]
  BY <1>1, <1>2, Own
<1>4. /\ Placed(m) /\ Kept(m) /\ Budget(m) /\ Honest(m) /\ Nothing \notin Conversation
      /\ "store" \in Steps \ {"idle", "done", "session", "insert"}
  BY Own DEF Steps
<1>5. Placed(m)'
  BY <1>1, <1>3, <1>4 DEF Placed
<1>6. Kept(m)' /\ Budget(m)' /\ Honest(m)'
  BY <1>1, <1>2, <1>3, <1>4 DEF Kept, Budget, Honest
<1>7. Going(m)'
  BY <1>1, <1>3, <1>4, GoingStays
<1>8. /\ calls' = [calls EXCEPT ![m] = calls[m]] /\ calls[m] \in Nat
      /\ change' = [change EXCEPT ![m] = change[m]] /\ change[m] \in Seq(Mutations)
      /\ previous' = [previous EXCEPT ![m] = previous[m]] /\ previous[m] \in SUBSET Msg
  BY Own
<1>9. Good(m)'
  BY <1>5, <1>6, <1>7 DEF Good
<1> QED
  BY <1>1, <1>4, <1>8, <1>9, MoveKeeps

LEMMA FindSessionKeeps ==
  ASSUME AssistantInv, NEW m \in Msg, FindSession(m)
  PROVE  AssistantInv'
<1> DEFINE s == Sought(m)
<1>1. /\ pc[m] = "session" /\ UNCHANGED <<from, previous, change, calls>> /\ RowsGrow
      /\ session' = session
  BY RowsStay DEF FindSession, Fixed, Effects, rows
<1>2. /\ work[m].session = Nothing /\ from[m] # Nothing /\ work[m].token \in Msg \cup {Nothing}
      /\ work[m].token # Nothing => session[work[m].token] # "none"
      /\ from[m] \in Phone \cup Visitor /\ Phone \cap Visitor = {}
      /\ from[m] \in Visitor => Follows(previous[m], work[m].token, answer, work)
      /\ Phone \cup Msg = Conversation
  BY <1>1, Own DEF Placed, Going, Conversation
<1>3. s = IF from[m] \in Phone THEN from[m] ELSE work[m].token
  BY DEF Sought
<1> HIDE DEF s
<1>4. CASE s # Nothing /\ session[s] # "none"
  <2>1. work' = [work EXCEPT ![m].session = s] /\ Go(m, "store")
    BY <1>4 DEF FindSession, s
  <2>2. s \in Conversation /\ session'[s] # "none"
    BY <1>1, <1>2, <1>3, <1>4
  <2>3. /\ from[m] \in Phone => s = from[m]
        /\ from[m] \in Visitor => s \in Msg /\ Follows(previous[m], s, answer, work)
    BY <1>2, <1>3, <1>4
  <2> QED
    BY <1>1, <2>1, <2>2, <2>3, JoinKeeps
<1>5. CASE ~(s # Nothing /\ session[s] # "none")
  <2>1. Go(m, "insert") /\ work' = work
    BY <1>5 DEF FindSession, To, s
  <2>2. from[m] \in Visitor => work[m].token = Nothing
    BY <1>2, <1>3, <1>5
  <2>3. /\ pc' = [pc EXCEPT ![m] = "insert"] /\ pc \in [Msg -> Steps]
        /\ answer' = answer /\ told' = told
    BY <2>1 DEF Go, AssistantInv, TypeOK, Steps
  <2>4. pc'[m] = "insert" /\ from'[m] = from[m]
    BY <1>1, <2>3
  <2>5. Placed(m) /\ Kept(m) /\ Budget(m) /\ Honest(m) /\ Going(m)
    BY Own
  <2>6. Placed(m)' /\ Kept(m)' /\ Budget(m)' /\ Honest(m)'
    <3>1. Placed(m)'
      BY <2>1, <2>4, <2>5, <1>1, <1>2 DEF Placed
    <3>2. Kept(m)'
      BY <2>1, <2>3, <2>4, <2>5, <1>1, <1>2 DEF Kept
    <3>3. Budget(m)' /\ Honest(m)'
      BY <2>1, <2>3, <2>4, <2>5, <1>1, <1>2 DEF Budget, Honest
    <3> QED
      BY <3>1, <3>2, <3>3
  <2>7. Going(m)'
    <3>1. \A o \in previous[m] : o \in Msg /\ pc[o] = "done" /\ from[o] = from[m]
      BY <2>5 DEF Going
    <3>2. \A o \in previous[m] : pc'[o] = "done"
      BY <3>1, <1>1, <2>3
    <3> QED
      BY <3>1, <3>2, <1>1, <1>2, <2>1, <2>2, <2>3, <2>4 DEF Going
  <2>8. Good(m)'
    BY <2>6, <2>7 DEF Good
  <2>9. /\ work' = [work EXCEPT ![m] = work[m]] /\ work[m] \in Working
        /\ calls' = [calls EXCEPT ![m] = calls[m]] /\ calls[m] \in Nat
        /\ change' = [change EXCEPT ![m] = change[m]] /\ change[m] \in Seq(Mutations)
        /\ previous' = [previous EXCEPT ![m] = previous[m]] /\ previous[m] \in SUBSET Msg
        /\ "insert" \in Steps \ {"idle", "done"}
    BY <1>1, <2>1, Own DEF Steps
  <2> QED
    BY <1>1, <2>1, <2>8, <2>9, MoveKeeps
<1> QED
  BY <1>4, <1>5

LEMMA InsertSessionKeeps ==
  ASSUME AssistantInv, NEW m \in Msg, InsertSession(m)
  PROVE  AssistantInv'
<1> DEFINE s == IF from[m] \in Visitor THEN m
                ELSE IF session[from[m]] # "none" THEN Winner(m) ELSE from[m]
<1>1. /\ pc[m] = "insert" /\ UNCHANGED <<from, previous, log, counted, change, calls>>
      /\ IF session[s] = "none" THEN Insert(s) ELSE UNCHANGED <<session, flag>>
      /\ work' = [work EXCEPT ![m].session = s] /\ Go(m, "store")
  BY DEF InsertSession, Fixed, Effects
<1>2. /\ from[m] \in Phone \cup Visitor /\ Phone \cap Visitor = {}
      /\ Phone \cup Msg = Conversation /\ m \in Conversation
      /\ from[m] \in Visitor => Follows(previous[m], Nothing, answer, work)
  <2>1. Placed(m) /\ Going(m) /\ from[m] \in Phone \cup Visitor \cup {Nothing}
    BY Own
  <2> QED
    BY <2>1, <1>1, Own DEF Placed, Going, Conversation
<1>3. /\ s \in Conversation
      /\ from[m] \in Phone => s = from[m]
      /\ from[m] \in Visitor => s = m
  BY <1>2 DEF Winner
<1> HIDE DEF s
<1>4. RowsGrow /\ session'[s] # "none"
  <2>1. CASE session[s] = "none"
    <3>1. /\ session' = [session EXCEPT ![s] = "active"]
          /\ flag' = [flag EXCEPT ![s] = FALSE] /\ log' = log /\ counted' = counted
      BY <2>1, <1>1 DEF Insert
    <3>2. /\ session \in [Conversation -> Statuses \cup {"none"}]
          /\ flag \in [Conversation -> BOOLEAN]
          /\ \A c \in Conversation : flag[c] = (session[c] = "needs_human")
          /\ log \in [Conversation -> SUBSET (Msg \X {"user", "assistant"})]
          /\ counted \in [Phone \cup Visitor -> Nat]
      BY DEF AssistantInv, TypeOK, Domains
    <3> QED
      BY <3>1, <3>2, <1>3 DEF RowsGrow, Statuses
  <2>2. CASE session[s] # "none"
    BY <2>2, <1>1, RowsStay DEF rows
  <2> QED
    BY <2>1, <2>2
<1>5. from[m] \in Visitor => s \in Msg /\ Follows(previous[m], s, answer, work)
  BY <1>2, <1>3 DEF Follows
<1>6. from[m] \in Phone => s = from[m]
  BY <1>2, <1>3
<1>7. s \in Conversation /\ pc[m] \in {"session", "insert"}
  BY <1>1, <1>3
<1> QED
  BY <1>1, <1>4, <1>5, <1>6, <1>7, JoinKeeps

\* A step after the conversation was found which works on nothing: the message
\* is in the log by the time it has been stored.
LEMMA PassKeeps ==
  ASSUME AssistantInv, NEW m \in Msg, RowsGrow,
         pc[m] \in {"store", "track", "intent", "text"},
         NEW step \in {"track", "intent", "call", "escalate"}, To(m, step),
         UNCHANGED <<from, previous, change, calls>>,
         pc[m] = "store" => <<m, "user">> \in log'[work[m].session],
         step = "escalate" => work[m].text = "unsure"
  PROVE  AssistantInv'
<1>1. /\ pc' = [pc EXCEPT ![m] = step] /\ pc \in [Msg -> Steps]
      /\ answer' = answer /\ told' = told /\ work' = work /\ Go(m, step)
  BY DEF To, Go, AssistantInv, TypeOK, Steps
<1>2. pc'[m] = step /\ from'[m] = from[m]
  BY <1>1
<1>3. Placed(m) /\ Kept(m) /\ Budget(m) /\ Honest(m) /\ Going(m)
  BY Own
<1>4. /\ work[m].session \in Conversation /\ work[m].session # Nothing
      /\ session[work[m].session] # "none"
  BY <1>3, Own DEF Placed
<1>5. Placed(m)'
  BY <1>1, <1>2, <1>3, <1>4 DEF Placed, RowsGrow
<1>6. Kept(m)'
  BY <1>1, <1>2, <1>3, <1>4 DEF Kept, RowsGrow
<1>7. Budget(m)' /\ Honest(m)'
  BY <1>1, <1>2, <1>3 DEF Budget, Honest
<1>8. /\ work' = [work EXCEPT ![m] = work[m]] /\ work[m] \in Working
      /\ calls' = [calls EXCEPT ![m] = calls[m]] /\ calls[m] \in Nat
      /\ change' = [change EXCEPT ![m] = change[m]] /\ change[m] \in Seq(Mutations)
      /\ previous' = [previous EXCEPT ![m] = previous[m]] /\ previous[m] \in SUBSET Msg
      /\ step \in Steps \ {"idle", "done", "session", "insert"}
  BY <1>1, Own DEF Steps
<1>9. Going(m)'
  <2>1. from[m] \in Visitor /\ work[m].session # Nothing =>
          Follows(previous[m], work[m].session, answer, work)
    BY <1>3 DEF Going
  <2> QED
    BY <2>1, <1>1, <1>8, GoingStays
<1>10. Good(m)'
  BY <1>5, <1>6, <1>7, <1>9 DEF Good
<1> QED
  BY <1>1, <1>8, <1>10, MoveKeeps

LEMMA StoreKeeps ==
  ASSUME AssistantInv, NEW m \in Msg, Store(m)
  PROVE  AssistantInv'
<1>1. /\ pc[m] = "store" /\ UNCHANGED <<from, previous, session, flag, counted, change, calls>>
      /\ log' = [log EXCEPT ![work[m].session] = @ \cup {<<m, "user">>}] /\ To(m, "track")
  BY DEF Store, Fixed, Effects
<1>2. work[m].session \in Conversation
  BY <1>1, Own DEF Placed
<1>3. RowsGrow
  BY <1>1, <1>2, LogKeeps
<1>4. <<m, "user">> \in log'[work[m].session]
  BY <1>1, <1>2 DEF AssistantInv, TypeOK
<1> QED
  BY <1>1, <1>3, <1>4, PassKeeps

LEMMA TrackKeeps ==
  ASSUME AssistantInv, NEW m \in Msg, Track(m)
  PROVE  AssistantInv'
<1> DEFINE step == IF m \in Wants THEN "intent" ELSE "call"
<1>1. /\ pc[m] = "track" /\ UNCHANGED <<from, previous, session, flag, log, change, calls>>
      /\ counted' = [counted EXCEPT ![from[m]] = @ + 1] /\ To(m, step)
  BY DEF Track, Fixed, Effects
<1>2. from[m] \in Phone \cup Visitor
  BY <1>1, Own DEF Placed
<1>3. RowsGrow
  BY <1>1, <1>2 DEF RowsGrow, AssistantInv, TypeOK, Domains
<1>4. step \in {"track", "intent", "call", "escalate"}
  OBVIOUS
<1> QED
  BY <1>1, <1>3, <1>4, PassKeeps

LEMMA IntentKeeps ==
  ASSUME AssistantInv, NEW m \in Msg, Intent(m)
  PROVE  AssistantInv'
<1>1. /\ pc[m] = "intent" /\ UNCHANGED <<from, previous, log, counted, change, calls>>
      /\ HandOff(work[m].session) /\ To(m, "call")
  BY DEF Intent, Fixed, Effects
<1>2. work[m].session \in Conversation /\ session[work[m].session] # "none"
  BY <1>1, Own DEF Placed
<1>3. RowsGrow
  BY <1>1, <1>2, HandOffKeeps
<1> QED
  BY <1>1, <1>3, PassKeeps

-----------------------------------------------------------------------------
(* A message, in the loop of the language model.                           *)

\* A step of the loop keeps the invariant when the calls stay within their budget
\* and the changes within theirs.
LEMMA LoopKeeps ==
  ASSUME AssistantInv, NEW m \in Msg, RowsGrow, UNCHANGED <<from, previous>>,
         pc[m] \in {"call", "tool", "result"},
         NEW step \in {"call", "text", "tool", "result"}, Go(m, step),
         NEW w \in Working, work' = [work EXCEPT ![m] = w],
         w.session = work[m].session, w.token = work[m].token,
         NEW k \in Nat, calls' = [calls EXCEPT ![m] = k],
         NEW made \in Seq(Mutations), change' = [change EXCEPT ![m] = made],
         Budget(m)', Honest(m)'
  PROVE  AssistantInv'
<1>1. /\ pc' = [pc EXCEPT ![m] = step] /\ pc \in [Msg -> Steps]
      /\ answer' = answer /\ work \in [Msg -> Working]
      /\ step \in Steps \ {"idle", "done", "session", "insert"}
  BY DEF Go, AssistantInv, TypeOK, Steps
<1>2. pc'[m] = step /\ from'[m] = from[m] /\ work'[m] = w
  BY <1>1
<1>3. Placed(m) /\ Kept(m) /\ Going(m)
  BY Own
<1>4. /\ work[m].session \in Conversation /\ work[m].session # Nothing
      /\ session[work[m].session] # "none"
  BY <1>3, Own DEF Placed
<1>5. Placed(m)'
  BY <1>1, <1>2, <1>3, <1>4 DEF Placed, RowsGrow
<1>6. Kept(m)'
  BY <1>1, <1>2, <1>3, <1>4 DEF Kept, RowsGrow
<1>7. Going(m)'
  <2>1. from[m] \in Visitor /\ w.session # Nothing =>
          Follows(previous[m], w.session, answer, work)
    BY <1>3 DEF Going
  <2> QED
    BY <2>1, <1>1, GoingStays
<1>8. previous' = [previous EXCEPT ![m] = previous[m]] /\ previous[m] \in SUBSET Msg
  BY Own
<1>9. Good(m)'
  BY <1>5, <1>6, <1>7 DEF Good
<1> QED
  BY <1>1, <1>8, <1>9, MoveKeeps

\* The calls of the iterations up to one of them are within the limit.
LEMMA Iterations ==
  ASSUME NEW i \in Nat, i <= MaxIterations
  PROVE  /\ MaxAttempts * i \in Nat /\ CallLimit \in Nat
         /\ MaxAttempts * (i + 1) = MaxAttempts * i + MaxAttempts
         /\ MaxAttempts * (i + 1) <= CallLimit
<1>1. MaxIterations \in Nat /\ MaxAttempts \in Nat \ {0}
  BY AssistantAssumption
<1>2. \A a, b, c \in Nat : a * (b + c) = a * b + a * c
  OBVIOUS
<1>3. \A a, b \in Nat : a * b \in Nat
  OBVIOUS
<1> DEFINE d == MaxIterations - i
<1>4. d \in Nat /\ 1 + MaxIterations = (i + 1) + d
  BY <1>1
<1>5. MaxAttempts * ((i + 1) + d) = MaxAttempts * (i + 1) + MaxAttempts * d
  BY <1>1, <1>2, <1>4
<1>6. MaxAttempts * d \in Nat /\ MaxAttempts * (i + 1) \in Nat /\ MaxAttempts * i \in Nat
  BY <1>1, <1>3, <1>4
<1>7. MaxAttempts * (i + 1) = MaxAttempts * i + MaxAttempts
  BY <1>1, <1>2
<1> HIDE DEF d
<1> QED
  BY <1>4, <1>5, <1>6, <1>7 DEF CallLimit

\* A message that may call has a call left.
LEMMA CountKeeps ==
  ASSUME AssistantInv, NEW m \in Msg, pc[m] = "call", Count(m)
  PROVE  /\ calls' = [calls EXCEPT ![m] = calls[m] + 1] /\ calls[m] + 1 \in Nat
         /\ calls[m] + 1 <= MaxAttempts * work[m].iteration + work[m].attempt
         /\ work[m].iteration <= MaxIterations
         /\ calls[m] + 1 <= CallLimit
         /\ MaxAttempts * (work[m].iteration + 1)
              = MaxAttempts * work[m].iteration + MaxAttempts
         /\ MaxAttempts * work[m].iteration \in Nat
<1>1. /\ calls[m] + 1 <= MaxAttempts * work[m].iteration + work[m].attempt
      /\ work[m].iteration <= MaxIterations /\ work[m].iteration \in Nat
      /\ work[m].attempt \in 1 .. MaxAttempts /\ calls[m] \in Nat
      /\ MaxAttempts \in Nat
  BY Own DEF Budget
<1>2. /\ MaxAttempts * work[m].iteration \in Nat /\ CallLimit \in Nat
      /\ MaxAttempts * (work[m].iteration + 1)
           = MaxAttempts * work[m].iteration + MaxAttempts
      /\ MaxAttempts * (work[m].iteration + 1) <= CallLimit
  BY <1>1, Iterations
<1>3. calls[m] + 1 <= CallLimit
  BY <1>1, <1>2
<1>4. calls[m] + 1 \in Nat /\ ~(calls[m] > CallLimit)
  BY <1>1, <1>2, <1>3
<1>5. calls' = [calls EXCEPT ![m] = calls[m] + 1]
  BY <1>4 DEF Count
<1> QED
  BY <1>1, <1>2, <1>3, <1>4, <1>5

LEMMA RespondKeeps ==
  ASSUME AssistantInv, NEW m \in Msg, Respond(m)
  PROVE  AssistantInv'
<1>1. /\ pc[m] = "call" /\ UNCHANGED <<from, previous, change>> /\ Count(m) /\ RowsGrow
  BY RowsStay DEF Respond, Fixed
<1>2. PICK r \in Responses(m, from[m]) :
        LET n == IF work[m].iteration > MaxIterations + 1 THEN work[m].iteration
                                                          ELSE work[m].iteration + 1 IN
        IF AtLimit(n)
          THEN Answer(m, "limit", Nothing)
          ELSE IF r.text = "malformed" THEN Answer(m, "error", Nothing)
          ELSE /\ work' = [work EXCEPT ![m].iteration = n, ![m].attempt = 1,
                                       ![m].tools = r.tools, ![m].text = r.text,
                                       ![m].says = r.says]
               /\ Go(m, IF r.tools = <<>> THEN "text" ELSE "tool")
  BY DEF Respond
<1> DEFINE n == work[m].iteration + 1
           step == IF r.tools = <<>> THEN "text" ELSE "tool"
           w == [work[m] EXCEPT !.iteration = n, !.attempt = 1,
                                !.tools = r.tools, !.text = r.text, !.says = r.says]
<1>3. /\ calls' = [calls EXCEPT ![m] = calls[m] + 1] /\ calls[m] + 1 \in Nat
      /\ calls[m] + 1 <= MaxAttempts * work[m].iteration + work[m].attempt
      /\ work[m].iteration <= MaxIterations
      /\ calls[m] + 1 <= CallLimit
      /\ MaxAttempts * n = MaxAttempts * work[m].iteration + MaxAttempts
      /\ MaxAttempts * work[m].iteration \in Nat
  BY <1>1, CountKeeps
<1>4. /\ work[m] \in Working /\ work \in [Msg -> Working] /\ from[m] \in Phone \cup Visitor
      /\ work[m].iteration \in Nat /\ work[m].attempt \in 1 .. MaxAttempts
      /\ MaxIterations \in Nat /\ MaxAttempts \in Nat \ {0}
  BY <1>1, Own DEF Placed
<1>5. r.tools \in Seq(Tools) /\ r.text \in Texts /\ r.says \in Mutations \cup {Nothing}
  BY <1>2, <1>4, AssistantAssumption
<1>6. CASE n > MaxIterations
  <2>1. Answer(m, "limit", Nothing)
    BY <1>2, <1>3, <1>4, <1>6 DEF AtLimit
  <2>2. "limit" \in Ends \ {"crashed"}
    BY DEF Ends
  <2> QED
    BY <1>1, <1>3, <2>1, <2>2, AnswerKeeps
<1>7. CASE ~(n > MaxIterations) /\ r.text = "malformed"
  <2>1. Answer(m, "error", Nothing)
    <3>1. ~(work[m].iteration > MaxIterations + 1) /\ ~AtLimit(work[m].iteration + 1)
      BY <1>3, <1>4, <1>7 DEF AtLimit
    <3> QED
      BY <3>1, <1>2, <1>7
  <2>2. "error" \in Ends \ {"crashed"}
    BY DEF Ends
  <2> QED
    BY <1>1, <1>3, <2>1, <2>2, AnswerKeeps
<1>8. CASE ~(n > MaxIterations) /\ r.text # "malformed"
  <2>1. /\ work' = [work EXCEPT ![m].iteration = n, ![m].attempt = 1,
                                ![m].tools = r.tools, ![m].text = r.text,
                                ![m].says = r.says]
        /\ Go(m, step)
    <3>1. ~(work[m].iteration > MaxIterations + 1) /\ ~AtLimit(work[m].iteration + 1)
      BY <1>3, <1>4, <1>8 DEF AtLimit
    <3> QED
      BY <3>1, <1>2, <1>8
  <2>2. work' = [work EXCEPT ![m] = w]
    BY <2>1, <1>4 DEF Working
  <2>3. /\ w \in Working /\ w.session = work[m].session /\ w.token = work[m].token
        /\ w.iteration = n /\ w.attempt = 1 /\ w.tools = r.tools
    <3>1. n \in 0 .. MaxIterations + 2 /\ 1 \in 1 .. MaxAttempts
      BY <1>4, <1>8
    <3> DEFINE outcomes == {"none"} \cup UNION {Outcomes(tool) : tool \in Tools}
    <3>2. Working = [session : Conversation \cup {Nothing}, token : Msg \cup {Nothing},
                     tools : Seq(Tools), text : Texts,
                     says : Mutations \cup {Nothing}, iteration : 0 .. MaxIterations + 2,
                     attempt : 1 .. MaxAttempts, outcome : outcomes]
      BY DEF Working
    <3> HIDE DEF outcomes, n
    <3> QED
      BY <3>1, <3>2, <1>4, <1>5
  <2> HIDE DEF w
  <2>4. /\ pc' = [pc EXCEPT ![m] = step] /\ pc \in [Msg -> Steps] /\ told' = told
    BY <2>1 DEF Go, AssistantInv, TypeOK, Steps
  <2>5. /\ pc'[m] = step /\ work'[m] = w /\ calls'[m] = calls[m] + 1
        /\ change'[m] = change[m]
    BY <2>2, <2>4, <1>1, <1>3, <1>4, Own
  <2>6. Budget(m)'
    <3>1. calls[m] + 1 <= MaxAttempts * n /\ MaxAttempts * n \in Nat
      BY <1>3, <1>4
    <3> HIDE DEF step
    <3>2. calls'[m] + 1 <= MaxAttempts * w.iteration + w.attempt
      BY <3>1, <2>3, <2>5, <1>3
    <3>3. work'[m].iteration <= MaxIterations /\ work'[m].attempt = 1
      BY <2>3, <2>5, <1>4, <1>8
    <3>4. calls'[m] <= CallLimit
      BY <2>5, <1>3
    <3> QED
      BY <3>2, <3>3, <3>4, <2>5 DEF Budget
  <2>7. Honest(m)'
    <3>1. Honest(m)
      BY Own
    <3> QED
      BY <3>1, <2>3, <2>4, <2>5, <1>1 DEF Honest
  <2>8. change' = [change EXCEPT ![m] = change[m]] /\ change[m] \in Seq(Mutations)
    BY <1>1, Own
  <2> QED
    BY <1>1, <1>3, <2>1, <2>2, <2>3, <2>6, <2>7, <2>8, LoopKeeps
<1> QED
  BY <1>6, <1>7, <1>8

LEMMA CallFailsKeeps ==
  ASSUME AssistantInv, NEW m \in Msg, CallFails(m)
  PROVE  AssistantInv'
<1>1. PICK error \in Errors :
        /\ pc[m] = "call" /\ UNCHANGED <<from, previous, change, rows>> /\ Count(m)
        /\ IF Transient(error) /\ work[m].attempt < MaxAttempts
             THEN work' = [work EXCEPT ![m].attempt = @ + 1] /\ Go(m, "call")
             ELSE Answer(m, "ai_error", Nothing)
  BY DEF CallFails, Fixed
<1>2. RowsGrow
  BY <1>1, RowsStay
<1>3. /\ calls' = [calls EXCEPT ![m] = calls[m] + 1] /\ calls[m] + 1 \in Nat
      /\ calls[m] + 1 <= MaxAttempts * work[m].iteration + work[m].attempt
      /\ calls[m] + 1 <= CallLimit
      /\ work[m].iteration <= MaxIterations
      /\ MaxAttempts * work[m].iteration \in Nat
  BY <1>1, CountKeeps
<1>4. CASE Transient(error) /\ work[m].attempt < MaxAttempts
  <2> DEFINE a == work[m].attempt + 1
             w == [work[m] EXCEPT !.attempt = a]
  <2>1. /\ work[m] \in Working /\ work \in [Msg -> Working]
        /\ work[m].attempt \in 1 .. MaxAttempts /\ MaxAttempts \in Nat \ {0}
    BY Own
  <2>2. work' = [work EXCEPT ![m] = w] /\ Go(m, "call")
    BY <1>1, <1>4, <2>1 DEF Working
  <2>3. /\ w \in Working /\ w.session = work[m].session /\ w.token = work[m].token
        /\ w.iteration = work[m].iteration /\ w.attempt = a
    <3>1. a \in 1 .. MaxAttempts
      BY <2>1, <1>4
    <3> DEFINE outcomes == {"none"} \cup UNION {Outcomes(tool) : tool \in Tools}
    <3>2. Working = [session : Conversation \cup {Nothing}, token : Msg \cup {Nothing},
                     tools : Seq(Tools), text : Texts,
                     says : Mutations \cup {Nothing}, iteration : 0 .. MaxIterations + 2,
                     attempt : 1 .. MaxAttempts, outcome : outcomes]
      BY DEF Working
    <3> HIDE DEF outcomes, a
    <3> QED
      BY <3>1, <3>2, <2>1
  <2> HIDE DEF w
  <2>4. /\ pc' = [pc EXCEPT ![m] = "call"] /\ pc \in [Msg -> Steps] /\ told' = told
    BY <2>2 DEF Go, AssistantInv, TypeOK, Steps
  <2>5. /\ pc'[m] = "call" /\ work'[m] = w /\ calls'[m] = calls[m] + 1
        /\ change'[m] = change[m]
    BY <2>1, <2>2, <2>4, <1>1, <1>3, Own
  <2>6. Budget(m)'
    BY <2>1, <2>3, <2>5, <1>3 DEF Budget
  <2>7. Honest(m)'
    <3>1. Honest(m)
      BY Own
    <3> QED
      BY <3>1, <2>4, <2>5, <1>1 DEF Honest
  <2>8. change' = [change EXCEPT ![m] = change[m]] /\ change[m] \in Seq(Mutations)
    BY <1>1, Own
  <2> QED
    BY <1>1, <1>2, <1>3, <2>2, <2>3, <2>6, <2>7, <2>8, LoopKeeps
<1>5. CASE ~(Transient(error) /\ work[m].attempt < MaxAttempts)
  <2>1. Answer(m, "ai_error", Nothing) /\ "ai_error" \in Ends \ {"crashed"}
    BY <1>1, <1>5 DEF Ends
  <2> QED
    BY <1>1, <1>2, <1>3, <2>1, AnswerKeeps
<1> QED
  BY <1>4, <1>5

\* An answer that costs no call.
LEMMA QuietAnswerKeeps ==
  ASSUME AssistantInv, NEW m \in Msg, pc[m] \notin {"idle", "done"}, RowsGrow,
         UNCHANGED <<from, change, calls, previous>>,
         NEW end \in Ends \ {"crashed"}, NEW about \in Mutations \cup {Hearsay, Nothing},
         Answer(m, end, about),
         end # "error" => pc[m] \in {"call", "text", "escalate", "tool", "result"}
  PROVE  AssistantInv'
<1>1. /\ calls' = [calls EXCEPT ![m] = calls[m]] /\ calls[m] \in Nat
      /\ calls[m] <= CallLimit
  BY Own DEF Budget
<1> QED
  BY <1>1, AnswerKeeps

LEMMA TextKeeps ==
  ASSUME AssistantInv, NEW m \in Msg, Text(m)
  PROVE  AssistantInv'
<1> DEFINE text == work[m].text
<1>1. /\ pc[m] = "text" /\ UNCHANGED <<from, previous, session, flag, counted, change, calls>>
  BY DEF Text, Fixed, Effects
<1>2. work[m].session \in Conversation
  BY <1>1, Own DEF Placed
<1>3. CASE text = "empty"
  <2>1. Answer(m, "no_text", Nothing) /\ UNCHANGED log /\ "no_text" \in Ends \ {"crashed"}
    BY <1>3 DEF Text, Ends
  <2>2. RowsGrow
    BY <1>1, <2>1, RowsStay DEF rows
  <2> QED
    BY <1>1, <2>1, <2>2, QuietAnswerKeeps
<1>4. CASE text # "empty"
  <2>1. log' = [log EXCEPT ![work[m].session] = @ \cup {<<m, "assistant">>}]
    BY <1>4 DEF Text
  <2>2. RowsGrow
    BY <1>1, <1>2, <2>1, LogKeeps
  <2>3. CASE text = "unsure"
    <3>1. To(m, "escalate")
      BY <1>4, <2>3 DEF Text
    <3> QED
      BY <1>1, <2>2, <2>3, <3>1, PassKeeps
  <2>4. CASE text # "unsure"
    <3>1. Answer(m, "text", Heard(m)) \/ Answer(m, "safe", Nothing)
      BY <1>4, <2>4 DEF Text
    <3>2. {"text", "safe"} \subseteq Ends \ {"crashed"}
      BY DEF Ends
    <3>3. Heard(m) \in Mutations \cup {Hearsay, Nothing}
      BY Own DEF Heard
    <3> QED
      BY <1>1, <2>2, <3>1, <3>2, <3>3, QuietAnswerKeeps
  <2> QED
    BY <2>3, <2>4
<1> QED
  BY <1>3, <1>4

LEMMA EscalateKeeps ==
  ASSUME AssistantInv, NEW m \in Msg, Escalate(m)
  PROVE  AssistantInv'
<1>1. /\ pc[m] = "escalate" /\ UNCHANGED <<from, previous, log, counted, change, calls>>
      /\ HandOff(work[m].session) /\ Answer(m, "text", Heard(m))
      /\ Heard(m) \in Mutations \cup {Hearsay, Nothing}
      /\ "text" \in Ends \ {"crashed"}
  BY Own DEF Escalate, Fixed, Effects, Ends, Heard
<1>2. work[m].session \in Conversation /\ session[work[m].session] # "none"
  BY <1>1, Own DEF Placed
<1>3. RowsGrow
  BY <1>1, <1>2, HandOffKeeps
<1> QED
  BY <1>1, <1>3, QuietAnswerKeeps

LEMMA RunToolKeeps ==
  ASSUME AssistantInv, NEW m \in Msg, RunTool(m)
  PROVE  AssistantInv'
<1> DEFINE tool == Head(work[m].tools)
<1>1. /\ pc[m] = "tool" /\ UNCHANGED <<from, previous, log, counted, calls>>
      /\ Go(m, "result")
  BY DEF RunTool, Fixed
<1>2. PICK outcome \in Outcomes(tool) :
        /\ work' = [work EXCEPT ![m].outcome = outcome]
        /\ change' = IF tool \in Mutations /\ outcome \in {"done", "broken"}
                       THEN [change EXCEPT ![m] = Append(@, tool)] ELSE change
        /\ IF outcome = "registered"
             THEN HandOff(work[m].session) ELSE UNCHANGED <<session, flag>>
  BY DEF RunTool
<1>3. /\ work[m].session \in Conversation /\ session[work[m].session] # "none"
      /\ work[m].tools # <<>> /\ change[m] = <<>>
  BY <1>1, Own DEF Placed, Honest
<1>4. tool \in Tools
  <2>1. work[m].tools \in Seq(Tools)
    BY Own
  <2> QED
    BY <1>3, <2>1
<1>5. RowsGrow
  <2>1. CASE outcome = "registered"
    BY <1>1, <1>2, <1>3, <2>1, HandOffKeeps
  <2>2. CASE outcome # "registered"
    BY <1>1, <1>2, <2>2, RowsStay DEF rows
  <2> QED
    BY <2>1, <2>2
<1> DEFINE w == [work[m] EXCEPT !.outcome = outcome]
           made == IF tool \in Mutations /\ outcome \in {"done", "broken"} THEN <<tool>> ELSE <<>>
<1>6. /\ work[m] \in Working /\ work \in [Msg -> Working] /\ calls \in [Msg -> Nat]
      /\ change \in [Msg -> Seq(Mutations)]
  BY Own
<1>7. /\ w \in Working /\ w.session = work[m].session /\ w.token = work[m].token
      /\ w.iteration = work[m].iteration /\ w.attempt = work[m].attempt
      /\ w.tools = work[m].tools /\ w.outcome = outcome
  <2> DEFINE outcomes == {"none"} \cup UNION {Outcomes(t) : t \in Tools}
  <2>1. outcome \in outcomes
    BY <1>4
  <2>2. Working = [session : Conversation \cup {Nothing}, token : Msg \cup {Nothing},
                   tools : Seq(Tools), text : Texts,
                   says : Mutations \cup {Nothing}, iteration : 0 .. MaxIterations + 2,
                   attempt : 1 .. MaxAttempts, outcome : outcomes]
    BY DEF Working
  <2> HIDE DEF outcomes
  <2> QED
    BY <2>1, <2>2, <1>6
<1>8. work' = [work EXCEPT ![m] = w]
  BY <1>2, <1>6 DEF Working
<1>9. made \in Seq(Mutations) /\ change' = [change EXCEPT ![m] = made]
  <2>1. CASE tool \in Mutations /\ outcome \in {"done", "broken"}
    <3> HIDE DEF tool
    <3>1. Append(<<>>, tool) = <<tool>> /\ <<tool>> \in Seq(Mutations)
      BY <2>1
    <3> QED
      BY <3>1, <2>1, <1>2, <1>3
  <2>2. CASE ~(tool \in Mutations /\ outcome \in {"done", "broken"})
    BY <2>2, <1>2, <1>3, <1>6
  <2> QED
    BY <2>1, <2>2
<1> HIDE DEF w
<1>10. /\ pc' = [pc EXCEPT ![m] = "result"] /\ pc \in [Msg -> Steps] /\ told' = told
  BY <1>1 DEF Go, AssistantInv, TypeOK, Steps
<1>11. /\ pc'[m] = "result" /\ work'[m] = w /\ calls'[m] = calls[m] /\ change'[m] = made
  BY <1>1, <1>6, <1>8, <1>9, <1>10
<1>12. Budget(m)'
  <2>1. Budget(m)
    BY Own
  <2> QED
    BY <2>1, <1>1, <1>7, <1>11 DEF Budget
<1>13. Honest(m)'
  <2>1. Honest(m)
    BY Own
  <2>2. Head(w.tools) = tool /\ w.outcome = outcome /\ w.tools # <<>>
    BY <1>3, <1>7
  <2>3. made = <<>> \/ \E t \in Mutations : made = <<t>>
    OBVIOUS
  <2>4. told'[m] = Nothing
    BY <2>1, <1>1, <1>10 DEF Honest
  <2> QED
    BY <2>2, <2>3, <2>4, <1>2, <1>11 DEF Honest
<1>14. calls' = [calls EXCEPT ![m] = calls[m]] /\ calls[m] \in Nat
  BY <1>1, <1>6
<1> HIDE DEF made
<1> QED
  BY <1>1, <1>5, <1>7, <1>8, <1>9, <1>12, <1>13, <1>14, LoopKeeps

\* What a result makes of the loop: only a change that was made is confirmed, and
\* the loop does not go on after a change.
LEMMA Verdicts ==
  ASSUME NEW tool \in Tools, NEW outcome \in Outcomes(tool)
  PROVE  /\ Verdict(tool, outcome) # "next" => Verdict(tool, outcome) \in Ends \ {"crashed"}
         /\ Verdict(tool, outcome) = "confirmed" => tool \in Mutations /\ outcome = "done"
         /\ Verdict(tool, outcome) = "next" =>
              ~(tool \in Mutations /\ outcome \in {"done", "broken"})
BY DEF Verdict, Outcomes, Tools, Mutations, Ends, Reservar, Cancelar, Reprogramar, Buscar,
       Consultar, Solicitar

LEMMA ReadResultKeeps ==
  ASSUME AssistantInv, NEW m \in Msg, ReadResult(m)
  PROVE  AssistantInv'
<1> DEFINE tool == Head(work[m].tools)
           verdict == Verdict(tool, work[m].outcome)
           rest == Tail(work[m].tools)
           step == IF rest = <<>> THEN "call" ELSE "tool"
           about == IF verdict = "confirmed" THEN tool ELSE Nothing
<1>1. /\ pc[m] = "result" /\ UNCHANGED <<from, previous, rows, change, calls>>
      /\ IF verdict = "next"
           THEN /\ work' = [work EXCEPT ![m].tools = rest, ![m].outcome = "none"]
                /\ Go(m, step)
           ELSE Answer(m, verdict, about)
  BY DEF ReadResult, Fixed, Effects
<1>2. RowsGrow
  BY <1>1, RowsStay
<1>3. /\ work[m] \in Working /\ work \in [Msg -> Working] /\ calls \in [Msg -> Nat]
      /\ change \in [Msg -> Seq(Mutations)]
  BY Own
<1>4. /\ work[m].tools \in Seq(Tools) /\ work[m].tools # <<>>
      /\ work[m].outcome \in Outcomes(tool)
      /\ IF tool \in Mutations /\ work[m].outcome \in {"done", "broken"}
           THEN change[m] = <<tool>> ELSE change[m] = <<>>
  BY <1>1, Own DEF Honest
<1>5. tool \in Tools /\ rest \in Seq(Tools)
  BY <1>4
<1>6. /\ verdict # "next" => verdict \in Ends \ {"crashed"}
      /\ verdict = "confirmed" => tool \in Mutations
      /\ verdict = "next" => ~(tool \in Mutations /\ work[m].outcome \in {"done", "broken"})
  BY <1>4, <1>5, Verdicts
<1>7. CASE verdict # "next"
  <2>1. about \in Mutations \cup {Nothing}
    BY <1>6
  <2>2. Answer(m, verdict, about)
    BY <1>1, <1>7
  <2> HIDE DEF verdict, about
  <2> QED
    BY <1>1, <1>2, <1>6, <1>7, <2>1, <2>2, QuietAnswerKeeps
<1>8. CASE verdict = "next"
  <2> DEFINE w == [work[m] EXCEPT !.tools = rest, !.outcome = "none"]
  <2>1. /\ work' = [work EXCEPT ![m].tools = rest, ![m].outcome = "none"] /\ Go(m, step)
        /\ change[m] = <<>>
    BY <1>1, <1>4, <1>6, <1>8
  <2>2. work' = [work EXCEPT ![m] = w]
    BY <2>1, <1>3 DEF Working
  <2>3. /\ w \in Working /\ w.session = work[m].session /\ w.token = work[m].token
        /\ w.iteration = work[m].iteration /\ w.attempt = work[m].attempt
        /\ w.tools = rest /\ w.outcome = "none"
    <3> DEFINE outcomes == {"none"} \cup UNION {Outcomes(t) : t \in Tools}
    <3>1. Working = [session : Conversation \cup {Nothing}, token : Msg \cup {Nothing},
                     tools : Seq(Tools), text : Texts,
                     says : Mutations \cup {Nothing}, iteration : 0 .. MaxIterations + 2,
                     attempt : 1 .. MaxAttempts, outcome : outcomes]
      BY DEF Working
    <3>2. "none" \in outcomes
      OBVIOUS
    <3> HIDE DEF outcomes, rest
    <3> QED
      BY <3>1, <3>2, <1>3, <1>5
  <2> HIDE DEF w
  <2>4. /\ pc' = [pc EXCEPT ![m] = step] /\ pc \in [Msg -> Steps] /\ told' = told
    BY <2>1 DEF Go, AssistantInv, TypeOK, Steps
  <2>5. /\ pc'[m] = step /\ work'[m] = w /\ calls'[m] = calls[m] /\ change'[m] = <<>>
    BY <1>1, <1>3, <2>1, <2>2, <2>4
  <2>6. Budget(m)'
    <3>1. Budget(m)
      BY Own
    <3> QED
      BY <3>1, <1>1, <2>3, <2>5 DEF Budget
  <2>7. Honest(m)'
    <3>1. told'[m] = Nothing
      BY <1>1, <2>4, Own DEF Honest
    <3>2. step = "tool" => w.tools # <<>>
      BY <2>3
    <3> HIDE DEF rest
    <3> QED
      BY <3>1, <3>2, <2>5 DEF Honest
  <2>8. /\ calls' = [calls EXCEPT ![m] = calls[m]] /\ calls[m] \in Nat
        /\ change' = [change EXCEPT ![m] = change[m]] /\ change[m] \in Seq(Mutations)
    BY <1>1, <1>3
  <2> HIDE DEF rest
  <2> QED
    BY <1>1, <1>2, <2>1, <2>2, <2>3, <2>6, <2>7, <2>8, LoopKeeps
<1> QED
  BY <1>7, <1>8

-----------------------------------------------------------------------------
(* Failures, the panel, and the invariant.                                 *)

LEMMA FaultKeeps ==
  ASSUME AssistantInv, NEW m \in Msg, Fault(m)
  PROVE  AssistantInv'
<1>1. UNCHANGED <<from, previous, rows, change, calls>>
  BY DEF Fault, Effects
<1>2. RowsGrow
  BY <1>1, RowsStay
<1>3. \/ /\ pc[m] \in {"session", "insert", "store", "track", "intent", "call", "result"}
         /\ Answer(m, "error", Nothing)
      \/ pc[m] \in {"text", "escalate"} /\ Answer(m, "no_text", Nothing)
  BY DEF Fault, Formatted
<1>4. {"error", "no_text"} \subseteq Ends \ {"crashed"}
  BY DEF Ends
<1> QED
  BY <1>1, <1>2, <1>3, <1>4, QuietAnswerKeeps

LEMMA CrashKeeps ==
  ASSUME AssistantInv, NEW m \in Msg, Crash(m)
  PROVE  AssistantInv'
<1> DEFINE w == [Idle EXCEPT !.session = work[m].session]
<1>1. /\ pc[m] \notin {"idle", "done"} /\ pc' = [pc EXCEPT ![m] = "done"]
      /\ answer' = [answer EXCEPT ![m] = "crashed"] /\ work' = [work EXCEPT ![m] = w]
      /\ UNCHANGED <<from, rows, cookie, change, calls, told, previous>>
  BY DEF Crash, Forget, Effects
<1>2. /\ pc \in [Msg -> Steps] /\ work \in [Msg -> Working]
      /\ answer \in [Msg -> Ends \cup {"none"}]
      /\ Msg \subseteq Conversation /\ Nothing \notin Conversation
  BY Own DEF AssistantInv, TypeOK, Steps
<1>3. w \in Working /\ w.session = work[m].session /\ w.token = Nothing
  <2>1. work[m].session \in Conversation \cup {Nothing}
    BY Own
  <2> QED
    BY <2>1, IdleWorks
<1> HIDE DEF w
<1>4. RowsGrow
  BY <1>1, RowsStay
<1>5. About({m})
  BY <1>1, <1>2 DEF About
<1>6. /\ pc'[m] = "done" /\ answer'[m] = "crashed" /\ work'[m] = w
      /\ told' = told /\ calls' = calls /\ change' = change /\ previous' = previous
      /\ from' = from
  BY <1>1, <1>2
<1>7. /\ pc' \in [Msg -> Steps] /\ work' \in [Msg -> Working]
      /\ answer' \in [Msg -> Ends \cup {"none"}]
  BY <1>1, <1>2, <1>3 DEF Ends, Steps
<1>8. Placed(m) /\ Kept(m) /\ Budget(m) /\ Honest(m) /\ Going(m)
  BY Own
<1>9. Placed(m)'
  <2>1. from'[m] = from[m] /\ pc[m] # "idle"
    BY <1>1, <1>6
  <2> QED
    BY <2>1, <1>3, <1>6, <1>8 DEF Placed
<1>10. Kept(m)' /\ Budget(m)' /\ Honest(m)'
  BY <1>6, <1>8 DEF Kept, Budget, Honest
<1>11. Going(m)'
  <2>1. \A o \in previous[m] : o \in Msg /\ pc[o] = "done" /\ from[o] = from[m]
    BY <1>8 DEF Going
  <2>2. \A o \in previous[m] : pc'[o] = "done" /\ from'[o] = from'[m]
    BY <2>1, <1>1, <1>2, <1>6
  <2>3. from[m] \in Visitor /\ work[m].session # Nothing =>
          Follows(previous[m], work[m].session, answer, work)
    BY <1>8 DEF Going
  <2>4. from[m] \in Visitor /\ work[m].session # Nothing =>
          Follows(previous[m], work[m].session, answer', work')
    BY <2>1, <2>3, <1>5, FollowsStays
  <2> QED
    BY <2>1, <2>2, <2>4, <1>3, <1>6 DEF Going
<1>12. \A n \in Msg : Good(n)'
  <2>1. ASSUME NEW n \in Msg \ {m} PROVE Good(n)'
    BY <1>4, <1>5, OthersStay
  <2> QED
    BY <2>1, <1>9, <1>10, <1>11 DEF Good
<1>13. \A v \in Visitor : Cookie(v)'
  BY <1>1, <1>4, <1>5, <1>6, <1>7, CookiesStay
<1>14. TypeOK'
  <2>1. \A n \in Msg : pc'[n] \notin {"idle", "session", "insert", "done"} =>
                         session'[work'[n].session] # "none"
    BY <1>12 DEF Good, Placed
  <2> QED
    BY <2>1, <1>1, <1>4, <1>7 DEF TypeOK, RowsGrow, AssistantInv, Steps
<1>15. Domains'
  BY <1>4, <1>6 DEF Domains, RowsGrow, AssistantInv
<1> QED
  BY <1>12, <1>13, <1>14, <1>15 DEF AssistantInv

\* A step of the panel is about no message.
LEMMA PanelKeeps ==
  ASSUME AssistantInv, RowsGrow,
         UNCHANGED <<from, cookie, pc, work, change, calls, answer, told, previous>>
  PROVE  AssistantInv'
<1>1. About({})
  BY DEF About
<1>2. \A n \in Msg : Good(n)'
  BY <1>1, OthersStay
<1>3. pc' \in [Msg -> Steps]
  BY DEF AssistantInv, TypeOK, Steps
<1>4. \A v \in Visitor : Cookie(v)'
  BY <1>1, <1>3, CookiesStay
<1>5. TypeOK'
  <2>1. \A n \in Msg : pc'[n] \notin {"idle", "session", "insert", "done"} =>
                         session'[work'[n].session] # "none"
    BY <1>2 DEF Good, Placed
  <2> QED
    BY <2>1 DEF TypeOK, RowsGrow, AssistantInv
<1>6. Domains'
  BY DEF Domains, RowsGrow, AssistantInv
<1> QED
  BY <1>2, <1>4, <1>5, <1>6 DEF AssistantInv

\* The panel sets one of the statuses (admin.py:1287 refuses others), and the flag
\* follows it.
LEMMA DecideKeeps ==
  ASSUME AssistantInv, NEW s \in Watched, Resolve(s) \/ SetStatus(s)
  PROVE  AssistantInv'
<1>1. /\ UNCHANGED <<from, cookie, pc, work, change, calls, answer, told, previous>>
      /\ UNCHANGED <<log, counted>>
  BY DEF Resolve, SetStatus, Effects
<1>2. PICK status \in Statuses :
        /\ session' = [session EXCEPT ![s] = status]
        /\ flag' = [flag EXCEPT ![s] = (status = "needs_human")]
  <2>1. CASE Resolve(s)
    <3>1. flag' = [flag EXCEPT ![s] = ("human_resolved" = "needs_human")]
      BY <2>1 DEF Resolve
    <3> QED
      BY <3>1, <2>1 DEF Resolve, Statuses
  <2>2. CASE SetStatus(s)
    BY <2>2, AssistantAssumption DEF SetStatus
  <2> QED
    BY <2>1, <2>2
<1>3. RowsGrow
  <2>1. /\ session \in [Conversation -> Statuses \cup {"none"}]
        /\ flag \in [Conversation -> BOOLEAN] /\ s \in Conversation
        /\ \A c \in Conversation : flag[c] = (session[c] = "needs_human")
        /\ log \in [Conversation -> SUBSET (Msg \X {"user", "assistant"})]
        /\ counted \in [Phone \cup Visitor -> Nat]
    BY AssistantAssumption DEF AssistantInv, TypeOK, Domains
  <2>2. \A c \in Conversation : flag'[c] = (session'[c] = "needs_human")
    BY <1>2, <2>1
  <2>3. \A c \in Conversation : session[c] # "none" => session'[c] # "none"
    BY <1>2, <2>1 DEF Statuses
  <2>4. session' \in [Conversation -> Statuses \cup {"none"}]
    BY <1>2, <2>1
  <2>5. flag' \in [Conversation -> BOOLEAN]
    BY <1>2, <2>1
  <2> QED
    BY <1>1, <2>1, <2>2, <2>3, <2>4, <2>5 DEF RowsGrow
<1> QED
  BY <1>1, <1>3, PanelKeeps

LEMMA InitHolds == Init => AssistantInv
<1> SUFFICES ASSUME Init PROVE AssistantInv
  OBVIOUS
<1>1. /\ from \in [Msg -> Phone \cup Visitor \cup {Nothing}]
      /\ MaxIterations \in Nat /\ MaxAttempts \in Nat \ {0}
  BY AssistantAssumption DEF Init
<1>2. Idle \in Working
  BY IdleWorks
<1>3. \A m \in Msg : /\ pc[m] = "idle" /\ work[m] = Idle /\ calls[m] = 0 /\ change[m] = <<>>
                     /\ answer[m] = "none" /\ told[m] = Nothing /\ previous[m] = {}
  BY DEF Init
<1>4. /\ Idle.session = Nothing /\ Idle.token = Nothing
      /\ Idle.iteration = 0 /\ Idle.attempt = 1
  BY DEF Idle
<1>5. TypeOK
  BY <1>2 DEF Init, TypeOK, Statuses, Ends
<1>6. Domains
  BY <1>1 DEF Init, Domains
<1>7. ASSUME NEW m \in Msg PROVE Good(m)
  <2>1. Placed(m) /\ Kept(m) /\ Honest(m)
    BY <1>3, <1>4 DEF Placed, Kept, Honest
  <2>2. Budget(m)
    <3>1. MaxAttempts * 0 = 0 /\ CallLimit \in Nat
      BY <1>1, Iterations
    <3> QED
      BY <3>1, <1>1, <1>3, <1>4 DEF Budget
  <2>3. Going(m)
    BY <1>3, <1>4 DEF Going
  <2> QED
    BY <2>1, <2>2, <2>3 DEF Good
<1>8. \A v \in Visitor : Cookie(v)
  BY <1>3 DEF Init, Cookie, Follows, Seen
<1> QED
  BY <1>5, <1>6, <1>7, <1>8 DEF AssistantInv

\* Every step of the assistant, of the panel or of nobody keeps the invariant.
LEMMA NextKeeps == AssistantInv /\ [Next]_vars => AssistantInv'
<1> SUFFICES ASSUME AssistantInv, [Next]_vars PROVE AssistantInv'
  OBVIOUS
<1>1. ASSUME NEW m \in Msg, Send(m) PROVE AssistantInv'
  BY <1>1, SendKeeps
<1>2. ASSUME NEW m \in Msg, Prelude(m) PROVE AssistantInv'
  BY <1>2, FindSessionKeeps, InsertSessionKeeps, StoreKeeps, TrackKeeps, IntentKeeps
     DEF Prelude
<1>3. ASSUME NEW m \in Msg, Loop(m) PROVE AssistantInv'
  BY <1>3, RespondKeeps, CallFailsKeeps, TextKeeps, EscalateKeeps, RunToolKeeps,
     ReadResultKeeps DEF Loop
<1>4. ASSUME NEW m \in Msg, Fault(m) \/ Crash(m) PROVE AssistantInv'
  BY <1>4, FaultKeeps, CrashKeeps
<1>5. ASSUME Panel PROVE AssistantInv'
  BY <1>5, DecideKeeps DEF Panel
<1>6. ASSUME UNCHANGED vars PROVE AssistantInv'
  <2>1. UNCHANGED <<from, cookie, pc, work, change, calls, answer, told, previous, rows>>
    BY <1>6 DEF vars
  <2> QED
    BY <2>1, RowsStay, PanelKeeps
<1> QED
  BY <1>1, <1>2, <1>3, <1>4, <1>5, <1>6 DEF Next

\* Every reachable state of the assistant is as it should be.
THEOREM AssistantSafe == Spec => []AssistantInv
<1>1. AssistantInv /\ [Next]_vars => AssistantInv'
  BY NextKeeps
<1> QED
  BY <1>1, InitHolds, PTL DEF Spec

-----------------------------------------------------------------------------
(* What the invariant says of the calls, the conversations and the cookies. *)

\* However the language model answers and fails, a message makes no more than
\* MaxAttempts calls in each of the iterations and in the one that is cut off.
THEOREM CallsStayBounded == Spec => []CallsBounded
<1>1. AssistantInv => CallsBounded
  BY DEF AssistantInv, Good, Budget, CallsBounded
<1> QED
  BY <1>1, AssistantSafe, PTL

\* Every variable of the assistant stays in its domain, a message is worked on in
\* a conversation that exists, and flags agree with statuses.
THEOREM AssistantTyped == Spec => []TypeOK
<1>1. AssistantInv => TypeOK
  BY DEF AssistantInv
<1> QED
  BY <1>1, AssistantSafe, PTL

\* The messages of a phone are kept in one conversation, whichever of its requests
\* created it.
THEOREM PhonesKeepOne == Spec => []OneConversationPerPhone
<1>1. AssistantInv => OneConversationPerPhone
  <2> SUFFICES ASSUME AssistantInv, NEW m \in Msg, from[m] \in Phone
               PROVE  /\ work[m].session \in {Nothing, from[m]}
                      /\ answer[m] \notin {"none", "error", "crashed"} =>
                           <<m, "user">> \in log[from[m]]
    BY DEF OneConversationPerPhone
  <2> QED
    BY Own DEF Placed, Kept
<1> QED
  BY <1>1, AssistantSafe, PTL

\* A visitor's message sent after another was answered goes on in the conversation
\* of an answered one, unless one of those answers was an error.
THEOREM VisitorsContinue == Spec => []VisitorsGoOn
<1>1. AssistantInv => VisitorsGoOn
  <2> SUFFICES ASSUME AssistantInv, NEW m \in Msg,
                      from[m] \in Visitor, work[m].session # Nothing
               PROVE  LET heard == {n \in previous[m] : answer[n] # "crashed"} IN
                      \/ heard = {} \/ \E n \in heard : answer[n] = "error"
                      \/ \E n \in heard : work[n].session = work[m].session
    BY DEF VisitorsGoOn
  <2>1. Follows(previous[m], work[m].session, answer, work)
    BY Own DEF Going
  <2> QED
    BY <2>1 DEF Follows, Seen
<1> QED
  BY <1>1, AssistantSafe, PTL

-----------------------------------------------------------------------------
(* The refinement of Reception.                                            *)

\* The state of the reception, read off the state of the assistant.
Thread == [m \in Msg |-> work[m].session]
Made == [m \in Msg |-> IF change[m] = <<>> THEN Nothing
                       ELSE IF Len(change[m]) = 1 THEN change[m][1] ELSE change[m]]
Answered == [m \in Msg |-> pc[m] = "done"]

\* The reception does not see a step that answers nothing, changes nothing and
\* leaves every message in its conversation.
LEMMA StepUnseen ==
  ASSUME told' = told, change' = change,
         \A m \in Msg : /\ work'[m].session = work[m].session
                        /\ (pc'[m] = "done") = (pc[m] = "done")
  PROVE  UNCHANGED R!vars
<1>1. Thread' = Thread /\ Made' = Made /\ Answered' = Answered
  BY DEF Thread, Made, Answered
<1> QED
  BY <1>1 DEF R!vars, Thread, Made, Answered

\* A message joins its conversation.
LEMMA JoinTakes ==
  ASSUME AssistantInv, NEW m \in Msg, pc[m] \in {"session", "insert"},
         UNCHANGED <<change, told>>, NEW s \in Conversation,
         work' = [work EXCEPT ![m].session = s], Go(m, "store")
  PROVE  R!Next
<1>1. /\ work[m].session = Nothing /\ work \in [Msg -> Working] /\ pc \in [Msg -> Steps]
  BY Own DEF Placed, AssistantInv, TypeOK, Steps
<1>2. pc' = [pc EXCEPT ![m] = "store"]
  BY DEF Go
<1>3. Thread' = [Thread EXCEPT ![m] = s]
  BY <1>1 DEF Thread, Working
<1>4. Made' = Made
  BY DEF Made
<1>5. Answered' = Answered
  BY <1>1, <1>2 DEF Answered
<1>6. Thread[m] = Nothing /\ ~Answered[m]
  BY <1>1 DEF Thread, Answered
<1> QED
  BY <1>3, <1>4, <1>5, <1>6 DEF R!Next, R!Take, Thread, Made, Answered

\* A message is answered and tells of nothing, of its change, or of hearsay.
LEMMA AnswerTells ==
  ASSUME AssistantInv, NEW m \in Msg, pc[m] # "done", change' = change,
         pc' = [pc EXCEPT ![m] = "done"], work' = Forget(m),
         NEW about \in Mutations \cup {Hearsay, Nothing},
         about \in {Hearsay, Nothing} \/ change[m] = <<about>>,
         told' = [told EXCEPT ![m] = about]
  PROVE  R!Next
<1>1. /\ work \in [Msg -> Working] /\ pc \in [Msg -> Steps]
      /\ told \in [Msg -> Mutations \cup {Hearsay, Nothing}] /\ told[m] = Nothing
  BY Own DEF Honest, AssistantInv, TypeOK, Steps
<1>2. Thread' = Thread
  <2>1. ASSUME NEW n \in Msg PROVE work'[n].session = work[n].session
    <3>1. CASE n = m
      <4>1. work'[m] = [Idle EXCEPT !.session = work[m].session]
        BY <1>1 DEF Forget
      <4>2. work[m].session \in Conversation \cup {Nothing}
        BY Own
      <4> QED
        BY <3>1, <4>1, <4>2, IdleWorks
    <3>2. CASE n # m
      BY <3>2, <1>1 DEF Forget
    <3> QED
      BY <3>1, <3>2
  <2> QED
    BY <2>1 DEF Thread
<1>3. Made' = Made
  BY DEF Made
<1>4. Answered' = [Answered EXCEPT ![m] = TRUE] /\ ~Answered[m]
  BY <1>1 DEF Answered
<1>5. \/ UNCHANGED told
      \/ Made[m] # Nothing /\ told' = [told EXCEPT ![m] = Made[m]]
      \/ told' = [told EXCEPT ![m] = Hearsay]
  <2>1. CASE about = Nothing
    BY <2>1, <1>1
  <2>2. CASE change[m] = <<about>>
    <3>1. Made[m] = about
      <4>1. <<about>> # <<>> /\ Len(<<about>>) = 1 /\ <<about>>[1] = about
        OBVIOUS
      <4> QED
        BY <4>1, <2>2 DEF Made
    <3> QED
      BY <2>1, <3>1
  <2> QED
    BY <2>1, <2>2
<1> QED
  BY <1>2, <1>3, <1>4, <1>5 DEF R!Next, R!Tell, Thread, Made, Answered

\* A tool changes an appointment once the message has a conversation and nothing
\* else was changed.
LEMMA ToolMakes ==
  ASSUME AssistantInv, NEW m \in Msg, RunTool(m)
  PROVE  R!Next \/ UNCHANGED R!vars
<1> DEFINE tool == Head(work[m].tools)
<1>1. /\ pc[m] = "tool" /\ pc' = [pc EXCEPT ![m] = "result"] /\ told' = told
  BY DEF RunTool, Go
<1>2. PICK outcome \in Outcomes(tool) :
        /\ work' = [work EXCEPT ![m].outcome = outcome]
        /\ change' = IF tool \in Mutations /\ outcome \in {"done", "broken"}
                       THEN [change EXCEPT ![m] = Append(@, tool)] ELSE change
  BY DEF RunTool
<1>3. /\ work \in [Msg -> Working] /\ pc \in [Msg -> Steps] /\ change \in [Msg -> Seq(Mutations)]
      /\ change[m] = <<>> /\ work[m].session # Nothing
  BY <1>1, Own DEF Placed, Honest, AssistantInv, TypeOK, Steps
<1>4. \A n \in Msg : /\ work'[n].session = work[n].session
                     /\ (pc'[n] = "done") = (pc[n] = "done")
  BY <1>1, <1>2, <1>3 DEF Working
<1>5. CASE tool \in Mutations /\ outcome \in {"done", "broken"}
  <2>1. Append(<<>>, tool) = <<tool>>
    BY <1>5
  <2>2. change' = [change EXCEPT ![m] = <<tool>>]
    BY <1>2, <1>3, <1>5, <2>1
  <2>3. Made' = [Made EXCEPT ![m] = tool]
    <3> HIDE DEF tool
    <3>1. <<tool>> # <<>> /\ Len(<<tool>>) = 1 /\ <<tool>>[1] = tool
      OBVIOUS
    <3>2. \A n \in Msg : change'[n] = IF n = m THEN <<tool>> ELSE change[n]
      BY <2>2, <1>3
    <3>3. \A n \in Msg : Made'[n] = IF n = m THEN tool ELSE Made[n]
      BY <3>1, <3>2 DEF Made
    <3> QED
      BY <3>3 DEF Made
  <2>4. Thread' = Thread /\ Answered' = Answered
    BY <1>4 DEF Thread, Answered
  <2>5. Thread[m] # Nothing /\ Made[m] = Nothing /\ ~Answered[m]
    BY <1>1, <1>3 DEF Thread, Made, Answered
  <2> HIDE DEF tool
  <2> QED
    BY <1>1, <1>5, <2>3, <2>4, <2>5 DEF R!Next, R!Make, Thread, Made, Answered
<1>6. CASE ~(tool \in Mutations /\ outcome \in {"done", "broken"})
  BY <1>1, <1>2, <1>4, <1>6, StepUnseen
<1> QED
  BY <1>5, <1>6

\* Every step of the assistant is a step of the reception, or one it does not see.
LEMMA StepImplements ==
  AssistantInv /\ [Next]_vars => [R!Next]_R!vars
<1> SUFFICES ASSUME AssistantInv, [Next]_vars PROVE R!Next \/ UNCHANGED R!vars
  OBVIOUS
<1> DEFINE Silent == /\ told' = told /\ change' = change
                     /\ \A n \in Msg : /\ work'[n].session = work[n].session
                                       /\ (pc'[n] = "done") = (pc[n] = "done")
<1>0. /\ work \in [Msg -> Working] /\ pc \in [Msg -> Steps]
      /\ told \in [Msg -> Mutations \cup {Hearsay, Nothing}]
  BY DEF AssistantInv, TypeOK, Steps
<1>1. ASSUME NEW m \in Msg, pc[m] # "done", NEW step \in Steps \ {"done"}, To(m, step),
             change' = change
      PROVE  UNCHANGED R!vars
  <2>1. Silent
    BY <1>0, <1>1 DEF To, Go, Steps
  <2> QED
    BY <2>1, StepUnseen
<1>2. ASSUME NEW m \in Msg, pc[m] # "done", NEW end, NEW about \in {Hearsay, Nothing},
             Answer(m, end, about), change' = change
      PROVE  R!Next
  BY <1>2, AnswerTells DEF Answer
<1>3. ASSUME NEW m \in Msg, Send(m) PROVE R!Next \/ UNCHANGED R!vars
  <2>1. /\ pc[m] = "idle" /\ Go(m, "session") /\ change' = change
        /\ \E t : work' = [work EXCEPT ![m].token = t]
    BY <1>3 DEF Send, Effects
  <2>2. Silent
    BY <1>0, <2>1 DEF Go, Working
  <2> QED
    BY <2>2, StepUnseen
<1>4. ASSUME NEW m \in Msg, Prelude(m) PROVE R!Next \/ UNCHANGED R!vars
  <2>1. CASE FindSession(m)
    <3> DEFINE s == Sought(m)
    <3>1. pc[m] = "session" /\ change' = change
      BY <2>1 DEF FindSession, Effects
    <3>2. CASE s # Nothing /\ session[s] # "none"
      <4>1. /\ s \in Conversation /\ told' = told
            /\ work' = [work EXCEPT ![m].session = s] /\ Go(m, "store")
        BY <2>1, <3>2, Own DEF FindSession, Sought, Go
      <4> HIDE DEF s
      <4> QED
        BY <3>1, <4>1, JoinTakes
    <3>3. CASE ~(s # Nothing /\ session[s] # "none")
      <4>1. To(m, "insert") /\ "insert" \in Steps \ {"done"}
        BY <2>1, <3>3 DEF FindSession, Steps
      <4> QED
        BY <1>1, <3>1, <4>1
    <3> QED
      BY <3>2, <3>3
  <2>2. CASE InsertSession(m)
    <3> DEFINE s == IF from[m] \in Visitor THEN m
                    ELSE IF session[from[m]] # "none" THEN Winner(m) ELSE from[m]
    <3>1. /\ pc[m] = "insert" /\ change' = change /\ told' = told
          /\ work' = [work EXCEPT ![m].session = s] /\ Go(m, "store")
      BY <2>2 DEF InsertSession, Effects, Go
    <3>2. s \in Conversation
      <4>1. from[m] \in Phone \cup Visitor
        BY <3>1, Own DEF Placed
      <4> QED
        BY <4>1, Own DEF Winner
    <3> HIDE DEF s
    <3> QED
      BY <3>1, <3>2, JoinTakes
  <2>3. CASE Store(m) \/ Track(m) \/ Intent(m)
    <3>1. PICK step \in {"track", "intent", "call"} : To(m, step)
      BY <2>3 DEF Store, Track, Intent
    <3>2. pc[m] # "done" /\ change' = change /\ step \in Steps \ {"done"}
      BY <2>3 DEF Store, Track, Intent, Effects, Steps
    <3> QED
      BY <1>1, <3>1, <3>2
  <2> QED
    BY <1>4, <2>1, <2>2, <2>3 DEF Prelude
<1>5. ASSUME NEW m \in Msg, Loop(m) PROVE R!Next \/ UNCHANGED R!vars
  <2>1. CASE Respond(m)
    <3> DEFINE n == IF work[m].iteration > MaxIterations + 1 THEN work[m].iteration
                                                             ELSE work[m].iteration + 1
    <3>1. pc[m] = "call" /\ change' = change
      BY <2>1 DEF Respond
    <3>2. PICK r \in Responses(m, from[m]) :
            IF AtLimit(n)
              THEN Answer(m, "limit", Nothing)
              ELSE IF r.text = "malformed" THEN Answer(m, "error", Nothing)
              ELSE /\ work' = [work EXCEPT ![m].iteration = n, ![m].attempt = 1,
                                           ![m].tools = r.tools, ![m].text = r.text,
                                           ![m].says = r.says]
                   /\ Go(m, IF r.tools = <<>> THEN "text" ELSE "tool")
      BY <2>1 DEF Respond
    <3> HIDE DEF n
    <3>3. CASE AtLimit(n) \/ r.text = "malformed"
      BY <1>2, <3>1, <3>2, <3>3
    <3>4. CASE ~AtLimit(n) /\ r.text # "malformed"
      <4> DEFINE step == IF r.tools = <<>> THEN "text" ELSE "tool"
      <4>1. /\ pc' = [pc EXCEPT ![m] = step] /\ step # "done" /\ told' = told
        BY <3>2, <3>4 DEF Go
      <4>2. \A o \in Msg : work'[o].session = work[o].session
        <5>1. work' = [work EXCEPT ![m].iteration = n, ![m].attempt = 1,
                                   ![m].tools = r.tools, ![m].text = r.text,
                                   ![m].says = r.says]
          BY <3>2, <3>4
        <5> QED
          BY <5>1, <1>0 DEF Working
      <4> HIDE DEF step
      <4>3. Silent
        BY <1>0, <3>1, <4>1, <4>2
      <4> QED
        BY <4>3, StepUnseen
    <3> QED
      BY <3>3, <3>4
  <2>2. CASE CallFails(m)
    <3>1. /\ pc[m] = "call" /\ change' = change
          /\ \/ Answer(m, "ai_error", Nothing)
             \/ work' = [work EXCEPT ![m].attempt = @ + 1] /\ Go(m, "call")
      BY <2>2 DEF CallFails
    <3>2. CASE Answer(m, "ai_error", Nothing)
      BY <1>2, <3>1, <3>2
    <3>3. CASE work' = [work EXCEPT ![m].attempt = @ + 1] /\ Go(m, "call")
      <4>1. Silent
        BY <1>0, <3>1, <3>3 DEF Go, Working
      <4> QED
        BY <4>1, StepUnseen
    <3> QED
      BY <3>1, <3>2, <3>3
  <2>3. CASE Text(m)
    <3>1. /\ pc[m] = "text" /\ change' = change
          /\ \/ To(m, "escalate") \/ Answer(m, "no_text", Nothing) \/ Answer(m, "safe", Nothing)
             \/ work[m].text # "known" /\ Answer(m, "text", Heard(m))
      BY <2>3 DEF Text, Effects, Safe
    <3>2. "escalate" \in Steps \ {"done"}
      BY DEF Steps
    <3>3. work[m].text # "known" => Heard(m) \in {Hearsay, Nothing}
      BY DEF Heard
    <3> QED
      BY <1>1, <1>2, <3>1, <3>2, <3>3
  <2>4. CASE Escalate(m)
    <3>1. pc[m] = "escalate" /\ change' = change /\ Answer(m, "text", Heard(m))
      BY <2>4 DEF Escalate, Effects
    <3>2. Heard(m) \in {Hearsay, Nothing}
      BY <3>1, Own DEF Heard, Honest
    <3> QED
      BY <1>2, <3>1, <3>2
  <2>5. CASE RunTool(m)
    BY <2>5, ToolMakes
  <2>6. CASE ReadResult(m)
    <3> DEFINE tool == Head(work[m].tools)
               verdict == Verdict(tool, work[m].outcome)
               about == IF verdict = "confirmed" THEN tool ELSE Nothing
    <3>1. pc[m] = "result" /\ change' = change
      BY <2>6 DEF ReadResult, Effects
    <3>2. CASE verdict = "next"
      <4>1. /\ \E rest : work' = [work EXCEPT ![m].tools = rest, ![m].outcome = "none"]
            /\ \E step \in {"call", "tool"} : Go(m, step)
        BY <2>6, <3>2 DEF ReadResult
      <4>2. Silent
        BY <1>0, <3>1, <4>1 DEF Go, Working
      <4> QED
        BY <4>2, StepUnseen
    <3>3. CASE verdict # "next"
      <4>1. Answer(m, verdict, about)
        BY <2>6, <3>3 DEF ReadResult
      <4>2. /\ work[m].tools \in Seq(Tools) /\ work[m].tools # <<>>
            /\ work[m].outcome \in Outcomes(tool)
            /\ IF tool \in Mutations /\ work[m].outcome \in {"done", "broken"}
                 THEN change[m] = <<tool>> ELSE change[m] = <<>>
        BY <3>1, Own DEF Honest
      <4>3. tool \in Tools
        BY <4>2
      <4>4. verdict = "confirmed" => tool \in Mutations /\ work[m].outcome = "done"
        BY <4>2, <4>3, Verdicts
      <4>5. about \in Mutations \cup {Nothing} /\ (about = Nothing \/ change[m] = <<about>>)
        BY <4>2, <4>4
      <4> HIDE DEF about, verdict
      <4> QED
        BY <3>1, <4>1, <4>5, AnswerTells DEF Answer
    <3> QED
      BY <3>2, <3>3
  <2> QED
    BY <1>5, <2>1, <2>2, <2>3, <2>4, <2>5, <2>6 DEF Loop
<1>6. ASSUME NEW m \in Msg, Fault(m) PROVE R!Next \/ UNCHANGED R!vars
  <2>1. /\ pc[m] # "done" /\ change' = change
        /\ \E end \in {"error", "no_text"} : Answer(m, end, Nothing)
    BY <1>6 DEF Fault, Formatted, Effects
  <2> QED
    BY <1>2, <2>1
<1>7. ASSUME NEW m \in Msg, Crash(m) PROVE R!Next \/ UNCHANGED R!vars
  <2>1. /\ pc[m] # "done" /\ change' = change /\ told' = told
        /\ pc' = [pc EXCEPT ![m] = "done"] /\ work' = Forget(m) /\ told[m] = Nothing
    BY <1>7, Own DEF Crash, Effects, Honest
  <2>2. told' = [told EXCEPT ![m] = Nothing]
    BY <1>0, <2>1
  <2> QED
    BY <2>1, <2>2, AnswerTells
<1>8. ASSUME Panel \/ UNCHANGED vars PROVE UNCHANGED R!vars
  <2>1. Silent
    BY <1>8 DEF Panel, Resolve, SetStatus, Effects, vars
  <2> QED
    BY <2>1, StepUnseen
<1> QED
  BY <1>3, <1>4, <1>5, <1>6, <1>7, <1>8 DEF Next

\* The requests keep the promises of Reception: a message joins one conversation,
\* makes one change at most, is answered once and is confirmed only what it made;
\* what the language model says in its own words is passed on unchecked.
THEOREM AssistantImplementsReception == Spec => ImplementsReception
<1>1. Init => R!Init
  <2> SUFFICES ASSUME Init PROVE R!Init
    OBVIOUS
  <2>1. \A m \in Msg : work[m] = Idle /\ change[m] = <<>> /\ pc[m] = "idle"
    BY DEF Init
  <2>2. Idle.session = Nothing
    BY DEF Idle
  <2> QED
    BY <2>1, <2>2 DEF Init, R!Init
<1>2. AssistantInv /\ [Next]_vars => [R!Next]_R!vars
  BY StepImplements
<1> QED
  BY <1>1, <1>2, AssistantSafe, PTL DEF Spec, R!Spec, ImplementsReception

================================================================================

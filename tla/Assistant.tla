------------------------------- MODULE Assistant -------------------------------
(***************************************************************************)
(* The booking assistant (services/ai.py), the conversations it keeps      *)
(* (services/conversations.py), the chat route and the panel's page of     *)
(* conversations, for one business.                                        *)
(*                                                                         *)
(* Every message is a request of its own and may overlap others of the     *)
(* same client; every statement on a conversation is a transaction.  The   *)
(* language model is external and may answer anything: a text, or calls of *)
(* tools, existing or not.  What the tools do to appointments is module    *)
(* Booking's; here a call of a tool has the outcomes its executor can      *)
(* return.                                                                 *)
(***************************************************************************)
EXTENDS Integers, Sequences

CONSTANTS
  Msg,            \* messages
  Phone,          \* clients who give their phone
  Visitor,        \* anonymous visitors: browsers
  Senders,        \* who may send each message: functions to clients or Nothing
  Wants,          \* messages that ask to speak to a person
  Responses(_, _),\* what the language model may answer to a message of a client
  Decisions,      \* the statuses the panel may set by hand,
  Watched,        \* in these conversations
  MaxIterations,  \* MAX_TOOL_ITERATIONS
  MaxAttempts,    \* MAX_RETRIES
  Nothing

VARIABLES
  from,        \* who sends each message
  session,     \* status of each conversation
  flag,        \* its needs_human column
  log,         \* its messages, with their role
  counted,     \* times each client's question was counted
  cookie,      \* conversation in the signed cookie of each visitor
  pc,          \* next step of each message
  work,        \* what its request holds
  change,      \* changes of appointments the message made
  calls,       \* calls of the language model it made
  answer,      \* its answer
  told,        \* the change the answer tells of, or Hearsay
  previous     \* messages of the visitor answered when it was sent

rows == <<session, flag, log, counted>>
vars == <<from, rows, cookie, pc, work, change, calls, answer, told, previous>>

-----------------------------------------------------------------------------

\* A phone has one conversation; a visitor's is named after its first message.
Conversation == Phone \cup Msg
Statuses == {"active", "needs_human", "human_resolved", "closed"}
Mutations == {"reservar_turno", "cancelar_turno", "reprogramar_turno"}

\* The tools it may name, and a name that is none of them.
Tools == Mutations \cup {"buscar_turnos_cliente", "consultar_disponibilidad",
                         "consultar_recursos", "solicitar_atencion_humana", "unknown"}

\* Texts: an answer, one with a pattern of _detect_needs_human, one with a wording
\* of _MUTATION_CONFIRMATION_PATTERNS, none at all, or a response without parts.
\* Whatever its wording, a text may assert a change.
Texts == {"plain", "unsure", "known", "empty", "malformed"}

\* A change asserted in words that the code does not know.
Hearsay == "hearsay"

\* A client is known by a phone or by a cookie; the language model answers with
\* a text or with calls of tools by name.
ASSUME AssistantAssumption ==
  /\ Phone \cap Visitor = {}
  /\ Nothing \notin Phone \cup Visitor \cup Msg \cup Mutations \cup {Hearsay}
  /\ Senders \subseteq [Msg -> Phone \cup Visitor \cup {Nothing}]
  /\ \A m \in Msg, c \in Phone \cup Visitor :
       Responses(m, c) \subseteq [tools : Seq(Tools), text : Texts, says : Mutations \cup {Nothing}]
  /\ Decisions \subseteq Statuses /\ Watched \subseteq Conversation
  /\ MaxIterations \in Nat /\ MaxAttempts \in Nat \ {0}

\* The executors of the tools.  A booking may be made and the error that
\* follows it reported.
Reservar == {"done", "failed", "broken"}
Cancelar == {"done", "failed", "no_token"}
Reprogramar == {"done", "failed", "no_token"}
Buscar == {"found", "empty", "failed"}
Consultar == {"found", "failed"}
Solicitar == {"registered", "failed"}

Outcomes(tool) ==
  CASE tool = "reservar_turno" -> Reservar
    [] tool = "cancelar_turno" -> Cancelar
    [] tool = "reprogramar_turno" -> Reprogramar
    [] tool = "buscar_turnos_cliente" -> Buscar
    [] tool \in {"consultar_disponibilidad", "consultar_recursos"} -> Consultar
    [] tool = "solicitar_atencion_humana" -> Solicitar
    [] OTHER -> {"none"}

\* How ask_ai ends when a tool has this outcome; "next": it goes on.
Verdict(tool, outcome) ==
  CASE outcome = "none" -> "error"
    [] outcome = "empty" -> "nothing_found"
    [] tool \in Mutations /\ outcome = "done" -> "confirmed"
    [] tool \in Mutations /\ outcome \in {"failed", "broken"} -> "failed"
    [] OTHER -> "next"

\* _classify_gemini_error: what a failed call may be, and which are worth another.
Errors == {"timeout", "server", "quota", "auth", "invalid_argument", "unknown"}
Transient(error) == error \in {"timeout", "server", "quota"}

\* Mutants: the limit one too late, or never reached, the text believed, the
\* loser's own session, the cookie kept only by texts.
LateLimit(n) == n > MaxIterations + 1
NoLimit(n) == FALSE
Believed(text) == TRUE
OwnSession(m) == m
CookieOfTexts(m, s, end) == IF end = "text" THEN s ELSE cookie[from[m]]

CallLimit == MaxAttempts * (1 + MaxIterations)
AtLimit(n) == n > MaxIterations
\* _safe_text_response: a change is confirmed by its tool, which answers at
\* once, so no text may have the wording of a confirmation; others are let through.
Safe(text) == text # "known"
\* The session that a losing INSERT ends with: the winner's, read again.
Winner(m) == from[m]
\* The cookie that an answer leaves, having the session s.
CookieOf(m, s, end) ==
  IF end # "error" THEN s
  ELSE IF work[m].token = Nothing THEN Nothing ELSE cookie[from[m]]

-----------------------------------------------------------------------------

Idle == [session |-> Nothing, token |-> Nothing, tools |-> <<>>, text |-> "empty",
         says |-> Nothing, iteration |-> 0, attempt |-> 1, outcome |-> "none"]

\* Of what a request held, its conversation is all that the properties recall.
Forget(m) == [work EXCEPT ![m] = [Idle EXCEPT !.session = work[m].session]]

\* The answer reaches the client, and with it a visitor's cookie.
Answer(m, end, about) ==
  /\ pc' = [pc EXCEPT ![m] = "done"]
  /\ answer' = [answer EXCEPT ![m] = end]
  /\ told' = [told EXCEPT ![m] = about]
  /\ work' = Forget(m)
  /\ cookie' = IF from[m] \in Visitor
                 THEN [cookie EXCEPT ![from[m]] = CookieOf(m, work[m].session, end)]
                 ELSE cookie

Go(m, step) == pc' = [pc EXCEPT ![m] = step] /\ UNCHANGED <<answer, told, cookie>>
To(m, step) == Go(m, step) /\ UNCHANGED work

Fixed == UNCHANGED <<from, previous>>
Effects == <<change, calls>>

HandOffStatus(s) ==
  /\ session' = [session EXCEPT ![s] = "needs_human"]
  /\ UNCHANGED flag

Insert(s) ==
  /\ session' = [session EXCEPT ![s] = "active"]
  /\ flag' = [flag EXCEPT ![s] = FALSE]

\* request_human_handoff_scoped: not after a person has resolved it.
HandOff(s) ==
  IF session[s] = "human_resolved"
    THEN UNCHANGED <<session, flag>>
    ELSE /\ session' = [session EXCEPT ![s] = "needs_human"]
         /\ flag' = [flag EXCEPT ![s] = TRUE]

\* The request carries the visitor's cookie.
Send(m) ==
  /\ pc[m] = "idle" /\ from[m] # Nothing
  /\ Go(m, "session")
  /\ work' = [work EXCEPT ![m].token = IF from[m] \in Visitor THEN cookie[from[m]] ELSE Nothing]
  /\ previous' = [previous EXCEPT ![m] = {n \in Msg : pc[n] = "done" /\ from[n] = from[m]}]
  /\ UNCHANGED <<from, rows, Effects>>

\* The conversation is looked for by phone or by token,
Sought(m) == IF from[m] \in Phone THEN from[m] ELSE work[m].token
FindSession(m) ==
  LET s == Sought(m) IN
  /\ pc[m] = "session" /\ Fixed
  /\ IF s # Nothing /\ session[s] # "none"
       THEN work' = [work EXCEPT ![m].session = s] /\ Go(m, "store")
       ELSE To(m, "insert")
  /\ UNCHANGED <<rows, Effects>>

\* and created, unless another request of the phone has created it meanwhile.
InsertSession(m) ==
  LET s == IF from[m] \in Visitor THEN m
           ELSE IF session[from[m]] # "none" THEN Winner(m)
           ELSE from[m] IN
  /\ pc[m] = "insert" /\ Fixed
  /\ IF session[s] = "none" THEN Insert(s) ELSE UNCHANGED <<session, flag>>
  /\ work' = [work EXCEPT ![m].session = s]
  /\ Go(m, "store")
  /\ UNCHANGED <<log, counted, Effects>>

Store(m) ==
  /\ pc[m] = "store" /\ Fixed
  /\ log' = [log EXCEPT ![work[m].session] = @ \cup {<<m, "user">>}]
  /\ To(m, "track")
  /\ UNCHANGED <<session, flag, counted, Effects>>

\* track_question_scoped; no caller ever reports that a question needed a person.
Track(m) ==
  /\ pc[m] = "track" /\ Fixed
  /\ counted' = [counted EXCEPT ![from[m]] = @ + 1]
  /\ To(m, IF m \in Wants THEN "intent" ELSE "call")
  /\ UNCHANGED <<session, flag, log, Effects>>

\* The client's own words may ask for a person; the prompt then says that the
\* request is registered.
Intent(m) ==
  /\ pc[m] = "intent" /\ Fixed
  /\ HandOff(work[m].session)
  /\ To(m, "call")
  /\ UNCHANGED <<log, counted, Effects>>

-----------------------------------------------------------------------------
(* The language model.                                                     *)

Count(m) == calls' = [calls EXCEPT ![m] = IF @ > CallLimit THEN @ ELSE @ + 1]

\* A call succeeds and the loop goes on with its response, within its limit:
\* the response after the last iteration is thrown away.  Without parts to look
\* through, the loop raises and the route answers with an error.
Respond(m) ==
  /\ pc[m] = "call" /\ Fixed /\ Count(m)
  /\ \E r \in Responses(m, from[m]) :
       LET n == IF work[m].iteration > MaxIterations + 1 THEN work[m].iteration
                                                         ELSE work[m].iteration + 1 IN
       IF AtLimit(n)
         THEN Answer(m, "limit", Nothing)
         ELSE IF r.text = "malformed" THEN Answer(m, "error", Nothing)
         ELSE /\ work' = [work EXCEPT ![m].iteration = n, ![m].attempt = 1,
                                      ![m].tools = r.tools, ![m].text = r.text,
                                      ![m].says = r.says]
              /\ Go(m, IF r.tools = <<>> THEN "text" ELSE "tool")
  /\ UNCHANGED <<rows, change>>

\* A transient error is tried again, another is not.
CallFails(m) == \E error \in Errors :
  /\ pc[m] = "call" /\ Fixed /\ Count(m)
  /\ IF Transient(error) /\ work[m].attempt < MaxAttempts
       THEN work' = [work EXCEPT ![m].attempt = @ + 1] /\ Go(m, "call")
       ELSE Answer(m, "ai_error", Nothing)
  /\ UNCHANGED <<rows, change>>

\* What a text tells: nobody compares it with what was done.
Heard(m) == IF work[m].says = Nothing THEN Nothing
            ELSE IF work[m].text = "known" THEN work[m].says ELSE Hearsay

\* A text is stored as the assistant's and answered; an empty one is not.
Text(m) ==
  LET text == work[m].text IN
  /\ pc[m] = "text" /\ Fixed
  /\ IF text = "empty"
       THEN Answer(m, "no_text", Nothing) /\ UNCHANGED log
       ELSE /\ log' = [log EXCEPT ![work[m].session] = @ \cup {<<m, "assistant">>}]
            /\ IF text = "unsure" THEN To(m, "escalate")
               ELSE IF Safe(text) THEN Answer(m, "text", Heard(m))
               ELSE Answer(m, "safe", Nothing)
  /\ UNCHANGED <<session, flag, counted, Effects>>

\* An answer that does not know calls for a person.
Escalate(m) ==
  /\ pc[m] = "escalate" /\ Fixed
  /\ HandOff(work[m].session)
  /\ Answer(m, "text", Heard(m))
  /\ UNCHANGED <<log, counted, Effects>>

\* execute_tool runs the next tool of the response, with its own transactions,
RunTool(m) ==
  LET tool == Head(work[m].tools) IN
  /\ pc[m] = "tool" /\ Fixed
  /\ \E outcome \in Outcomes(tool) :
       /\ work' = [work EXCEPT ![m].outcome = outcome]
       /\ change' = IF tool \in Mutations /\ outcome \in {"done", "broken"}
                      THEN [change EXCEPT ![m] = Append(@, tool)] ELSE change
       /\ IF outcome = "registered"
            THEN HandOff(work[m].session)
            ELSE UNCHANGED <<session, flag>>
  /\ Go(m, "result")
  /\ UNCHANGED <<log, counted, calls>>

\* and ask_ai reads its result: it answers, runs the next tool or gives the
\* results back to the language model.
ReadResult(m) ==
  LET tool == Head(work[m].tools)
      verdict == Verdict(tool, work[m].outcome)
      rest == Tail(work[m].tools) IN
  /\ pc[m] = "result" /\ Fixed
  /\ IF verdict = "next"
       THEN /\ work' = [work EXCEPT ![m].tools = rest, ![m].outcome = "none"]
            /\ Go(m, IF rest = <<>> THEN "call" ELSE "tool")
       ELSE Answer(m, verdict, IF verdict = "confirmed" THEN tool ELSE Nothing)
  /\ UNCHANGED <<rows, Effects>>

-----------------------------------------------------------------------------
(* The panel, and failures.                                                *)

Resolve(s) ==
  /\ session[s] # "none"
  /\ session' = [session EXCEPT ![s] = "human_resolved"]
  /\ flag' = [flag EXCEPT ![s] = FALSE]
  /\ UNCHANGED <<from, log, counted, cookie, pc, work, Effects, answer, told, previous>>

SetStatus(s) ==
  /\ session[s] # "none"
  /\ \E status \in Decisions :
       /\ session' = [session EXCEPT ![s] = status]
       /\ flag' = [flag EXCEPT ![s] = (status = "needs_human")]
  /\ UNCHANGED <<from, log, counted, cookie, pc, work, Effects, answer, told, previous>>

\* The confirmations that read the name of the business, outside of any try.
Formatted(m) ==
  /\ pc[m] = "result" /\ Verdict(Head(work[m].tools), work[m].outcome) = "confirmed"
  /\ Head(work[m].tools) \in {"reservar_turno", "reprogramar_turno"}

\* A statement on the conversation fails, or that of a confirmation: the route
\* answers with an error, or ask_ai that it has no text.
Fault(m) ==
  /\ \/ /\ \/ pc[m] \in {"session", "insert", "store", "track", "intent"}
           \/ pc[m] = "call" /\ calls[m] = 0
           \/ Formatted(m)
        /\ Answer(m, "error", Nothing)
     \/ /\ pc[m] \in {"text", "escalate"} /\ work[m].text # "empty"
        /\ Answer(m, "no_text", Nothing)
  /\ UNCHANGED <<from, rows, Effects, previous>>

\* The worker dies and nothing reaches the client.
Crash(m) ==
  /\ pc[m] \notin {"idle", "done"}
  /\ pc' = [pc EXCEPT ![m] = "done"]
  /\ answer' = [answer EXCEPT ![m] = "crashed"]
  /\ work' = Forget(m)
  /\ UNCHANGED <<from, rows, cookie, Effects, told, previous>>

Init ==
  /\ from \in Senders
  /\ session = [s \in Conversation |-> "none"]
  /\ flag = [s \in Conversation |-> FALSE]
  /\ log = [s \in Conversation |-> {}]
  /\ counted = [c \in Phone \cup Visitor |-> 0]
  /\ cookie = [v \in Visitor |-> Nothing]
  /\ pc = [m \in Msg |-> "idle"]
  /\ work = [m \in Msg |-> Idle]
  /\ change = [m \in Msg |-> <<>>]
  /\ calls = [m \in Msg |-> 0]
  /\ answer = [m \in Msg |-> "none"]
  /\ told = [m \in Msg |-> Nothing]
  /\ previous = [m \in Msg |-> {}]

Prelude(m) == FindSession(m) \/ InsertSession(m) \/ Store(m) \/ Track(m) \/ Intent(m)
Loop(m) == \/ Respond(m) \/ CallFails(m) \/ Text(m) \/ Escalate(m)
           \/ RunTool(m) \/ ReadResult(m)
Panel == \E s \in Watched : Resolve(s) \/ SetStatus(s)

Next ==
  \/ \E m \in Msg : Send(m) \/ Prelude(m) \/ Loop(m) \/ Fault(m) \/ Crash(m)
  \/ Panel

\* A worker runs, and every call of the language model has a timeout.
Fairness == \A m \in Msg : WF_vars(Prelude(m) \/ Loop(m))

Spec == Init /\ [][Next]_vars /\ Fairness

-----------------------------------------------------------------------------
(* Properties.                                                             *)

Ends == {"text", "safe", "no_text", "ai_error", "limit", "confirmed", "failed",
         "nothing_found", "error", "crashed"}
Working == [session : Conversation \cup {Nothing}, token : Msg \cup {Nothing},
            tools : Seq(Tools), text : Texts, says : Mutations \cup {Nothing},
            iteration : 0 .. MaxIterations + 2,
            attempt : 1 .. MaxAttempts,
            outcome : {"none"} \cup UNION {Outcomes(tool) : tool \in Tools}]

\* Every variable stays in its domain; a message is worked on in a conversation
\* that exists, and the flag of a conversation agrees with its status.
TypeOK ==
  /\ session \in [Conversation -> Statuses \cup {"none"}]
  /\ \A s \in Conversation : flag[s] = (session[s] = "needs_human")
  /\ log \in [Conversation -> SUBSET (Msg \X {"user", "assistant"})]
  /\ counted \in [Phone \cup Visitor -> Nat]
  /\ cookie \in [Visitor -> Msg \cup {Nothing}]
  /\ pc \in [Msg -> {"idle", "session", "insert", "store", "track", "intent", "call",
                     "text", "escalate", "tool", "result", "done"}]
  /\ work \in [Msg -> Working]
  /\ answer \in [Msg -> Ends \cup {"none"}]
  /\ told \in [Msg -> Mutations \cup {Hearsay, Nothing}]
  /\ previous \in [Msg -> SUBSET Msg]
  /\ \A m \in Msg : pc[m] \notin {"idle", "session", "insert", "done"} =>
                      session[work[m].session] # "none"

\* However the model answers and fails, a message costs a bounded number of calls.
CallsBounded == \A m \in Msg : calls[m] <= CallLimit

\* The messages of a phone are kept in one conversation, also when two of them
\* are the first and create it at once.
OneConversationPerPhone ==
  \A m \in Msg : from[m] \in Phone =>
    /\ work[m].session \in {Nothing, from[m]}
    /\ answer[m] \notin {"none", "error", "crashed"} => <<m, "user">> \in log[from[m]]

\* A visitor's message sent after another was answered goes on in the
\* conversation of an answered one, unless an answer was an error: the error of a
\* request without a cookie leaves none.
VisitorsGoOn ==
  \A m \in Msg : from[m] \in Visitor /\ work[m].session # Nothing =>
    LET heard == {n \in previous[m] : answer[n] # "crashed"} IN
    \/ heard = {} \/ \E n \in heard : answer[n] = "error"
    \/ \E n \in heard : work[n].session = work[m].session

\* Every message sent is answered, or its worker dies: in the end no request is
\* under way, whatever the model answered and however often it failed.
EveryMessageAnswered == <>[](\A m \in Msg : pc[m] \in {"idle", "done"})

\* The requests keep the promises of Reception: one change for a message at
\* most, confirmed only if made, by its tool or in a wording that the code knows;
\* what the language model says in its own words is passed on unchecked.
R == INSTANCE Reception WITH
       Message <- Msg, Change <- Mutations,
       thread <- [m \in Msg |-> work[m].session],
       change <- [m \in Msg |-> IF change[m] = <<>> THEN Nothing
                                ELSE IF Len(change[m]) = 1 THEN change[m][1] ELSE change[m]],
       answered <- [m \in Msg |-> pc[m] = "done"]
ImplementsReception == R!Spec
================================================================================

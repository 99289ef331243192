------------------------------ MODULE MCAssistant ------------------------------
EXTENDS Assistant
CONSTANTS m1, m2, m3, p, v

\* Two messages of a client with a phone, or three of a visitor.
AllSenders == {[m \in Msg |-> IF m = m3 THEN Nothing ELSE p], [m \in Msg |-> v]}

Say(text, says) == [tools |-> <<>>, text |-> text, says |-> says]
Use(tools) == [tools |-> tools, text |-> "empty", says |-> Nothing]
AllResponses(m, client) ==
  IF client = v THEN {Say("plain", Nothing), Use(<<"unknown">>)}
  ELSE IF m = m2 THEN {Say("unsure", Nothing), Use(<<"solicitar_atencion_humana">>)}
  ELSE {Say("known", "cancelar_turno"), Say("plain", "cancelar_turno"),
        Say("empty", Nothing), Say("malformed", Nothing),
        Use(<<"consultar_disponibilidad", "cancelar_turno", "reservar_turno">>),
        Use(<<"buscar_turnos_cliente", "reprogramar_turno">>)}
================================================================================

------------------------ MODULE MCResponsesWebsocket ------------------------
(* Two credentials with websockets, one of which may lose them or be        *)
(* removed, and the other may cool down.                                   *)
EXTENDS ResponsesWebsocket

Credential(known, attribute, metadata, state, cooling) ==
  [known |-> known, attribute |-> attribute, metadata |-> metadata, disabled |-> FALSE,
   states |-> [m \in {"gpt", "mini"} |-> IF m = "gpt" THEN state ELSE "absent"],
   cooling |-> cooling, models |-> {"gpt", "mini"}]

TheSituations ==
  [c \in {"a", "b"} |->
     CASE c = "a" -> {Credential(TRUE, "true", "absent", "absent", FALSE),
                      Credential(TRUE, "false", "true", "fine", TRUE),
                      Credential(FALSE, "true", "absent", "absent", FALSE)}
       [] c = "b" -> {Credential(TRUE, "odd", "true", "fine", TRUE),
                      Credential(TRUE, "odd", "true", "cooling", TRUE)}]

Message(type, model, instructions, input, generate) ==
  [type |-> type, model |-> model, instructions |-> instructions, input |-> input, generate |-> generate]

TheShapes ==
  {Message("response.create", "gpt", "be brief", input, generate) :
     input \in {"absent", "text", "items"}, generate \in BOOLEAN}
  \cup {Message("response.append", model, "", "items", TRUE) : model \in {"", "mini"}}
  \cup {Message("response.create", "", "", "items", TRUE), Message("other", "", "", "items", TRUE)}

=============================================================================

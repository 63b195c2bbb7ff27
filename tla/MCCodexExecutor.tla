--------------------------- MODULE MCCodexExecutor ---------------------------
(* The requests, in three families: how much to reason, at every endpoint; *)
(* tools with names that are too long or alike; and the format of the      *)
(* Responses API at the chat endpoint.                                     *)
EXTENDS CodexExecutor

NumberValues == [t \in {"0", "512", "1024", "1025", "9000", "32768", "90000"} |->
  CASE t = "0" -> 0 [] t = "512" -> 512 [] t = "1024" -> 1024 [] t = "1025" -> 1025
    [] t = "9000" -> 9000 [] t = "32768" -> 32768 [] t = "90000" -> 90000]

Models == (<<"gpt">> :> LevelOnly(<<"minimal", "low", "medium", "high">>))
  @@ (<<"codex">> :> LevelOnly(<<"low", "medium", "high", "xhigh">>))
  @@ (<<"zero">> :> LevelOnly(<<"none", "low", "medium", "high">>))
  @@ (<<"budget">> :> Info(FALSE, TRUE, <<>>, 1024, 32768, FALSE, TRUE))
  @@ (<<"own">> :> UserDefined)
  @@ (<<"plain">> :> Plain)

Newest == <<"gpt">>
TheLimits == {[status |-> 429, limit |-> TRUE, resetsAt |-> 5, resetsIn |-> 1, header |-> 0],
              [status |-> 429, limit |-> TRUE, resetsAt |-> 1, resetsIn |-> 2, header |-> 4],
              [status |-> 503, limit |-> FALSE, resetsAt |-> 0, resetsIn |-> 0, header |-> 4]}

\* No part, one that is told in two pieces, and two.
Replies == {<<>>, <<<<"a", "b">>>>, <<<<"a">>, <<"c">>>>}
CallArguments == {<<"a", "b">>}
Ids == <<"c1", "c2", "c3">>
TheNumerals == <<"_1", "_2">>

NoChoice == [kind |-> "absent", name |-> <<>>]
User(text) == Chat("user", <<Part("text", text)>>, <<>>, "")
Function(name) == [type |-> "function", name |-> name]
Builtin(type) == [type |-> type, name |-> <<>>]

ChatBody(model, stream, effort, messages, tools, choice) ==
  [model |-> model, stream |-> stream, effort |-> effort, messages |-> messages, tools |-> tools,
   choice |-> choice, format |-> "", verbosity |-> ""]

ResponsesBody(model, stream, effort, instructions, input, tools, choice) ==
  [model |-> model, instructions |-> instructions, stream |-> stream,
   effort |-> [openai |-> "", codex |-> effort], input |-> input, prompt |-> "", tools |-> tools,
   choice |-> choice, format |-> "", verbosity |-> "", parallel |-> FALSE, store |-> TRUE,
   fields |-> {"temperature"}, key |-> "k"]

Request(endpoint, format, body) == [endpoint |-> endpoint, client |-> "me", format |-> format, body |-> body]

Words == {"", "none", "auto", "-1", "minimal", "high", "xhigh", "odd"} \union DOMAIN NumberValues
Named(base, word) == IF word = "" THEN base ELSE base \o <<"(", word, ")">>

Efforts ==
  LET Asking(endpoint, model, effort) ==
        IF endpoint = "chat"
          THEN Request("chat", "chat", ChatBody(model, FALSE, effort, <<User("hi")>>, <<>>, NoChoice))
          ELSE Request(endpoint, "responses", ResponsesBody(model, FALSE, effort, "", <<>>, <<>>, NoChoice))
  IN  {Asking(endpoint, Named(base, word), effort) :
         endpoint \in {"chat", "responses", "compact"}, word \in Words,
         base \in DOMAIN Models \union {<<"auto">>, <<"none">>}, effort \in {"", "none", "low", "xhigh", "auto", "512"}}

\* Names that fit, that do not, and that do not and begin alike.
ToolName == {<<"x">>, <<"x", "y">>, <<"x", "y", "1">>, <<"x", "y", "2">>, <<"mcp", "s", "y">>, <<"mcp", "t", "y">>}

Names ==
  {Request("chat", "chat",
     ChatBody(<<"gpt">>, stream, "",
       <<User("hi"),
         Chat("assistant", <<>>, <<[id |-> "c0", name |-> m, arguments |-> <<"{}">>]>>, ""),
         Chat("tool", <<Part("text", "ok")>>, <<>>, "c0")>>,
       <<Function(n), Builtin("web_search"), Function(m)>>,
       [kind |-> "function", name |-> m])) :
     stream \in BOOLEAN, n \in ToolName, m \in ToolName}

Prompts == {Request("completions", "prompt", [model |-> <<"gpt">>, stream |-> stream, prompt |-> "hi"]) :
              stream \in BOOLEAN}

\* What may stand in the input, in any order of three.
Turns == {Message("system", <<Part("input_text", "s")>>), Message("user", <<Part("input_text", "u"), Part("input_image", "i")>>),
          Message("assistant", <<Part("output_text", "a")>>), [type |-> "reasoning"],
          Call("c0", <<"x", "y", "1">>, <<"{}">>), Output("c0", "ok")}

Transcripts ==
  {Request("chat", "responses",
     ResponsesBody(<<"gpt">>, TRUE, "low", instructions, <<a, b, c>>, <<Function(<<"x", "y", "1">>), Builtin("web_search_preview")>>, NoChoice)) :
     instructions \in {"", "be brief"}, a \in Turns, b \in Turns, c \in Turns}

\* A compaction that should be a stream is refused.
Compactions == {Request("compact", "responses", ResponsesBody(<<"gpt">>, stream, "", "", <<>>, <<>>, NoChoice)) : stream \in BOOLEAN}

AllRequests == Efforts \union Compactions \union Names \union Prompts \union Transcripts

\* How Codex answers is of interest for the prompts and for names that are told apart: with
\* one item, to who streams with two, and to a chat that streams with three of three types.
Cut == <<<<"x", "y", "1">>, <<"x", "y", "2">>>>
Alike == {Cut, <<<<"x", "y">>, <<"x", "y", "1">>>>, <<<<"mcp", "s", "y">>, <<"mcp", "t", "y">>>>}
Begun == upstream.items \o (IF upstream.open = NoItem THEN <<>> ELSE <<upstream.open>>)
Answered == upstream.begun =>
  /\ \/ request.endpoint = "completions"
     \/ request \in Names /\ ToolNames(request.body.tools) \in Alike
  /\ Len(Begun) > 1 => request.body.stream
  /\ Len(Begun) = 3 =>
       /\ request.endpoint = "chat" /\ ToolNames(request.body.tools) = Cut
       /\ {Begun[i].type : i \in 1..3} = Types


=============================================================================

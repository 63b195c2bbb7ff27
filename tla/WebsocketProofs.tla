--------------------------- MODULE WebsocketProofs ---------------------------
(***************************************************************************)
(* Proofs about the two websocket endpoints, which share nothing: the      *)
(* conversations of ResponsesWebsocket, for any credentials, messages and  *)
(* bounds, and the relay's sessions of WsRelay, for any number of sessions *)
(* and requests and any size of the channels.                              *)
(***************************************************************************)
EXTENDS ResponsesWebsocket, WsRelay, SequenceTheorems, TLAPS

(* Conversations: what one passes on is the whole conversation, an         *)
(* increment reaches its response, every message is answered once.         *)

Item == {"said", "told"} \X Nat
Owner == Credentials \cup {NoCredential}

Models == {""} \cup {s.model : s \in Shapes}
Instructions == {""} \cup {s.instructions : s \in Shapes}
Replies == {"completed", "error", "cut short"}
Transports == {"none", "websocket", "http"}

TurnRequests == [model : Models, instructions : Instructions, prev : Int, form : {"array", "text"}, items : Seq(Item)]
Conversations == [pc : {"reading", "picking", "picked", "calling", "streaming", "ended", "closed"},
                  last : TurnRequests, output : Seq(Item), pinned : Owner, messages : Nat]
Turns == [request : TurnRequests, pin : Owner, auth : Owner, route : Transports, over : Transports,
          tried : SUBSET Credentials, rounds : Nat, retries : Nat, data : {"nil", "open", "closed"},
          sent : BOOLEAN, completed : BOOLEAN, output : Seq(Item), failed : BOOLEAN]
Clients == [gone : BOOLEAN, model : Models, instructions : Instructions, recent : Seq(Item),
            answers : Seq(Replies)]

Response == [auth : Owner, over : {"websocket", "http", "none", "here"}]

TypeInv ==
  /\ conv \in Conversations /\ turn \in Turns /\ client \in Clients
  /\ responses \in Seq(Response)

InTurn == conv.pc \in {"picking", "picked", "calling", "streaming", "ended"}

\* The account of the client and the two values the loop carries from turn to
\* turn agree at every step; a turn works on the request the loop remembers.
Account ==
  /\ conv.last.model = client.model /\ conv.last.instructions = client.instructions
  /\ conv.last.model = "" => conv.last = NoRequest
  /\ conv.last = NoRequest => conv.output = <<>>
  /\ conv.pc = "reading" => client.recent = conv.last.items \o conv.output
  /\ InTurn => /\ turn.request = conv.last
               /\ conv.last.model # ""
               /\ client.recent = turn.request.items \o turn.output
               /\ ~turn.completed => turn.output = <<>>

IInv == TypeInv /\ Account

LEMMA Nothing == <<>> \in Seq(Item) /\ <<>> \in Seq(Replies) /\ <<>> \o <<>> = <<>>
  BY EmptySeq, ConcatEmptySeq

LEMMA AppendNothing == ASSUME NEW s \in Seq(Item) PROVE s \o <<>> = s /\ <<>> \o s = s
  BY ConcatEmptySeq

LEMMA RepliesGrow ==
  ASSUME client \in Clients, NEW answer \in Replies
  PROVE  Append(client.answers, answer) \in Seq(Replies)
  <1>1. client.answers \in Seq(Replies)
    BY DEF Clients
  <1> HIDE DEF Replies
  <1> QED
    BY <1>1, AppendProperties

LEMMA RequestTyped ==
  ASSUME NEW model \in Models, NEW instructions \in Instructions, NEW prev \in Int,
         NEW form \in {"array", "text"}, NEW items \in Seq(Item)
  PROVE  [model |-> model, instructions |-> instructions, prev |-> prev, form |-> form, items |-> items]
           \in TurnRequests
  BY DEF TurnRequests

LEMMA NoRequestTyped == NoRequest \in TurnRequests
  <1>1. <<>> \in Seq(Item) /\ "" \in Models /\ "" \in Instructions /\ 0 \in Int /\ "array" \in {"array", "text"}
    BY Nothing DEF Models, Instructions
  <1> QED
    BY ONLY <1>1, RequestTyped, Zenon DEF NoRequest

LEMMA NoTurnTyped == NoTurn \in Turns
  <1>1. <<>> \in Seq(Item) /\ NoRequest \in TurnRequests /\ NoCredential \in Owner /\ {} \in SUBSET Credentials
    BY Nothing, NoRequestTyped DEF Owner
  <1> HIDE DEF TurnRequests, Owner, NoRequest, NoCredential
  <1> QED
    BY <1>1 DEF NoTurn, Turns, Transports

LEMMA NoTurnFields == NoTurn.output = <<>> /\ NoRequest.items = <<>> /\ NoRequest.model = "" /\ NoRequest.instructions = ""
  BY DEF NoTurn, NoRequest

LEMMA InitAccount == Init => IInv
  <1> SUFFICES ASSUME Init PROVE IInv
    OBVIOUS
  <1>0. <<>> \in Seq(Item) /\ <<>> \in Seq(Replies) /\ NoRequest \in TurnRequests /\ NoCredential \in Owner
        /\ "" \in Models /\ "" \in Instructions
    BY Nothing, NoRequestTyped DEF Owner, Models, Instructions
  <1> HIDE DEF TurnRequests, Owner, NoRequest, NoCredential, Item, Models, Instructions
  <1>1. conv \in Conversations
    BY <1>0 DEF Init, Conversations
  <1>2. client \in Clients
    BY <1>0 DEF Init, Clients
  <1>3. TypeInv
    <2>1. responses \in Seq(Response)
      BY EmptySeq DEF Init
    <2> QED
      BY <1>1, <1>2, <2>1, NoTurnTyped DEF Init, TypeInv
  <1>4. Account
    BY Nothing, NoTurnFields DEF Init, Account, InTurn
  <1> QED
    BY <1>3, <1>4 DEF IInv

\* What a message is, as Receive makes it.
Message(m) ==
  /\ m.model \in Models /\ m.instructions \in Instructions /\ m.prev \in Int

LEMMA InputTyped ==
  ASSUME TypeInv, NEW m, Message(m)
  PROVE  Input(m) \in Seq(Item)
  <1>1. conv.messages + 1 \in Nat
    BY DEF TypeInv, Conversations
  <1>2. Said(conv.messages + 1) \in Item
    BY <1>1 DEF Said, Item
  <1>3. <<Said(conv.messages + 1)>> \in Seq(Item)
    BY <1>2
  <1> QED
    BY <1>3, Nothing DEF Input

\* A request made of m accounts for everything the client heard or said, m
\* included.
Accounts(m, request) ==
  /\ request \in TurnRequests
  /\ request.model # ""
  /\ request.model = (IF m.model # "" THEN m.model ELSE client.model)
  /\ request.instructions = (IF m.instructions # "" THEN m.instructions ELSE client.instructions)
  /\ request.items = (IF request.prev # 0 THEN Input(m) ELSE client.recent \o Input(m))

LEMMA NormalizedAccounts ==
  ASSUME IInv, conv.pc = "reading", NEW m, Message(m), NEW incremental \in BOOLEAN,
         normalizeResponsesWebsocketRequestWithMode(m, incremental).ok
  PROVE  Accounts(m, normalizeResponsesWebsocketRequestWithMode(m, incremental).request)
  <1> DEFINE request == normalizeResponsesWebsocketRequestWithMode(m, incremental).request
  <1>1. Input(m) \in Seq(Item)
    BY InputTyped DEF IInv
  <1>2. /\ conv.last \in TurnRequests /\ conv.output \in Seq(Item) /\ client.recent \in Seq(Item)
        /\ conv.last.items \in Seq(Item) /\ conv.last.model \in Models /\ conv.last.instructions \in Instructions
    BY DEF IInv, TypeInv, Conversations, TurnRequests, Clients
  <1>3. /\ conv.last.model = client.model /\ conv.last.instructions = client.instructions
        /\ conv.last.model = "" => conv.last = NoRequest
        /\ conv.last = NoRequest => conv.output = <<>>
        /\ client.recent = conv.last.items \o conv.output
    BY DEF IInv, Account
  <1> HIDE DEF Item, Models, Instructions
  <1>4. CASE m.type = "response.create" /\ conv.last = NoRequest
    <2> DEFINE form == IF m.input = "text" THEN "text" ELSE "array"
    <2> DEFINE first == [model |-> m.model, instructions |-> m.instructions, prev |-> m.prev,
                         form |-> form, items |-> Input(m)]
    <2>1. m.model # "" /\ request = first
      BY <1>4 DEF normalizeResponsesWebsocketRequestWithMode, normalizeResponseCreateRequest, Rejected, Accepted
    <2>2. first \in TurnRequests
      <3>2. m.model \in Models /\ m.instructions \in Instructions /\ m.prev \in Int
        BY DEF Message
      <3>3. form \in {"array", "text"}
        OBVIOUS
      <3> HIDE DEF form
      <3> QED
        BY ONLY <1>1, <3>2, <3>3, RequestTyped
    <2>3. client.recent \o Input(m) = Input(m)
      <3>1. client.recent = <<>> \o <<>>
        BY <1>3, <1>4, NoTurnFields
      <3>2. client.recent = <<>>
        BY <3>1, Nothing
      <3> QED
        BY <1>1, <3>2, AppendNothing
    <2>4. client.instructions = ""
      BY <1>3, <1>4, NoTurnFields
    <2> SUFFICES Accounts(m, request)
      OBVIOUS
    <2> HIDE DEF request
    <2> QED
      BY <2>1, <2>2, <2>3, <2>4 DEF Accounts
  <1>5. CASE ~(m.type = "response.create" /\ conv.last = NoRequest)
    <2> DEFINE With(prev, items) ==
          [model |-> Inherited(m.model, conv.last.model),
           instructions |-> Inherited(m.instructions, conv.last.instructions),
           prev |-> prev, form |-> "array", items |-> items]
    <2>1. normalizeResponseSubsequentRequest(m, incremental).ok
          /\ request = normalizeResponseSubsequentRequest(m, incremental).request
      BY <1>5 DEF normalizeResponsesWebsocketRequestWithMode, Rejected
    <2>2. /\ conv.last # NoRequest
          /\ \/ m.prev # 0 /\ request = With(m.prev, Input(m))
             \/ request = With(0, conv.last.items \o conv.output \o Input(m))
      BY <2>1 DEF normalizeResponseSubsequentRequest, Rejected, Accepted
    <2>3. Inherited(m.model, conv.last.model) \in Models \ {""}
      BY <1>2, <1>3, <2>2 DEF Inherited, Message
    <2>4. Inherited(m.instructions, conv.last.instructions) \in Instructions
      BY <1>2 DEF Inherited, Message
    <2>5. client.recent \o Input(m) \in Seq(Item)
      BY <1>1, <1>2, ConcatProperties
    <2> SUFFICES Accounts(m, request)
      OBVIOUS
    <2> HIDE DEF request
    <2>6. CASE m.prev # 0 /\ request = With(m.prev, Input(m))
      <3>1. request \in TurnRequests
        BY <1>1, <2>3, <2>4, <2>6 DEF TurnRequests, Message
      <3> QED
        BY <1>3, <2>3, <2>6, <3>1 DEF Inherited, Accounts
    <2>7. CASE request = With(0, conv.last.items \o conv.output \o Input(m))
      <3>1. request = With(0, client.recent \o Input(m))
        BY <1>3, <2>7
      <3>2. request \in TurnRequests
        <4>1. 0 \in Int /\ "array" \in {"array", "text"}
          OBVIOUS
        <4> HIDE DEF Inherited
        <4> QED
          BY <2>3, <2>4, <2>5, <3>1, <4>1 DEF TurnRequests
      <3> QED
        BY <1>3, <2>3, <3>1, <3>2 DEF Inherited, Accounts
    <2> QED
      BY <2>2, <2>6, <2>7
  <1> QED
    BY <1>4, <1>5


-----------------------------------------------------------------------------
(* Each action keeps the account. *)

LEMMA RejectKeeps ==
  ASSUME IInv, conv.pc = "reading", Reject
  PROVE  IInv'
  <1>1. <<"error">> \in Seq(Replies)
    BY DEF Replies
  <1>2. client' \in Clients
    BY <1>1 DEF IInv, TypeInv, Clients, Reject
  <1>3. client'.recent = client.recent /\ client'.model = client.model
        /\ client'.instructions = client.instructions
    BY DEF IInv, TypeInv, Clients, Reject
  <1>4. TypeInv'
    BY <1>2 DEF IInv, TypeInv, Reject
  <1>5. Account'
    BY <1>3 DEF IInv, Account, Reject, InTurn
  <1> QED
    BY <1>4, <1>5 DEF IInv

\* What Prewarm and Accept have in common.
LEMMA HeardTyped ==
  ASSUME IInv, conv.pc = "reading", NEW m, Message(m), NEW request, Accounts(m, request),
         NEW answers \in Seq(Replies)
  PROVE  /\ Heard(m, request, answers) \in Clients
         /\ Heard(m, request, answers).model = request.model
         /\ Heard(m, request, answers).instructions = request.instructions
         /\ Heard(m, request, answers).recent = request.items
  <1>1. Input(m) \in Seq(Item) /\ client \in Clients /\ request.items \in Seq(Item)
    BY InputTyped DEF IInv, TypeInv, Accounts, TurnRequests
  <1>2. request.model \in Models /\ request.instructions \in Instructions
    BY DEF Accounts, TurnRequests
  <1> HIDE DEF Item, Models, Instructions
  <1>3. Heard(m, request, answers)
          = [client EXCEPT !.model = request.model, !.instructions = request.instructions,
                           !.recent = request.items, !.answers = answers]
    BY <1>1 DEF Heard, Accounts, Clients
  <1> QED
    BY <1>1, <1>2, <1>3 DEF Clients

LEMMA PrewarmKeeps ==
  ASSUME IInv, conv.pc = "reading", NEW m, Message(m), NEW request, Accounts(m, request),
         Prewarm(m, request)
  PROVE  IInv'
  <1>1. <<"completed">> \in Seq(Replies)
    BY DEF Replies
  <1>2. /\ client' \in Clients /\ client'.model = request.model
        /\ client'.instructions = request.instructions /\ client'.recent = request.items
    BY <1>1, HeardTyped DEF Prewarm
  <1>3. request \in TurnRequests /\ request.model # "" /\ request.items \in Seq(Item)
    BY DEF Accounts, TurnRequests
  <1>4. conv' \in Conversations /\ conv'.pc = "reading" /\ conv'.last = request /\ conv'.output = <<>>
    <2>1. conv \in Conversations /\ <<>> \in Seq(Item)
      BY Nothing DEF IInv, TypeInv
    <2>2. conv' = [conv EXCEPT !.last = request, !.output = <<>>, !.messages = @ + 1]
      BY DEF Prewarm
    <2>3. conv.messages + 1 \in Nat
      BY <2>1 DEF Conversations
    <2> HIDE DEF Item, TurnRequests, Owner
    <2> QED
      BY <1>3, <2>1, <2>2, <2>3 DEF Conversations
  <1>5. TypeInv'
    <2>1. responses' \in Seq(Response)
      BY DEF IInv, TypeInv, Prewarm, Response, Owner
    <2> QED
      BY <1>2, <1>4, <2>1 DEF IInv, TypeInv, Prewarm
  <1>6. request.items = request.items \o <<>>
    BY <1>3, AppendNothing
  <1>7. Account'
    BY <1>2, <1>3, <1>4, <1>6 DEF Account, InTurn
  <1> QED
    BY <1>5, <1>7 DEF IInv

LEMMA AcceptKeeps ==
  ASSUME IInv, conv.pc = "reading", NEW m, Message(m), NEW request, Accounts(m, request),
         Accept(m, request)
  PROVE  IInv'
  <1>1. <<>> \in Seq(Replies)
    BY Nothing
  <1>2. /\ client' \in Clients /\ client'.model = request.model
        /\ client'.instructions = request.instructions /\ client'.recent = request.items
    BY <1>1, HeardTyped DEF Accept
  <1>3. request \in TurnRequests /\ request.model # "" /\ request.items \in Seq(Item)
    BY DEF Accounts, TurnRequests
  <1>4. conv' \in Conversations /\ conv'.pc = "picking" /\ conv'.last = request
    <2>1. conv \in Conversations
      BY DEF IInv, TypeInv
    <2>2. conv' = [conv EXCEPT !.pc = "picking", !.last = request, !.messages = @ + 1]
      BY DEF Accept
    <2>3. conv.messages + 1 \in Nat
      BY <2>1 DEF Conversations
    <2> HIDE DEF Item, TurnRequests, Owner
    <2> QED
      BY <1>3, <2>1, <2>2, <2>3 DEF Conversations
  <1>5. turn' \in Turns /\ turn'.request = request /\ turn'.output = <<>>
    <2>1. conv.pinned \in Owner
      BY DEF IInv, TypeInv, Conversations
    <2> HIDE DEF Item, TurnRequests, Owner, Transports
    <2> QED
      BY <1>3, <2>1, NoTurnTyped, NoTurnFields DEF Accept, Turns
  <1>6. TypeInv'
    BY <1>2, <1>4, <1>5 DEF IInv, TypeInv, Accept
  <1>7. request.items = request.items \o <<>> /\ request # NoRequest
    BY <1>3, AppendNothing, NoTurnFields
  <1>8. Account'
    BY <1>2, <1>3, <1>4, <1>5, <1>7 DEF Account, InTurn
  <1> QED
    BY <1>6, <1>8 DEF IInv

LEMMA ReceiveKeeps ==
  ASSUME IInv, Receive, ConversationAssumption
  PROVE  IInv'
  <1>1. conv.pc = "reading"
    BY DEF Receive
  <1>2. PICK shape \in Shapes, prev \in 0..Len(responses) :
          LET m == [type |-> shape.type, model |-> shape.model, instructions |-> shape.instructions,
                    input |-> shape.input, generate |-> shape.generate, prev |-> prev]
              incremental == allowIncremental(m)
              normalized == normalizeResponsesWebsocketRequestWithMode(m, incremental)
          IN  /\ ~normalized.ok => Reject
              /\ normalized.ok =>
                   IF shouldHandleResponsesWebsocketPrewarmLocally(m, incremental)
                     THEN Prewarm(m, normalized.request)
                     ELSE Accept(m, normalized.request)
    BY DEF Receive
  <1> DEFINE m == [type |-> shape.type, model |-> shape.model, instructions |-> shape.instructions,
                   input |-> shape.input, generate |-> shape.generate, prev |-> prev]
  <1> DEFINE incremental == allowIncremental(m)
  <1> DEFINE normalized == normalizeResponsesWebsocketRequestWithMode(m, incremental)
  <1>3. Message(m)
    <2>1. prev \in Int
      BY LenProperties DEF IInv, TypeInv
    <2>2. shape.model \in Models /\ shape.instructions \in Instructions
      BY DEF Models, Instructions
    <2> QED
      BY <2>1, <2>2 DEF Message
  <1>4. incremental \in BOOLEAN
    BY DEF allowIncremental, websocketUpstreamSupportsIncrementalInputForModel,
           websocketUpstreamSupportsIncrementalInput, Parsed
  <1>5. /\ ~normalized.ok => Reject
        /\ normalized.ok => \/ Prewarm(m, normalized.request)
                            \/ Accept(m, normalized.request)
    BY <1>2
  <1> HIDE DEF m, incremental
  <1>6. CASE ~normalized.ok
    BY <1>1, <1>5, <1>6, RejectKeeps
  <1>7. CASE normalized.ok
    <2>1. Accounts(m, normalized.request)
      BY <1>1, <1>3, <1>4, <1>7, NormalizedAccounts
    <2> HIDE DEF normalized
    <2> QED
      BY <1>1, <1>3, <1>5, <1>7, <2>1, PrewarmKeeps, AcceptKeeps
  <1> QED
    BY <1>6, <1>7

-----------------------------------------------------------------------------
(* The turn's own steps leave the account alone, but for the output. *)

LEMMA TurnStep ==
  ASSUME IInv, TypeInv', InTurn, InTurn',
         conv'.last = conv.last, conv'.output = conv.output,
         turn'.request = turn.request, turn'.output = turn.output, turn'.completed = turn.completed,
         client'.model = client.model, client'.instructions = client.instructions,
         client'.recent = client.recent
  PROVE  IInv'
  BY DEF IInv, Account, InTurn

LEMMA CloseKeeps ==
  ASSUME IInv, Close, UNCHANGED <<client, turn, responses>>
  PROVE  IInv'
  <1>1. conv \in Conversations /\ conv' = [conv EXCEPT !.pc = "closed"]
    BY DEF IInv, TypeInv, Close
  <1>2. conv' \in Conversations /\ conv'.last = conv.last /\ conv'.output = conv.output /\ conv'.pc = "closed"
    BY <1>1 DEF Conversations
  <1> QED
    BY <1>2 DEF IInv, TypeInv, Account, InTurn

LEMMA NextMessageKeeps ==
  ASSUME IInv, InTurn, NextMessage, turn' \in Turns, client' \in Clients, UNCHANGED responses,
         client'.model = client.model, client'.instructions = client.instructions,
         client'.recent = client.recent
  PROVE  IInv'
  <1>1. conv \in Conversations /\ turn.output \in Seq(Item)
        /\ conv' = [conv EXCEPT !.pc = "reading", !.output = turn.output]
    BY DEF IInv, TypeInv, NextMessage, Turns
  <1>2. conv' \in Conversations /\ conv'.last = conv.last /\ conv'.output = turn.output /\ conv'.pc = "reading"
    BY <1>1 DEF Conversations
  <1>3. conv.last # NoRequest
    BY NoTurnFields DEF IInv, Account
  <1> QED
    BY <1>2, <1>3 DEF IInv, TypeInv, Account, InTurn

LEMMA PickKeeps == ASSUME IInv, Pick PROVE IInv'
  <1>1. PICK c \in Pickable :
          turn' = [turn EXCEPT !.auth = c, !.tried = @ \cup {c},
                               !.route = IF codexWebsocketsEnabled(auths[c]) THEN "websocket" ELSE "http"]
    BY DEF Pick
  <1>2. c \in Credentials /\ turn \in Turns /\ conv \in Conversations
    BY DEF Pickable, IInv, TypeInv
  <1>3. turn' \in Turns /\ turn'.request = turn.request /\ turn'.output = turn.output
        /\ turn'.completed = turn.completed
    <2> HIDE DEF Item, TurnRequests, codexWebsocketsEnabled
    <2> QED
      BY <1>1, <1>2 DEF Turns, Transports, Owner
  <1>4. conv' \in Conversations /\ conv' = [conv EXCEPT !.pc = "picked"]
    BY <1>2 DEF Pick, Conversations
  <1>5. conv.pc = "picking" /\ UNCHANGED <<client, responses>>
        /\ conv'.pc = "picked" /\ conv'.last = conv.last /\ conv'.output = conv.output
    BY <1>2, <1>4 DEF Pick, Conversations
  <1> QED
    BY <1>3, <1>4, <1>5, TurnStep DEF InTurn, IInv, TypeInv

LEMMA PublishKeeps == ASSUME IInv, Publish PROVE IInv'
  <1>1. conv \in Conversations /\ turn.auth \in Owner /\ conv.pinned \in Owner
    BY DEF IInv, TypeInv, Conversations, Turns
  <1>2. PICK pinned \in Owner : conv' = [conv EXCEPT !.pc = "calling", !.pinned = pinned]
    BY <1>1 DEF Publish
  <1>3. conv' \in Conversations /\ conv'.pc = "calling" /\ conv'.last = conv.last /\ conv'.output = conv.output
    <2> HIDE DEF Item, TurnRequests, Owner
    <2> QED
      BY <1>1, <1>2 DEF Conversations
  <1>4. conv.pc = "picked" /\ UNCHANGED <<turn, client, responses>>
    BY DEF Publish
  <1> QED
    BY <1>3, <1>4, TurnStep DEF InTurn, IInv, TypeInv

\* What the endings and restarts of a turn have in common: the loop moves to
\* another point of the turn, and of the turn only the bookkeeping changes.
LEMMA BookkeepingKeeps ==
  ASSUME IInv, InTurn, NEW pc \in {"picking", "calling", "streaming", "ended"},
         conv' = [conv EXCEPT !.pc = pc], UNCHANGED <<client, responses>>,
         turn' \in Turns, turn'.request = turn.request, turn'.output = turn.output,
         turn'.completed = turn.completed
  PROVE  IInv'
  <1>1. conv' \in Conversations /\ conv'.pc = pc /\ conv'.last = conv.last /\ conv'.output = conv.output
    <2>1. conv \in Conversations
      BY DEF IInv, TypeInv
    <2> HIDE DEF Item, TurnRequests, Owner
    <2> QED
      BY <2>1 DEF Conversations
  <1> QED
    BY <1>1, TurnStep DEF InTurn, IInv, TypeInv

LEMMA FailTurnKeeps ==
  ASSUME IInv, InTurn, FailTurn, UNCHANGED <<client, responses>>
  PROVE  IInv'
  <1> DEFINE data == IF turn.data = "open" THEN "closed" ELSE turn.data
  <1>1. turn' = [turn EXCEPT !.failed = TRUE, !.data = data] /\ turn \in Turns
    BY DEF FailTurn, IInv, TypeInv
  <1>2. turn' \in Turns /\ turn'.request = turn.request /\ turn'.output = turn.output
        /\ turn'.completed = turn.completed
    <2> HIDE DEF Item, TurnRequests, Owner, Transports
    <2> QED
      BY <1>1 DEF Turns
  <1> QED
    BY <1>2, BookkeepingKeeps DEF FailTurn

LEMMA PickFailsKeeps == ASSUME IInv, PickFails, ConversationAssumption PROVE IInv'
  <1>1. InTurn /\ UNCHANGED <<client, responses>> /\ turn \in Turns /\ conv \in Conversations
    BY DEF PickFails, InTurn, IInv, TypeInv
  <1>2. CASE FailTurn
    BY <1>1, <1>2, FailTurnKeeps
  <1>3. CASE turn' = [turn EXCEPT !.tried = {}, !.rounds = @ + 1] /\ UNCHANGED conv
    <2>1. turn' \in Turns /\ turn'.request = turn.request /\ turn'.output = turn.output
          /\ turn'.completed = turn.completed
      <3>1. turn.rounds + 1 \in Nat /\ {} \in SUBSET Credentials
        BY <1>1 DEF Turns
      <3> HIDE DEF Item, TurnRequests, Owner, Transports
      <3> QED
        BY <1>1, <1>3, <3>1 DEF Turns
    <2> QED
      BY <1>1, <1>3, <2>1, TurnStep DEF InTurn, IInv, TypeInv
  <1> QED
    BY <1>2, <1>3 DEF PickFails

LEMMA CallFailsKeeps == ASSUME IInv, CallFails PROVE IInv'
  <1>1. InTurn /\ UNCHANGED <<client, responses>> /\ turn \in Turns
    BY DEF CallFails, InTurn, IInv, TypeInv
  <1>2. CASE FailTurn
    BY <1>1, <1>2, FailTurnKeeps
  <1>3. CASE conv' = [conv EXCEPT !.pc = "picking"] /\ UNCHANGED turn
    BY <1>1, <1>3, BookkeepingKeeps
  <1> QED
    BY <1>2, <1>3 DEF CallFails

LEMMA StreamOpensKeeps == ASSUME IInv, StreamOpens PROVE IInv'
  <1>1. InTurn /\ UNCHANGED <<client, responses>> /\ turn \in Turns /\ turn.route \in Transports
    BY DEF StreamOpens, InTurn, IInv, TypeInv, Turns
  <1>2. PICK over \in {turn.route, "http"} : turn' = [turn EXCEPT !.over = over, !.data = "open"]
    BY DEF StreamOpens
  <1>3. over \in Transports
    BY <1>1 DEF Transports
  <1>4. turn' \in Turns /\ turn'.request = turn.request /\ turn'.output = turn.output
        /\ turn'.completed = turn.completed
    <2> HIDE DEF Item, TurnRequests, Owner, Transports
    <2> QED
      BY <1>1, <1>2, <1>3 DEF Turns
  <1> QED
    BY <1>1, <1>4, BookkeepingKeeps DEF StreamOpens

LEMMA StreamEndsKeeps == ASSUME IInv, StreamEnds PROVE IInv'
  <1>1. InTurn /\ UNCHANGED <<client, responses>> /\ turn \in Turns
    BY DEF StreamEnds, InTurn, IInv, TypeInv
  <1>2. PICK failed, eligible \in BOOLEAN :
          IF failed /\ eligible /\ ~turn.sent /\ turn.retries < BootstrapRetries
            THEN /\ turn' = [turn EXCEPT !.retries = @ + 1, !.tried = {}, !.rounds = 0]
                 /\ conv' = [conv EXCEPT !.pc = "picking"]
            ELSE /\ turn' = [turn EXCEPT !.failed = failed, !.data = "closed"]
                 /\ conv' = [conv EXCEPT !.pc = "ended"]
    BY DEF StreamEnds
  <1>3. turn' \in Turns /\ turn'.request = turn.request /\ turn'.output = turn.output
        /\ turn'.completed = turn.completed
    <2>1. turn.retries + 1 \in Nat /\ {} \in SUBSET Credentials /\ 0 \in Nat
      BY <1>1 DEF Turns
    <2> HIDE DEF Item, TurnRequests, Owner, Transports
    <2>2. CASE turn' = [turn EXCEPT !.retries = @ + 1, !.tried = {}, !.rounds = 0]
      BY <1>1, <2>1, <2>2 DEF Turns
    <2>3. CASE turn' = [turn EXCEPT !.failed = failed, !.data = "closed"]
      BY <1>1, <2>3 DEF Turns
    <2> QED
      BY <1>2, <2>2, <2>3
  <1>4. PICK pc \in {"picking", "ended"} : conv' = [conv EXCEPT !.pc = pc]
    BY <1>2
  <1> QED
    BY <1>1, <1>3, <1>4, BookkeepingKeeps

LEMMA ForwardKeeps == ASSUME IInv, Forward PROVE IInv'
  <1>1. InTurn /\ UNCHANGED <<client, responses>> /\ turn \in Turns
    BY DEF Forward, InTurn, IInv, TypeInv
  <1>2. CASE client.gone
    BY <1>1, <1>2, CloseKeeps DEF Forward
  <1>3. CASE ~client.gone
    <2>1. turn' = [turn EXCEPT !.sent = TRUE] /\ UNCHANGED conv
      BY <1>3 DEF Forward
    <2>2. turn' \in Turns /\ turn'.request = turn.request /\ turn'.output = turn.output
          /\ turn'.completed = turn.completed
      <3> HIDE DEF Item, TurnRequests, Owner, Transports
      <3> QED
        BY <1>1, <2>1 DEF Turns
    <2> QED
      BY <1>1, <2>1, <2>2, TurnStep DEF InTurn, IInv, TypeInv
  <1> QED
    BY <1>2, <1>3

\* The output of a response enters both sides of the account.
LEMMA CompleteKeeps == ASSUME IInv, Complete PROVE IInv'
  <1>1. /\ conv.pc = "streaming" /\ ~turn.completed
        /\ turn \in Turns /\ client \in Clients /\ conv \in Conversations
    BY DEF Complete, IInv, TypeInv
  <1>2. PICK output \in {<<>>, <<Told(conv.messages)>>} :
          IF client.gone THEN Close /\ UNCHANGED <<turn, client, responses>>
          ELSE /\ turn' = [turn EXCEPT !.sent = TRUE, !.completed = TRUE, !.output = output]
               /\ client' = [client EXCEPT !.recent = @ \o output, !.answers = Append(@, "completed")]
               /\ responses' = Append(responses, [auth |-> turn.auth, over |-> turn.over])
               /\ UNCHANGED conv
    BY DEF Complete
  <1>3. CASE client.gone
    BY <1>2, <1>3, CloseKeeps
  <1>4. CASE ~client.gone
    <2>1. output \in Seq(Item)
      <3>1. conv.messages \in Nat
        BY <1>1 DEF Conversations
      <3>2. Told(conv.messages) \in Item
        BY <3>1 DEF Told, Item
      <3>3. <<Told(conv.messages)>> \in Seq(Item)
        BY <3>2
      <3> QED
        BY <3>3, Nothing
    <2>2. client.recent = turn.request.items
      <3>1. turn.request.items \in Seq(Item) /\ turn.output = <<>>
            /\ client.recent = turn.request.items \o turn.output
        BY <1>1 DEF IInv, Account, InTurn, Turns, TurnRequests
      <3> QED
        BY <3>1, AppendNothing
    <2>3. client.recent \o output \in Seq(Item)
      BY <1>1, <2>1, ConcatProperties DEF Clients
    <2>4. Append(client.answers, "completed") \in Seq(Replies)
      BY <1>1, RepliesGrow DEF Replies
    <2>5. /\ client' \in Clients /\ client'.recent = turn.request.items \o output
          /\ client'.model = client.model /\ client'.instructions = client.instructions
      <3> HIDE DEF Item, Models, Instructions
      <3> QED
        BY <1>1, <1>2, <1>4, <2>2, <2>3, <2>4 DEF Clients
    <2>6. turn' \in Turns /\ turn'.request = turn.request /\ turn'.output = output /\ turn'.completed
      <3> HIDE DEF Item, TurnRequests, Owner, Transports
      <3> QED
        BY <1>1, <1>2, <1>4, <2>1 DEF Turns
    <2>7. responses' \in Seq(Response)
      <3>1. [auth |-> turn.auth, over |-> turn.over] \in Response
        BY <1>1 DEF Turns, Response, Transports
      <3> QED
        BY <1>2, <1>4, <3>1 DEF IInv, TypeInv
    <2>8. UNCHANGED conv
      BY <1>2, <1>4
    <2> QED
      BY <1>1, <2>5, <2>6, <2>7, <2>8 DEF IInv, TypeInv, Account, InTurn
  <1> QED
    BY <1>3, <1>4

LEMMA AnswerKeeps ==
  ASSUME IInv, InTurn, NEW answer \in Replies, Answer(answer), UNCHANGED responses
  PROVE  IInv'
  <1>1. CASE client.gone
    BY <1>1, CloseKeeps DEF Answer
  <1>2. CASE ~client.gone
    <2>1. client \in Clients /\ client' = [client EXCEPT !.answers = Append(@, answer)]
          /\ turn' = NoTurn /\ NextMessage
      BY <1>2 DEF Answer, IInv, TypeInv
    <2>2. Append(client.answers, answer) \in Seq(Replies)
      BY <2>1, RepliesGrow
    <2>3. /\ client' \in Clients /\ client'.recent = client.recent
          /\ client'.model = client.model /\ client'.instructions = client.instructions
      <3> HIDE DEF Item, Models, Instructions
      <3> QED
        BY <2>1, <2>2 DEF Clients
    <2> QED
      BY <2>1, <2>3, NoTurnTyped, NextMessageKeeps
  <1> QED
    BY <1>1, <1>2

LEMMA TakeErrorKeeps == ASSUME IInv, TakeError PROVE IInv'
  BY AnswerKeeps DEF TakeError, InTurn, Replies

LEMMA TakeClosedKeeps == ASSUME IInv, TakeClosed PROVE IInv'
  <1>1. InTurn /\ UNCHANGED responses /\ client \in Clients
    BY DEF TakeClosed, InTurn, IInv, TypeInv
  <1>2. CASE turn.completed
    BY <1>1, <1>2, NoTurnTyped, NextMessageKeeps DEF TakeClosed
  <1>3. CASE ~turn.completed
    BY <1>1, <1>3, AnswerKeeps DEF TakeClosed, Replies
  <1> QED
    BY <1>2, <1>3

LEMMA SurroundingsKeep == ASSUME IInv, Change \/ Disconnect PROVE IInv'
  <1>1. UNCHANGED <<conv, turn, responses>> /\ client \in Clients
    BY DEF Change, Disconnect, IInv, TypeInv
  <1>2. client' \in Clients /\ client'.recent = client.recent
        /\ client'.model = client.model /\ client'.instructions = client.instructions
    <2> HIDE DEF Item, Models, Instructions
    <2> QED
      BY <1>1 DEF Change, Disconnect, Clients
  <1> QED
    BY <1>1, <1>2 DEF IInv, TypeInv, Account, InTurn

-----------------------------------------------------------------------------
(* The theorem. *)

\* The loop's reading is the only point where nothing is on its way, and the
\* three points between picking and the end of a stream carry the account.
LEMMA AccountGivesTranscript == IInv => TranscriptKept
  BY DEF IInv, Account, TranscriptKept, Attempting, InTurn

LEMMA StepKeeps == ASSUME IInv, [Next]_vars PROVE IInv'
  <1>1. CASE Receive
    BY <1>1, ReceiveKeeps, ConversationAssumption
  <1>2. CASE ReadFails
    BY <1>2, CloseKeeps DEF ReadFails, Close
  <1>3. CASE Pick \/ Publish
    BY <1>3, PickKeeps, PublishKeeps
  <1>4. CASE PickFails \/ CallFails
    BY <1>4, PickFailsKeeps, CallFailsKeeps, ConversationAssumption
  <1>5. CASE StreamOpens \/ StreamEnds
    BY <1>5, StreamOpensKeeps, StreamEndsKeeps
  <1>6. CASE Forward \/ Complete
    BY <1>6, ForwardKeeps, CompleteKeeps
  <1>7. CASE TakeError \/ TakeClosed
    BY <1>7, TakeErrorKeeps, TakeClosedKeeps
  <1>8. CASE Change \/ Disconnect
    BY <1>8, SurroundingsKeep
  <1>9. CASE UNCHANGED vars
    BY <1>9 DEF vars, IInv, TypeInv, Account, InTurn
  <1> QED
    BY <1>1, <1>2, <1>3, <1>4, <1>5, <1>6, <1>7, <1>8, <1>9 DEF Next

\* What a conversation sends upstream is the whole conversation since the last
\* increment, in order and once, whatever the turns, their retries, the
\* credentials and the client's disconnection did in between
\* (ResponsesWebsocket and normalizeResponseSubsequentRequest).
THEOREM TranscriptAlwaysKept == Spec => []TranscriptKept
  <1>1. Init => IInv
    BY InitAccount
  <1>2. IInv /\ [Next]_vars => IInv'
    BY StepKeeps
  <1> QED
    BY <1>1, <1>2, AccountGivesTranscript, PTL DEF Spec


-----------------------------------------------------------------------------
(* Answers.                                                                *)

\* In a turn the client has its answer if and only if the turn is complete, and
\* a stream that has completed is never started again.
Answering ==
  /\ InTurn => /\ turn.completed => turn.sent
               /\ client.answers = IF turn.completed THEN <<"completed">> ELSE <<>>
  /\ conv.pc \in {"picking", "picked", "calling"} => ~turn.completed
  /\ EveryMessageAnswered

\* Nothing has been said at the start.
LEMMA InitAnswers == Init => Answering
  <1> SUFFICES ASSUME Init PROVE Answering
    OBVIOUS
  <1>1. conv.pc = "reading" /\ conv.messages = 0
    BY DEF Init
  <1>2. ~(conv.messages > 0)
    BY <1>1
  <1> QED
    BY <1>1, <1>2 DEF Answering, EveryMessageAnswered, InTurn

\* A first and a second answer.
LEMMA Answers ==
  ASSUME NEW S, NEW x \in S, NEW y \in S
  PROVE  Append(<<>>, x) = <<x>> /\ Append(<<x>>, y) = <<x, y>>
  <1>1. Append(<<>>, x) = <<x>>
    OBVIOUS
  <1>2. <<x>> \in Seq(S) /\ <<x, y>> \in Seq(S) /\ Len(<<x>>) = 1 /\ Len(<<x, y>>) = 2
    OBVIOUS
  <1>3. Append(<<x>>, y) \in Seq(S) /\ Len(Append(<<x>>, y)) = 2
    BY <1>2, AppendProperties
  <1>4. Append(<<x>>, y)[1] = x /\ Append(<<x>>, y)[2] = y
    BY <1>2, AppendProperties
  <1>5. ASSUME NEW i \in 1..2 PROVE Append(<<x>>, y)[i] = <<x, y>>[i]
    <2>1. i = 1 \/ i = 2
      OBVIOUS
    <2>2. <<x, y>>[1] = x /\ <<x, y>>[2] = y
      OBVIOUS
    <2> QED
      BY <1>4, <2>1, <2>2
  <1> QED
    BY <1>1, <1>2, <1>3, <1>5, SeqEqual

\* Steps inside a turn that do not complete it.
LEMMA InsideAnswers ==
  ASSUME Answering, InTurn, conv'.pc \in {"picking", "picked", "calling", "streaming", "ended", "closed"},
         client'.answers = client.answers, turn'.completed = turn.completed,
         turn.sent => turn'.sent,
         conv'.pc \in {"picking", "picked", "calling"} => ~turn.completed
  PROVE  Answering'
  BY DEF Answering, EveryMessageAnswered, InTurn

\* A conversation that is closed owes nothing.
LEMMA ClosedAnswers == ASSUME IInv, Close PROVE Answering'
  <1>1. conv'.pc = "closed"
    <2>1. conv \in Conversations
      BY DEF IInv, TypeInv
    <2> HIDE DEF Item, TurnRequests, Owner
    <2> QED
      BY <2>1 DEF Close, Conversations
  <1> QED
    BY <1>1 DEF Answering, EveryMessageAnswered, InTurn

\* A message is answered here, or begins a turn with nothing said.
LEMMA ReceiveAnswers == ASSUME IInv, Answering, Receive PROVE Answering'
  <1>1. conv.pc = "reading" /\ conv \in Conversations /\ client \in Clients
    BY DEF Receive, IInv, TypeInv
  <1>2. PICK m, request : Reject \/ Prewarm(m, request) \/ Accept(m, request)
    BY DEF Receive
  <1>3. CASE Reject
    <2>1. conv' = conv /\ client'.answers = <<"error">>
      BY <1>1, <1>3 DEF Reject, Clients
    <2> QED
      BY <1>1, <2>1 DEF Answering, EveryMessageAnswered, InTurn
  <1>4. CASE Prewarm(m, request)
    <2>1. conv'.pc = "reading"
      <3> HIDE DEF TurnRequests, Item, Owner
      <3> QED
        BY <1>1, <1>4 DEF Prewarm, Conversations
    <2>2. client'.answers = <<"completed">>
      BY <1>1, <1>4 DEF Prewarm, Heard, Clients
    <2> QED
      BY <2>1, <2>2 DEF Answering, EveryMessageAnswered, InTurn
  <1>5. CASE Accept(m, request)
    <2>1. conv'.pc = "picking"
      <3> HIDE DEF TurnRequests, Item, Owner
      <3> QED
        BY <1>1, <1>5 DEF Accept, Conversations
    <2>2. client'.answers = <<>>
      BY <1>1, <1>5 DEF Accept, Heard, Clients
    <2>3. ~turn'.completed
      BY <1>5 DEF Accept, NoTurn
    <2> QED
      BY <2>1, <2>2, <2>3 DEF Answering, EveryMessageAnswered, InTurn
  <1> QED
    BY <1>2, <1>3, <1>4, <1>5

\* Until the stream completes or ends, nothing is said and no point is reached again after it.
LEMMA TurnAnswers ==
  ASSUME IInv, Answering, Pick \/ Publish \/ PickFails \/ CallFails \/ StreamOpens \/ StreamEnds \/ Forward
  PROVE  Answering'
  <1>1. conv \in Conversations /\ turn \in Turns
    BY DEF IInv, TypeInv
  <1>2. InTurn /\ client' = client
    BY DEF InTurn, Pick, Publish, PickFails, CallFails, StreamOpens, StreamEnds, Forward
  <1>3. CASE Pick
    <2>1. conv.pc = "picking" /\ conv'.pc = "picked"
      <3> HIDE DEF TurnRequests, Item, Owner
      <3> QED
        BY <1>1, <1>3 DEF Pick, Conversations
    <2>2. turn'.completed = turn.completed /\ turn'.sent = turn.sent
      <3> HIDE DEF TurnRequests, Item, Owner
      <3> QED
        BY <1>1, <1>3 DEF Pick, Turns
    <2> QED
      BY <1>2, <2>1, <2>2, InsideAnswers DEF Answering
  <1>4. CASE Publish
    <2>1. conv.pc = "picked" /\ conv'.pc = "calling" /\ turn' = turn
      <3> HIDE DEF TurnRequests, Item, Owner
      <3> QED
        BY <1>1, <1>4 DEF Publish, Conversations
    <2> QED
      BY <1>2, <2>1, InsideAnswers DEF Answering
  <1>5. CASE PickFails \/ CallFails
    <2>1. conv.pc \in {"picking", "calling"} /\ conv'.pc \in {"ended", "picking"}
      <3> HIDE DEF TurnRequests, Item, Owner
      <3> QED
        BY <1>1, <1>5 DEF PickFails, CallFails, FailTurn, Conversations
    <2>2. turn'.completed = turn.completed /\ turn'.sent = turn.sent
      <3> HIDE DEF TurnRequests, Item, Owner
      <3> QED
        BY <1>1, <1>5 DEF PickFails, CallFails, FailTurn, Turns
    <2> QED
      BY <1>2, <2>1, <2>2, InsideAnswers DEF Answering
  <1>6. CASE StreamOpens
    <2>1. conv'.pc = "streaming"
      <3> HIDE DEF TurnRequests, Item, Owner
      <3> QED
        BY <1>1, <1>6 DEF StreamOpens, Conversations
    <2>2. turn'.completed = turn.completed /\ turn'.sent = turn.sent
      <3> HIDE DEF TurnRequests, Item, Owner
      <3> QED
        BY <1>1, <1>6 DEF StreamOpens, Turns
    <2> QED
      BY <1>2, <2>1, <2>2, InsideAnswers
  <1>7. CASE StreamEnds
    <2>1. conv'.pc \in {"picking", "ended"} /\ (conv'.pc = "picking" => ~turn.sent)
      <3> HIDE DEF TurnRequests, Item, Owner
      <3> QED
        BY <1>1, <1>7 DEF StreamEnds, Conversations
    <2>2. turn'.completed = turn.completed /\ turn'.sent = turn.sent
      <3> HIDE DEF TurnRequests, Item, Owner
      <3> QED
        BY <1>1, <1>7 DEF StreamEnds, Turns
    <2> QED
      BY <1>2, <2>1, <2>2, InsideAnswers DEF Answering
  <1>8. CASE Forward
    <2>1. conv'.pc \in {"streaming", "closed"}
      <3> HIDE DEF TurnRequests, Item, Owner
      <3> QED
        BY <1>1, <1>8 DEF Forward, Close, Conversations
    <2>2. turn'.completed = turn.completed /\ (turn.sent => turn'.sent)
      <3> HIDE DEF TurnRequests, Item, Owner
      <3> QED
        BY <1>1, <1>8 DEF Forward, Turns
    <2> QED
      BY <1>2, <2>1, <2>2, InsideAnswers
  <1> QED
    BY <1>3, <1>4, <1>5, <1>6, <1>7, <1>8

\* The one response of a turn is its answer.
LEMMA CompleteAnswers == ASSUME IInv, Answering, Complete PROVE Answering'
  <1>1. CASE client.gone
    BY <1>1, ClosedAnswers DEF Complete
  <1>2. CASE ~client.gone
    <2>1. PICK output \in {<<>>, <<Told(conv.messages)>>} :
            /\ turn' = [turn EXCEPT !.sent = TRUE, !.completed = TRUE, !.output = output]
            /\ client' = [client EXCEPT !.recent = client.recent \o output,
                                        !.answers = Append(client.answers, "completed")]
            /\ conv' = conv
      BY <1>2 DEF Complete
    <2>2. turn \in Turns /\ client \in Clients
      BY DEF IInv, TypeInv
    <2>3. turn'.sent /\ turn'.completed
      <3> HIDE DEF TurnRequests, Item, Owner
      <3> QED
        BY <2>1, <2>2 DEF Turns
    <2>4. client.answers = <<>>
      BY DEF Complete, Answering, InTurn
    <2>5. client'.answers = <<"completed">>
      <3>1. client'.answers = Append(client.answers, "completed")
        <4> HIDE DEF Item, Models, Instructions
        <4> QED
          BY <2>1, <2>2 DEF Clients
      <3> QED
        BY <2>4, <3>1
    <2>6. conv.pc = "streaming"
      BY DEF Complete
    <2> QED
      BY <2>1, <2>3, <2>5, <2>6 DEF Answering, EveryMessageAnswered, InTurn
  <1> QED
    BY <1>1, <1>2

\* The end of a turn answers it, unless the response has.
LEMMA EndAnswers == ASSUME IInv, Answering, TakeError \/ TakeClosed PROVE Answering'
  <1>1. conv.pc = "ended" /\ InTurn /\ conv \in Conversations /\ client \in Clients
    BY DEF TakeError, TakeClosed, InTurn, IInv, TypeInv
  <1>2. NextMessage => conv'.pc = "reading"
    <2> HIDE DEF TurnRequests, Item, Owner
    <2> QED
      BY <1>1 DEF NextMessage, Conversations
  <1>3. client.answers = IF turn.completed THEN <<"completed">> ELSE <<>>
    BY <1>1 DEF Answering
  <1>4. ASSUME NEW answer \in {"error", "cut short"}, Answer(answer), answer = "error" \/ ~turn.completed
        PROVE  Answering'
    <2>1. CASE client.gone
      BY <1>4, <2>1, ClosedAnswers DEF Answer
    <2>2. CASE ~client.gone
      <3>1. NextMessage /\ client'.answers = Append(client.answers, answer)
        <4> HIDE DEF Item, Models, Instructions, NextMessage
        <4> QED
          BY <1>1, <1>4, <2>2 DEF Answer, Clients
      <3>2. client'.answers \in {<<"completed", "error">>, <<"error">>, <<"cut short">>}
        <4>1. CASE turn.completed
          <5>1. answer = "error" /\ client.answers = <<"completed">>
            BY <1>3, <1>4, <4>1
          <5>2. Append(<<"completed">>, "error") = <<"completed", "error">>
            <6>1. "completed" \in Replies /\ "error" \in Replies
              BY DEF Replies
            <6> HIDE DEF Replies
            <6> QED
              BY ONLY <6>1, Answers, Zenon
          <5> QED
            BY <3>1, <5>1, <5>2
        <4>2. CASE ~turn.completed
          <5>1. client.answers = <<>>
            BY <1>3, <4>2
          <5>2. Append(<<>>, answer) = <<answer>>
            BY Answers
          <5> QED
            BY <3>1, <5>1, <5>2
        <4> QED
          BY <4>1, <4>2
      <3> QED
        BY <1>2, <3>1, <3>2 DEF Answering, EveryMessageAnswered, InTurn
    <2> QED
      BY <2>1, <2>2
  <1>5. CASE TakeError
    BY <1>4, <1>5 DEF TakeError
  <1>6. CASE TakeClosed /\ turn.completed
    BY <1>1, <1>2, <1>3, <1>6 DEF TakeClosed, Answering, EveryMessageAnswered, InTurn
  <1>7. CASE TakeClosed /\ ~turn.completed
    BY <1>4, <1>7 DEF TakeClosed
  <1> QED
    BY <1>5, <1>6, <1>7

\* Every step keeps the answers in line.
LEMMA AnswersStep == ASSUME IInv, Answering, [Next]_vars PROVE Answering'
  <1>1. CASE Change \/ Disconnect \/ UNCHANGED vars
    <2>1. conv' = conv /\ turn' = turn /\ client'.answers = client.answers
      BY <1>1 DEF Change, Disconnect, vars, IInv, TypeInv, Clients
    <2> QED
      BY <2>1 DEF Answering, EveryMessageAnswered, InTurn
  <1>2. CASE ReadFails
    BY <1>2, ClosedAnswers DEF ReadFails, Close
  <1> QED
    BY <1>1, <1>2, ReceiveAnswers, TurnAnswers, CompleteAnswers, EndAnswers DEF Next

\* A message gets one answer, or an error after a complete response: also when the
\* stream was restarted, the turn failed before it began, or the client is told by
\* the channel that was seen first (forwardResponsesWebsocket).
THEOREM EveryMessageAlwaysAnswered == Spec => []EveryMessageAnswered
  <1>1. Init => IInv /\ Answering
    BY InitAccount, InitAnswers
  <1>2. IInv /\ Answering /\ [Next]_vars => (IInv /\ Answering)'
    BY StepKeeps, AnswersStep
  <1>3. Answering => EveryMessageAnswered
    BY DEF Answering
  <1> QED
    BY <1>1, <1>2, <1>3, PTL DEF Spec

-----------------------------------------------------------------------------
(* Increments and credentials.                                             *)

Able(c) == auths[c].known /\ websocketUpstreamSupportsIncrementalInput(auths[c])

\* The number of the response this turn makes, or has made.
Number == Len(responses) + (IF turn.completed THEN 0 ELSE 1)

\* A response made over a websocket since the credentials last changed.
Fresh(id) == id \in 1..Len(responses) /\ id > changes.before /\ responses[id].over = "websocket"

Owned == \A id \in Nat : Fresh(id) =>
           conv.pinned # NoCredential /\ responses[id].auth = conv.pinned /\ Able(conv.pinned)

Held == InTurn =>
  /\ turn.pin # NoCredential => conv.pinned = turn.pin
  /\ turn.request.prev \in 0..(Number - 1)
  /\ \A id \in Nat : Fresh(id) /\ id < Number => turn.pin = conv.pinned

\* As long as no credential changed in this turn, what it knows of its own is right.
Routed == Attempting /\ changes.before < Number =>
  /\ turn.auth \in Credentials /\ auths[turn.auth].known
  /\ turn.route = "websocket" <=> websocketUpstreamSupportsIncrementalInput(auths[turn.auth])
  /\ turn.pin \in {NoCredential, turn.auth}
  /\ conv.pc # "picked" /\ turn.route = "websocket" => conv.pinned = turn.auth
  /\ conv.pc = "streaming" /\ turn.over = "websocket" => turn.route = "websocket"

Pinning == changes \in [made : Nat, before : Nat] /\ Owned /\ Held /\ Routed

\* Initially there are no responses.
LEMMA InitPins == Init => Pinning
  <1>1. ASSUME Init PROVE changes \in [made : Nat, before : Nat] /\ conv.pc = "reading" /\ Len(responses) = 0
    BY <1>1 DEF Init
  <1> QED
    BY <1>1 DEF Pinning, Owned, Held, Routed, Fresh, InTurn, Attempting

\* Steps that leave credentials, responses and the pinned credential alone, outside
\* of a turn.
LEMMA OutsideKeeps ==
  ASSUME IInv, Pinning, UNCHANGED <<auths, changes, responses>>, conv'.pinned = conv.pinned,
         conv'.pc \in {"reading", "closed"}
  PROVE  Pinning'
  BY DEF Pinning, Owned, Held, Routed, Fresh, InTurn, Attempting, Able

\* Steps inside a turn that make no response.
LEMMA InsideKeeps ==
  ASSUME IInv, IInv', Pinning, InTurn, UNCHANGED <<auths, changes, responses>>,
         turn'.completed = turn.completed, turn'.pin = turn.pin, turn'.request = turn.request,
         turn.pin # NoCredential \/ (\E id \in Nat : Fresh(id) /\ id < Number) => conv'.pinned = conv.pinned,
         conv'.pinned # conv.pinned => ~turn.completed,
         Routed'
  PROVE  Pinning'
  <1>1. Number' = Number /\ Number \in Nat /\ Len(responses) \in Nat
    BY DEF Number, IInv, TypeInv
  <1>2. \A id \in Nat : Fresh(id)' <=> Fresh(id)
    BY DEF Fresh
  <1>3. \A c : Able(c)' <=> Able(c)
    BY DEF Able
  <1>4. CASE conv'.pinned = conv.pinned
    BY <1>1, <1>2, <1>3, <1>4 DEF Pinning, Owned, Held, InTurn
  <1>5. CASE conv'.pinned # conv.pinned
    <2>1. \A id \in Nat : ~Fresh(id)
      <3>1. ASSUME NEW id \in Nat, Fresh(id) PROVE id < Number
        BY <1>1, <1>5, <3>1 DEF Fresh, Number
      <3> QED
        BY <1>5, <3>1
    <2>2. turn.pin = NoCredential
      BY <1>5
    <2> QED
      BY <1>1, <1>2, <2>1, <2>2 DEF Pinning, Owned, Held
  <1> QED
    BY <1>4, <1>5

\* The requests made of a message name no other response than the message does.
LEMMA NormalizedPrev ==
  ASSUME NEW m, NEW incremental \in BOOLEAN
  PROVE  LET r == normalizeResponsesWebsocketRequestWithMode(m, incremental)
         IN  r.ok => r.request.prev \in {0, m.prev}
  BY DEF normalizeResponsesWebsocketRequestWithMode, normalizeResponseCreateRequest,
         normalizeResponseSubsequentRequest, Accepted, Rejected

\* A turn begins with what is pinned.
LEMMA ReceivePins == ASSUME IInv, IInv', Pinning, Receive PROVE Pinning'
  <1>1. conv.pc = "reading" /\ UNCHANGED <<auths, changes>> /\ conv \in Conversations
    BY DEF Receive, IInv, TypeInv
  <1>2. PICK shape \in Shapes, prev \in 0..Len(responses) :
          LET m == [type |-> shape.type, model |-> shape.model, instructions |-> shape.instructions,
                    input |-> shape.input, generate |-> shape.generate, prev |-> prev]
              incremental == allowIncremental(m)
              normalized == normalizeResponsesWebsocketRequestWithMode(m, incremental)
          IN  /\ ~normalized.ok => Reject
              /\ normalized.ok =>
                   IF shouldHandleResponsesWebsocketPrewarmLocally(m, incremental)
                     THEN Prewarm(m, normalized.request)
                     ELSE Accept(m, normalized.request)
    BY DEF Receive
  <1> DEFINE m == [type |-> shape.type, model |-> shape.model, instructions |-> shape.instructions,
                   input |-> shape.input, generate |-> shape.generate, prev |-> prev]
             normalized == normalizeResponsesWebsocketRequestWithMode(m, allowIncremental(m))
  <1>3. Len(responses) \in Nat /\ responses \in Seq(Response)
    BY DEF IInv, TypeInv
  <1>4. normalized.ok => normalized.request.prev \in 0..Len(responses)
    <2>1. m.prev = prev /\ allowIncremental(m) \in BOOLEAN
      BY DEF allowIncremental, websocketUpstreamSupportsIncrementalInput,
             websocketUpstreamSupportsIncrementalInputForModel, Parsed
    <2>2. normalized.ok => normalized.request.prev \in {0, m.prev}
      <3> HIDE DEF m
      <3> QED
        BY <2>1, NormalizedPrev
    <2> QED
      BY <1>3, <2>1, <2>2
  <1>5. Reject \/ Prewarm(m, normalized.request) \/ (normalized.ok /\ Accept(m, normalized.request))
    BY <1>2
  <1> HIDE DEF m, normalized
  <1>6. CASE Reject
    BY <1>1, <1>6, OutsideKeeps DEF Reject
  <1>7. CASE Prewarm(m, normalized.request)
    <2>1. conv'.pinned = conv.pinned /\ conv'.pc = "reading"
      <3> HIDE DEF TurnRequests, Item, Owner
      <3> QED
        BY <1>1, <1>7 DEF Prewarm, Conversations
    <2>2. responses' = Append(responses, [auth |-> NoCredential, over |-> "here"])
      BY <1>7 DEF Prewarm
    <2>3. Len(responses') = Len(responses) + 1 /\ responses'[Len(responses) + 1].over = "here"
          /\ \A id \in 1..Len(responses) : responses'[id] = responses[id]
      BY <1>3, <2>2
    <2>4. ASSUME NEW id \in Nat, Fresh(id)' PROVE Fresh(id) /\ responses'[id] = responses[id]
      BY <1>1, <1>3, <2>3, <2>4 DEF Fresh
    <2>5. Owned'
      BY <1>1, <2>1, <2>4 DEF Pinning, Owned, Able
    <2> QED
      BY <1>1, <2>1, <2>5 DEF Pinning, Held, Routed, InTurn, Attempting
  <1>8. CASE normalized.ok /\ Accept(m, normalized.request)
    <2>1. conv'.pinned = conv.pinned /\ conv'.pc = "picking"
      <3> HIDE DEF TurnRequests, Item, Owner
      <3> QED
        BY <1>1, <1>8 DEF Accept, Conversations
    <2>2. turn'.request = normalized.request /\ turn'.pin = conv.pinned /\ ~turn'.completed
          /\ UNCHANGED responses
      BY <1>8 DEF Accept, NoTurn
    <2>3. Number' = Len(responses) + 1
      BY <2>2 DEF Number
    <2>4. Owned'
      BY <1>1, <2>1, <2>2 DEF Pinning, Owned, Fresh, Able
    <2>5. Held'
      BY <1>3, <1>4, <1>8, <2>1, <2>2, <2>3 DEF Held
    <2> QED
      BY <1>1, <2>1, <2>4, <2>5 DEF Pinning, Routed, Attempting
  <1> QED
    BY <1>5, <1>6, <1>7, <1>8

\* What is picked is the pinned credential, if there is one.
LEMMA PickPins == ASSUME IInv, IInv', Pinning, Pick PROVE Pinning'
  <1>1. PICK c \in Pickable :
          turn' = [turn EXCEPT !.auth = c, !.tried = @ \cup {c},
                               !.route = IF codexWebsocketsEnabled(auths[c]) THEN "websocket" ELSE "http"]
    BY DEF Pick
  <1>2. c \in Credentials /\ auths[c].known /\ turn.pin \in {NoCredential, c} /\ turn \in Turns /\ conv \in Conversations
    BY DEF Pickable, IInv, TypeInv
  <1>3. /\ turn'.auth = c /\ turn'.pin = turn.pin /\ turn'.request = turn.request /\ turn'.completed = turn.completed
        /\ turn'.route = IF codexWebsocketsEnabled(auths[c]) THEN "websocket" ELSE "http"
    <2> HIDE DEF Item, TurnRequests, codexWebsocketsEnabled, Pickable
    <2> QED
      BY <1>1, <1>2 DEF Turns
  <1>4. conv'.pc = "picked" /\ conv'.pinned = conv.pinned /\ UNCHANGED <<auths, changes, responses>> /\ InTurn
    <2> HIDE DEF Item, TurnRequests, Owner
    <2> QED
      BY <1>2 DEF Pick, Conversations, InTurn
  <1>5. codexWebsocketsEnabled(auths[c]) <=> websocketUpstreamSupportsIncrementalInput(auths[c])
    BY DEF codexWebsocketsEnabled, websocketUpstreamSupportsIncrementalInput
  <1>6. Routed'
    <2>1. turn'.route = "websocket" <=> websocketUpstreamSupportsIncrementalInput(auths[c])
      BY <1>3, <1>5
    <2> HIDE DEF Pickable
    <2> QED
      BY <1>2, <1>3, <1>4, <2>1 DEF Routed
  <1> QED
    BY <1>3, <1>4, <1>6, InsideKeeps

\* A turn without a pinned credential pins the one it calls, if that takes increments.
LEMMA PublishPins == ASSUME IInv, IInv', Answering, Pinning, Publish PROVE Pinning'
  <1> DEFINE pins == turn.pin = NoCredential /\ auths[turn.auth].known
                     /\ websocketUpstreamSupportsIncrementalInput(auths[turn.auth])
  <1>1. conv \in Conversations /\ conv' = [conv EXCEPT !.pc = "calling", !.pinned = IF pins THEN turn.auth ELSE conv.pinned]
    BY DEF Publish, IInv, TypeInv
  <1>2. conv.pc = "picked" /\ UNCHANGED <<auths, changes, turn, client, responses>>
    BY DEF Publish
  <1>3. conv'.pc = "calling" /\ conv'.pinned = IF pins THEN turn.auth ELSE conv.pinned
    <2> HIDE DEF pins, Item, TurnRequests, Owner
    <2> QED
      BY <1>1 DEF Conversations
  <1>4. ~turn.completed
    BY <1>2 DEF Answering
  <1>5. Routed'
    BY <1>2, <1>3, <1>4 DEF Pinning, Routed, Attempting, Number, InTurn, Held
  <1>6. InTurn
    BY <1>2 DEF InTurn
  <1>7. turn.pin # NoCredential \/ (\E id \in Nat : Fresh(id) /\ id < Number) => conv'.pinned = conv.pinned
    <2>1. ASSUME NEW id \in Nat, Fresh(id), id < Number PROVE turn.pin # NoCredential
      BY <1>6, <2>1 DEF Pinning, Owned, Held
    <2> QED
      BY <1>3, <2>1
  <1> HIDE DEF pins
  <1> QED
    BY <1>2, <1>4, <1>5, <1>6, <1>7, InsideKeeps

\* Steps to a point of the turn before a credential is picked, or after its end.
LEMMA BetweenKeeps ==
  ASSUME IInv, IInv', Pinning, InTurn, conv'.pc \in {"picking", "ended"}, UNCHANGED <<auths, changes, responses>>,
         conv'.pinned = conv.pinned, turn'.completed = turn.completed, turn'.pin = turn.pin,
         turn'.request = turn.request
  PROVE  Pinning'
  <1>1. Routed'
    BY DEF Routed, Attempting
  <1> QED
    BY <1>1, InsideKeeps

\* A failed call pins nothing.
LEMMA FailurePins == ASSUME IInv, IInv', Pinning, PickFails \/ CallFails PROVE Pinning'
  <1>1. conv \in Conversations /\ turn \in Turns
    BY DEF IInv, TypeInv
  <1>2. InTurn /\ UNCHANGED <<auths, changes, responses>>
    BY DEF InTurn, PickFails, CallFails
  <1>3. conv'.pc \in {"ended", "picking"} /\ conv'.pinned = conv.pinned
    <2> HIDE DEF TurnRequests, Item, Owner
    <2> QED
      BY <1>1 DEF PickFails, CallFails, FailTurn, Conversations
  <1>4. turn'.completed = turn.completed /\ turn'.pin = turn.pin /\ turn'.request = turn.request
    <2> HIDE DEF TurnRequests, Item, Owner
    <2> QED
      BY <1>1 DEF PickFails, CallFails, FailTurn, Turns
  <1> QED
    BY <1>2, <1>3, <1>4, BetweenKeeps

\* Neither the end nor the restart of a stream pins anything.
LEMMA StreamEndsPins == ASSUME IInv, IInv', Pinning, StreamEnds PROVE Pinning'
  <1>1. conv \in Conversations /\ turn \in Turns
    BY DEF IInv, TypeInv
  <1>2. InTurn /\ UNCHANGED <<auths, changes, responses>>
    BY DEF InTurn, StreamEnds
  <1>3. conv'.pc \in {"ended", "picking"} /\ conv'.pinned = conv.pinned
    <2> HIDE DEF TurnRequests, Item, Owner
    <2> QED
      BY <1>1 DEF StreamEnds, Conversations
  <1>4. turn'.completed = turn.completed /\ turn'.pin = turn.pin /\ turn'.request = turn.request
    <2> HIDE DEF TurnRequests, Item, Owner
    <2> QED
      BY <1>1 DEF StreamEnds, Turns
  <1> QED
    BY <1>2, <1>3, <1>4, BetweenKeeps

\* A stream is over a websocket only if that was the route.
LEMMA StreamOpensPins == ASSUME IInv, IInv', Answering, Pinning, StreamOpens PROVE Pinning'
  <1>1. conv \in Conversations /\ turn \in Turns
    BY DEF IInv, TypeInv
  <1>2. conv.pc = "calling" /\ UNCHANGED <<auths, changes, responses>>
    BY DEF StreamOpens
  <1>3. conv'.pc = "streaming" /\ conv'.pinned = conv.pinned
    <2> HIDE DEF TurnRequests, Item, Owner
    <2> QED
      BY <1>1 DEF StreamOpens, Conversations
  <1>4. /\ turn'.completed = turn.completed /\ turn'.pin = turn.pin /\ turn'.request = turn.request
        /\ turn'.auth = turn.auth /\ turn'.route = turn.route /\ turn'.over \in {turn.route, "http"}
    <2> HIDE DEF TurnRequests, Item, Owner
    <2> QED
      BY <1>1 DEF StreamOpens, Turns
  <1>5. Routed'
    BY <1>2, <1>3, <1>4 DEF Pinning, Routed, Attempting, Number
  <1>6. InTurn
    BY <1>2 DEF InTurn
  <1> QED
    BY <1>2, <1>3, <1>4, <1>5, <1>6, InsideKeeps

\* A closed conversation sends nothing.
LEMMA ClosePins == ASSUME IInv, Pinning, Close, UNCHANGED <<auths, changes, responses>> PROVE Pinning'
  <1>1. conv'.pc = "closed" /\ conv'.pinned = conv.pinned
    <2>1. conv \in Conversations
      BY DEF IInv, TypeInv
    <2> HIDE DEF Item, TurnRequests, Owner
    <2> QED
      BY <2>1 DEF Close, Conversations
  <1> QED
    BY <1>1, OutsideKeeps

\* Payloads leave the turn's credential alone.
LEMMA ForwardPins == ASSUME IInv, IInv', Pinning, Forward PROVE Pinning'
  <1>1. CASE client.gone
    BY <1>1, ClosePins DEF Forward
  <1>2. CASE ~client.gone
    <2>1. turn \in Turns /\ turn' = [turn EXCEPT !.sent = TRUE] /\ UNCHANGED <<auths, changes, responses, conv>> /\ InTurn
      BY <1>2 DEF Forward, IInv, TypeInv, InTurn
    <2>2. /\ turn'.completed = turn.completed /\ turn'.pin = turn.pin /\ turn'.request = turn.request
          /\ turn'.auth = turn.auth /\ turn'.route = turn.route /\ turn'.over = turn.over
      <3> HIDE DEF TurnRequests, Item, Owner
      <3> QED
        BY <2>1 DEF Turns
    <2>3. Routed'
      BY <2>1, <2>2 DEF Pinning, Routed, Attempting, Number
    <2> QED
      BY <2>1, <2>2, <2>3, InsideKeeps
  <1> QED
    BY <1>1, <1>2

\* The response that a turn makes belongs to the credential that is pinned, if it
\* came over a websocket and nothing has changed.
LEMMA CompletePins == ASSUME IInv, IInv', Pinning, Complete PROVE Pinning'
  <1>1. CASE client.gone
    BY <1>1, ClosePins DEF Complete
  <1>2. CASE ~client.gone
    <2>1. /\ responses' = Append(responses, [auth |-> turn.auth, over |-> turn.over])
          /\ UNCHANGED <<auths, changes, conv>> /\ conv.pc = "streaming" /\ ~turn.completed /\ turn \in Turns
      BY <1>2 DEF Complete, IInv, TypeInv
    <2>2. PICK output : turn' = [turn EXCEPT !.sent = TRUE, !.completed = TRUE, !.output = output]
      BY <1>2 DEF Complete
    <2>3. /\ turn'.completed /\ turn'.pin = turn.pin /\ turn'.request = turn.request
          /\ turn'.auth = turn.auth /\ turn'.route = turn.route /\ turn'.over = turn.over
      <3> HIDE DEF TurnRequests, Item, Owner
      <3> QED
        BY <2>1, <2>2 DEF Turns
    <2>4. responses \in Seq(Response) /\ Len(responses) \in Nat
      BY DEF IInv, TypeInv
    <2>5. /\ Len(responses') = Len(responses) + 1
          /\ responses'[Len(responses) + 1] = [auth |-> turn.auth, over |-> turn.over]
          /\ \A id \in 1..Len(responses) : responses'[id] = responses[id]
      BY <2>1, <2>4
    <2>6. Number' = Number /\ Number = Len(responses) + 1 /\ InTurn /\ Attempting
      BY <2>1, <2>3, <2>4, <2>5 DEF Number, InTurn, Attempting
    <2>7. ASSUME NEW id \in Nat, Fresh(id)', id < Number PROVE Fresh(id) /\ responses'[id] = responses[id]
      BY <2>1, <2>4, <2>5, <2>6, <2>7 DEF Fresh
    <2>8. ASSUME Fresh(Number)'
          PROVE  conv.pinned # NoCredential /\ conv.pinned = turn.auth /\ Able(conv.pinned)
      <3>1. changes.before < Number /\ turn.over = "websocket"
        BY <2>1, <2>4, <2>5, <2>6, <2>8 DEF Fresh, Pinning
      <3>2. turn.route = "websocket" /\ conv.pinned = turn.auth /\ turn.auth \in Credentials
        BY <2>1, <2>6, <3>1 DEF Pinning, Routed
      <3> QED
        BY <2>6, <3>1, <3>2, ConversationAssumption DEF Pinning, Routed, Able, ConversationAssumption
    <2>9. Owned'
      <3>1. ASSUME NEW id \in Nat, Fresh(id)'
            PROVE  conv.pinned # NoCredential /\ responses'[id].auth = conv.pinned /\ Able(conv.pinned)
        <4>1. id <= Number
          BY <2>4, <2>5, <2>6, <3>1 DEF Fresh
        <4>2. CASE id = Number
          BY <2>5, <2>6, <2>8, <3>1, <4>2
        <4>3. CASE id < Number
          BY <2>7, <3>1, <4>3 DEF Pinning, Owned
        <4> QED
          BY <2>4, <2>6, <4>1, <4>2, <4>3
      <3> QED
        BY <2>1, <3>1 DEF Owned, Able
    <2>10. Held'
      BY <2>1, <2>3, <2>6, <2>7 DEF Pinning, Held, InTurn
    <2>11. Routed'
      BY <2>1, <2>3, <2>6 DEF Pinning, Routed, Attempting
    <2> QED
      BY <2>1, <2>9, <2>10, <2>11 DEF Pinning
  <1> QED
    BY <1>1, <1>2

\* The loop takes the pinned credential on to the next turn.
LEMMA EndPins == ASSUME IInv, Pinning, TakeError \/ TakeClosed PROVE Pinning'
  <1>1. conv \in Conversations /\ UNCHANGED <<auths, changes, responses>>
    BY DEF TakeError, TakeClosed, IInv, TypeInv
  <1>2. NextMessage \/ Close
    BY DEF TakeError, TakeClosed, Answer
  <1>3. CASE NextMessage
    <2>1. conv'.pc = "reading" /\ conv'.pinned = conv.pinned
      <3> HIDE DEF Item, TurnRequests, Owner
      <3> QED
        BY <1>1, <1>3 DEF NextMessage, Conversations
    <2> QED
      BY <1>1, <2>1, OutsideKeeps
  <1> QED
    BY <1>1, <1>2, <1>3, ClosePins

\* After a change no response is fresh, and the one in the making will not be.
LEMMA ChangePins == ASSUME IInv, Pinning, Change PROVE Pinning'
  <1>1. UNCHANGED <<conv, turn, client, responses>> /\ Len(responses) \in Nat /\ changes.made + 1 \in Nat
    BY DEF Change, IInv, TypeInv, Pinning
  <1>2. changes' = [made |-> changes.made + 1,
                    before |-> Len(responses) + (IF conv.pc = "reading" \/ turn.completed THEN 0 ELSE 1)]
    BY DEF Change
  <1>3. changes' \in [made : Nat, before : Nat] /\ changes'.before >= Len(responses)
    BY <1>1, <1>2
  <1>4. \A id \in Nat : ~Fresh(id)'
    BY <1>1, <1>3 DEF Fresh
  <1>5. InTurn => changes'.before = Number
    BY <1>1, <1>2 DEF InTurn, Number
  <1>6. Owned' /\ Held'
    BY <1>1, <1>4 DEF Pinning, Owned, Held, InTurn, Number
  <1>7. Routed'
    BY <1>1, <1>3, <1>5 DEF Routed, Attempting, InTurn, Number
  <1> QED
    BY <1>3, <1>6, <1>7 DEF Pinning

\* Every step keeps responses and the pinned credential together.
LEMMA PinningStep == ASSUME IInv, IInv', Answering, Pinning, [Next]_vars PROVE Pinning'
  <1>1. CASE Disconnect \/ UNCHANGED vars
    BY <1>1 DEF Disconnect, vars, Pinning, Owned, Held, Routed, Fresh, Able, Number, InTurn, Attempting
  <1>2. CASE ReadFails
    BY <1>2, ClosePins DEF ReadFails, Close
  <1> QED
    BY <1>1, <1>2, ReceivePins, PickPins, PublishPins, FailurePins, StreamOpensPins, StreamEndsPins,
       ForwardPins, CompletePins, EndPins, ChangePins DEF Next

\* The credential that made a response is the one an increment to it goes to.
LEMMA PinningGivesIncrements == IInv /\ Pinning => IncrementsReachTheirResponse
  <1> DEFINE prev == turn.request.prev
  <1> SUFFICES ASSUME IInv, Pinning, Attempting, prev > changes.before, responses[prev].over = "websocket"
               PROVE  turn.auth = responses[prev].auth /\ turn.route = "websocket"
    BY DEF IncrementsReachTheirResponse
  <1>1. InTurn /\ Len(responses) \in Nat /\ changes.before \in Nat
    BY DEF InTurn, Attempting, IInv, TypeInv, Pinning
  <1>2. prev \in Nat /\ prev < Number /\ prev \in 1..Len(responses)
    BY <1>1 DEF Pinning, Held, Number
  <1>3. Fresh(prev)
    BY <1>2 DEF Fresh
  <1>4. turn.pin = conv.pinned /\ conv.pinned # NoCredential /\ responses[prev].auth = conv.pinned /\ Able(conv.pinned)
    BY <1>1, <1>2, <1>3 DEF Pinning, Held, Owned
  <1>5. changes.before < Number
    BY <1>1, <1>2 DEF Number
  <1> HIDE DEF prev
  <1> QED
    BY <1>4, <1>5 DEF Pinning, Routed, Able

\* As long as no credential changes, an increment to a response made over a websocket
\* goes to the credential that made it, over a websocket: through retries, restarts and
\* failed turns (allowIncremental, the pinned credential and its callback).
THEOREM IncrementsAlwaysReach == Spec => []IncrementsReachTheirResponse
  <1>1. Init => IInv /\ Answering /\ Pinning
    BY InitAccount, InitAnswers, InitPins
  <1>2. IInv /\ Answering /\ Pinning /\ [Next]_vars => (IInv /\ Answering /\ Pinning)'
    BY StepKeeps, AnswersStep, PinningStep
  <1> QED
    BY <1>1, <1>2, PinningGivesIncrements, PTL DEF Spec

-----------------------------------------------------------------------------
(* The relay: the session that connected last can be reached as long as it *)
(* is up.                                                                  *)

Messages == {"start", "chunk", "response", "end", "error"}
SessionOrNone == Sessions \cup {None}
RequestOrNone == Requests \cup {None}
Session == [stage : {"new", "replacing", "running"}, replaces : SessionOrNone,
            cleanup : {"no", "ranging", "reset", "done"}, left : SUBSET Requests, visiting : RequestOrNone]
Dispatch == [pc : {"reading", "loaded", "settling"}, req : RequestOrNone, type : Messages \cup {"none"}]
Channel == [queue : Seq(Messages), closed : BOOLEAN]
Call == [pc : {"idle", "storing", "loading", "sending", "waiting", "ended"}, kind : Kinds \cup {"none"},
         sess : SessionOrNone, watched : BOOLEAN, cancelled : BOOLEAN, streaming : BOOLEAN, got : Nat,
         outcome : {"none", "answered", "failed", "cancelled"}]
Peer == [pc : {"silent", "asked", "streaming", "answered"}, chunks : 0..MaxChunks]

\* A call that is under way has a session.
HasSession(c) == c.pc \in {"storing", "loading", "sending", "waiting"} \/ c.watched => c.sess # None

\* The types, and: a message in dispatch is about a request.
RelayTypes ==
  /\ table \in SessionOrNone /\ latest \in SessionOrNone
  /\ sess \in [Sessions -> Session]
  /\ pending \in [Sessions -> SUBSET Requests]
  /\ disp \in [Sessions -> Dispatch]
  /\ chan \in [Requests -> Channel]
  /\ \A r \in Requests : Len(chan[r].queue) <= Buffer
  /\ call \in [Requests -> Call]
  /\ peer \in [Requests -> Peer]
  /\ \A s \in Sessions : disp[s].pc # "reading" => disp[s].req # None /\ disp[s].type # "none"
  /\ \A r \in Requests : HasSession(call[r])

Reachable == latest # None /\ sess[latest].cleanup = "no" => table = latest

RelayInv == RelayTypes /\ Reachable

LEMMA RelayBegins == RelayInit => RelayInv
<1> SUFFICES ASSUME RelayInit PROVE RelayInv
  OBVIOUS
<1>1. <<>> \in Seq(Messages) /\ Len(<<>>) <= Buffer
  BY RelayAssumption, EmptySeq DEF RelayAssumption
<1>2. chan \in [Requests -> Channel] /\ \A r \in Requests : Len(chan[r].queue) <= Buffer
  BY <1>1 DEF RelayInit, Channel
<1> QED
  BY <1>2, RelayAssumption DEF RelayInit, RelayInv, RelayTypes, HasSession, Reachable, Idle, Session, Dispatch, Call, Peer, SessionOrNone,
     RequestOrNone, RelayAssumption

\* What a channel becomes when a message is offered, or it is closed.
LEMMA OfferTyped ==
  ASSUME NEW c \in Channel, Len(c.queue) <= Buffer, NEW m \in Messages
  PROVE  /\ Offer(c, m) \in Channel /\ Len(Offer(c, m).queue) <= Buffer
         /\ [Offer(c, m) EXCEPT !.closed = TRUE] \in Channel
         /\ Len([Offer(c, m) EXCEPT !.closed = TRUE].queue) <= Buffer
         /\ [c EXCEPT !.closed = TRUE] \in Channel /\ Len([c EXCEPT !.closed = TRUE].queue) <= Buffer
<1>0. c.queue \in Seq(Messages) /\ Len(c.queue) \in Nat /\ Buffer \in Nat
  BY RelayAssumption, LenProperties DEF Channel, RelayAssumption
<1>1. Append(c.queue, m) \in Seq(Messages) /\ Len(Append(c.queue, m)) = Len(c.queue) + 1
  BY <1>0, AppendProperties
<1>2. Offer(c, m) \in Channel /\ Len(Offer(c, m).queue) <= Buffer
  <2>1. CASE Len(c.queue) < Buffer
    <3>1. [c EXCEPT !.queue = Append(@, m)] \in Channel /\ [c EXCEPT !.queue = Append(@, m)].queue = Append(c.queue, m)
      BY <1>1 DEF Channel
    <3> QED BY <1>0, <1>1, <2>1, <3>1 DEF Offer
  <2>2. CASE ~(Len(c.queue) < Buffer)
    BY <2>2 DEF Offer
  <2> QED BY <2>1, <2>2
<1>3. \A d \in Channel : [d EXCEPT !.closed = TRUE] \in Channel /\ [d EXCEPT !.closed = TRUE].queue = d.queue
  BY DEF Channel
<1> QED BY <1>2, <1>3

\* One session that changes.
LEMMA SessionUpdate ==
  ASSUME RelayInv, NEW s \in Sessions, NEW n \in Session, sess' = [sess EXCEPT ![s] = n]
  PROVE  /\ sess' \in [Sessions -> Session] /\ sess'[s] = n
         /\ \A t \in Sessions : t # s => sess'[t] = sess[t]
  BY DEF RelayInv, RelayTypes

\* One call that changes.
LEMMA CallUpdate ==
  ASSUME RelayInv, NEW r \in Requests, NEW c \in Call, HasSession(c), call' = [call EXCEPT ![r] = c]
  PROVE  call' \in [Requests -> Call] /\ \A q \in Requests : HasSession(call'[q])
  BY DEF RelayInv, RelayTypes

\* A cleanup that begins.
LEMMA BeginCleanupTyped ==
  ASSUME RelayInv, NEW t \in Sessions, BeginCleanup(t)
  PROVE  /\ sess' \in [Sessions -> Session]
         /\ sess'[t].cleanup # "no"
         /\ \A s \in Sessions : sess'[s].cleanup = "no" => sess[s].cleanup = "no"
<1> DEFINE n == [sess[t] EXCEPT !.cleanup = "ranging", !.left = pending[t]]
<1>1. sess[t] \in Session /\ pending[t] \in SUBSET Requests
  BY DEF RelayInv, RelayTypes
<1>2. n \in Session /\ n.cleanup = "ranging"
  BY <1>1 DEF Session
<1>3. CASE sess[t].cleanup = "no"
  <2>1. sess' = [sess EXCEPT ![t] = n]
    BY <1>3 DEF BeginCleanup
  <2> HIDE DEF n
  <2> QED BY <1>2, <1>3, <2>1, SessionUpdate
<1>4. CASE sess[t].cleanup # "no"
  BY <1>4 DEF BeginCleanup, RelayInv, RelayTypes
<1> QED BY <1>3, <1>4

LEMMA ForgetTyped ==
  ASSUME RelayInv, NEW s \in Sessions, NEW r \in Requests, Forget(s, r)
  PROVE  /\ pending' \in [Sessions -> SUBSET Requests]
         /\ chan' \in [Requests -> Channel] /\ \A q \in Requests : Len(chan'[q].queue) <= Buffer
<1>1. chan[r] \in Channel /\ Len(chan[r].queue) <= Buffer /\ "error" \in Messages
  BY DEF RelayInv, RelayTypes, Messages
<1>2. [chan[r] EXCEPT !.closed = TRUE] \in Channel /\ Len([chan[r] EXCEPT !.closed = TRUE].queue) <= Buffer
  BY <1>1, OfferTyped
<1>3. chan' = chan \/ chan' = [chan EXCEPT ![r] = [chan[r] EXCEPT !.closed = TRUE]]
  BY DEF Forget
<1>4. chan' \in [Requests -> Channel] /\ \A q \in Requests : Len(chan'[q].queue) <= Buffer
  <2> DEFINE d == [chan[r] EXCEPT !.closed = TRUE]
  <2>1. d \in Channel /\ Len(d.queue) <= Buffer /\ (chan' = chan \/ chan' = [chan EXCEPT ![r] = d])
    BY <1>2, <1>3
  <2> HIDE DEF d
  <2> QED BY <2>1 DEF RelayInv, RelayTypes
<1> QED BY <1>4 DEF Forget, RelayInv, RelayTypes

\* Connections and their clean-ups.
LEMMA ConnectionStep ==
  ASSUME RelayInv, NEW s \in Sessions,
         Connect(s) \/ Lose(s) \/ Replace(s) \/ Run(s) \/ Stop
  PROVE  RelayInv'
<1>1. CASE Connect(s)
  <2>1. sess' \in [Sessions -> Session] /\ table' \in SessionOrNone /\ latest' = s /\ table' = s
    <3> DEFINE n == [sess[s] EXCEPT !.stage = "replacing", !.replaces = table]
    <3>1. sess[s] \in Session /\ table \in SessionOrNone
      BY DEF RelayInv, RelayTypes
    <3>2. n \in Session
      BY <3>1 DEF Session
    <3>3. sess' = [sess EXCEPT ![s] = n]
      BY <1>1 DEF Connect
    <3> HIDE DEF n
    <3> QED BY <1>1, <3>2, <3>3, SessionUpdate DEF Connect, SessionOrNone
  <2> QED BY <1>1, <2>1 DEF Connect, RelayInv, RelayTypes, Reachable, SessionOrNone
<1>2. ASSUME NEW t \in Sessions, BeginCleanup(t),
             UNCHANGED <<table, latest, pending, disp, chan, call, peer>>
      PROVE  RelayInv'
  BY <1>2, BeginCleanupTyped DEF RelayInv, RelayTypes, Reachable, SessionOrNone
<1>3. CASE Lose(s)
  BY <1>2, <1>3 DEF Lose
<1>4. CASE Replace(s)
  BY <1>2, <1>4 DEF Replace, RelayInv, RelayTypes, Session, SessionOrNone
<1>5. CASE Run(s)
  <2>1. sess' \in [Sessions -> Session] /\ \A t \in Sessions : sess'[t].cleanup = sess[t].cleanup
    BY <1>5 DEF Run, RelayInv, RelayTypes, Session
  <2> QED BY <1>5, <2>1 DEF Run, RelayInv, RelayTypes, Reachable, SessionOrNone
<1>6. CASE Stop
  <2>1. sess' \in [Sessions -> Session] /\ \A t \in Sessions : sess'[t].cleanup = "no" => sess[t].cleanup = "no" /\ t # table
    <3>1. CASE table = None
      BY <1>6, <3>1, RelayAssumption DEF Stop, RelayInv, RelayTypes, RelayAssumption
    <3>2. CASE table # None
      <4>1. table \in Sessions /\ BeginCleanup(table)
        BY <1>6, <3>2 DEF Stop, RelayInv, RelayTypes, SessionOrNone
      <4> QED BY <4>1, BeginCleanupTyped
    <3> QED BY <3>1, <3>2
  <2> QED BY <1>6, <2>1 DEF Stop, RelayInv, RelayTypes, Reachable, SessionOrNone
<1> QED BY <1>1, <1>3, <1>4, <1>5, <1>6

\* The rest of a cleanup.
LEMMA CleanupStep ==
  ASSUME RelayInv, NEW s \in Sessions,
         (\E r \in Requests : Visit(s, r)) \/ FailVisited(s) \/ ResetPending(s) \/ SessionClosed(s)
  PROVE  RelayInv'
<1>1. ASSUME NEW r \in Requests, Visit(s, r) PROVE RelayInv'
  <2>1. sess' \in [Sessions -> Session] /\ \A t \in Sessions : sess'[t].cleanup = sess[t].cleanup
    <3> DEFINE n == [sess[s] EXCEPT !.left = @ \ {r}, !.visiting = IF r \in pending[s] THEN r ELSE None]
    <3>1. sess[s] \in Session /\ sess[s].left \ {r} \in SUBSET Requests
          /\ (IF r \in pending[s] THEN r ELSE None) \in RequestOrNone
      BY DEF RelayInv, RelayTypes, Session, RequestOrNone
    <3>2. n \in Session /\ n.cleanup = sess[s].cleanup
      BY <3>1 DEF Session
    <3>3. sess' = [sess EXCEPT ![s] = n]
      BY <1>1 DEF Visit
    <3> HIDE DEF n
    <3> QED BY <3>2, <3>3, SessionUpdate
  <2> QED BY <1>1, <2>1 DEF Visit, RelayInv, RelayTypes, Reachable, SessionOrNone
<1>2. CASE FailVisited(s)
  <2> DEFINE r == sess[s].visiting
             c == IF chan[r].closed THEN chan[r] ELSE [Offer(chan[r], "error") EXCEPT !.closed = TRUE]
  <2>1. r \in Requests
    BY <1>2 DEF FailVisited, RelayInv, RelayTypes, Session, RequestOrNone
  <2>2. c \in Channel /\ Len(c.queue) <= Buffer
    BY <2>1, OfferTyped DEF RelayInv, RelayTypes, Messages
  <2>3. chan' = [chan EXCEPT ![r] = c]
    BY <1>2 DEF FailVisited
  <2>4. sess' \in [Sessions -> Session] /\ \A t \in Sessions : sess'[t].cleanup = sess[t].cleanup
    BY <1>2 DEF FailVisited, RelayInv, RelayTypes, Session, RequestOrNone
  <2> HIDE DEF c, r
  <2>5. chan' \in [Requests -> Channel] /\ \A q \in Requests : Len(chan'[q].queue) <= Buffer
    BY <2>1, <2>2, <2>3 DEF RelayInv, RelayTypes
  <2> QED BY <1>2, <2>4, <2>5 DEF FailVisited, RelayInv, RelayTypes, Reachable, SessionOrNone
<1>3. CASE ResetPending(s)
  <2>1. sess' \in [Sessions -> Session] /\ \A t \in Sessions : sess'[t].cleanup = "no" => sess[t].cleanup = "no"
    BY <1>3 DEF ResetPending, RelayInv, RelayTypes, Session
  <2> QED BY <1>3, <2>1 DEF ResetPending, RelayInv, RelayTypes, Reachable, SessionOrNone
<1>4. CASE SessionClosed(s)
  <2>1. sess' \in [Sessions -> Session] /\ \A t \in Sessions : sess'[t].cleanup = "no" => sess[t].cleanup = "no" /\ t # s
    BY <1>4 DEF SessionClosed, RelayInv, RelayTypes, Session
  <2> QED BY <1>4, <2>1 DEF SessionClosed, RelayInv, RelayTypes, Reachable, SessionOrNone
<1> QED BY <1>1, <1>2, <1>3, <1>4

\* Neither the table nor a cleanup changes.
LEMMA ReachableKept ==
  ASSUME RelayInv, RelayTypes', UNCHANGED <<table, latest>>,
         \A s \in Sessions : sess'[s].cleanup = sess[s].cleanup
  PROVE  RelayInv'
  BY DEF RelayInv, RelayTypes, Reachable, SessionOrNone

\* The read loop.
LEMMA DispatchKeeps ==
  ASSUME RelayInv, NEW s \in Sessions, ReadMessage(s) \/ Deliver(s) \/ Settle(s)
  PROVE  RelayInv'
<1>1. CASE ReadMessage(s)
  <2>0. PICK r \in Requests : \E a \in RelayAnswers(r) :
          /\ peer' = [peer EXCEPT ![r] = [pc |-> a.pc, chunks |-> a.chunks]]
          /\ disp' = [disp EXCEPT ![s] = IF r \in pending[s] THEN [pc |-> "loaded", req |-> r, type |-> a.type] ELSE Idle]
    BY <1>1 DEF ReadMessage
  <2>1. PICK a \in RelayAnswers(r) :
          /\ peer' = [peer EXCEPT ![r] = [pc |-> a.pc, chunks |-> a.chunks]]
          /\ disp' = [disp EXCEPT ![s] = IF r \in pending[s] THEN [pc |-> "loaded", req |-> r, type |-> a.type] ELSE Idle]
    BY <2>0
  <2>2. a.pc \in {"streaming", "answered"} /\ a.chunks \in 0..MaxChunks /\ a.type \in Messages
    <3>1. peer[r].chunks \in 0..MaxChunks /\ MaxChunks \in Nat
      BY RelayAssumption DEF RelayInv, RelayTypes, Peer, RelayAssumption
    <3>2. CASE peer[r].pc = "asked"
      BY <3>1, <3>2, <2>1 DEF RelayAnswers, Messages
    <3>3. CASE peer[r].pc = "streaming"
      BY <3>1, <3>3, <2>1 DEF RelayAnswers, Messages
    <3>4. CASE peer[r].pc \notin {"asked", "streaming"}
      BY <3>4, <2>1 DEF RelayAnswers
    <3> QED BY <3>2, <3>3, <3>4
  <2>3. peer' \in [Requests -> Peer]
    BY <2>1, <2>2 DEF RelayInv, RelayTypes, Peer
  <2>4. disp' \in [Sessions -> Dispatch] /\ \A t \in Sessions : disp'[t].pc # "reading" => disp'[t].req # None /\ disp'[t].type # "none"
    <3> DEFINE n == IF r \in pending[s] THEN [pc |-> "loaded", req |-> r, type |-> a.type] ELSE Idle
    <3>1. n \in Dispatch /\ (n.pc # "reading" => n.req # None /\ n.type # "none")
      <4>1. CASE r \in pending[s]
        <5>1. n = [pc |-> "loaded", req |-> r, type |-> a.type] /\ r # None /\ a.type # "none"
          BY <2>2, <4>1, RelayAssumption DEF RelayAssumption, Messages
        <5> QED BY <2>2, <5>1 DEF Dispatch, RequestOrNone
      <4>2. CASE r \notin pending[s]
        <5>1. n = Idle
          BY <4>2
        <5> QED BY <5>1 DEF Dispatch, RequestOrNone, Idle
      <4> QED BY <4>1, <4>2
    <3>2. disp' = [disp EXCEPT ![s] = n]
      BY <2>1
    <3> HIDE DEF n
    <3> QED BY <3>1, <3>2 DEF RelayInv, RelayTypes
  <2>5. RelayTypes'
    BY <1>1, <2>3, <2>4 DEF ReadMessage, RelayInv, RelayTypes
  <2> QED BY <1>1, <2>5, ReachableKept DEF ReadMessage
<1>2. CASE Deliver(s)
  <2> DEFINE r == disp[s].req
             c == IF chan[r].closed THEN chan[r] ELSE Offer(chan[r], disp[s].type)
  <2>1. r \in Requests
    BY <1>2 DEF Deliver, RelayInv, RelayTypes, Dispatch, RequestOrNone
  <2>2. disp' \in [Sessions -> Dispatch] /\ \A t \in Sessions : disp'[t].pc # "reading" => disp'[t].req # None /\ disp'[t].type # "none"
    BY <1>2 DEF Deliver, RelayInv, RelayTypes, Dispatch, Idle, RequestOrNone
  <2>3. disp[s].type \in Messages
    BY <1>2 DEF Deliver, RelayInv, RelayTypes, Dispatch
  <2>4. c \in Channel /\ Len(c.queue) <= Buffer
    BY <2>1, <2>3, OfferTyped DEF RelayInv, RelayTypes
  <2>5. chan' = [chan EXCEPT ![r] = c]
    BY <1>2 DEF Deliver
  <2> HIDE DEF c, r
  <2>6. chan' \in [Requests -> Channel] /\ \A q \in Requests : Len(chan'[q].queue) <= Buffer
    BY <2>1, <2>4, <2>5 DEF RelayInv, RelayTypes
  <2>7. RelayTypes'
    BY <1>2, <2>2, <2>6 DEF Deliver, RelayInv, RelayTypes
  <2> QED BY <1>2, <2>7, ReachableKept DEF Deliver
<1>3. CASE Settle(s)
  <2>1. disp[s].req \in Requests
    BY <1>3 DEF Settle, RelayInv, RelayTypes, Dispatch, RequestOrNone
  <2>2. disp' \in [Sessions -> Dispatch] /\ \A t \in Sessions : disp'[t].pc # "reading" => disp'[t].req # None /\ disp'[t].type # "none"
    BY <1>3 DEF Settle, RelayInv, RelayTypes, Dispatch, Idle, RequestOrNone
  <2>3. RelayTypes'
    BY <1>3, <2>1, <2>2, ForgetTyped DEF Settle, RelayInv, RelayTypes
  <2> QED BY <1>3, <2>3, ReachableKept DEF Settle
<1> QED BY <1>1, <1>2, <1>3

\* Callers, and what they leave behind.
LEMMA CallKeeps ==
  ASSUME RelayInv, NEW r \in Requests, Send(r) \/ CallStep(r) \/ Cancel(r) \/ Watch(r)
  PROVE  RelayInv'
<1> DEFINE Calls == call' \in [Requests -> Call]
                    /\ \A q \in Requests : HasSession(call'[q])
<1>0. call[r] \in Call /\ HasSession(call[r])
  BY DEF RelayInv, RelayTypes
<1>e. ASSUME NEW o \in {"answered", "failed", "cancelled"}, call' = Ended(r, o) PROVE Calls
  <2> DEFINE n == [call[r] EXCEPT !.pc = "ended", !.outcome = o]
  <2>1. n \in Call /\ HasSession(n)
    BY <1>0 DEF Call, HasSession
  <2>2. call' = [call EXCEPT ![r] = n]
    BY <1>e DEF Ended
  <2> HIDE DEF n
  <2> QED BY <2>1, <2>2, CallUpdate
<1>1. CASE Send(r)
  <2>1. Calls
    <3>1. PICK k \in Kinds : call' = IF table = None THEN Ended(r, "failed")
               ELSE [call EXCEPT ![r] = [@ EXCEPT !.pc = "storing", !.sess = table, !.kind = k]]
      BY <1>1 DEF Send
    <3> DEFINE n == [call[r] EXCEPT !.pc = "storing", !.sess = table, !.kind = k]
    <3>2. CASE table = None
      BY <1>e, <3>1, <3>2
    <3>3. CASE table # None
      <4>1. n \in Call /\ HasSession(n)
        BY <1>0, <3>3 DEF Call, HasSession, RelayInv, RelayTypes
      <4>2. call' = [call EXCEPT ![r] = n]
        BY <3>1, <3>3
      <4> HIDE DEF n
      <4> QED BY <4>1, <4>2, CallUpdate
    <3> QED BY <3>2, <3>3
  <2>2. RelayTypes'
    BY <1>1, <2>1 DEF Send, RelayInv, RelayTypes
  <2> QED BY <1>1, <2>2, ReachableKept DEF Send
<1>2. CASE Store(r)
  <2>1. Calls
    <3> DEFINE n == [call[r] EXCEPT !.pc = "loading"]
    <3>1. n \in Call /\ HasSession(n)
      BY <1>0, <1>2 DEF Store, Call, HasSession
    <3>2. call' = [call EXCEPT ![r] = n]
      BY <1>2 DEF Store
    <3> HIDE DEF n
    <3> QED BY <3>1, <3>2, CallUpdate
  <2>2. call[r].sess \in Sessions
    BY <1>2 DEF Store, HasSession, RelayInv, RelayTypes, Call, SessionOrNone
  <2>3. pending' \in [Sessions -> SUBSET Requests]
    BY <1>2, <2>2 DEF Store, RelayInv, RelayTypes
  <2>4. sess' \in [Sessions -> Session] /\ \A t \in Sessions : sess'[t].cleanup = sess[t].cleanup
    <3> DEFINE n == [sess[call[r].sess] EXCEPT !.left = @ \cup {r}]
    <3>1. sess[call[r].sess] \in Session /\ sess[call[r].sess].left \cup {r} \in SUBSET Requests
      BY <2>2 DEF RelayInv, RelayTypes, Session
    <3>2. n \in Session /\ n.cleanup = sess[call[r].sess].cleanup
      BY <3>1 DEF Session
    <3>3. sess' = sess \/ sess' = [sess EXCEPT ![call[r].sess] = n]
      BY <1>2 DEF Store
    <3> HIDE DEF n
    <3>4. CASE sess' = sess
      BY <3>4 DEF RelayInv, RelayTypes
    <3> QED BY <2>2, <3>2, <3>3, <3>4, SessionUpdate
  <2>5. RelayTypes'
    BY <1>2, <2>1, <2>3, <2>4 DEF Store, RelayInv, RelayTypes
  <2> QED BY <1>2, <2>4, <2>5, ReachableKept DEF Store
<1>3. CASE Load(r)
  <2>1. Calls
    <3> DEFINE n == [call[r] EXCEPT !.pc = "sending"]
    <3>1. n \in Call /\ HasSession(n)
      BY <1>0, <1>3 DEF Load, Call, HasSession
    <3>2. call' = [call EXCEPT ![r] = n]
      BY <1>3 DEF Load
    <3> HIDE DEF n
    <3> QED BY <3>1, <3>2, CallUpdate
  <2>2. RelayTypes'
    BY <1>3, <2>1 DEF Load, RelayInv, RelayTypes
  <2> QED BY <1>3, <2>2, ReachableKept DEF Load
<1>4. CASE Write(r)
  <2>1. Calls
    <3> DEFINE n == [call[r] EXCEPT !.pc = "waiting", !.watched = TRUE]
    <3>1. n \in Call /\ HasSession(n)
      BY <1>0, <1>4 DEF Write, Call, HasSession
    <3>2. call' = [call EXCEPT ![r] = n] \/ call' = Ended(r, "failed")
      BY <1>4 DEF Write
    <3> HIDE DEF n
    <3> QED BY <1>e, <3>1, <3>2, CallUpdate
  <2>2. call[r].sess \in Sessions
    BY <1>4 DEF Write, HasSession, RelayInv, RelayTypes, Call, SessionOrNone
  <2>3. peer' \in [Requests -> Peer]
    BY <1>4 DEF Write, RelayInv, RelayTypes, Peer
  <2>4. /\ pending' \in [Sessions -> SUBSET Requests]
        /\ chan' \in [Requests -> Channel] /\ \A q \in Requests : Len(chan'[q].queue) <= Buffer
    BY <1>4, <2>2, ForgetTyped DEF Write, RelayInv, RelayTypes
  <2>5. RelayTypes'
    BY <1>4, <2>1, <2>3, <2>4 DEF Write, RelayInv, RelayTypes
  <2> QED BY <1>4, <2>5, ReachableKept DEF Write
<1>5. CASE Take(r)
  <2>1. Calls
    <3> DEFINE n(g) == [call[r] EXCEPT !.streaming = TRUE, !.got = g]
    <3>1. call[r].got + 1 \in Nat /\ 0 \in Nat
      BY <1>0 DEF Call
    <3>2. \A g \in Nat : n(g) \in Call /\ HasSession(n(g))
      BY <1>0 DEF Call, HasSession
    <3>3. \/ \E g \in {0, call[r].got + 1} : call' = [call EXCEPT ![r] = n(g)]
          \/ \E o \in {"answered", "failed"} : call' = Ended(r, o)
      <4> DEFINE m == Head(chan[r].queue)
      <4>1. CASE m = "start"
        BY <1>5, <4>1 DEF Take
      <4>2. CASE m = "chunk"
        BY <1>5, <4>2 DEF Take
      <4>3. CASE m \notin {"start", "chunk"}
        BY <1>5, <4>3 DEF Take
      <4> QED BY <4>1, <4>2, <4>3
    <3> HIDE DEF n
    <3> QED BY <1>e, <3>1, <3>2, <3>3, CallUpdate
  <2>2. chan[r].queue \in Seq(Messages) /\ chan[r].queue # <<>> /\ Len(chan[r].queue) <= Buffer
    BY <1>5 DEF Take, RelayInv, RelayTypes, Channel
  <2>3. Tail(chan[r].queue) \in Seq(Messages) /\ Len(Tail(chan[r].queue)) <= Buffer
    BY <2>2, RelayAssumption, HeadTailProperties DEF RelayAssumption
  <2>4. chan' = [chan EXCEPT ![r].queue = Tail(chan[r].queue)]
    BY <1>5 DEF Take
  <2>5. chan' \in [Requests -> Channel] /\ \A q \in Requests : Len(chan'[q].queue) <= Buffer
    BY <2>3, <2>4 DEF RelayInv, RelayTypes, Channel
  <2>6. RelayTypes'
    BY <1>5, <2>1, <2>5 DEF Take, RelayInv, RelayTypes
  <2> QED BY <1>5, <2>6, ReachableKept DEF Take
<1>6. CASE TakeClosure(r)
  <2>1. Calls
    BY <1>6, <1>e DEF TakeClosure
  <2>2. RelayTypes'
    BY <1>6, <2>1 DEF TakeClosure, RelayInv, RelayTypes
  <2> QED BY <1>6, <2>2, ReachableKept DEF TakeClosure
<1>7. CASE ReturnCancelled(r)
  <2>1. Calls
    BY <1>7, <1>e DEF ReturnCancelled
  <2>2. RelayTypes'
    BY <1>7, <2>1 DEF ReturnCancelled, RelayInv, RelayTypes
  <2> QED BY <1>7, <2>2, ReachableKept DEF ReturnCancelled
<1>8. CASE Cancel(r)
  <2>1. Calls
    <3> DEFINE n == [call[r] EXCEPT !.cancelled = TRUE]
    <3>1. n \in Call /\ HasSession(n)
      BY <1>0, <1>8 DEF Cancel, Call, HasSession
    <3>2. call' = [call EXCEPT ![r] = n]
      BY <1>8 DEF Cancel
    <3> HIDE DEF n
    <3> QED BY <3>1, <3>2, CallUpdate
  <2>2. RelayTypes'
    BY <1>8, <2>1 DEF Cancel, RelayInv, RelayTypes
  <2> QED BY <1>8, <2>2, ReachableKept DEF Cancel
<1>9. CASE Watch(r)
  <2>1. Calls
    <3> DEFINE n == [call[r] EXCEPT !.watched = FALSE]
    <3>1. n \in Call /\ HasSession(n)
      BY <1>0, <1>9 DEF Watch, Call, HasSession
    <3>2. call' = [call EXCEPT ![r] = n]
      BY <1>9 DEF Watch
    <3> HIDE DEF n
    <3> QED BY <3>1, <3>2, CallUpdate
  <2>2. call[r].sess \in Sessions
    BY <1>9 DEF Watch, HasSession, RelayInv, RelayTypes, Call, SessionOrNone
  <2>3. /\ pending' \in [Sessions -> SUBSET Requests]
        /\ chan' \in [Requests -> Channel] /\ \A q \in Requests : Len(chan'[q].queue) <= Buffer
    BY <1>9, <2>2, ForgetTyped DEF Watch, RelayInv, RelayTypes
  <2>4. RelayTypes'
    BY <1>9, <2>1, <2>3 DEF Watch, RelayInv, RelayTypes
  <2> QED BY <1>9, <2>4, ReachableKept DEF Watch
<1> QED BY <1>1, <1>2, <1>3, <1>4, <1>5, <1>6, <1>7, <1>8, <1>9 DEF CallStep

LEMMA RelayKeeps == RelayInv /\ [RelayNext]_relayVars => RelayInv'
<1> SUFFICES ASSUME RelayInv, [RelayNext]_relayVars PROVE RelayInv'
  OBVIOUS
<1>1. ASSUME NEW s \in Sessions, Connect(s) \/ Lose(s) \/ ReadMessage(s) \/ SessionStep(s) \/ DispatchStep(s)
      PROVE  RelayInv'
  BY <1>1, ConnectionStep, CleanupStep, DispatchKeeps DEF SessionStep, DispatchStep
<1>2. ASSUME NEW r \in Requests, Send(r) \/ CallStep(r) \/ Cancel(r) \/ Watch(r) PROVE RelayInv'
  BY <1>2, CallKeeps
<1>3. CASE Stop
  <2>1. CASE \E s \in Sessions : TRUE
    BY <1>3, <2>1, ConnectionStep
  <2>2. CASE Sessions = {}
    BY <1>3, <2>2 DEF Stop, BeginCleanup, RelayInv, RelayTypes, Reachable, SessionOrNone
  <2> QED BY <2>1, <2>2
<1>4. CASE UNCHANGED relayVars
  BY <1>4, ReachableKept DEF relayVars, RelayInv, RelayTypes
<1> QED BY <1>1, <1>2, <1>3, <1>4 DEF RelayNext

\* The session that connected last can be reached through the table as long as
\* it is up, whatever the clean-ups of the sessions it replaced do
\* (handleWebsocket, handleSessionClosed, Stop). With the types of the variables.
THEOREM LatestAlwaysReachable == RelaySpec => []LatestReachable
<1>1. RelayInv => LatestReachable
  BY DEF RelayInv, Reachable, LatestReachable, RelayTypes, TypeOK, Session, Dispatch, Call, Peer, SessionOrNone
<1> QED BY <1>1, RelayBegins, RelayKeeps, PTL DEF RelaySpec

=============================================================================

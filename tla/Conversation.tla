---------------------------- MODULE Conversation ----------------------------
(***************************************************************************)
(* A conversation of a client with one upstream model through the proxy.    *)
(* The client keeps the history and sends all of it with every request; the *)
(* proxy keeps nothing, so whatever the model is shown is what              *)
(* prepareAdapter (upstream.go) makes of that history, and what Forward's   *)
(* corrections make of it after a refusal.  The client runs the tools it is *)
(* asked for, in any order, and may drop the oldest part of its history.    *)
(***************************************************************************)
EXTENDS ToolNames, ChatRequest, FiniteSets

CONSTANTS
  Models,      \* the models: [route : {"messages", "chat"}, images : BOOLEAN]
  Tops,        \* the tool lists a client may send outside its input
  Groups,      \* the tool lists a carrier item may hold
  Images,      \* what may come with a text: "none", "inline", "remote"
  MaxItems,    \* bound on the history
  MaxChoosing, \* bound on the histories sent with a tool_choice
  Bridge       \* BRIDGE_IMAGEGEN_ENABLED

Tools == [ns : Seq(STRING), name : Seq(STRING), custom : BOOLEAN]

\* A list outside the input has every name once, as any upstream demands.
ASSUME ConversationAssumption ==
  /\ \A m \in Models : m.route \in {"messages", "chat"} /\ m.images \in BOOLEAN
  /\ Images \subseteq {"none", "inline", "remote"} /\ "none" \in Images
  /\ MaxItems \in Nat \ {0} /\ MaxChoosing \in Nat /\ Bridge \in BOOLEAN
  /\ Groups \subseteq Seq(Tools) /\ Tops \subseteq Seq(Tools)
  /\ \A tools \in Tops : /\ \A i \in DOMAIN tools : tools[i].ns = <<>>
                         /\ IsInjective([i \in DOMAIN tools |-> tools[i].name])

VARIABLES
  model,       \* the model the client talks to
  top,         \* the client's tools outside the input
  history,     \* the client's items, oldest first
  phase,       \* "client", "upstream", "refused": whose turn it is
  ctx,         \* the request's tools and their restore table
  body,        \* the request as the upstream has it
  corrected    \* imageRetried and thinkingRetried

request == <<ctx, body, corrected>>
vars == <<model, top, history, phase, request>>

NoTools == [tools |-> <<>>, restore |-> {}, choice |-> [kind |-> "auto"]]
NoBody  == [system |-> <<>>, messages |-> <<>>, tools |-> <<>>,
            choice |-> [kind |-> "unset"], omit |-> FALSE, budget |-> FALSE,
            bridge |-> FALSE]

\* What the client may say about the use of tools; in a long history, nothing.
ToolChoices ==
  {[kind |-> "auto"]} \cup
    (IF Len(history) > MaxChoosing THEN {}
     ELSE {[kind |-> k] : k \in {"none", "namespace"}}
            \cup {[kind |-> "tool", tool |-> t] :
                     t \in ToSet(top) \cup ToSet(collectCarriedTools(history))})

-----------------------------------------------------------------------------
(* The client's items *)

UserItem(n, image)   == [kind |-> "user", of |-> n, image |-> image]
SystemItem(n, str)   == [kind |-> "system", of |-> n, string |-> str]
CarrierItem(tools)   == [kind |-> "carrier", of |-> 0, tools |-> tools]
ReasoningItem(n)     == [kind |-> "reasoning", of |-> n]
AssistantItem(n)     == [kind |-> "assistant", of |-> n]
ResultItem(n, image) == [kind |-> "result", of |-> n, image |-> image]

\* tool: what the client was told to run; meant (history): what the model called.
CallItem(n, tool, meant) == [kind |-> "call", of |-> n, tool |-> tool, meant |-> meant]

\* Stamps that no item has, smallest first.
Stamps(h) == {h[i].of : i \in DOMAIN h}
Fresh(h, k) == CHOOSE n \in 1 .. MaxItems + 4 :
                 n \notin Stamps(h) /\ Cardinality((1 .. n) \ Stamps(h)) = k

\* The calls that may still be answered: those after the last user item.
OpenCalls ==
  LET users == {i \in DOMAIN history : history[i].kind = "user"}
      from  == IF users = {} THEN 0 ELSE Max(users)
      answered == {history[i].of : i \in {j \in DOMAIN history : history[j].kind = "result"}}
  IN  {i \in DOMAIN history : i > from /\ history[i].kind = "call"
                                       /\ history[i].of \notin answered}

MaxCalls == Min({2, MaxItems - Len(history)})   \* bound on the calls of a reply

Room(n) == Len(history) + n <= MaxItems

Adds(items) ==
  /\ phase # "upstream" /\ Room(Len(items))
  /\ history' = history \o items /\ phase' = "client"
  /\ UNCHANGED <<model, top, request>>

UserSays == \E image \in Images : Adds(<<UserItem(Fresh(history, 1), image)>>)

SystemSays == \E string \in BOOLEAN :
  history = <<>> /\ Adds(<<SystemItem(Fresh(history, 1), string)>>)

Declare == \E tools \in Groups : Adds(<<CarrierItem(tools)>>)

\* A tool ends; those of one reply end in any order.
ToolDone == \E i \in OpenCalls, image \in Images \ {"remote"} :
  Adds(<<ResultItem(history[i].of, image)>>)

\* A full history loses its oldest item: a call perhaps without its result, a
\* declaration perhaps before the calls that it allowed.
Trim ==
  /\ phase # "upstream" /\ Len(history) = MaxItems
  /\ history' = Tail(history) /\ phase' = "client"
  /\ UNCHANGED <<model, top, request>>

-----------------------------------------------------------------------------
(* The proxy: prepareAdapter, the bridge's injection, the corrections *)

Convert(input, opts) ==
  IF model.route = "messages" THEN responsesToMessagesRequest(input, opts)
  ELSE responsesToChatRequest(input, opts)

\* The converted request; bridge: its tool and instructions are put in too.
Adapted(c, opts, bridge) ==
  LET made    == Convert(applyCodexToolContext(c, history), opts)
      choice  == neutralizeNamespaceToolChoice(c, history, c.choice)
      toolbox == applyToolChoice(c.tools, choice)
  IN  [NoBody EXCEPT !.system = made.system, !.messages = made.messages,
                     !.tools = toolbox.tools, !.choice = toolbox.choice,
                     !.omit = opts.omit, !.bridge = bridge]

FirstTry == [images |-> model.images, omit |-> FALSE]
NoImages == [images |-> FALSE, omit |-> TRUE]

\* A client asks when every call is answered or was cut off by the user.
Asks(accepted, c, b) ==
  /\ phase # "upstream" /\ OpenCalls = {}
  /\ history # <<>> /\ history[Len(history)].kind \in {"user", "result"}
  /\ phase' = IF accepted THEN "upstream" ELSE "refused"
  /\ ctx' = c /\ body' = b /\ corrected' = {}
  /\ UNCHANGED <<model, top, history>>

Unsendable(c) ==
  \/ c.clash
  \/ model.route = "messages"
       /\ MessagesRefuses(applyCodexToolContext(c, history), FirstTry)

Ask == \E choice \in ToolChoices :
  LET c == buildCodexToolContext(top, history)
      q == [tools |-> c.tools, restore |-> c.restore, choice |-> choice]
  IN  ~Unsendable(c) /\ Asks(TRUE, q, Adapted(q, FirstTry, Bridge))

AskInVain ==
  Unsendable(buildCodexToolContext(top, history)) /\ Asks(FALSE, NoTools, NoBody)

\* requestHasImages looks at what was said, not at what tools returned.
requestHasImages ==
  \E i \in DOMAIN history : history[i].kind = "user" /\ history[i].image # "none"

\* Mutant of Closes: the request lives on after its end.
ClosesLate == phase' = "client" /\ UNCHANGED <<model, top, request>>

Closes == phase' = "client" /\ ctx' = NoTools /\ body' = NoBody /\ corrected' = {}
          /\ UNCHANGED <<model, top>>

\* The whole request is made anew from what the client sent: what was put into
\* the first one since, the bridge's tool and a raised budget, is not.
ImageRefused ==
  /\ phase = "upstream" /\ "image" \notin corrected /\ requestHasImages
  /\ body' = Adapted(ctx, NoImages, FALSE)
  /\ corrected' = corrected \cup {"image"}
  /\ UNCHANGED <<model, top, history, phase, ctx>>

\* thinking_budget: the request in hand is changed.  A converted request holds
\* no thinking, so that a complaint about signatures changes nothing.
BudgetRefused ==
  /\ phase = "upstream" /\ "thinking" \notin corrected
  /\ body' = [body EXCEPT !.budget = TRUE]
  /\ corrected' = corrected \cup {"thinking"}
  /\ UNCHANGED <<model, top, history, phase, ctx>>

\* Any other error, or one of those a second time, goes to the client.
Fails == phase = "upstream" /\ Closes /\ UNCHANGED history

-----------------------------------------------------------------------------
(* The reply *)

\* The calls of a reply come back as the client knows its tools.
Called(t, n) == CallItem(n, restoreNamespaceNames(ctx, flattenNamespaceToolName(t)), t)

\* The items in the order they are done.  A Messages reply has its text last, when
\* it is streamed too: message_stop closes the text, the end of its block a call;
\* its thinking never reaches the client.
OutputItems(streamed, thought, calls, said) ==
  CASE model.route = "messages" -> convertOutputItems(thought, calls, said)
    [] model.route = "chat" /\ streamed -> thought \o said \o calls
    [] OTHER -> chatCompletionToResponsesBody(thought, calls, said)

\* Without text and calls, a streamed Chat reply is reported as failed, and a
\* Messages reply leaves no item or a message without content, which
\* convertMessageItem passes over: the history is then as after Fails.  A whole
\* Chat reply may be reasoning alone.
Reply ==
  /\ phase = "upstream" /\ Room(1)
  /\ \E streamed, thinks, speaks \in BOOLEAN, used \in SeqOf(ToSet(body.tools), MaxCalls) :
       LET thought == IF thinks THEN <<ReasoningItem(Fresh(history, 1))>> ELSE <<>>
           said    == IF speaks THEN <<AssistantItem(Fresh(history, 2))>> ELSE <<>>
           calls   == [k \in DOMAIN used |-> Called(used[k], Fresh(history, 2 + k))]
           items   == OutputItems(streamed, thought, calls, said)
       IN  /\ calls \o said # <<>> \/ (items # <<>> /\ ~streamed)
           /\ Room(Len(items))
           /\ history' = history \o items
  /\ Closes

Init ==
  /\ model \in Models /\ top \in Tops
  /\ history = <<>> /\ phase = "client"
  /\ ctx = NoTools /\ body = NoBody /\ corrected = {}

Client == UserSays \/ SystemSays \/ Declare \/ ToolDone \/ Trim \/ Ask \/ AskInVain
Upstream == ImageRefused \/ BudgetRefused \/ Fails \/ Reply
Next == Client \/ Upstream

Spec == Init /\ [][Next]_vars

-----------------------------------------------------------------------------
(* What the model is shown, as a list of what was said, called and answered *)

Shown(type, n) == [type |-> type, of |-> n]

\* The history, as it should be shown.
History ==
  FlattenSeq([i \in DOMAIN history |->
    LET item == history[i] IN
    CASE item.kind \in {"user", "assistant"} -> <<Shown("text", item.of)>>
      [] item.kind = "call"   -> <<Shown("tool_use", item.of)>>
      [] item.kind = "result" ->
           <<Shown(IF item.of \in PairedToolCallIDs(history) THEN "tool_result" ELSE "text",
                   item.of)>>
      [] OTHER -> <<>>])

MessagesView(m) ==
  LET spoken == Only(m.content, LAMBDA b : b.type \in {"text", "tool_use", "tool_result"})
  IN  [k \in DOMAIN spoken |-> Shown(spoken[k].type, spoken[k].of)]

ChatView(m) ==
  LET spoken == Only(m.content, LAMBDA b : b.type = "text")
      type   == IF m.role = "tool" THEN "tool_result" ELSE "text"
  IN  [k \in DOMAIN spoken |-> Shown(type, spoken[k].of)]
        \o [k \in DOMAIN m.calls |-> Shown("tool_use", m.calls[k].of)]

Request ==
  FlattenSeq([i \in DOMAIN body.messages |->
    IF model.route = "messages" THEN MessagesView(body.messages[i])
    ELSE ChatView(body.messages[i])])

\* The name each past call is shown under.
ShownNames ==
  IF model.route = "messages"
  THEN {[of |-> b.of, name |-> b.name] : b \in
          {c \in UNION {ToSet(body.messages[i].content) : i \in DOMAIN body.messages} :
             c.type = "tool_use"}}
  ELSE UNION {ToSet(body.messages[i].calls) : i \in DOMAIN body.messages}

\* The pictures in the request, those inside results included.
ShownPictures ==
  LET blocks == UNION {ToSet(body.messages[i].content) : i \in DOMAIN body.messages}
      inner  == UNION {ToSet(b.inner) : b \in {c \in blocks : c.type = "tool_result"}}
  IN  {b.of : b \in {c \in blocks \cup inner : c.type = "image"}}

\* A text directly before a result: how a whole Chat reply with a text and a
\* call is kept, the call first.  A later call then joins that text.
TextBeforeResult ==
  LET items == Only(history, LAMBDA i : i.kind \in {"user", "assistant", "call", "result"})
  IN  \E i \in 1 .. Len(items) - 1 : items[i].kind = "assistant" /\ items[i + 1].kind = "result"

Sent == phase = "upstream"
Ordered == model.route = "messages" \/ ~TextBeforeResult

-----------------------------------------------------------------------------
(* Properties *)

TypeOK ==
  /\ model \in Models /\ top \in Tops
  /\ phase \in {"client", "upstream", "refused"}
  /\ Len(history) <= MaxItems
  /\ \A i, j \in DOMAIN history :
       i # j /\ history[i].of = history[j].of /\ history[i].kind # "carrier" =>
         {history[i].kind, history[j].kind} = {"call", "result"}
  /\ corrected \subseteq {"image", "thinking"}
  /\ phase # "upstream" => body = NoBody

\* The last item's picture is shown to a model that takes pictures (but for a
\* Messages result without its call, written out as text), and none is shown to
\* a model that cannot or that has refused one.
PicturesFit ==
  LET last  == history[Len(history)]
      stray == last.kind = "result" /\ last.of \notin PairedToolCallIDs(history)
  IN  IF model.images /\ ~body.omit
      THEN last.image # "none" /\ ~(model.route = "messages" /\ stray)
             => last.of \in ShownPictures
      ELSE ShownPictures = {}

\* Whatever was said, called and answered reaches the model once, on the first
\* try and on every retry, all but the results in the order of the history, and
\* with the pictures that fit (inputToMessages, inputToChatMessages,
\* rewriteBodyOmitImages).
FaithfulTranscript ==
  Sent =>
    LET Rest(s) == Only(s, LAMBDA e : e.type # "tool_result")
    IN  /\ ToSet(Request) = ToSet(History) /\ Len(Request) = Len(History)
        /\ Ordered => Rest(Request) = Rest(History)
        /\ PicturesFit

\* Message k shows what tool n returned: it is the tool's own, or the user message
\* the proxy makes up for its picture, right behind the tool's, or for a result
\* whose call is lost (toolOutputToChatMessages).
Returned(m, k, n) ==
  /\ m[k].content # <<>> /\ m[k].content[1].of = n
  /\ \/ m[k].role = "tool"
     \/ m[k].content = <<Picture(n)>> /\ m[k - 1].answers = n
     \/ n \notin PairedToolCallIDs(history)

\* A Messages result stands right after its call.  A Chat result stands after the
\* message that calls it, and in between nobody speaks, neither the user nor the
\* model: there are only other tools' answers and the user messages that the proxy
\* makes up for results, for their pictures even before the last call is answered
\* (normalizeToolResultOrder, flushPendingToolCalls, toolOutputToChatMessages).
ResultsFollowCalls ==
  Sent =>
    LET m == body.messages
        results == {history[i].of : i \in {j \in DOMAIN history : history[j].kind = "result"}}
    IN  IF model.route = "messages"
        THEN \A i \in DOMAIN m : IsResult(m[i]) =>
               i > 1 /\ m[i - 1].content[1].type = "tool_use"
                     /\ m[i - 1].content[1].of = m[i].content[1].of
        ELSE ~TextBeforeResult => \A i \in DOMAIN m : m[i].role = "tool" =>
               \E j \in 1 .. i - 1 :
                 /\ \E c \in ToSet(m[j].calls) : c.of = m[i].answers
                 /\ \A k \in j + 1 .. i - 1 : \E n \in results : Returned(m, k, n)

\* One name for one tool, across the turns and the retries: the client is told
\* to run what the model meant; no two offered tools share a name, and under the
\* name of every declared tool one is offered, the one the client insists on
\* included; a past call is shown under the name its tool now has
\* (restoreNamespaceNames, buildCodexToolContext, rewriteInputNamespaceCalls).
OneName ==
  LET Name(t)  == flattenNamespaceToolName(t)
      offered  == {Name(body.tools[k]) : k \in DOMAIN body.tools}
      declared == ToSet(top) \cup ToSet(collectCarriedTools(history))
  IN  /\ \A i \in DOMAIN history : history[i].kind = "call" => history[i].tool = history[i].meant
      /\ Sent /\ ctx.choice.kind # "none" =>
           /\ Cardinality(offered) = Len(body.tools)
           /\ \A t \in declared : Name(t) \in offered
           /\ ctx.choice.kind = "tool" => /\ body.choice.tool.ns = <<>>
                                         /\ body.choice.tool.name \in offered
      /\ Sent => \A t \in ToSet(body.tools), s \in ShownNames :
           (\E i \in DOMAIN history : /\ history[i].kind = "call" /\ history[i].of = s.of
                                      /\ SameIdentity(history[i].meant, t))
             => s.name = Name(t)

\* Reasoning is shown in the turn it belongs to, never past something the user
\* said, and in one place (attachReasoningToPreviousAssistant).
ReasoningInTurn ==
  Sent /\ model.route = "chat" =>
    LET users == {history[i].of : i \in {j \in DOMAIN history : history[j].kind = "user"}}
        Turn(i) == Cardinality({j \in 1 .. i - 1 : history[j].kind = "user"})
        m == body.messages
        TurnOf(i) == Cardinality({j \in 1 .. i - 1 : m[j].content # <<>> /\ m[j].content[1].of \in users})
    IN  \A i \in DOMAIN m, n \in DOMAIN history :
          history[n].kind = "reasoning" /\ Contains(m[i].reasoning, history[n].of) =>
            /\ Turn(n) = TurnOf(i)
            /\ \A j \in DOMAIN m \ {i} : ~Contains(m[j].reasoning, history[n].of)
=============================================================================

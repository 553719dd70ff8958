----------------------------- MODULE AgentTurn ------------------------------
(***************************************************************************)
(* What a tab shows of a turn of an agent: as it is streamed               *)
(* (src/ui/src/utils/agent-stream.js), and as it is loaded once the        *)
(* gateway has saved it, both grouped by                                   *)
(* src/ui/src/utils/session-msg-group.js.  The gateway is external: a turn *)
(* is one message after the other, each of thoughts, at most one text and  *)
(* the calls of tools, whose results come before the next message; a text  *)
(* and a thought are streamed as they grow.  No event is lost here.        *)
(***************************************************************************)
EXTENDS Naturals, Sequences, SequencesExt

CONSTANTS
    MaxMessage,          \* bound: messages of the agent in the turn
    MaxBlock,            \* bound: thoughts and texts of a message
    MaxCall              \* bound: tools called by a message

VARIABLES
    shown,               \* the entries of the tab
    saved,               \* the entries of the transcript
    msg                  \* the message the agent is at

vars == <<shown, saved, msg>>

\* grown: "part", "full", or "silent": the text is NO_REPLY
Block == [kind : {"thinking", "text", "toolCall"}, of : 1..MaxMessage,
          n : 1..(MaxBlock + MaxCall), grown : {"part", "full", "silent"}]
User == [role |-> "user", content |-> <<>>, stop |-> ""]
Bot == [role |-> "assistant", content |-> <<>>, stop |-> ""]
Message(n) == [n |-> n, content |-> <<>>, calls |-> 0, started |-> 0, ended |-> {}, over |-> FALSE]
Call(n, i) == [kind |-> "toolCall", of |-> n, n |-> MaxBlock + i, grown |-> "full"]
ResultEntry(n, i) == [role |-> "toolResult", stop |-> "",
                 content |-> <<[kind |-> "toolResult", of |-> n, n |-> MaxBlock + i, grown |-> "full"]>>]

\* What a content has of some blocks, in its order
Only(content, of) == FoldLeft(LAMBDA kept, b : IF b \in of THEN Append(kept, b) ELSE kept, <<>>, content)

Assistants(entries) == {e \in ToSet(entries) : e.role = "assistant"}

TypeOK ==
    /\ \A e \in Assistants(shown) \cup Assistants(saved) : ToSet(e.content) \subseteq Block
    /\ msg.ended \subseteq 1..msg.started /\ msg.started <= msg.calls

Init ==
    /\ shown = <<User, Bot>>          \* the optimistic entries of sendMessage
    /\ saved = <<User>> /\ msg = Message(1)

-----------------------------------------------------------------------------
(* applyAgentEvent *)

\* findStreamingBotEntry
Streaming == SelectLastInSeq(shown, LAMBDA e : e.role = "assistant")
EntryGets(content, stop) ==
    shown' = [shown EXCEPT ![Streaming].content = content, ![Streaming].stop = stop]
Content == shown[Streaming].content
NonText(content) == Only(content, {b \in ToSet(content) : b.kind # "text"})

AssistantEvent(b) ==
    EntryGets(NonText(Content) \o (IF b.grown = "silent" THEN <<>> ELSE <<b>>), "stop")

ThinkingEvent(b) ==
    EntryGets(IF Content # <<>> /\ Last(Content).kind = "thinking" THEN Append(Front(Content), b)
              ELSE Append(Content, b), shown[Streaming].stop)

ToolStart(b) == EntryGets(Append(Content, b), "toolUse")

SameEntry(result) == <<result>>
AfterResult(result) == <<result, Bot>>
ToolResult(result) == shown' = shown \o AfterResult(result)

-----------------------------------------------------------------------------
(* groupSessionMessages *)

NewTask == [steps |-> <<>>, result |-> <<>>]

\* processAssistant: the texts of the last message are the result.
Final(e) == e.stop \notin {"", "toolUse"}
Hushed(task) ==
    IF Len(task.result) = 1 /\ task.result[1].grown = "silent" THEN [task EXCEPT !.result = <<>>] ELSE task
ProcessAssistant(task, e) ==
    LET texts == {b \in ToSet(e.content) : Final(e) /\ b.kind = "text"}
    IN  Hushed([steps |-> task.steps \o Only(e.content, ToSet(e.content) \ texts),
                result |-> task.result \o Only(e.content, texts)])

ProcessToolResult(task, e) == [task EXCEPT !.steps = @ \o e.content]

\* The user's messages set one task apart from the next; there is one here.
Group(entries) ==
    FoldLeft(LAMBDA task, e :
        CASE e.role = "user" -> NewTask
          [] e.role = "assistant" -> ProcessAssistant(task, e)
          [] e.role = "toolResult" -> ProcessToolResult(task, e), NewTask, entries)

-----------------------------------------------------------------------------
(* The agent *)

Partial == msg.content # <<>> /\ Last(msg.content).grown = "part"
Has(kind) == \E b \in ToSet(msg.content) : b.kind = kind
Says(b, content) ==
    /\ msg' = [msg EXCEPT !.content = content]
    /\ IF b.kind = "text" THEN AssistantEvent(b) ELSE ThinkingEvent(b)
    /\ UNCHANGED saved

Speaking == ~msg.over /\ msg.calls = 0

\* A thought or a text begins.
Begin(kind) ==
    /\ Speaking /\ ~Partial /\ Len(msg.content) < MaxBlock
    /\ IF kind = "text" THEN ~Has("text") ELSE ~(msg.content # <<>> /\ Last(msg.content).kind = "thinking")
    /\ LET b == [kind |-> kind, of |-> msg.n, n |-> Len(msg.content) + 1, grown |-> "part"]
       IN Says(b, Append(msg.content, b))

\* It has come to its end.
Grow(grown) ==
    /\ Speaking /\ Partial
    /\ grown = "silent" => Last(msg.content).kind = "text"
    /\ LET b == [Last(msg.content) EXCEPT !.grown = grown]
       IN Says(b, Append(Front(msg.content), b))

\* The message is saved, with the calls it ends in ...
CallTools(k) ==
    /\ Speaking /\ ~Partial /\ msg.n < MaxMessage
    /\ msg' = [msg EXCEPT !.calls = k]
    /\ saved' = Append(saved, [role |-> "assistant", stop |-> "toolUse",
                               content |-> msg.content \o [i \in 1..k |-> Call(msg.n, i)]])
    /\ UNCHANGED shown

\* ... or as the last one: lifecycle end.
Finish ==
    /\ Speaking /\ ~Partial
    /\ msg' = [msg EXCEPT !.over = TRUE]
    /\ saved' = Append(saved, [role |-> "assistant", stop |-> "stop", content |-> msg.content])
    /\ UNCHANGED shown

\* The tools are called in turn, one after the other or at the same time.
Start ==
    /\ msg.started < msg.calls
    /\ msg' = [msg EXCEPT !.started = @ + 1]
    /\ ToolStart(Call(msg.n, msg.started + 1))
    /\ UNCHANGED saved

End(i) ==
    /\ i \in (1..msg.started) \ msg.ended
    /\ ToolResult(ResultEntry(msg.n, i))
    /\ msg' = IF Cardinality(msg.ended) + 1 = msg.calls THEN Message(msg.n + 1)
              ELSE [msg EXCEPT !.ended = @ \cup {i}]
    /\ saved' = IF msg'.n = msg.n THEN saved ELSE saved \o [j \in 1..msg.calls |-> ResultEntry(msg.n, j)]

Next ==
    \/ \E kind \in {"thinking", "text"} : Begin(kind)
    \/ \E grown \in {"full", "silent"} : Grow(grown)
    \/ \E k \in 1..MaxCall : CallTools(k)
    \/ \E i \in 1..MaxCall : End(i)
    \/ Start \/ Finish

Spec == Init /\ [][Next]_vars

-----------------------------------------------------------------------------
(* Properties *)

\* A turn that was streamed is shown as it is when it is loaded anew: the same
\* text for the answer, the same steps in the same order; only a result is shown
\* where it came, which is elsewhere if one message called several tools, and a
\* NO_REPLY that was not the answer is not shown, nor is a thought that only a
\* NO_REPLY sets apart from the next one, which takes its place.
Replaced(b) ==
    \E e \in Assistants(saved) : \E i \in 1..Len(e.content) - 2 :
        /\ e.content[i] = b /\ b.kind = "thinking"
        /\ e.content[i + 1].grown = "silent" /\ e.content[i + 2].kind = "thinking"
Told(steps) == Only(steps, {b \in ToSet(steps) : b.grown # "silent" /\ ~Replaced(b)})
NoResults(steps) == Only(steps, {b \in ToSet(steps) : b.kind # "toolResult"})
OneCallEach ==
    \A e \in Assistants(saved) : \A b, c \in ToSet(e.content) :
        b.kind = "toolCall" /\ c.kind = "toolCall" => b = c
ShownAsSaved ==
    /\ TypeOK
    /\ msg.over =>
          LET live == Group(shown) past == Group(saved)
          IN /\ live.result = past.result
             /\ NoResults(live.steps) = NoResults(Told(past.steps))
             /\ ToSet(live.steps) = ToSet(Told(past.steps))
             /\ OneCallEach => live.steps = Told(past.steps)
=============================================================================

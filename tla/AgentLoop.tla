------------------------------- MODULE AgentLoop -------------------------------
(***************************************************************************)
(* One question answered by the agent loop (agent/loop.py): turns in which *)
(* the model asks for tools, the tool box that runs them, the context      *)
(* budget that evicts old results, and the answer streamed through the     *)
(* harmony filter.                                                         *)
(*                                                                         *)
(* The model is free: any number of calls a turn, the same call again,     *)
(* calls no tool can serve, prose at any point.  Calls are named by what   *)
(* _tool_call_key makes of them.  A retrieval may find any passages or     *)
(* fail.  A message is abstracted to its role and its weight in tokens.    *)
(***************************************************************************)
EXTENDS Naturals, Sequences, FiniteSets, SequencesExt, HarmonyFilter

CONSTANTS
    Searches,         \* retrieve calls
    Lookups,          \* search_documents calls
    Broken,           \* calls with bad arguments or an unknown tool
    Excerpt,          \* what a retrieval may find
    MaxToolTopK,      \* passages one retrieval returns at most
    MaxSteps,         \* max_agent_steps
    MaxCallsPerTurn,  \* MAX_CALLS_PER_TURN
    Ceiling,          \* AGENT_CONTEXT_BUDGET
    PromptTokens,     \* tokens of system prompt, history and question
    PassageTokens,    \* tokens of a passage in a tool result
    NoticeTokens,     \* tokens of any other tool result
    DroppedTokens,    \* tokens of the placeholder of an evicted result
    Transcripts,      \* what the answering model streams
    MaxAsked,         \* bound: calls in one turn
    MaxToken          \* bound: symbols in one streamed token

(* What the model may ask for.  Arguments that no repair turns into an     *)
(* object make a call that no tool can serve.                              *)
Calls == Searches \cup Lookups \cup Broken

ASSUME AgentAssumption ==
    /\ Searches \cap Lookups = {} /\ Broken \cap (Searches \cup Lookups) = {}
    /\ {MaxToolTopK, MaxSteps, MaxCallsPerTurn, MaxAsked, MaxToken} \subseteq Nat \ {0}
    /\ {Ceiling, PromptTokens, PassageTokens, NoticeTokens, DroppedTokens} \subseteq Nat

(* A transcript is a rendering, and what its reader should see of it.      *)
ASSUME TranscriptAssumption ==
    \A t \in Transcripts :
        t.text \in Seq(STRING) /\ Readable(t.text) /\ t.answer = Visible(t.text)

VARIABLES
    pc,        \* where the loop stands
    step,      \* the turn
    messages,  \* the turns and tool results after the prompt
    todo,      \* calls of this turn still to run, with their ids
    seen,      \* seen_calls
    docs,      \* toolbox.docs
    refs,      \* toolbox.references: number and passage
    fence,     \* toolbox.fence_start
    stop,      \* why the loop ended
    sent,      \* the references frames sent to the client
    stream,    \* what the answering model has still to send
    filter,    \* the harmony filter
    shown,     \* tokens sent to the client
    rendering  \* history: the transcript, and what the client should see of it

loop    == <<step, messages, todo, seen>>
toolbox == <<docs, refs, fence>>
answer  == <<stream, filter, shown, rendering>>
agentVars == <<pc, loop, toolbox, stop, sent, answer>>

NewToolbox == docs = <<>> /\ refs = <<>> /\ fence = 1

AgentInit ==
    /\ pc = "enter" /\ step = 0 /\ messages = <<>> /\ todo = <<>> /\ seen = {}
    /\ NewToolbox
    /\ stop = "max_steps" /\ sent = <<>>
    /\ stream = <<>> /\ filter = NewFilter /\ shown = <<>>
    /\ rendering = [text |-> <<>>, answer |-> <<>>]

----------------------------------------------------------------------------
(* Messages and their weight.                                              *)

Turn(n)             == [role |-> "assistant", calls |-> n, id |-> 0, body |-> "calls", weight |-> n]
Reply(id, body, weight) == [role |-> "tool", calls |-> 0, id |-> id, body |-> body, weight |-> weight]
Notice(id)          == Reply(id, "notice", NoticeTokens)

Tokens(ms) == PromptTokens + FoldLeft(LAMBDA sum, m : sum + m.weight, 0, ms)

IsReply(m) == m.role = "tool"
Dropped(m) == IsReply(m) /\ m.body = "dropped"
Drop(m) == [m EXCEPT !.body = "dropped", !.weight = DroppedTokens]

(* The messages once the results up to place n are evicted. *)
DropUpTo(ms, n) == [i \in DOMAIN ms |-> IF i <= n /\ IsReply(ms[i]) THEN Drop(ms[i]) ELSE ms[i]]

(* A mutant: the newest results go first. *)
EnforcedNewest(ms) ==
    LET From2(n) == [i \in DOMAIN ms |-> IF i > n /\ IsReply(ms[i]) THEN Drop(ms[i]) ELSE ms[i]]
        fits == {n \in 0..Len(ms) : Tokens(From2(n)) <= Ceiling}
    IN  IF fits = {} THEN From2(0) ELSE From2(CHOOSE n \in fits : \A k \in fits : k <= n)

(* budget.enforce: oldest first, no further than the budget asks. *)
Enforced(ms) ==
    LET fits == {n \in 0..Len(ms) : Tokens(DropUpTo(ms, n)) <= Ceiling}
    IN  DropUpTo(ms, IF fits = {} THEN Len(ms) ELSE FirstOf(fits))

----------------------------------------------------------------------------
(* Turns.                                                                  *)

(* astream_agent_qa: the engine is prepared for the retrievals to come. *)
Enter ==
    /\ pc = "enter"
    /\ pc' = "decide"
    /\ UNCHANGED <<loop, toolbox, stop, sent, answer>>

(* The model's name says it has no tools: nothing is asked of it. *)
PrecheckRefuses ==
    /\ pc = "decide" /\ step = 0
    /\ pc' = "refused"
    /\ UNCHANGED <<loop, toolbox, stop, sent, answer>>

(* A new turn begins: the budget is enforced and the model is asked. *)
BeginTurn ==
    /\ pc = "decide" /\ step < MaxSteps
    /\ messages' = Enforced(messages)
    /\ step' = step + 1
    /\ pc' = "thinking"
    /\ UNCHANGED <<todo, seen, toolbox, stop, sent, answer>>

(* The calls kept of a turn, numbered as _as_turn numbers them. *)
Numbered(calls) ==
    [i \in 1..(IF Len(calls) < MaxCallsPerTurn THEN Len(calls) ELSE MaxCallsPerTurn)
        |-> [id |-> i, key |-> calls[i]]]

(* _decide: the model has the messages and the tools; the opening turn     *)
(* must call retrieve, later turns are free.                               *)
Deciding == pc = "thinking"
Forced   == step = 1

ModelCalls(calls) ==
    /\ Deciding
    /\ calls # <<>>
    /\ messages' = Append(messages, Turn(Len(calls)))
    /\ todo' = Numbered(calls)
    /\ pc' = "acting"
    /\ UNCHANGED <<step, seen, toolbox, stop, sent, answer>>

(* Prose on the forced turn: the model cannot call tools. *)
ModelCannotCall ==
    /\ Deciding /\ Forced
    /\ pc' = "refused"
    /\ UNCHANGED <<loop, toolbox, stop, sent, answer>>

(* Prose on a later turn, also when the cap cut it short. *)
ModelReady ==
    /\ Deciding /\ ~Forced
    /\ stop' = "answered"
    /\ pc' = "render"
    /\ UNCHANGED <<loop, toolbox, sent, answer>>

(* The preparation or the provider fails, before an answer began or in the *)
(* middle of it.                                                           *)
ProviderFails ==
    /\ pc \in {"enter", "thinking", "render", "streaming"}
    /\ pc' = "failed"
    /\ UNCHANGED <<loop, toolbox, stop, sent, answer>>

----------------------------------------------------------------------------
(* Tools.                                                                  *)

Acting == pc = "acting" /\ todo # <<>>
Current == Head(todo)

Answering(reply) ==
    /\ messages' = Append(messages, reply)
    /\ todo' = Tail(todo)

(* A mutant: a call already made is skipped without a result. *)
SkipRepeatedSilently ==
    /\ Acting /\ Current.key \in seen
    /\ todo' = Tail(todo)
    /\ UNCHANGED <<pc, step, messages, seen, toolbox, stop, sent, answer>>

(* A call already made is answered from here. *)
SkipRepeated ==
    /\ Acting /\ Current.key \in seen
    /\ Answering(Notice(Current.id))
    /\ UNCHANGED <<pc, step, seen, toolbox, stop, sent, answer>>

(* Nothing found, or an error told to the model and not to the user. *)
RunWithoutPassages ==
    /\ Acting /\ Current.key \in (Searches \cup Broken) \ seen
    /\ seen' = seen \cup {Current.key}
    /\ Answering(Notice(Current.id))
    /\ UNCHANGED <<pc, step, toolbox, stop, sent, answer>>

(* A listing adds no passage to the answer. *)
ListDocuments ==
    /\ Acting /\ Current.key \in Lookups \ seen
    /\ seen' = seen \cup {Current.key}
    /\ Answering(Notice(Current.id))
    /\ UNCHANGED <<pc, step, toolbox, stop, sent, answer>>

(* The model may set how many passages it wants, up to MAX_TOOL_TOP_K. *)
Findable == BoundedSeq(Excerpt, MaxToolTopK) \ {<<>>}

(* A mutant: each retrieval numbers its passages from 1. *)
CitedFromOne(found) == [i \in DOMAIN found |-> [n |-> i, doc |-> found[i]]]

(* build_references(start=fence_start). *)
Cited(found) == [i \in DOMAIN found |-> [n |-> fence + i - 1, doc |-> found[i]]]

RunSearch(found) ==
    /\ Acting /\ Current.key \in Searches \ seen
    /\ seen' = seen \cup {Current.key}
    /\ refs' = refs \o Cited(found)
    /\ fence' = fence + Len(found)
    /\ docs' = docs \o found
    /\ Answering(Reply(Current.id, "passages", Len(found) * PassageTokens))
    /\ UNCHANGED <<pc, step, stop, sent, answer>>

(* The turn is over; the first references there are go to the client. *)
EndTurn ==
    /\ pc = "acting" /\ todo = <<>>
    /\ sent' = IF refs # <<>> /\ sent = <<>> THEN <<refs>> ELSE sent
    /\ pc' = IF step = MaxSteps THEN "render" ELSE "decide"
    /\ UNCHANGED <<loop, toolbox, stop, answer>>

----------------------------------------------------------------------------
(* The answer.                                                             *)

(* The answering call gets the passages and none of the tool messages. *)
BeginAnswer(transcript) ==
    /\ pc = "render"
    /\ stream' = transcript.text /\ rendering' = transcript
    /\ messages' = <<>> /\ seen' = {}
    /\ pc' = "streaming"
    /\ UNCHANGED <<step, todo, toolbox, stop, sent, filter, shown>>

StreamToken(n) ==
    /\ pc = "streaming" /\ n \in 1..Len(stream)
    /\ LET fed == Feed(filter, SubSeq(stream, 1, n))
       IN  filter' = fed.filter /\ shown' = shown \o fed.out
    /\ stream' = From(stream, n + 1)
    /\ UNCHANGED <<pc, loop, toolbox, stop, sent, rendering>>

(* What the filter holds back until it knows that no tag follows. *)
Trailing == Flush(filter)

(* The rest of the answer is sent, and the references if none were. *)
FinishAnswer ==
    /\ pc = "streaming" /\ stream = <<>>
    /\ filter' = Trailing.filter /\ shown' = shown \o Trailing.out
    /\ sent' = IF sent = <<>> THEN <<refs>> ELSE sent
    /\ pc' = "done"
    /\ UNCHANGED <<loop, toolbox, stop, stream, rendering>>

----------------------------------------------------------------------------

Tool ==
    \/ SkipRepeated
    \/ RunWithoutPassages
    \/ ListDocuments
    \/ \E found \in Findable : RunSearch(found)
    \/ EndTurn

Think ==
    \/ Enter
    \/ PrecheckRefuses
    \/ BeginTurn
    \/ \E calls \in BoundedSeq(Calls, MaxAsked) : ModelCalls(calls)
    \/ ModelCannotCall
    \/ ModelReady
    \/ ProviderFails

Write ==
    \/ \E transcript \in Transcripts : BeginAnswer(transcript)
    \/ \E n \in 1..MaxToken : StreamToken(n)
    \/ FinishAnswer

AgentNext == Think \/ Tool \/ Write

AgentSpec == AgentInit /\ [][AgentNext]_agentVars

----------------------------------------------------------------------------
(* Properties.                                                             *)

Min2(a, b) == IF a < b THEN a ELSE b

(* When the model is asked again, every call of a turn up to the limit has *)
(* exactly one result, in the order of the calls and before the next turn, *)
(* and eviction has left every message in place: a result without its call *)
(* is refused by providers (loop.py:199-242, budget.py:103-106).           *)
TranscriptWhole ==
    pc = "thinking" =>
        \A i \in DOMAIN messages : ~IsReply(messages[i]) =>
            LET n == Min2(messages[i].calls, MaxCallsPerTurn)
            IN  /\ i + n <= Len(messages)
                /\ \A k \in 1..n : IsReply(messages[i + k]) /\ messages[i + k].id = k
                /\ i + n < Len(messages) => ~IsReply(messages[i + n + 1])

(* What is sent to the model fits the budget, unless nothing is left to    *)
(* evict; and a result is evicted only after every older one               *)
(* (budget.py:100-123).                                                    *)
BudgetKept ==
    pc = "thinking" =>
        /\ \/ Tokens(messages) <= Ceiling
           \/ \A i \in DOMAIN messages : IsReply(messages[i]) => Dropped(messages[i])
        /\ \A i, j \in DOMAIN messages :
              (i < j /\ IsReply(messages[i]) /\ Dropped(messages[j])) => Dropped(messages[i])

(* Over all retrievals of a turn the numbers under which passages are      *)
(* cited run from 1 without gap or repetition, number n is the n-th        *)
(* passage of the answering prompt, and what the client is told of number  *)
(* n is that passage (tools.py:178-186, loop.py:246-252).  Whether it is   *)
(* told of every number is EveryHopReferenced.                             *)
CitationsAgree ==
    /\ refs = [i \in DOMAIN docs |-> [n |-> i, doc |-> docs[i]]]
    /\ fence = Len(docs) + 1
    /\ \A k \in DOMAIN sent : \A r \in Range(sent[k]) :
          r.n \in DOMAIN docs /\ docs[r.n] = r.doc

(* The references of every hop reach the client, so that each number the   *)
(* model may write is in the list beside the answer (loop.py:248-251,      *)
(* docs/WebUI.md:119-122).  It is not so: what later turns retrieve is     *)
(* never sent once a first list has been (loop.py:244-246).                *)
EveryHopReferenced ==
    pc = "done" =>
        \A i \in DOMAIN docs : \E k \in DOMAIN sent : [n |-> i, doc |-> docs[i]] \in Range(sent[k])

(* However the stream is cut into tokens, the client sees the final        *)
(* channel and nothing of the tags or of the reasoning before it, never    *)
(* takes anything back, and has all of it at the end; of a channel that is *)
(* never closed it sees the text between the tags and channel names        *)
(* (harmony.py:68-129).  A channel name welded to its text is the          *)
(* exception: see ScaffoldingStripped.                                     *)
OnlyAnswerShown ==
    ~Welded(rendering.text) =>
        /\ IsPrefix(shown, rendering.answer)
        /\ pc = "done" => shown = rendering.answer

(* A channel that is opened and never closed is shown with its scaffolding *)
(* stripped, tags and leading channel names alike (harmony.py:27-29, :133).*)
(* It is not so in the rendering without tags: the name is welded to the   *)
(* text, and the word boundary that :46 asks for is not there.             *)
ScaffoldingStripped == pc = "done" => shown = rendering.answer

=============================================================================

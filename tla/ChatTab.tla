-------------------------------- MODULE ChatTab --------------------------------
(***************************************************************************)
(* A browser tab of the chat (web/src/state/useChat.ts) against the chat   *)
(* routes and the query stream.                                            *)
(*                                                                         *)
(* Every handler of the hook is a closure: `send' goes on using the        *)
(* messages and the `persistent' of the render it was called in, across    *)
(* its awaits, while the user opens, creates and removes threads.  A send  *)
(* is named by its turn.  A request may succeed, be refused with a 503     *)
(* (there is no chat database) or fail; a failed write may have been done. *)
(***************************************************************************)
EXTENDS Integers, ChatStore

CONSTANTS
    None,          \* no thread, no controller
    HistoryTurns,  \* HISTORY_TURNS
    MaxSends,      \* bound: questions asked in the tab
    MaxClicks,     \* bound: clicks in the side bar
    MaxTokens,     \* bound: tokens of an answer
    MaxFaults      \* bound: requests that do not succeed

ASSUME ChatAssumption ==
    /\ {HistoryTurns, MaxSends, MaxClicks, MaxTokens, MaxFaults} \subseteq Nat
    /\ None \notin Int

VARIABLES
    threads,     \* the threads the side bar lists
    active,      \* activeId
    messages,    \* the messages shown
    streaming,   \* the composer waits for an answer
    pending,     \* tokens of pendingAnswer
    persistent,  \* the server has a chat database, as far as the tab knows
    abort,       \* abortRef: the send whose controller it holds
    sends,       \* turn -> the call of `send'
    loads,       \* calls of openThread waiting for the server
    removals,    \* calls of removeThread waiting for the server
    clicks,      \* history: clicks in the side bar
    faults,      \* history: requests that did not succeed
    mixed        \* history: the view was disturbed since a thread was opened

view == <<active, messages, pending>>
calls == <<sends, loads, removals>>
chatVars == <<stored, threads, view, streaming, persistent, abort, calls,
              clicks, faults, mixed>>

Turns == DOMAIN sends
Running(k) == sends[k].stage # "over"
Alone == loads = {} /\ removals = {} /\ \A k \in Turns : ~Running(k)
LocalThread(k) == -k

Question(k) == [turn |-> k, role |-> "user", tokens |-> 0, refs |-> FALSE]
Answer(k)   == [turn |-> k, role |-> "assistant",
                tokens |-> sends[k].tokens, refs |-> sends[k].refs]

Newest(s, n) == IF Len(s) <= n THEN s ELSE SubSeq(s, Len(s) - n + 1, Len(s))

\* A mutant: history.slice(-HISTORY_TURNS), with the question itself.
ConversationWithQuestion(k) ==
    Newest(Append(sends[k].captured, Question(k)), HistoryTurns)

\* history.slice(-HISTORY_TURNS - 1, -1): the question itself is cut off.
Conversation(k) == Newest(sends[k].captured, HistoryTurns)

\* The tab has listed the threads, or learnt that there is no database.
ChatInit ==
    /\ stored = << >> /\ threads = {}
    /\ active = None /\ messages = << >> /\ pending = 0
    /\ streaming = FALSE /\ persistent \in BOOLEAN /\ abort = None
    /\ sends = << >> /\ loads = {} /\ removals = {}
    /\ clicks = 0 /\ faults = 0 /\ mixed = FALSE

Succeeds == UNCHANGED <<faults, persistent>>
Fault(unavailable) ==
    /\ faults < MaxFaults
    /\ faults' = faults + 1
    /\ persistent' = (persistent /\ ~unavailable)

-----------------------------------------------------------------------------
\* send: the thread is resolved first.

NewSend(stage, t) == [stage |-> stage, thread |-> t, captured |-> messages,
                      persistent |-> persistent, stream |-> "none",
                      tokens |-> 0, refs |-> FALSE, aborted |-> FALSE]

\* What `send' does once it knows its thread, up to its next await.
Enter(k, s, t) ==
    /\ active' = t
    /\ messages' = Append(s.captured, Question(k))
    /\ pending' = 0
    /\ streaming' = TRUE
    /\ sends' = IF k \in Turns
                THEN [sends EXCEPT ![k].thread = t,
                                   ![k].stage = IF s.persistent THEN "posting" ELSE "asking"]
                ELSE Append(sends, [s EXCEPT !.thread = t,
                                   !.stage = IF s.persistent THEN "posting" ELSE "asking"])
    /\ abort' = IF s.persistent THEN abort ELSE k

BeginSend ==
    LET k == Len(sends) + 1 IN
    /\ k <= MaxSends
    /\ ~streaming
    /\ mixed' = (mixed \/ ~Alone \/ ~persistent)
    /\ \/ /\ active # None
          /\ Enter(k, NewSend("posting", active), active)
          /\ UNCHANGED threads
       \/ /\ active = None /\ persistent
          /\ sends' = Append(sends, NewSend("creating", None))
          /\ UNCHANGED <<threads, view, streaming, abort>>
       \/ /\ active = None /\ ~persistent
          /\ Enter(k, NewSend("asking", None), LocalThread(k))
          /\ threads' = threads \cup {LocalThread(k)}
    /\ UNCHANGED <<stored, persistent, loads, removals, clicks, faults>>

ThreadCreated(k) ==
    /\ sends[k].stage = "creating"
    /\ CreateThread(k)
    /\ threads' = threads \cup {k}
    /\ Enter(k, sends[k], k)
    /\ Succeeds
    /\ UNCHANGED <<loads, removals, clicks, mixed>>

\* A 503 keeps the conversation in the tab.  The closure still believes in
\* the database and will try to store the messages of a thread it never had.
CreateUnavailable(k) ==
    /\ sends[k].stage = "creating"
    /\ Fault(TRUE)
    /\ threads' = threads \cup {LocalThread(k)}
    /\ Enter(k, sends[k], LocalThread(k))
    /\ mixed' = TRUE
    /\ UNCHANGED <<stored, loads, removals, clicks>>

CreateFails(k) ==
    /\ sends[k].stage = "creating"
    /\ Fault(FALSE)
    /\ sends' = [sends EXCEPT ![k].stage = "over"]
    /\ (UNCHANGED stored \/ CreateThread(k))
    /\ UNCHANGED <<threads, view, streaming, abort, loads, removals, clicks, mixed>>

-----------------------------------------------------------------------------
\* send: the question is stored, then asked.

Ask(k) ==
    /\ sends' = [sends EXCEPT ![k].stage = "asking", ![k].stream = "retrieving"]
    /\ abort' = k

QuestionStored(k) ==
    /\ sends[k].stage = "posting"
    /\ AddMessage(sends[k].thread, Question(k))
    /\ Ask(k)
    /\ Succeeds
    /\ UNCHANGED <<threads, view, streaming, loads, removals, clicks, mixed>>

QuestionNotStored(k) ==
    /\ sends[k].stage = "posting"
    /\ \/ ~HasThread(sends[k].thread) /\ UNCHANGED <<stored, faults, persistent>>
       \/ \E unavailable \in BOOLEAN :
             Fault(unavailable) /\ UNCHANGED stored
       \/ Fault(FALSE) /\ AddMessage(sends[k].thread, Question(k))
    /\ Ask(k)
    /\ mixed' = TRUE
    /\ UNCHANGED <<threads, view, streaming, loads, removals, clicks>>

-----------------------------------------------------------------------------
\* The answer: the references, then the tokens, then the end or an error.

Asking(k) == sends[k].stage = "asking"

References(k) ==
    /\ Asking(k)
    /\ sends[k].stream \in {"none", "retrieving"}
    /\ sends' = [sends EXCEPT ![k].stream = "answering", ![k].refs = TRUE]
    /\ UNCHANGED <<stored, threads, view, streaming, persistent, abort, loads,
                   removals, clicks, faults, mixed>>

Token(k) ==
    /\ Asking(k)
    /\ sends[k].stream = "answering"
    /\ sends[k].tokens < MaxTokens
    /\ sends' = [sends EXCEPT ![k].tokens = @ + 1]
    /\ pending' = sends[k].tokens + 1
    /\ UNCHANGED <<stored, threads, active, messages, streaming, persistent, abort,
                   loads, removals, clicks, faults, mixed>>

\* finally, then what follows it up to the next await: whatever arrived is
\* shown, in the thread shown now, and goes to the thread of the question.
Settle(k) ==
    /\ abort' = None
    /\ streaming' = FALSE
    /\ LET answered == sends[k].tokens > 0
           storing  == answered /\ sends[k].persistent
       IN  /\ messages' = IF answered THEN Append(messages, Answer(k)) ELSE messages
           /\ pending' = IF storing THEN pending ELSE 0
           /\ sends' = [sends EXCEPT ![k].stage = IF storing THEN "storing" ELSE "over",
                                     ![k].captured = << >>,
                                     ![k].aborted = FALSE, ![k].stream = "none"]
    /\ UNCHANGED <<stored, threads, active, persistent, loads, removals, clicks, mixed>>

StreamEnds(k) ==
    /\ Asking(k) /\ sends[k].stream = "answering"
    /\ Settle(k)
    /\ UNCHANGED faults

\* validate_selection: the provider or the model chosen cannot be used, a 400.
SelectionRefused(k) ==
    /\ Asking(k) /\ sends[k].stream \in {"none", "retrieving"}
    /\ Settle(k)
    /\ UNCHANGED faults

\* An error frame after the 200, or a connection that breaks.
StreamFails(k) ==
    /\ Asking(k)
    /\ faults < MaxFaults
    /\ faults' = faults + 1
    /\ Settle(k)

\* A mutant: an aborted answer is stored but not shown.
StreamAbortedUnseen(k) ==
    /\ Asking(k) /\ sends[k].aborted
    /\ abort' = None
    /\ streaming' = FALSE
    /\ pending' = 0
    /\ sends' = [sends EXCEPT ![k].stage =
          IF sends[k].tokens > 0 /\ sends[k].persistent THEN "storing" ELSE "over"]
    /\ UNCHANGED <<stored, threads, active, messages, persistent, loads, removals,
                   clicks, mixed, faults>>

StreamAborted(k) ==
    /\ Asking(k) /\ sends[k].aborted
    /\ Settle(k)
    /\ UNCHANGED faults

SendOver(k) ==
    /\ sends' = [sends EXCEPT ![k].stage = "over"]
    /\ pending' = 0

\* A mutant: the answer is stored in the thread shown when it ends.
AnswerStoredInView(k) ==
    /\ sends[k].stage = "storing"
    /\ AddMessage(active, Answer(k))
    /\ SendOver(k)
    /\ Succeeds
    /\ UNCHANGED <<threads, active, messages, streaming, abort, loads, removals,
                   clicks, mixed>>

AnswerStored(k) ==
    /\ sends[k].stage = "storing"
    /\ AddMessage(sends[k].thread, Answer(k))
    /\ SendOver(k)
    /\ Succeeds
    /\ UNCHANGED <<threads, active, messages, streaming, abort, loads, removals,
                   clicks, mixed>>

AnswerNotStored(k) ==
    /\ sends[k].stage = "storing"
    /\ \/ ~HasThread(sends[k].thread) /\ UNCHANGED <<stored, faults, persistent>>
       \/ \E unavailable \in BOOLEAN :
             Fault(unavailable) /\ UNCHANGED stored
       \/ Fault(FALSE) /\ AddMessage(sends[k].thread, Answer(k))
    /\ SendOver(k)
    /\ mixed' = TRUE
    /\ UNCHANGED <<threads, active, messages, streaming, abort, loads, removals, clicks>>

\* While the question is being stored there is no controller to abort.
Stop ==
    /\ streaming
    /\ sends' = IF abort = None THEN sends ELSE [sends EXCEPT ![abort].aborted = TRUE]
    /\ abort' = None
    /\ streaming' = FALSE
    /\ UNCHANGED <<stored, threads, view, persistent, loads, removals, clicks, faults, mixed>>

-----------------------------------------------------------------------------
\* The side bar.

OpenThread(t) ==
    /\ clicks < MaxClicks
    /\ clicks' = clicks + 1
    /\ active' = t
    /\ pending' = 0
    /\ mixed' = (~Alone \/ ~persistent)
    /\ IF persistent
       THEN /\ loads' = loads \cup {[call |-> clicks, thread |-> t, read |-> FALSE,
                                     got |-> << >>]}
            /\ UNCHANGED messages
       ELSE messages' = << >> /\ UNCHANGED loads   \* listed threads carry no messages
    /\ UNCHANGED <<stored, threads, streaming, persistent, abort, sends, removals, faults>>

ReadThread(l) ==
    /\ ~l.read /\ HasThread(l.thread)
    /\ \E got \in ListMessages(stored[l.thread]) :
          loads' = (loads \ {l}) \cup {[l EXCEPT !.read = TRUE, !.got = got]}
    /\ UNCHANGED <<stored, threads, view, streaming, persistent, abort, sends,
                   removals, clicks, faults, mixed>>

ThreadLoaded(l) ==
    /\ l.read
    /\ messages' = l.got
    /\ loads' = loads \ {l}
    /\ Succeeds
    /\ UNCHANGED <<stored, threads, active, pending, streaming, abort, sends,
                   removals, clicks, mixed>>

ThreadNotLoaded(l) ==
    /\ \/ /\ ~HasThread(l.thread)
          /\ UNCHANGED <<messages, faults, persistent>>
       \/ Fault(FALSE) /\ UNCHANGED messages
       \/ Fault(TRUE) /\ messages' = << >>
    /\ loads' = loads \ {l}
    /\ mixed' = TRUE
    /\ UNCHANGED <<stored, threads, active, pending, streaming, abort, sends,
                   removals, clicks>>

NewThread ==
    /\ clicks < MaxClicks
    /\ clicks' = clicks + 1
    /\ active' = None /\ messages' = << >> /\ pending' = 0
    /\ mixed' = ~Alone
    /\ UNCHANGED <<stored, threads, streaming, persistent, abort, calls, faults>>

\* What removeThread does once the server answered, or at once without one.
Forget(t, shown) ==
    /\ threads' = threads \ {t}
    /\ IF shown
       THEN active' = None /\ messages' = << >> /\ pending' = 0
       ELSE UNCHANGED view

RemoveThread(t) ==
    /\ clicks < MaxClicks
    /\ clicks' = clicks + 1
    /\ mixed' = (mixed \/ ~Alone)
    /\ IF persistent
       THEN /\ removals' = removals \cup {[call |-> clicks, thread |-> t,
                                           shown |-> active = t]}
            /\ UNCHANGED <<threads, view>>
       ELSE Forget(t, active = t) /\ UNCHANGED removals
    /\ UNCHANGED <<stored, streaming, persistent, abort, sends, loads, faults>>

ThreadRemoved(r) ==
    /\ HasThread(r.thread)
    /\ DeleteThread(r.thread)
    /\ Forget(r.thread, r.shown)
    /\ Succeeds
    /\ removals' = removals \ {r}
    /\ UNCHANGED <<streaming, abort, sends, loads, clicks, mixed>>

\* Only a 503 goes on to forget the thread.
ThreadNotRemoved(r) ==
    /\ \/ /\ ~HasThread(r.thread)
          /\ UNCHANGED <<threads, view, faults, persistent>>
       \/ Fault(FALSE) /\ UNCHANGED <<threads, view>>
       \/ Fault(TRUE) /\ Forget(r.thread, r.shown)
    /\ removals' = removals \ {r}
    /\ mixed' = TRUE
    /\ UNCHANGED <<stored, streaming, abort, sends, loads, clicks>>

-----------------------------------------------------------------------------
\* The steps the server and the network owe a call in flight.
SendStep(k) ==
    \/ ThreadCreated(k) \/ CreateUnavailable(k) \/ CreateFails(k)
    \/ QuestionStored(k) \/ QuestionNotStored(k)
    \/ References(k) \/ Token(k)
    \/ SelectionRefused(k) \/ StreamEnds(k) \/ StreamFails(k) \/ StreamAborted(k)
    \/ AnswerStored(k) \/ AnswerNotStored(k)

ChatNext ==
    \/ BeginSend \/ Stop \/ NewThread
    \/ \E k \in Turns : SendStep(k)
    \/ \E t \in threads : OpenThread(t) \/ RemoveThread(t)
    \/ \E l \in loads : ReadThread(l) \/ ThreadLoaded(l) \/ ThreadNotLoaded(l)
    \/ \E r \in removals : ThreadRemoved(r) \/ ThreadNotRemoved(r)

ChatSpec == ChatInit /\ [][ChatNext]_chatVars

-----------------------------------------------------------------------------
\* A stored message belongs to the thread its question was asked in, whatever
\* the user opened meanwhile, is stored at most once, and an answer, partial or
\* not, carries the references that came before its first token.
StoredAtHome ==
    \A t \in DOMAIN stored :
        /\ \A m \in MessagesOf(t) :
              /\ sends[m.turn].thread = t
              /\ m.role = "assistant" => m.refs /\ m.tokens = sends[m.turn].tokens
        /\ \A i, j \in DOMAIN stored[t] : \A m \in stored[t][i], n \in stored[t][j] :
              m.turn = n.turn /\ m.role = n.role => i = j /\ m = n
        /\ \A i, j \in DOMAIN stored[t] : \A m \in stored[t][i], n \in stored[t][j] :
              m.turn = n.turn /\ m.role = "user" /\ n.role = "assistant" => i <= j

\* With nothing in flight, a view nobody disturbed shows what the database
\* keeps of the thread: after a Stop or an error in mid-answer too.
ViewIsThread ==
    Alone /\ ~mixed =>
        /\ active = None => messages = << >>
        /\ active \in DOMAIN stored => messages \in ListMessages(stored[active])

\* The model is sent the last HISTORY_TURNS messages of the thread before the
\* question, and not the question itself (which travels as the query).
HistoryIsThread ==
    \A k \in Turns :
        (Asking(k) /\ ~mixed /\ sends[k].thread \in DOMAIN stored) =>
            LET seconds == stored[sends[k].thread]
                others  == [i \in DOMAIN seconds |-> {m \in seconds[i] : m.turn # k}]
            IN  \E before \in ListMessages(others) :
                    Conversation(k) = Newest(before, HistoryTurns)

================================================================================

------------------------------- MODULE ChatStore -------------------------------
(***************************************************************************)
(* The conversations kept by the application database (chat/store.py) and  *)
(* the /chat routes that reach it.                                         *)
(*                                                                         *)
(* A message is stamped with the whole second it is stored in, and a       *)
(* thread is listed by (created_at, id) with id a random uuid.  So a       *)
(* thread is a sequence of seconds, each a set of messages, and a reader   *)
(* may see the messages of one second in any order.                        *)
(***************************************************************************)
EXTENDS Naturals, Sequences, FiniteSets, SequencesExt

VARIABLE stored   \* thread -> the messages of each second

CreateThread(t) == stored' = [u \in DOMAIN stored \cup {t} |->
                                 IF u = t THEN << >> ELSE stored[u]]

\* get_thread: whoever reads or writes the messages asks for their thread first.
HasThread(t) == t \in DOMAIN stored

\* The second the clock shows may be that of the newest message or a later one.
AddMessage(t, message) ==
    /\ HasThread(t)
    /\ \/ stored' = [stored EXCEPT ![t] = Append(@, {message})]
       \/ /\ stored[t] # << >>
          /\ stored' = [stored EXCEPT ![t] = Append(Front(@), Last(@) \cup {message})]

\* chat_message.thread_id is ON DELETE CASCADE.
DeleteThread(t) == stored' = [u \in DOMAIN stored \ {t} |-> stored[u]]

(* ORDER BY created_at, id: any order of the messages that keeps seconds.   *)
ListMessages(seconds) ==
    {list \in SetToSeqs(UNION Range(seconds)) :
        \A a, b \in DOMAIN list, i, j \in DOMAIN seconds :
            list[a] \in seconds[i] /\ list[b] \in seconds[j] /\ i < j => a < b}

MessagesOf(t) == UNION Range(stored[t])
================================================================================

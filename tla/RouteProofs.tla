------------------------------- MODULE RouteProofs -------------------------------
(***************************************************************************)
(* What the routes and their pages keep: the conversations of the chat,    *)
(* the answers of the graph console, the attempts to log in.               *)
(*                                                                         *)
(* For any number of questions, threads, clicks and failing requests, tab  *)
(* and database agree on a conversation; and what the other two promise    *)
(* holds for any number of clients, statements and requests.               *)
(***************************************************************************)
EXTENDS ChatTab, GraphConsole, LoginLimiter, SequenceFacts

----------------------------------------------------------------------------
(* The chat: types.                                                        *)

Thread  == Int \cup {None}
Message == [turn : Nat, role : {"user", "assistant"}, tokens : Nat, refs : BOOLEAN]
Send    == [stage : {"creating", "posting", "asking", "storing", "over"}, thread : Thread,
            captured : Seq(Message), persistent : BOOLEAN,
            stream : {"none", "retrieving", "answering"}, tokens : Nat, refs : BOOLEAN,
            aborted : BOOLEAN]
Load    == [call : Nat, thread : Int, read : BOOLEAN, got : Seq(Message)]
Removal == [call : Nat, thread : Int, shown : BOOLEAN]

ChatTyped ==
    /\ stored \in [DOMAIN stored -> Seq(SUBSET Message)]
    /\ threads \subseteq Int /\ active \in Thread /\ messages \in Seq(Message) /\ pending \in Nat
    /\ {streaming, persistent, mixed} \subseteq BOOLEAN
    /\ sends \in Seq(Send) /\ abort \in Turns \cup {None}
    /\ loads \subseteq Load /\ removals \subseteq Removal /\ {clicks, faults} \subseteq Nat

(* The threads the server knows, and the messages of each.                 *)
OwnMessage(t, m) ==
    /\ m.turn \in Turns /\ sends[m.turn].thread = t
    /\ \/ m = Question(m.turn) /\ sends[m.turn].stage \in {"asking", "storing", "over"}
       \/ m = Answer(m.turn) /\ sends[m.turn].refs /\ sends[m.turn].stage = "over"

StoredInv ==
    \A t \in DOMAIN stored :
        /\ t \in Turns /\ sends[t].stage # "creating"
        /\ IsFiniteSet(MessagesOf(t))
        /\ \A i \in DOMAIN stored[t] : \A m \in stored[t][i] : OwnMessage(t, m)
        /\ \A i, j \in DOMAIN stored[t] : \A m \in stored[t][i], n \in stored[t][j] :
              /\ m = n => i = j
              /\ m.turn = n.turn /\ m.role = "user" /\ n.role = "assistant" => i <= j

SendsInv ==
    \A k \in Turns :
        /\ sends[k].stage = "creating" => sends[k].thread = None
        /\ sends[k].stage \in {"posting", "asking", "storing"} => sends[k].thread # None
        /\ sends[k].stream = "answering" \/ sends[k].tokens > 0 => sends[k].refs
        /\ sends[k].stage = "storing" => sends[k].tokens > 0

HomeInv == ChatTyped /\ SendsInv /\ StoredInv

(* The view, when nothing disturbed it: at most one call is in flight, and *)
(* what it has done so far is in the view.                                 *)
Shown(list) == active \in DOMAIN stored => list \in ListMessages(stored[active])

AtRest == Alone /\ (active = None => messages = <<>>) /\ Shown(messages)

Loading ==
    \E l \in loads :
        /\ loads = {l} /\ removals = {} /\ \A k \in Turns : ~Running(k)
        /\ l.thread = active /\ (l.read => Shown(l.got))

Removing ==
    \E r \in removals :
        /\ removals = {r} /\ loads = {} /\ \A k \in Turns : ~Running(k)
        /\ r.shown = (active = r.thread)
        /\ (active = None => messages = <<>>) /\ Shown(messages)

Progress(k) ==
    LET s == sends[k]
    IN  /\ s.persistent /\ s.thread = active
        /\ \/ /\ s.stage = "creating"
              /\ messages = <<>> /\ s.captured = <<>>
           \/ /\ s.stage = "posting"
              /\ messages = Append(s.captured, Question(k)) /\ Shown(s.captured)
           \/ /\ s.stage = "asking"
              /\ messages = Append(s.captured, Question(k)) /\ Shown(messages)
           \/ /\ s.stage = "storing"
              /\ \E before \in Seq(Message) : messages = Append(before, Answer(k)) /\ Shown(before)

Answering ==
    /\ loads = {} /\ removals = {}
    /\ \E k \in Turns : Progress(k) /\ \A j \in Turns : Running(j) <=> j = k

ViewInv == ~mixed => AtRest \/ Loading \/ Removing \/ Answering

ChatInv == HomeInv /\ ViewInv
----------------------------------------------------------------------------
(* The chat: lists of messages.                                            *)

AllOf(seconds) == UNION Range(seconds)

(* What a thread has become when m was stored in it.                       *)
Added(old, new, m) ==
    /\ new \in Seq(SUBSET Message) /\ new # <<>> /\ Len(old) <= Len(new)
    /\ \A i \in DOMAIN new : \A x \in new[i] : x = m \/ (i \in DOMAIN old /\ x \in old[i])
    /\ \A i \in DOMAIN old : old[i] \subseteq new[i]
    /\ m \in new[Len(new)]
    /\ \A i \in DOMAIN new : m \in new[i] => i = Len(new)

LEMMA OneMore ==
    ASSUME NEW old \in Seq(SUBSET Message), NEW m \in Message, NEW new, m \notin AllOf(old),
           \/ new = Append(old, {m})
           \/ old # <<>> /\ new = Append(Front(old), Last(old) \cup {m})
    PROVE  Added(old, new, m) /\ AllOf(new) = AllOf(old) \cup {m}
<1>0. Len(old) \in Nat /\ DOMAIN old = 1..Len(old) /\ \A i \in 1..Len(old) : old[i] \subseteq Message /\ m \notin old[i]
  BY LenProperties DEF AllOf, Range
<1>1. /\ new \in Seq(SUBSET Message) /\ Len(old) <= Len(new) /\ Len(new) > 0 /\ Len(new) \in Nat /\ m \in new[Len(new)]
      /\ \A i \in 1..Len(new) : i # Len(new) => i \in 1..Len(old) /\ new[i] = old[i]
      /\ \A x \in new[Len(new)] : x = m \/ (Len(new) \in 1..Len(old) /\ x \in old[Len(new)])
      /\ \A i \in 1..Len(old) : i = Len(new) => old[i] \subseteq new[i]
  <2>1. CASE new = Append(old, {m})
    <3>1. /\ new \in Seq(SUBSET Message) /\ Len(new) = Len(old) + 1 /\ new[Len(old) + 1] = {m}
          /\ \A i \in 1..Len(old) : new[i] = old[i]
      BY <2>1, AppendProperties, {m} \in SUBSET Message
    <3> QED BY <1>0, <3>1
  <2>2. CASE old # <<>> /\ new = Append(Front(old), Last(old) \cup {m})
    <3>1. Len(old) >= 1
      BY <1>0, <2>2, EmptySeq
    <3>2. /\ Front(old) \in Seq(SUBSET Message) /\ Len(Front(old)) = Len(old) - 1
          /\ \A i \in 1..(Len(old) - 1) : Front(old)[i] = old[i]
      BY <1>0, <3>1, SubSeqProperties DEF Front
    <3>3. Last(old) = old[Len(old)] /\ Last(old) \cup {m} \in SUBSET Message
      BY <1>0, <3>1 DEF Last
    <3>4. /\ new \in Seq(SUBSET Message) /\ Len(new) = Len(old) /\ new[Len(old)] = old[Len(old)] \cup {m}
          /\ \A i \in 1..(Len(old) - 1) : new[i] = old[i]
      <4> DEFINE f == Front(old)
                 e == Last(old) \cup {m}
      <4>1. /\ Append(f, e) \in Seq(SUBSET Message) /\ Len(Append(f, e)) = Len(f) + 1
            /\ \A i \in 1..Len(f) : Append(f, e)[i] = f[i]
            /\ Append(f, e)[Len(f) + 1] = e
        BY <3>2, <3>3, AppendProperties
      <4>2. Len(f) + 1 = Len(old)
        BY <1>0, <3>1, <3>2
      <4> QED BY <2>2, <3>2, <3>3, <4>1, <4>2
    <3> DEFINE n == Len(old)
    <3>5. n \in Nat /\ n >= 1
      BY <1>0, <3>1
    <3> HIDE DEF n
    <3>6. n \in 1..n /\ \A i \in 1..n : i # n => i \in 1..(n - 1)
      BY <3>5
    <3>7. Len(old) \in 1..Len(old) /\ \A i \in 1..Len(old) : i # Len(old) => new[i] = old[i]
      BY <3>4, <3>6 DEF n
    <3>8. Len(old) <= Len(old) /\ Len(old) > 0
      BY <3>5 DEF n
    <3>9. \A x \in new[Len(old)] : x = m \/ (Len(old) \in 1..Len(old) /\ x \in old[Len(old)])
      BY <3>4, <3>7
    <3>10. \A i \in 1..Len(old) : i = Len(old) => old[i] \subseteq new[i]
      BY <3>4
    <3> QED BY <1>0, <3>4, <3>7, <3>8, <3>9, <3>10
  <2> QED BY <2>1, <2>2
<1>2. DOMAIN new = 1..Len(new) /\ new # <<>>
  BY <1>1, LenProperties
<1>3. Added(old, new, m)
  <2>1. \A i \in DOMAIN new : \A x \in new[i] : x = m \/ (i \in DOMAIN old /\ x \in old[i])
    <3> SUFFICES ASSUME NEW i \in 1..Len(new), NEW x \in new[i] PROVE x = m \/ (i \in DOMAIN old /\ x \in old[i])
      BY <1>2
    <3> QED BY <1>0, <1>1
  <2>2. \A i \in DOMAIN old : old[i] \subseteq new[i]
    <3> SUFFICES ASSUME NEW i \in 1..Len(old) PROVE old[i] \subseteq new[i]
      BY <1>0
    <3>1. i \in 1..Len(new)
      BY <1>0, <1>1
    <3> QED BY <1>1, <3>1
  <2>3. \A i \in DOMAIN new : m \in new[i] => i = Len(new)
    BY <1>0, <1>1, <1>2
  <2> QED BY <1>1, <1>2, <2>1, <2>2, <2>3 DEF Added
<1>4. AllOf(new) = AllOf(old) \cup {m}
  <2>1. ASSUME NEW x PROVE x \in AllOf(new) <=> \E i \in DOMAIN new : x \in new[i]
    BY Zenon DEF AllOf, Range
  <2>2. ASSUME NEW x PROVE x \in AllOf(old) <=> \E i \in DOMAIN old : x \in old[i]
    BY Zenon DEF AllOf, Range
  <2> DEFINE k == Len(old)
             l == Len(new)
  <2>k. k \in Nat /\ l \in Nat /\ k <= l /\ l > 0 /\ DOMAIN old = 1..k /\ DOMAIN new = 1..l
    BY <1>0, <1>1, <1>2
  <2> HIDE DEF k, l
  <2>3. \A i \in DOMAIN old : i \in DOMAIN new
    BY <2>k
  <2>l. l \in DOMAIN new
    BY <2>k
  <2>4. Len(new) \in DOMAIN new
    BY <2>l DEF l
  <2>5. ASSUME NEW x PROVE x \in AllOf(new) <=> x \in AllOf(old) \cup {m}
    <3>1. CASE x = m
      BY <1>3, <2>1, <2>4, <3>1 DEF Added
    <3>2. CASE x # m
      BY <1>3, <2>1, <2>2, <2>3, <3>2 DEF Added
    <3> QED BY <3>1, <3>2
  <2> QED BY <2>5
<1> QED BY <1>3, <1>4

(* A list of a thread, with the message stored last behind it, lists the   *)
(* thread.                                                                 *)
LEMMA ListedLast ==
    ASSUME NEW old \in Seq(SUBSET Message), NEW m, NEW new, Added(old, new, m),
           AllOf(new) = AllOf(old) \cup {m}, m \in Message,
           IsFiniteSet(AllOf(old)), m \notin AllOf(old),
           NEW list \in ListMessages(old)
    PROVE  list \in Seq(Message) /\ Append(list, m) \in ListMessages(new)
<1> DEFINE S == AllOf(old)
           n == Cardinality(S)
           longer == Append(list, m)
<1>1. n \in Nat /\ IsFiniteSet(S \cup {m}) /\ Cardinality(S \cup {m}) = n + 1
  BY FS_AddElement, FS_CardinalityType
<1>2. /\ list \in [1..n -> S] /\ \A a, b \in 1..n : a # b => list[a] # list[b]
      /\ \A a, b \in 1..n, i, j \in DOMAIN old :
            list[a] \in old[i] /\ list[b] \in old[j] /\ i < j => a < b
  BY DEF ListMessages, SetToSeqs, AllOf
<1>3. list \in Seq(S) /\ Len(list) = n /\ S \subseteq Message
  <2>1. list \in Seq(S)
    <3> HIDE DEF S, n
    <3> QED BY <1>1, <1>2
  <2>2. S \subseteq Message
    BY LenProperties DEF AllOf, Range
  <2> QED BY <1>1, <1>2, <2>1, <2>2, LenProperties
<1>4. list \in Seq(Message) /\ list \in Seq(S \cup {m})
  BY <1>1, <1>2, <1>3
<1>5. /\ longer \in [1..(n + 1) -> S \cup {m}] /\ longer[n + 1] = m
      /\ \A a \in 1..n : longer[a] = list[a]
  <2>1. longer \in Seq(S \cup {m}) /\ Len(longer) = n + 1 /\ longer[n + 1] = m
        /\ \A a \in 1..n : longer[a] = list[a]
    <3> HIDE DEF S, n
    <3>1. m \in S \cup {m}
      OBVIOUS
    <3> QED BY <1>3, <1>4, <3>1, AppendProperties
  <2> QED BY <2>1, LenProperties
<1>n. \A a \in 1..(n + 1) : a = n + 1 \/ a \in 1..n
  <2> HIDE DEF n
  <2> QED BY <1>1
<1>m. \A a \in 1..n : list[a] # m /\ list[a] \in S /\ longer[a] = list[a]
  <2> HIDE DEF S, n, longer
  <2>1. m \notin S
    BY DEF S
  <2> QED BY <1>2, <1>5, <2>1
<1>6. \A a, b \in 1..(n + 1) : a # b => longer[a] # longer[b]
  <2> HIDE DEF S, n, longer
  <2> SUFFICES ASSUME NEW a \in 1..(n + 1), NEW b \in 1..(n + 1), a # b PROVE longer[a] # longer[b]
    OBVIOUS
  <2>1. CASE a \in 1..n /\ b \in 1..n
    BY <1>2, <1>5, <2>1
  <2>2. CASE a = n + 1 /\ b \in 1..n
    BY <1>m, <1>5, <2>2
  <2>3. CASE b = n + 1 /\ a \in 1..n
    BY <1>m, <1>5, <2>3
  <2> QED BY <1>n, <2>1, <2>2, <2>3
<1>7. ASSUME NEW a \in 1..(n + 1), NEW b \in 1..(n + 1), NEW i \in DOMAIN new, NEW j \in DOMAIN new,
             longer[a] \in new[i], longer[b] \in new[j], i < j
      PROVE  a < b
  <2> HIDE DEF S, n, longer
  <2>0. Len(new) \in Nat /\ DOMAIN new = 1..Len(new) /\ i < Len(new) + 1 /\ j < Len(new) + 1 /\ i \in Nat /\ j \in Nat
    BY LenProperties DEF Added
  <2>1. a \in 1..n
    <3>1. longer[a] # m
      BY <1>7, <2>0 DEF Added
    <3> QED BY <1>n, <1>5, <3>1
  <2>2. list[a] \in S /\ list[a] # m /\ i \in DOMAIN old /\ list[a] \in old[i]
    BY <1>m, <1>7, <2>1 DEF Added
  <2>3. CASE b = n + 1
    BY <1>1, <2>1, <2>3
  <2>4. CASE b \in 1..n
    <3>1. list[b] # m /\ j \in DOMAIN old /\ list[b] \in old[j]
      BY <1>m, <1>7, <2>4 DEF Added
    <3> QED BY <1>2, <1>7, <2>1, <2>2, <2>4, <3>1
  <2> QED BY <1>n, <2>3, <2>4
<1>8. longer \in SetToSeqs(S \cup {m}) /\ DOMAIN longer = 1..(n + 1)
  BY <1>1, <1>5, <1>6 DEF SetToSeqs
<1>9. longer \in ListMessages(new)
  <2>1. AllOf(new) = S \cup {m}
    OBVIOUS
  <2> HIDE DEF S, n, longer
  <2> QED BY <1>7, <1>8, <2>1 DEF ListMessages, AllOf
<1> QED BY <1>4, <1>9

(* Without the last message, the only one of its turn, a list of a thread  *)
(* lists what the thread has of other turns.                               *)
Others(seconds, k) == [i \in DOMAIN seconds |-> {m \in seconds[i] : m.turn # k}]

LEMMA ListedBefore ==
    ASSUME NEW seconds \in Seq(SUBSET Message), IsFiniteSet(AllOf(seconds)),
           NEW k, NEW q \in Message, q.turn = k,
           \A m \in AllOf(seconds) : m.turn = k => m = q,
           NEW before \in Seq(Message), Append(before, q) \in ListMessages(seconds)
    PROVE  before \in ListMessages(Others(seconds, k))
<1> DEFINE S == AllOf(seconds)
           n == Cardinality(S)
           l == Len(before)
           list == Append(before, q)
           rest == Others(seconds, k)
<1>1. /\ list \in [1..n -> S] /\ \A a, b \in 1..n : a # b => list[a] # list[b]
      /\ \A a, b \in 1..n, i, j \in DOMAIN seconds :
            list[a] \in seconds[i] /\ list[b] \in seconds[j] /\ i < j => a < b
  BY DEF ListMessages, SetToSeqs, AllOf
<1>2. l \in Nat /\ n \in Nat /\ DOMAIN list = 1..n /\ DOMAIN before = 1..l
  BY <1>1, FS_CardinalityType, LenProperties
<1>3. /\ Len(list) = l + 1 /\ DOMAIN list = 1..(l + 1) /\ list[l + 1] = q /\ \A a \in 1..l : list[a] = before[a]
  <2>1. list \in Seq(Message)
    BY AppendProperties
  <2> QED BY <1>2, <2>1, AppendProperties, LenProperties
<1>4. n = l + 1
  <2> HIDE DEF n, l, list
  <2>1. 1..n = 1..(l + 1)
    BY <1>2, <1>3
  <2>2. l + 1 \in 1..n /\ (n = 0 \/ n \in 1..(l + 1))
    BY <1>2, <2>1
  <2> QED BY <1>2, <2>2
<1>5. q \in S
  <2> HIDE DEF n, l, list, S
  <2>1. l + 1 \in 1..n
    BY <1>2, <1>4
  <2> QED BY <1>1, <1>3, <2>1
<1>6. IsFiniteSet(S \ {q}) /\ Cardinality(S \ {q}) = l
  <2> HIDE DEF S, l
  <2>1. IsFiniteSet(S)
    BY DEF S
  <2> QED BY <1>2, <1>4, <1>5, <2>1, FS_RemoveElement DEF n
<1>7. DOMAIN rest = DOMAIN seconds /\ \A i \in DOMAIN seconds : rest[i] = {m \in seconds[i] : m.turn # k}
  BY DEF Others
<1>8. AllOf(rest) = S \ {q}
  <2>1. \A x : x \in AllOf(rest) <=> \E i \in DOMAIN seconds : x \in seconds[i] /\ x.turn # k
    BY <1>7 DEF AllOf, Range
  <2>2. \A x : x \in S <=> \E i \in DOMAIN seconds : x \in seconds[i]
    BY DEF AllOf, Range
  <2>3. \A x \in S : x.turn # k <=> x # q
    OBVIOUS
  <2> HIDE DEF S, rest
  <2>4. \A x : x \in AllOf(rest) <=> x \in S /\ x # q
    BY <2>1, <2>2, <2>3
  <2> QED BY <2>4
<1>9. \A a \in 1..l : a \in 1..n /\ a # l + 1 /\ before[a] = list[a]
  <2> HIDE DEF n, l, list
  <2> QED BY <1>2, <1>3, <1>4
<1>10. before \in SetToSeqs(S \ {q})
  <2> HIDE DEF n, l, list, S
  <2>1. \A a \in 1..l : before[a] \in S /\ before[a] # q
    <3>1. l + 1 \in 1..n
      BY <1>2, <1>4
    <3> QED BY <1>1, <1>3, <1>9, <3>1
  <2>2. before \in [1..l -> S \ {q}]
    <3>1. before \in [1..l -> Message]
      BY LenProperties DEF l
    <3> QED BY <2>1, <3>1
  <2>3. \A a, b \in 1..l : a # b => before[a] # before[b]
    BY <1>1, <1>9
  <2> QED BY <1>6, <2>2, <2>3 DEF SetToSeqs
<1>11. \A a, b \in DOMAIN before, i, j \in DOMAIN rest :
          before[a] \in rest[i] /\ before[b] \in rest[j] /\ i < j => a < b
  <2>1. \A i \in DOMAIN seconds : rest[i] \subseteq seconds[i]
    BY <1>7
  <2> HIDE DEF n, l, list, S, rest
  <2> QED BY <1>1, <1>2, <1>7, <1>9, <2>1
<1> HIDE DEF rest, S
<1>12. before \in ListMessages(rest)
  <2>1. before \in SetToSeqs(UNION Range(rest))
    BY <1>8, <1>10 DEF AllOf
  <2> QED BY <1>11, <2>1 DEF ListMessages
<1> QED BY <1>12 DEF rest

----------------------------------------------------------------------------
(* The chat: steps of the calls.                                           *)

USE ChatAssumption

LEMMA Put ==
    ASSUME sends \in Seq(Send), NEW k \in Turns, NEW s \in Send, sends' = [sends EXCEPT ![k] = s]
    PROVE  sends' \in Seq(Send) /\ Turns' = Turns /\ sends'[k] = s /\ \A j \in Turns \ {k} : sends'[j] = sends[j]
<1>1. Turns = 1..Len(sends)
  BY LenProperties DEF Turns
<1>2. sends' \in Seq(Send)
  BY <1>1, ExceptSeq
<1> QED BY <1>2 DEF Turns

LEMMA PutNew ==
    ASSUME sends \in Seq(Send), NEW s \in Send, sends' = Append(sends, s)
    PROVE  /\ sends' \in Seq(Send) /\ Len(sends) + 1 \notin Turns /\ Turns' = Turns \cup {Len(sends) + 1}
           /\ sends'[Len(sends) + 1] = s /\ \A j \in Turns : sends'[j] = sends[j]
           /\ Len(sends) + 1 \in Nat \ {0} /\ Turns \subseteq Nat \ {0}
<1>1. Turns = 1..Len(sends) /\ Len(sends) \in Nat
  BY LenProperties DEF Turns
<1>2. /\ sends' \in Seq(Send) /\ Len(sends') = Len(sends) + 1 /\ sends'[Len(sends) + 1] = s
      /\ \A j \in Turns : sends'[j] = sends[j]
  BY <1>1, AppendProperties
<1>3. Turns' = 1..(Len(sends) + 1)
  BY <1>2, LenProperties DEF Turns
<1> QED BY <1>1, <1>2, <1>3

(* What a step may do to a call: it goes on, and what it stored stays what *)
(* it was.                                                                 *)
Onward(j) ==
    /\ j \in Turns'
    /\ sends[j].stage # "creating" =>
          sends'[j].thread = sends[j].thread /\ sends'[j].stage # "creating"
    /\ sends[j].stage \in {"asking", "storing", "over"} =>
          sends'[j].stage \in {"asking", "storing", "over"}
    /\ sends[j].stage = "over" =>
          /\ sends'[j].stage = "over" /\ sends'[j].tokens = sends[j].tokens
          /\ sends'[j].refs = sends[j].refs

LEMMA OwnKept ==
    ASSUME \A j \in Turns : Onward(j), NEW t, NEW m, OwnMessage(t, m) PROVE OwnMessage(t, m)'
<1>1. m.turn \in Turns /\ Onward(m.turn) /\ sends[m.turn].stage # "creating"
  BY DEF OwnMessage
<1> QED BY <1>1 DEF OwnMessage, Onward, Question, Answer

LEMMA StoredKept ==
    ASSUME StoredInv, \A j \in Turns : Onward(j), UNCHANGED stored PROVE StoredInv'
<1> SUFFICES ASSUME NEW t \in DOMAIN stored PROVE
        /\ t \in Turns' /\ sends'[t].stage # "creating"
        /\ IsFiniteSet(MessagesOf(t)')
        /\ \A i \in DOMAIN stored[t] : \A m \in stored[t][i] : OwnMessage(t, m)'
        /\ \A i, j \in DOMAIN stored[t] : \A m \in stored[t][i], n \in stored[t][j] :
              /\ m = n => i = j
              /\ m.turn = n.turn /\ m.role = "user" /\ n.role = "assistant" => i <= j
  BY DEF StoredInv
<1>1. t \in Turns' /\ sends'[t].stage # "creating"
  BY DEF StoredInv, Onward
<1>2. \A i \in DOMAIN stored[t] : \A m \in stored[t][i] : OwnMessage(t, m)'
  BY OwnKept DEF StoredInv
<1>3. MessagesOf(t)' = MessagesOf(t)
  BY DEF MessagesOf
<1> QED BY <1>1, <1>2, <1>3 DEF StoredInv

LEMMA StoredMore ==
    ASSUME ChatTyped, StoredInv, NEW t, NEW m \in Message, AddMessage(t, m), m \notin MessagesOf(t),
           \A j \in Turns : Onward(j), OwnMessage(t, m)',
           m.role = "user" => \A n \in MessagesOf(t) : n.turn = m.turn => n.role # "assistant"
    PROVE  /\ StoredInv'
           /\ stored' \in [DOMAIN stored -> Seq(SUBSET Message)]
           /\ \A list \in ListMessages(stored[t]) :
                 list \in Seq(Message) /\ Append(list, m) \in ListMessages(stored'[t])
<1> DEFINE old == stored[t]
           new == stored'[t]
<1>1. t \in DOMAIN stored /\ old \in Seq(SUBSET Message) /\ AllOf(old) = MessagesOf(t)
  BY DEF AddMessage, HasThread, ChatTyped, AllOf, MessagesOf
<1>2. /\ DOMAIN stored' = DOMAIN stored /\ \A u \in DOMAIN stored : u # t => stored'[u] = stored[u]
      /\ \/ new = Append(old, {m})
         \/ old # <<>> /\ new = Append(Front(old), Last(old) \cup {m})
      /\ \E e : stored' = [stored EXCEPT ![t] = e]
  <2>1. stored = [u \in DOMAIN stored |-> stored[u]]
    BY DEF ChatTyped
  <2>2. CASE stored' = [stored EXCEPT ![t] = Append(@, {m})]
    BY <1>1, <2>2
  <2>3. CASE stored[t] # <<>> /\ stored' = [stored EXCEPT ![t] = Append(Front(@), Last(@) \cup {m})]
    BY <1>1, <2>3
  <2> QED BY <2>2, <2>3 DEF AddMessage
<1>3. Added(old, new, m) /\ AllOf(new) = AllOf(old) \cup {m}
  <2> HIDE DEF old, new
  <2>1. m \notin AllOf(old)
    BY <1>1
  <2> QED BY <1>1, <1>2, <2>1, OneMore
<1>4. stored' \in [DOMAIN stored -> Seq(SUBSET Message)]
  <2>1. \A u \in DOMAIN stored : stored'[u] \in Seq(SUBSET Message)
    BY <1>2, <1>3 DEF Added, ChatTyped
  <2> QED BY <1>2, <2>1
<1>5. \A list \in ListMessages(old) : list \in Seq(Message) /\ Append(list, m) \in ListMessages(new)
  <2>1. IsFiniteSet(AllOf(old)) /\ m \notin AllOf(old)
    BY <1>1 DEF StoredInv
  <2> HIDE DEF old, new
  <2> QED BY <1>1, <1>3, <2>1, ListedLast
<1>6. IsFiniteSet(MessagesOf(t)')
  <2>1. MessagesOf(t)' = AllOf(new)
    BY DEF MessagesOf, AllOf
  <2>2. IsFiniteSet(AllOf(old))
    BY <1>1 DEF StoredInv
  <2> QED BY <1>3, <2>1, <2>2, FS_AddElement
<1>7. ASSUME NEW u \in DOMAIN stored
      PROVE  /\ u \in Turns' /\ sends'[u].stage # "creating"
             /\ \A x : OwnMessage(u, x) => OwnMessage(u, x)'
  BY OwnKept DEF StoredInv, Onward
<1>8. ASSUME NEW u \in DOMAIN stored, u # t
      PROVE  /\ IsFiniteSet(MessagesOf(u)')
             /\ \A i \in DOMAIN stored'[u] : \A x \in stored'[u][i] : OwnMessage(u, x)'
             /\ \A i, j \in DOMAIN stored'[u] : \A x \in stored'[u][i], y \in stored'[u][j] :
                   /\ x = y => i = j
                   /\ x.turn = y.turn /\ x.role = "user" /\ y.role = "assistant" => i <= j
  <2>1. stored'[u] = stored[u]
    BY <1>2, <1>8
  <2>2. MessagesOf(u)' = MessagesOf(u)
    BY <2>1 DEF MessagesOf
  <2> QED BY <1>7, <2>1, <2>2 DEF StoredInv
<1>9. \A i \in DOMAIN new : \A x \in new[i] : OwnMessage(t, x)'
  <2>1. ASSUME NEW i \in DOMAIN new, NEW x \in new[i], x # m PROVE OwnMessage(t, x)'
    <3>1. i \in DOMAIN old /\ x \in old[i]
      BY <1>3, <2>1 DEF Added
    <3>2. OwnMessage(t, x)
      BY <1>1, <3>1 DEF StoredInv
    <3> QED BY <1>1, <1>7, <3>2
  <2> QED BY <2>1
<1>10. ASSUME NEW i \in DOMAIN new, NEW j \in DOMAIN new, NEW x \in new[i], NEW y \in new[j]
       PROVE  /\ x = y => i = j
              /\ x.turn = y.turn /\ x.role = "user" /\ y.role = "assistant" => i <= j
  <2>1. Len(new) \in Nat /\ DOMAIN new = 1..Len(new)
    BY <1>3, LenProperties DEF Added
  <2> DEFINE last == Len(new)
  <2>2. i \in Nat /\ j \in Nat /\ i <= last
    <3> HIDE DEF last, new
    <3>1. last \in Nat /\ DOMAIN new = 1..last
      BY <2>1 DEF last
    <3> QED BY <3>1
  <2>3. (x = m => i = last) /\ (y = m => j = last)
    BY <1>3 DEF Added
  <2>4. /\ x # m => i \in DOMAIN old /\ x \in old[i] /\ x \in MessagesOf(t)
        /\ y # m => j \in DOMAIN old /\ y \in old[j] /\ y \in MessagesOf(t)
    <3>1. /\ x # m => i \in DOMAIN old /\ x \in old[i]
          /\ y # m => j \in DOMAIN old /\ y \in old[j]
      BY <1>3 DEF Added
    <3> QED BY <1>1, <3>1 DEF AllOf, Range
  <2> HIDE DEF new, old, last
  <2>5. CASE x = m
    <3>1. x = y => i = j
      BY <2>3, <2>5
    <3>2. CASE y = m
      BY <2>2, <2>3, <2>5, <3>1, <3>2
    <3>3. CASE y # m
      BY <2>4, <2>5, <3>1, <3>3
    <3> QED BY <3>2, <3>3
  <2>6. CASE x # m /\ y = m
    BY <2>2, <2>3, <2>6
  <2>7. CASE x # m /\ y # m
    BY <1>1, <2>4, <2>7 DEF StoredInv, old
  <2> QED BY <2>5, <2>6, <2>7
<1>11. StoredInv'
  <2> SUFFICES ASSUME NEW u \in DOMAIN stored PROVE
        /\ u \in Turns' /\ sends'[u].stage # "creating"
        /\ IsFiniteSet(MessagesOf(u)')
        /\ \A i \in DOMAIN stored'[u] : \A x \in stored'[u][i] : OwnMessage(u, x)'
        /\ \A i, j \in DOMAIN stored'[u] : \A x \in stored'[u][i], y \in stored'[u][j] :
              /\ x = y => i = j
              /\ x.turn = y.turn /\ x.role = "user" /\ y.role = "assistant" => i <= j
    BY <1>2 DEF StoredInv
  <2>1. CASE u = t
    BY <1>6, <1>7, <1>9, <1>10, <2>1
  <2>2. CASE u # t
    BY <1>7, <1>8, <2>2
  <2> QED BY <2>1, <2>2
<1> QED BY <1>4, <1>5, <1>11

(* A thread that is new is empty. *)
LEMMA StoredNew ==
    ASSUME ChatTyped, StoredInv, NEW k \in Turns, sends[k].stage = "creating", CreateThread(k),
           \A j \in Turns : Onward(j), sends'[k].stage # "creating"
    PROVE  /\ StoredInv' /\ stored' \in [DOMAIN stored' -> Seq(SUBSET Message)]
           /\ DOMAIN stored' = DOMAIN stored \cup {k} /\ stored'[k] = <<>>
<1>1. k \notin DOMAIN stored
  BY DEF StoredInv
<1>2. /\ DOMAIN stored' = DOMAIN stored \cup {k} /\ stored'[k] = <<>>
      /\ \A u \in DOMAIN stored : stored'[u] = stored[u]
      /\ stored' = [u \in DOMAIN stored \cup {k} |-> IF u = k THEN <<>> ELSE stored[u]]
  BY <1>1 DEF CreateThread
<1>3. stored' \in [DOMAIN stored' -> Seq(SUBSET Message)]
  <2>1. <<>> \in Seq(SUBSET Message) /\ \A u \in DOMAIN stored : stored[u] \in Seq(SUBSET Message)
    BY DEF ChatTyped
  <2> QED BY <1>2, <2>1
<1>4. \A u \in DOMAIN stored : MessagesOf(u)' = MessagesOf(u)
  BY <1>2 DEF MessagesOf
<1>5. MessagesOf(k)' = {}
  BY <1>2 DEF MessagesOf, Range
<1>6. StoredInv'
  <2> SUFFICES ASSUME NEW u \in DOMAIN stored \cup {k} PROVE
        /\ u \in Turns' /\ sends'[u].stage # "creating"
        /\ IsFiniteSet(MessagesOf(u)')
        /\ \A i \in DOMAIN stored'[u] : \A x \in stored'[u][i] : OwnMessage(u, x)'
        /\ \A i, j \in DOMAIN stored'[u] : \A x \in stored'[u][i], y \in stored'[u][j] :
              /\ x = y => i = j
              /\ x.turn = y.turn /\ x.role = "user" /\ y.role = "assistant" => i <= j
    BY <1>2 DEF StoredInv
  <2>1. CASE u = k
    <3>1. u \in Turns' /\ sends'[u].stage # "creating"
      BY <2>1 DEF Onward
    <3>2. DOMAIN stored'[u] = {}
      BY <1>2, <2>1
    <3>3. IsFiniteSet(MessagesOf(u)')
      <4>1. IsFiniteSet({})
        BY FS_EmptySet
      <4> QED BY <1>5, <2>1, <4>1
    <3> QED BY <3>1, <3>2, <3>3
  <2>2. CASE u \in DOMAIN stored
    BY <1>2, <1>4, <2>2, OwnKept DEF StoredInv, Onward
  <2> QED BY <2>1, <2>2
<1> QED BY <1>2, <1>3, <1>6

(* A step of the call k: what it becomes is a call that goes on.           *)
Goes(k, s) ==
    /\ s \in Send
    /\ s.stage = "creating" => s.thread = None
    /\ s.stage \in {"posting", "asking", "storing"} => s.thread # None
    /\ s.stream = "answering" \/ s.tokens > 0 => s.refs
    /\ s.stage = "storing" => s.tokens > 0
    /\ sends[k].stage # "creating" => s.thread = sends[k].thread /\ s.stage # "creating"
    /\ sends[k].stage \in {"asking", "storing", "over"} => s.stage \in {"asking", "storing", "over"}
    /\ sends[k].stage = "over" => s.stage = "over" /\ s.tokens = sends[k].tokens /\ s.refs = sends[k].refs

LEMMA Moved ==
    ASSUME sends \in Seq(Send), SendsInv, NEW k \in Turns, NEW s, Goes(k, s), sends' = [sends EXCEPT ![k] = s]
    PROVE  /\ sends' \in Seq(Send) /\ Turns' = Turns /\ sends'[k] = s
           /\ \A j \in Turns \ {k} : sends'[j] = sends[j]
           /\ SendsInv' /\ \A j \in Turns : Onward(j)
<1>1. /\ sends' \in Seq(Send) /\ Turns' = Turns /\ sends'[k] = s
      /\ \A j \in Turns \ {k} : sends'[j] = sends[j]
  BY Put DEF Goes
<1>2. ASSUME NEW j \in Turns PROVE Onward(j)
  <2>1. CASE j = k
    BY <1>1, <2>1 DEF Onward, Goes
  <2>2. CASE j # k
    BY <1>1, <2>2 DEF Onward
  <2> QED BY <2>1, <2>2
<1>3. SendsInv'
  <2> SUFFICES ASSUME NEW j \in Turns PROVE
        /\ sends'[j].stage = "creating" => sends'[j].thread = None
        /\ sends'[j].stage \in {"posting", "asking", "storing"} => sends'[j].thread # None
        /\ sends'[j].stream = "answering" \/ sends'[j].tokens > 0 => sends'[j].refs
        /\ sends'[j].stage = "storing" => sends'[j].tokens > 0
    BY <1>1 DEF SendsInv
  <2>1. CASE j = k
    BY <1>1, <2>1 DEF Goes
  <2>2. CASE j # k
    BY <1>1, <2>2 DEF SendsInv
  <2> QED BY <2>1, <2>2
<1> QED BY <1>1, <1>2, <1>3

LEMMA Begun ==
    ASSUME sends \in Seq(Send), SendsInv, NEW s \in Send, sends' = Append(sends, s),
           s.stage = "creating" => s.thread = None,
           s.stage \in {"posting", "asking"} => s.thread # None,
           s.stage # "storing", s.stream # "answering", s.tokens = 0
    PROVE  SendsInv' /\ \A j \in Turns : Onward(j)
<1>1. /\ Turns' = Turns \cup {Len(sends) + 1} /\ Len(sends) + 1 \notin Turns
      /\ sends'[Len(sends) + 1] = s /\ \A j \in Turns : sends'[j] = sends[j]
  BY PutNew
<1>2. ASSUME NEW j \in Turns PROVE Onward(j)
  BY <1>1 DEF Onward
<1>3. SendsInv'
  <2> SUFFICES ASSUME NEW j \in Turns' PROVE
        /\ sends'[j].stage = "creating" => sends'[j].thread = None
        /\ sends'[j].stage \in {"posting", "asking", "storing"} => sends'[j].thread # None
        /\ sends'[j].stream = "answering" \/ sends'[j].tokens > 0 => sends'[j].refs
        /\ sends'[j].stage = "storing" => sends'[j].tokens > 0
    BY DEF SendsInv
  <2>1. CASE j = Len(sends) + 1
    BY <1>1, <2>1
  <2>2. CASE j \in Turns
    BY <1>1, <2>2 DEF SendsInv
  <2> QED BY <1>1, <2>1, <2>2
<1> QED BY <1>2, <1>3

LEMMA TurnsAreNumbers ==
    ASSUME sends \in Seq(Send) PROVE Turns \subseteq Nat \ {0} /\ \A k \in Turns : sends[k] \in Send
  BY LenProperties DEF Turns

(* What a call that goes on leaves of the invariant when it touches        *)
(* nothing else.                                                           *)
LEMMA SendsOnly ==
    ASSUME HomeInv, NEW k \in Turns, NEW s, Goes(k, s), sends' = [sends EXCEPT ![k] = s], UNCHANGED stored
    PROVE  /\ SendsInv' /\ StoredInv' /\ sends' \in Seq(Send) /\ Turns' = Turns /\ sends'[k] = s
           /\ \A j \in Turns \ {k} : sends'[j] = sends[j]
           /\ stored' \in [DOMAIN stored' -> Seq(SUBSET Message)]
  BY Moved, StoredKept DEF HomeInv, ChatTyped
LEMMA SaidIsMessage ==
    ASSUME sends \in Seq(Send), NEW k \in Turns
    PROVE  Question(k) \in Message /\ Answer(k) \in Message
  BY TurnsAreNumbers DEF Question, Answer, Message, Send

LEMMA BeginSendHome == ASSUME HomeInv, BeginSend PROVE HomeInv'
<1> USE DEF HomeInv, ChatTyped
<1> DEFINE k == Len(sends) + 1
           Sent(s) == /\ s \in Send /\ sends' = Append(sends, s)
                      /\ s.stage = "creating" => s.thread = None
                      /\ s.stage \in {"posting", "asking"} => s.thread # None
                      /\ s.stage # "storing" /\ s.stream # "answering" /\ s.tokens = 0
<1>0. k \in Nat \ {0} /\ k \notin Turns /\ -k \in Int /\ UNCHANGED stored
  BY LenProperties DEF Turns, BeginSend
<1>1. ASSUME NEW stage \in {"posting", "asking"}, NEW t \in Thread, NEW e \in Int,
             Enter(k, NewSend(stage, t), e)
      PROVE  /\ \E s : Sent(s)
             /\ active' \in Thread /\ messages' \in Seq(Message) /\ pending' \in Nat /\ streaming' \in BOOLEAN
             /\ abort' = abort \/ abort' = k
  <2> DEFINE s == [NewSend(stage, t) EXCEPT !.thread = e, !.stage = IF persistent THEN "posting" ELSE "asking"]
  <2>1. sends' = Append(sends, s) /\ NewSend(stage, t).captured = messages /\ NewSend(stage, t).persistent = persistent
    BY <1>0, <1>1 DEF Enter, NewSend
  <2>2. s \in Send /\ s.stage \in {"posting", "asking"} /\ s.thread # None /\ s.stream = "none" /\ s.tokens = 0
    BY DEF NewSend, Send, Thread
  <2>3. Sent(s)
    BY <2>1, <2>2
  <2>4. Question(k) \in Message
    BY <1>0 DEF Question, Message
  <2>5. messages' \in Seq(Message)
    BY <1>1, <2>1, <2>4, AppendProperties DEF Enter
  <2> QED BY <1>1, <2>3, <2>5 DEF Enter, Thread
<1>2. /\ \E s : Sent(s)
      /\ active' \in Thread /\ messages' \in Seq(Message) /\ pending' \in Nat /\ streaming' \in BOOLEAN
      /\ abort' = abort \/ abort' = k
      /\ threads' \subseteq Int
  <2>1. CASE active # None /\ Enter(k, NewSend("posting", active), active) /\ UNCHANGED threads
    BY <1>1, <2>1 DEF Thread
  <2>2. CASE active = None /\ sends' = Append(sends, NewSend("creating", None)) /\ UNCHANGED <<threads, view, streaming, abort>>
    <3>1. Sent(NewSend("creating", None))
      BY <2>2 DEF NewSend, Send, Thread
    <3> QED BY <2>2, <3>1 DEF view
  <2>3. CASE active = None /\ Enter(k, NewSend("asking", None), LocalThread(k)) /\ threads' = threads \cup {LocalThread(k)}
    BY <1>0, <1>1, <2>3 DEF Thread, LocalThread
  <2> QED BY <2>1, <2>2, <2>3 DEF BeginSend
<1>3. PICK s : Sent(s)
  BY <1>2
<1>4. SendsInv' /\ \A j \in Turns : Onward(j)
  <2> HIDE DEF k
  <2> QED BY <1>3, Begun
<1>5. Turns' = Turns \cup {k} /\ sends' \in Seq(Send)
  BY <1>3, PutNew
<1>6. StoredInv'
  BY <1>0, <1>4, StoredKept
<1> HIDE DEF Sent, k
<1>7. UNCHANGED <<stored, persistent, loads, removals, clicks, faults>> /\ mixed' \in BOOLEAN
  BY DEF BeginSend
<1> QED BY <1>0, <1>2, <1>4, <1>5, <1>6, <1>7

(* Entering the thread that was created, or that never was.                *)
LEMMA EnteredHome ==
    ASSUME HomeInv, NEW k \in Turns, sends[k].stage = "creating", NEW t \in Int, Enter(k, sends[k], t)
    PROVE  /\ \E s : /\ Goes(k, s) /\ sends' = [sends EXCEPT ![k] = s]
                     /\ s = [sends[k] EXCEPT !.thread = t, !.stage = IF sends[k].persistent THEN "posting" ELSE "asking"]
           /\ active' = t /\ messages' = Append(sends[k].captured, Question(k)) /\ messages' \in Seq(Message)
           /\ pending' \in Nat /\ streaming' \in BOOLEAN /\ abort' \in Turns \cup {None}
<1> USE DEF HomeInv, ChatTyped
<1>1. sends[k] \in Send /\ Question(k) \in Message
  BY TurnsAreNumbers, SaidIsMessage
<1> DEFINE s == [sends[k] EXCEPT !.thread = t, !.stage = IF sends[k].persistent THEN "posting" ELSE "asking"]
<1>2. sends' = [sends EXCEPT ![k] = s]
  BY <1>1 DEF Enter, Send
<1>3. /\ s \in Send /\ s.stage \in {"posting", "asking"} /\ s.thread = t /\ s.stream = sends[k].stream
      /\ s.tokens = sends[k].tokens /\ s.refs = sends[k].refs
  BY <1>1 DEF Send, Thread
<1>4. Goes(k, s)
  BY <1>3 DEF Goes, SendsInv
<1>5. messages' = Append(sends[k].captured, Question(k)) /\ messages' \in Seq(Message)
  BY <1>1, AppendProperties DEF Enter, Send
<1> QED BY <1>2, <1>4, <1>5 DEF Enter

LEMMA ThreadCreatedHome ==
    ASSUME HomeInv, NEW k \in Turns, ThreadCreated(k)
    PROVE  HomeInv' /\ stored'[k] = <<>>
<1> USE DEF HomeInv, ChatTyped
<1>0. k \in Int /\ sends[k].stage = "creating" /\ Enter(k, sends[k], k) /\ CreateThread(k)
  BY TurnsAreNumbers DEF ThreadCreated
<1>1. PICK s : /\ Goes(k, s) /\ sends' = [sends EXCEPT ![k] = s]
               /\ s = [sends[k] EXCEPT !.thread = k, !.stage = IF sends[k].persistent THEN "posting" ELSE "asking"]
  BY <1>0, EnteredHome
<1>2. /\ sends' \in Seq(Send) /\ Turns' = Turns /\ sends'[k] = s /\ SendsInv' /\ \A j \in Turns : Onward(j)
  BY <1>1, Moved
<1>3. sends'[k].stage # "creating"
  BY <1>0, <1>1, <1>2, TurnsAreNumbers DEF Send
<1>4. StoredInv' /\ stored' \in [DOMAIN stored' -> Seq(SUBSET Message)] /\ stored'[k] = <<>>
  BY <1>0, <1>2, <1>3, StoredNew
<1>5. /\ active' = k /\ messages' \in Seq(Message) /\ pending' \in Nat /\ streaming' \in BOOLEAN
      /\ abort' \in Turns \cup {None}
  BY <1>0, EnteredHome
<1>6. threads' \subseteq Int /\ UNCHANGED <<persistent, loads, removals, clicks, faults, mixed>>
  BY <1>0 DEF ThreadCreated, Succeeds
<1> QED BY <1>0, <1>2, <1>4, <1>5, <1>6 DEF Thread

LEMMA CreateUnavailableHome ==
    ASSUME HomeInv, NEW k \in Turns, CreateUnavailable(k)
    PROVE  HomeInv'
<1> USE DEF HomeInv, ChatTyped
<1>0. k \in Nat /\ -k \in Int /\ sends[k].stage = "creating" /\ Enter(k, sends[k], -k) /\ UNCHANGED stored
  BY TurnsAreNumbers DEF CreateUnavailable, LocalThread
<1>1. PICK s : Goes(k, s) /\ sends' = [sends EXCEPT ![k] = s]
  BY <1>0, EnteredHome
<1>2. /\ sends' \in Seq(Send) /\ Turns' = Turns /\ SendsInv' /\ StoredInv'
      /\ stored' \in [DOMAIN stored' -> Seq(SUBSET Message)]
  BY <1>0, <1>1, SendsOnly
<1>3. /\ active' = -k /\ messages' \in Seq(Message) /\ pending' \in Nat /\ streaming' \in BOOLEAN
      /\ abort' \in Turns \cup {None}
  BY <1>0, EnteredHome
<1>4. /\ threads' \subseteq Int /\ UNCHANGED <<loads, removals, clicks>>
      /\ persistent' \in BOOLEAN /\ faults' \in Nat /\ mixed' \in BOOLEAN
  BY <1>0, SMTT(40) DEF CreateUnavailable, Fault, LocalThread
<1> QED BY <1>0, <1>2, <1>3, <1>4 DEF Thread

LEMMA CreateFailsHome ==
    ASSUME HomeInv, NEW k \in Turns, CreateFails(k)
    PROVE  /\ HomeInv' /\ \A t \in DOMAIN stored' : t = k \/ (t \in DOMAIN stored /\ stored'[t] = stored[t])
           /\ Turns' = Turns /\ sends'[k].stage = "over" /\ \A j \in Turns \ {k} : sends'[j] = sends[j]
<1> USE DEF HomeInv, ChatTyped
<1> DEFINE s == [sends[k] EXCEPT !.stage = "over"]
<1>0. sends[k] \in Send /\ sends[k].stage = "creating"
  BY TurnsAreNumbers DEF CreateFails
<1>1. Goes(k, s) /\ s.stage = "over"
  BY <1>0 DEF Goes, Send, SendsInv
<1>2. sends' = [sends EXCEPT ![k] = s]
  BY <1>0 DEF CreateFails, Send
<1> HIDE DEF s
<1>3. /\ sends' \in Seq(Send) /\ Turns' = Turns /\ sends'[k] = s /\ SendsInv' /\ \A j \in Turns : Onward(j)
      /\ \A j \in Turns \ {k} : sends'[j] = sends[j]
  BY <1>1, <1>2, Moved
<1>4. /\ StoredInv' /\ stored' \in [DOMAIN stored' -> Seq(SUBSET Message)]
      /\ \A t \in DOMAIN stored' : t = k \/ (t \in DOMAIN stored /\ stored'[t] = stored[t])
  <2>1. CASE UNCHANGED stored
    BY <1>3, <2>1, StoredKept
  <2>2. CASE CreateThread(k)
    BY <1>0, <1>1, <1>3, <2>2, StoredNew DEF CreateThread
  <2> QED BY <2>1, <2>2 DEF CreateFails
<1>5. /\ UNCHANGED <<threads, active, messages, pending, streaming, abort, loads, removals, clicks, mixed>>
      /\ faults' \in Nat /\ persistent' \in BOOLEAN
  BY DEF CreateFails, Fault, view
<1> QED BY <1>1, <1>3, <1>4, <1>5
LEMMA StoredOwn ==
    ASSUME StoredInv, NEW t \in DOMAIN stored, NEW m \in MessagesOf(t) PROVE OwnMessage(t, m)
<1>1. PICK i \in DOMAIN stored[t] : m \in stored[t][i]
  BY DEF MessagesOf, Range
<1> QED BY <1>1 DEF StoredInv

(* A question or an answer is stored while its call is known to have it    *)
(* outside the database.                                                   *)
LEMMA AskHome ==
    ASSUME HomeInv, NEW k \in Turns, sends[k].stage = "posting", Ask(k),
           UNCHANGED stored \/ AddMessage(sends[k].thread, Question(k))
    PROVE  /\ SendsInv' /\ StoredInv' /\ sends' \in Seq(Send) /\ Turns' = Turns /\ abort' \in Turns
           /\ stored' \in [DOMAIN stored' -> Seq(SUBSET Message)]
           /\ sends'[k] = [sends[k] EXCEPT !.stage = "asking", !.stream = "retrieving"]
           /\ \A j \in Turns \ {k} : sends'[j] = sends[j]
           /\ AddMessage(sends[k].thread, Question(k)) =>
                 \A list \in ListMessages(stored[sends[k].thread]) :
                    Append(list, Question(k)) \in ListMessages(stored'[sends[k].thread])
<1> USE DEF HomeInv, ChatTyped
<1> DEFINE s == [sends[k] EXCEPT !.stage = "asking", !.stream = "retrieving"]
<1>t. ChatTyped /\ StoredInv
  OBVIOUS
<1>0. sends[k] \in Send
  BY TurnsAreNumbers
<1>1. Goes(k, s) /\ s.stage = "asking" /\ s.thread = sends[k].thread
  BY <1>0 DEF Goes, Send, SendsInv
<1>2. sends' = [sends EXCEPT ![k] = s] /\ abort' = k
  BY <1>0 DEF Ask, Send
<1>s. s = [sends[k] EXCEPT !.stage = "asking", !.stream = "retrieving"]
  OBVIOUS
<1> HIDE DEF s
<1>3. /\ sends' \in Seq(Send) /\ Turns' = Turns /\ sends'[k] = s /\ SendsInv' /\ \A j \in Turns : Onward(j)
      /\ \A j \in Turns \ {k} : sends'[j] = sends[j]
  BY <1>1, <1>2, Moved
<1>4. CASE UNCHANGED stored /\ ~AddMessage(sends[k].thread, Question(k))
  BY <1>2, <1>3, <1>4, <1>s, StoredKept
<1>5. CASE AddMessage(sends[k].thread, Question(k))
  <2>0. PICK t, m : t = sends[k].thread /\ m = Question(k)
    OBVIOUS
  <2>1. t \in DOMAIN stored /\ m \in Message /\ m.turn = k /\ m.role = "user"
    BY <1>5, <2>0, SaidIsMessage DEF AddMessage, HasThread, Question
  <2>2. \A n \in MessagesOf(t) : n.turn # k
    <3> SUFFICES ASSUME NEW n \in MessagesOf(t), n.turn = k PROVE FALSE
      OBVIOUS
    <3>1. OwnMessage(t, n)
      BY <1>t, <2>1, StoredOwn
    <3> QED BY <2>0, <3>1 DEF OwnMessage
  <2>3. OwnMessage(t, m)'
    BY <1>1, <1>3, <2>0, <2>1 DEF OwnMessage, Question
  <2>4. AddMessage(t, m)
    BY <1>5, <2>0
  <2> HIDE DEF HomeInv, ChatTyped
  <2>5. m \notin MessagesOf(t) /\ (m.role = "user" => \A n \in MessagesOf(t) : n.turn = m.turn => n.role # "assistant")
    BY <2>1, <2>2
  <2>6. /\ StoredInv' /\ stored' \in [DOMAIN stored -> Seq(SUBSET Message)]
        /\ \A list \in ListMessages(stored[t]) : Append(list, m) \in ListMessages(stored'[t])
    BY <1>3, <2>1, <2>3, <2>4, <2>5, <1>t, StoredMore
  <2> QED BY <1>2, <1>3, <1>s, <2>0, <2>6
<1> QED BY <1>4, <1>5

LEMMA QuestionStoredHome ==
    ASSUME HomeInv, NEW k \in Turns, QuestionStored(k) PROVE HomeInv'
<1> USE DEF HomeInv, ChatTyped
<1>1. sends[k].stage = "posting" /\ Ask(k) /\ AddMessage(sends[k].thread, Question(k))
  BY DEF QuestionStored
<1>2. /\ SendsInv' /\ StoredInv' /\ sends' \in Seq(Send) /\ Turns' = Turns /\ abort' \in Turns
      /\ stored' \in [DOMAIN stored' -> Seq(SUBSET Message)]
  BY <1>1, AskHome
<1> QED BY <1>2 DEF QuestionStored, Succeeds, view

LEMMA QuestionNotStoredHome ==
    ASSUME HomeInv, NEW k \in Turns, QuestionNotStored(k) PROVE HomeInv'
<1> USE DEF HomeInv, ChatTyped
<1>1. sends[k].stage = "posting" /\ Ask(k) /\ (UNCHANGED stored \/ AddMessage(sends[k].thread, Question(k)))
  BY DEF QuestionNotStored
<1>2. /\ SendsInv' /\ StoredInv' /\ sends' \in Seq(Send) /\ Turns' = Turns /\ abort' \in Turns
      /\ stored' \in [DOMAIN stored' -> Seq(SUBSET Message)]
  BY <1>1, AskHome
<1>3. persistent' \in BOOLEAN /\ faults' \in Nat
  <2>1. faults + 1 \in Nat /\ \A b \in BOOLEAN : (persistent /\ ~b) \in BOOLEAN
    OBVIOUS
  <2>2. \/ UNCHANGED <<faults, persistent>>
        \/ \E b \in BOOLEAN : faults' = faults + 1 /\ persistent' = (persistent /\ ~b)
    BY FALSE \in BOOLEAN, Zenon DEF QuestionNotStored, Fault
  <2> QED BY <2>1, <2>2
<1> QED BY <1>2, <1>3 DEF QuestionNotStored, view

LEMMA ReferencesHome ==
    ASSUME HomeInv, NEW k \in Turns, References(k)
    PROVE  /\ HomeInv' /\ Turns' = Turns /\ sends'[k] = [sends[k] EXCEPT !.stream = "answering", !.refs = TRUE]
           /\ \A j \in Turns \ {k} : sends'[j] = sends[j]
<1> USE DEF HomeInv, ChatTyped
<1> DEFINE s == [sends[k] EXCEPT !.stream = "answering", !.refs = TRUE]
<1>0. sends[k] \in Send /\ sends[k].stage = "asking"
  BY TurnsAreNumbers DEF References, Asking
<1>1. Goes(k, s)
  BY <1>0 DEF Goes, Send, SendsInv
<1>2. sends' = [sends EXCEPT ![k] = s] /\ UNCHANGED stored
  BY <1>0 DEF References, Send
<1> HIDE DEF s
<1>3. /\ SendsInv' /\ StoredInv' /\ sends' \in Seq(Send) /\ Turns' = Turns /\ sends'[k] = s
      /\ \A j \in Turns \ {k} : sends'[j] = sends[j]
      /\ stored' \in [DOMAIN stored' -> Seq(SUBSET Message)]
  BY <1>1, <1>2, SendsOnly
<1> QED BY <1>3 DEF References, view, s

LEMMA TokenHome ==
    ASSUME HomeInv, NEW k \in Turns, Token(k)
    PROVE  /\ HomeInv' /\ Turns' = Turns /\ sends'[k] = [sends[k] EXCEPT !.tokens = sends[k].tokens + 1]
           /\ \A j \in Turns \ {k} : sends'[j] = sends[j]
<1> USE DEF HomeInv, ChatTyped
<1> DEFINE s == [sends[k] EXCEPT !.tokens = sends[k].tokens + 1]
<1>0. sends[k] \in Send /\ sends[k].stage = "asking" /\ sends[k].stream = "answering" /\ sends[k].tokens + 1 \in Nat
  <2>1. sends[k] \in Send
    BY TurnsAreNumbers
  <2>2. sends[k].stage = "asking" /\ sends[k].stream = "answering"
    BY DEF Token, Asking
  <2>3. sends[k].tokens \in Nat
    BY <2>1 DEF Send
  <2> QED BY <2>1, <2>2, <2>3
<1>1. Goes(k, s)
  <2>1. sends[k].refs
    BY <1>0 DEF SendsInv
  <2> QED BY <1>0, <2>1 DEF Goes, Send, SendsInv
<1>2. sends' = [sends EXCEPT ![k] = s] /\ UNCHANGED stored
  BY <1>0 DEF Token, Send
<1> HIDE DEF s
<1>3. /\ SendsInv' /\ StoredInv' /\ sends' \in Seq(Send) /\ Turns' = Turns /\ sends'[k] = s
      /\ \A j \in Turns \ {k} : sends'[j] = sends[j]
      /\ stored' \in [DOMAIN stored' -> Seq(SUBSET Message)]
  BY <1>1, <1>2, SendsOnly
<1>4. pending' \in Nat
  BY <1>0 DEF Token
<1> QED BY <1>3, <1>4 DEF Token, s

LEMMA SettleHome ==
    ASSUME HomeInv, NEW k \in Turns, Asking(k), Settle(k), faults' \in Nat
    PROVE  /\ HomeInv' /\ Turns' = Turns /\ \A j \in Turns \ {k} : sends'[j] = sends[j]
           /\ sends'[k].thread = sends[k].thread /\ sends'[k].persistent = sends[k].persistent
           /\ sends'[k].stage = IF sends[k].tokens > 0 /\ sends[k].persistent THEN "storing" ELSE "over"
           /\ Answer(k)' = Answer(k)
<1> USE DEF HomeInv, ChatTyped
<1> DEFINE storing == sends[k].tokens > 0 /\ sends[k].persistent
           s == [sends[k] EXCEPT !.stage = IF storing THEN "storing" ELSE "over", !.captured = <<>>,
                                 !.aborted = FALSE, !.stream = "none"]
<1>0. sends[k] \in Send /\ sends[k].stage = "asking" /\ <<>> \in Seq(Message)
  BY TurnsAreNumbers DEF Asking
<1>1. /\ s.stage = (IF storing THEN "storing" ELSE "over") /\ s.thread = sends[k].thread
      /\ s.persistent = sends[k].persistent /\ s.tokens = sends[k].tokens /\ s.refs = sends[k].refs
      /\ s.stream = "none" /\ s \in Send
  BY <1>0 DEF Send
<1>2. sends' = [sends EXCEPT ![k] = s] /\ UNCHANGED stored
  BY <1>0 DEF Settle, Send
<1> HIDE DEF s
<1>3. Goes(k, s)
  BY <1>0, <1>1 DEF Goes, SendsInv
<1>4. /\ SendsInv' /\ StoredInv' /\ sends' \in Seq(Send) /\ Turns' = Turns /\ sends'[k] = s
      /\ \A j \in Turns \ {k} : sends'[j] = sends[j]
      /\ stored' \in [DOMAIN stored' -> Seq(SUBSET Message)]
  BY <1>2, <1>3, SendsOnly
<1>5. messages' \in Seq(Message) /\ pending' \in Nat
  BY SaidIsMessage, AppendProperties DEF Settle
<1> QED BY <1>1, <1>4, <1>5 DEF Settle, Answer

LEMMA OverHome ==
    ASSUME HomeInv, NEW k \in Turns, sends[k].stage = "storing", SendOver(k),
           UNCHANGED stored \/ AddMessage(sends[k].thread, Answer(k))
    PROVE  /\ SendsInv' /\ StoredInv' /\ sends' \in Seq(Send) /\ Turns' = Turns /\ pending' \in Nat
           /\ stored' \in [DOMAIN stored' -> Seq(SUBSET Message)]
           /\ sends'[k].stage = "over"
           /\ \A j \in Turns \ {k} : sends'[j] = sends[j]
           /\ AddMessage(sends[k].thread, Answer(k)) =>
                 \A list \in ListMessages(stored[sends[k].thread]) :
                    Append(list, Answer(k)) \in ListMessages(stored'[sends[k].thread])
<1> USE DEF HomeInv, ChatTyped
<1> DEFINE s == [sends[k] EXCEPT !.stage = "over"]
<1>t. ChatTyped /\ StoredInv
  OBVIOUS
<1>0. sends[k] \in Send
  BY TurnsAreNumbers
<1>1. Goes(k, s) /\ s.stage = "over" /\ s.thread = sends[k].thread /\ s.tokens = sends[k].tokens /\ s.refs = sends[k].refs
  BY <1>0 DEF Goes, Send, SendsInv
<1>2. sends' = [sends EXCEPT ![k] = s] /\ pending' = 0
  BY <1>0 DEF SendOver, Send
<1> HIDE DEF s
<1>3. /\ sends' \in Seq(Send) /\ Turns' = Turns /\ sends'[k] = s /\ SendsInv' /\ \A j \in Turns : Onward(j)
      /\ \A j \in Turns \ {k} : sends'[j] = sends[j]
  BY <1>1, <1>2, Moved
<1>4. CASE UNCHANGED stored /\ ~AddMessage(sends[k].thread, Answer(k))
  BY <1>1, <1>2, <1>3, <1>4, StoredKept
<1>5. CASE AddMessage(sends[k].thread, Answer(k))
  <2>0. PICK t, m : t = sends[k].thread /\ m = Answer(k)
    OBVIOUS
  <2>1. t \in DOMAIN stored /\ m \in Message /\ m.turn = k /\ m.role = "assistant" /\ AddMessage(t, m)
    BY <1>5, <2>0, SaidIsMessage DEF AddMessage, HasThread, Answer
  <2>2. m \notin MessagesOf(t)
    <3> SUFFICES ASSUME m \in MessagesOf(t) PROVE FALSE
      OBVIOUS
    <3>1. OwnMessage(t, m)
      BY <1>t, <2>1, StoredOwn
    <3>2. m # Question(k)
      BY <2>1 DEF Question
    <3> QED BY <2>0, <2>1, <3>1, <3>2 DEF OwnMessage
  <2>3. OwnMessage(t, m)'
    <3>1. sends[k].refs
      BY <1>0 DEF SendsInv
    <3>2. m = Answer(k)'
      BY <1>1, <1>3, <2>0 DEF Answer
    <3> QED BY <1>1, <1>3, <2>0, <2>1, <3>1, <3>2 DEF OwnMessage
  <2> HIDE DEF HomeInv, ChatTyped
  <2>4. m.role = "user" => \A n \in MessagesOf(t) : n.turn = m.turn => n.role # "assistant"
    BY <2>1
  <2>5. /\ StoredInv' /\ stored' \in [DOMAIN stored -> Seq(SUBSET Message)]
        /\ \A list \in ListMessages(stored[t]) : Append(list, m) \in ListMessages(stored'[t])
    BY <1>3, <2>1, <2>2, <2>3, <2>4, <1>t, StoredMore
  <2> QED BY <1>1, <1>2, <1>3, <2>0, <2>5
<1> QED BY <1>4, <1>5

LEMMA AnswerStoredHome ==
    ASSUME HomeInv, NEW k \in Turns, AnswerStored(k) PROVE HomeInv'
<1> USE DEF HomeInv, ChatTyped
<1>1. sends[k].stage = "storing" /\ SendOver(k) /\ AddMessage(sends[k].thread, Answer(k))
  BY DEF AnswerStored
<1>2. /\ SendsInv' /\ StoredInv' /\ sends' \in Seq(Send) /\ Turns' = Turns /\ pending' \in Nat
      /\ stored' \in [DOMAIN stored' -> Seq(SUBSET Message)]
  BY <1>1, OverHome
<1> QED BY <1>2 DEF AnswerStored, Succeeds

LEMMA AnswerNotStoredHome ==
    ASSUME HomeInv, NEW k \in Turns, AnswerNotStored(k) PROVE HomeInv'
<1> USE DEF HomeInv, ChatTyped
<1>1. sends[k].stage = "storing" /\ SendOver(k) /\ (UNCHANGED stored \/ AddMessage(sends[k].thread, Answer(k)))
  BY DEF AnswerNotStored
<1>2. /\ SendsInv' /\ StoredInv' /\ sends' \in Seq(Send) /\ Turns' = Turns /\ pending' \in Nat
      /\ stored' \in [DOMAIN stored' -> Seq(SUBSET Message)]
  BY <1>1, OverHome
<1>3. persistent' \in BOOLEAN /\ faults' \in Nat
  <2>1. faults + 1 \in Nat /\ \A b \in BOOLEAN : (persistent /\ ~b) \in BOOLEAN
    OBVIOUS
  <2>2. \/ UNCHANGED <<faults, persistent>>
        \/ \E b \in BOOLEAN : faults' = faults + 1 /\ persistent' = (persistent /\ ~b)
    BY FALSE \in BOOLEAN, Zenon DEF AnswerNotStored, Fault
  <2> QED BY <2>1, <2>2
<1> QED BY <1>2, <1>3 DEF AnswerNotStored

LEMMA StopHome ==
    ASSUME HomeInv, Stop
    PROVE  /\ HomeInv' /\ Turns' = Turns
           /\ \A j \in Turns : sends'[j] = sends[j] \/ sends'[j] = [sends[j] EXCEPT !.aborted = TRUE]
<1> USE DEF HomeInv, ChatTyped
<1>1. CASE abort = None \/ abort \notin Turns
  <2>1. sends' = sends
    BY <1>1 DEF Stop
  <2>2. \A j \in Turns : Onward(j)
    BY <2>1 DEF Onward, Turns
  <2>3. StoredInv' /\ SendsInv' /\ Turns' = Turns
    BY <2>1, <2>2, StoredKept DEF SendsInv, Stop, Turns
  <2> QED BY <2>1, <2>3 DEF Stop, view
<1>2. CASE abort # None /\ abort \in Turns
  <2> DEFINE s == [sends[abort] EXCEPT !.aborted = TRUE]
  <2>0. sends[abort] \in Send
    BY <1>2, TurnsAreNumbers
  <2>1. Goes(abort, s)
    BY <1>2, <2>0 DEF Goes, Send, SendsInv
  <2>2. sends' = [sends EXCEPT ![abort] = s] /\ UNCHANGED stored
    BY <1>2, <2>0 DEF Stop, Send
  <2> HIDE DEF s
  <2>3. /\ SendsInv' /\ StoredInv' /\ sends' \in Seq(Send) /\ Turns' = Turns /\ sends'[abort] = s
        /\ \A j \in Turns \ {abort} : sends'[j] = sends[j]
        /\ stored' \in [DOMAIN stored' -> Seq(SUBSET Message)]
    BY <1>2, <2>1, <2>2, SendsOnly
  <2> QED BY <2>3 DEF Stop, view, s
<1> QED BY <1>1, <1>2

----------------------------------------------------------------------------
(* The chat: steps of the side bar.                                        *)

(* They leave the calls alone, and the database what it is.                *)
LEMMA SideBarKeeps ==
    ASSUME HomeInv, UNCHANGED <<sends, stored>>
    PROVE  SendsInv' /\ StoredInv' /\ Turns' = Turns /\ sends' \in Seq(Send)
           /\ stored' \in [DOMAIN stored' -> Seq(SUBSET Message)]
<1>1. \A j \in Turns : Onward(j)
  BY DEF Onward, Turns
<1>2. StoredInv'
  BY <1>1, StoredKept DEF HomeInv
<1> QED BY <1>2 DEF HomeInv, ChatTyped, SendsInv, Turns

LEMMA ListedIsTyped ==
    ASSUME HomeInv, NEW t \in DOMAIN stored, NEW list \in ListMessages(stored[t])
    PROVE  list \in Seq(Message)
<1>1. stored[t] \in Seq(SUBSET Message)
  BY DEF HomeInv, ChatTyped
<1>2. AllOf(stored[t]) \subseteq Message
  <2> DEFINE old == stored[t]
  <2>1. old \in Seq(SUBSET Message)
    BY <1>1
  <2> HIDE DEF old
  <2>2. AllOf(old) \subseteq Message
    BY <2>1, LenProperties DEF AllOf, Range
  <2> QED BY <2>2 DEF old
<1>3. list \in SetToSeqs(AllOf(stored[t]))
  BY DEF ListMessages, AllOf
<1> DEFINE n == Cardinality(AllOf(stored[t]))
<1>4. list \in [1..n -> Message]
  <2>1. list \in [1..n -> AllOf(stored[t])]
    BY <1>3 DEF SetToSeqs
  <2> HIDE DEF n
  <2> QED BY <1>2, <2>1
<1>5. n \in Nat
  BY FS_CardinalityType DEF HomeInv, StoredInv, MessagesOf, AllOf
<1> HIDE DEF n
<1> QED BY <1>4, <1>5

LEMMA OpenThreadHome == ASSUME HomeInv, NEW t \in threads, OpenThread(t) PROVE HomeInv'
<1> USE DEF HomeInv, ChatTyped
<1>1. /\ SendsInv' /\ StoredInv' /\ Turns' = Turns /\ sends' \in Seq(Send)
      /\ stored' \in [DOMAIN stored' -> Seq(SUBSET Message)]
  BY SideBarKeeps DEF OpenThread
<1>2. t \in Int /\ <<>> \in Seq(Message)
  OBVIOUS
<1>3. loads' \subseteq Load /\ messages' \in Seq(Message) /\ mixed' \in BOOLEAN
  <2>1. [call |-> clicks, thread |-> t, read |-> FALSE, got |-> <<>>] \in Load
    BY <1>2 DEF Load
  <2> QED BY <1>2, <2>1 DEF OpenThread
<1> QED BY <1>1, <1>2, <1>3, SMTT(40) DEF OpenThread, Thread

LEMMA ReadThreadHome == ASSUME HomeInv, NEW l \in loads, ReadThread(l) PROVE HomeInv'
<1> USE DEF HomeInv, ChatTyped
<1>1. /\ SendsInv' /\ StoredInv' /\ Turns' = Turns /\ sends' \in Seq(Send)
      /\ stored' \in [DOMAIN stored' -> Seq(SUBSET Message)]
  BY SideBarKeeps DEF ReadThread
<1>2. PICK got \in ListMessages(stored[l.thread]) :
         loads' = (loads \ {l}) \cup {[l EXCEPT !.read = TRUE, !.got = got]}
  BY DEF ReadThread
<1>3. got \in Seq(Message)
  BY ListedIsTyped DEF ReadThread, HasThread
<1>4. loads' \subseteq Load
  BY <1>2, <1>3 DEF Load
<1> QED BY <1>1, <1>4 DEF ReadThread, view

LEMMA ThreadLoadedHome == ASSUME HomeInv, NEW l \in loads, ThreadLoaded(l) PROVE HomeInv'
<1> USE DEF HomeInv, ChatTyped
<1>1. /\ SendsInv' /\ StoredInv' /\ Turns' = Turns /\ sends' \in Seq(Send)
      /\ stored' \in [DOMAIN stored' -> Seq(SUBSET Message)]
  BY SideBarKeeps DEF ThreadLoaded
<1>2. messages' \in Seq(Message) /\ loads' \subseteq Load
  BY DEF ThreadLoaded, Load
<1> QED BY <1>1, <1>2 DEF ThreadLoaded, Succeeds

LEMMA ThreadNotLoadedHome == ASSUME HomeInv, NEW l \in loads, ThreadNotLoaded(l) PROVE HomeInv'
<1> USE DEF HomeInv, ChatTyped
<1>1. /\ SendsInv' /\ StoredInv' /\ Turns' = Turns /\ sends' \in Seq(Send)
      /\ stored' \in [DOMAIN stored' -> Seq(SUBSET Message)]
  BY SideBarKeeps DEF ThreadNotLoaded
<1>2. messages' \in Seq(Message) /\ loads' \subseteq Load
  BY <<>> \in Seq(Message) DEF ThreadNotLoaded
<1>3. faults' \in Nat /\ persistent' \in BOOLEAN
  <2>1. faults + 1 \in Nat /\ \A b \in BOOLEAN : (persistent /\ ~b) \in BOOLEAN
    BY DEF ChatTyped
  <2>2. \/ UNCHANGED <<faults, persistent>>
        \/ \E b \in BOOLEAN : faults' = faults + 1 /\ persistent' = (persistent /\ ~b)
    BY FALSE \in BOOLEAN, TRUE \in BOOLEAN, Zenon DEF ThreadNotLoaded, Fault
  <2> QED BY <2>1, <2>2 DEF ChatTyped
<1> QED BY <1>1, <1>2, <1>3 DEF ThreadNotLoaded

LEMMA NewThreadHome == ASSUME HomeInv, NewThread PROVE HomeInv'
<1> USE DEF HomeInv, ChatTyped
<1>1. /\ SendsInv' /\ StoredInv' /\ Turns' = Turns /\ sends' \in Seq(Send)
      /\ stored' \in [DOMAIN stored' -> Seq(SUBSET Message)]
  BY SideBarKeeps DEF NewThread, calls
<1> QED BY <1>1, <<>> \in Seq(Message) DEF NewThread, calls, Thread

LEMMA ForgetHome ==
    ASSUME ChatTyped, NEW t, NEW shown \in BOOLEAN, Forget(t, shown)
    PROVE  threads' \subseteq Int /\ active' \in Thread /\ messages' \in Seq(Message) /\ pending' \in Nat
<1>1. CASE shown
  BY <1>1, <<>> \in Seq(Message) DEF ChatTyped, Forget, Thread
<1>2. CASE ~shown
  BY <1>2 DEF ChatTyped, Forget, view
<1> QED BY <1>1, <1>2

LEMMA RemoveThreadHome == ASSUME HomeInv, NEW t \in threads, RemoveThread(t) PROVE HomeInv'
<1> USE DEF HomeInv
<1>1. /\ SendsInv' /\ StoredInv' /\ Turns' = Turns /\ sends' \in Seq(Send)
      /\ stored' \in [DOMAIN stored' -> Seq(SUBSET Message)]
  BY SideBarKeeps DEF RemoveThread
<1>2. removals' \subseteq Removal
  <2>1. [call |-> clicks, thread |-> t, shown |-> active = t] \in Removal
    BY t \in Int, clicks \in Nat, (active = t) \in BOOLEAN DEF Removal, ChatTyped
  <2> QED BY <2>1 DEF RemoveThread, ChatTyped
<1>3. threads' \subseteq Int /\ active' \in Thread /\ messages' \in Seq(Message) /\ pending' \in Nat
  BY ForgetHome DEF RemoveThread, view, ChatTyped
<1>4. mixed' \in BOOLEAN
  BY DEF RemoveThread
<1> QED BY <1>1, <1>2, <1>3, <1>4, SMTT(30) DEF RemoveThread, ChatTyped

LEMMA ThreadRemovedHome == ASSUME HomeInv, NEW r \in removals, ThreadRemoved(r) PROVE HomeInv'
<1> USE DEF HomeInv
<1>1. \A j \in Turns : Onward(j)
  BY DEF ThreadRemoved, Onward, Turns
<1>2. /\ DOMAIN stored' = DOMAIN stored \ {r.thread} /\ \A u \in DOMAIN stored' : stored'[u] = stored[u]
      /\ stored' = [u \in DOMAIN stored \ {r.thread} |-> stored[u]]
  BY DEF ThreadRemoved, DeleteThread
<1>3. stored' \in [DOMAIN stored' -> Seq(SUBSET Message)]
  BY <1>2 DEF ChatTyped
<1>4. SendsInv' /\ Turns' = Turns /\ sends' = sends
  BY DEF ThreadRemoved, SendsInv, Turns
<1>5. StoredInv'
  <2> SUFFICES ASSUME NEW u \in DOMAIN stored' PROVE
        /\ u \in Turns' /\ sends'[u].stage # "creating"
        /\ IsFiniteSet(MessagesOf(u)')
        /\ \A i \in DOMAIN stored'[u] : \A x \in stored'[u][i] : OwnMessage(u, x)'
        /\ \A i, j \in DOMAIN stored'[u] : \A x \in stored'[u][i], y \in stored'[u][j] :
              /\ x = y => i = j
              /\ x.turn = y.turn /\ x.role = "user" /\ y.role = "assistant" => i <= j
    BY DEF StoredInv
  <2>1. u \in DOMAIN stored /\ stored'[u] = stored[u]
    BY <1>2
  <2>2. MessagesOf(u)' = MessagesOf(u)
    BY <2>1 DEF MessagesOf
  <2>3. \A x : OwnMessage(u, x) => OwnMessage(u, x)'
    BY <1>1, OwnKept
  <2> QED BY <1>4, <2>1, <2>2, <2>3 DEF StoredInv
<1>6. threads' \subseteq Int /\ active' \in Thread /\ messages' \in Seq(Message) /\ pending' \in Nat
  BY ForgetHome DEF ThreadRemoved, ChatTyped, Removal
<1> QED BY <1>3, <1>4, <1>5, <1>6 DEF ThreadRemoved, Succeeds, ChatTyped

LEMMA ThreadNotRemovedHome == ASSUME HomeInv, NEW r \in removals, ThreadNotRemoved(r) PROVE HomeInv'
<1> USE DEF HomeInv
<1>1. /\ SendsInv' /\ StoredInv' /\ Turns' = Turns /\ sends' \in Seq(Send)
      /\ stored' \in [DOMAIN stored' -> Seq(SUBSET Message)]
  BY SideBarKeeps DEF ThreadNotRemoved
<1>2. threads' \subseteq Int /\ active' \in Thread /\ messages' \in Seq(Message) /\ pending' \in Nat
  BY ForgetHome DEF ThreadNotRemoved, ChatTyped, Removal, view
<1>3. faults' \in Nat /\ persistent' \in BOOLEAN
  <2>1. faults + 1 \in Nat /\ \A b \in BOOLEAN : (persistent /\ ~b) \in BOOLEAN
    BY DEF ChatTyped
  <2>2. \/ UNCHANGED <<faults, persistent>>
        \/ \E b \in BOOLEAN : faults' = faults + 1 /\ persistent' = (persistent /\ ~b)
    BY FALSE \in BOOLEAN, TRUE \in BOOLEAN, Zenon DEF ThreadNotRemoved, Fault
  <2> QED BY <2>1, <2>2 DEF ChatTyped
<1> QED BY <1>1, <1>2, <1>3 DEF ThreadNotRemoved, ChatTyped

LEMMA HomeStep == ASSUME HomeInv, [ChatNext]_chatVars PROVE HomeInv'
<1>1. CASE BeginSend
  BY <1>1, BeginSendHome
<1>2. CASE Stop
  BY <1>2, StopHome
<1>3. CASE NewThread
  BY <1>3, NewThreadHome
<1>4. ASSUME NEW k \in Turns, SendStep(k) PROVE HomeInv'
  <2>1. CASE ThreadCreated(k) \/ CreateUnavailable(k) \/ CreateFails(k)
    BY <2>1, ThreadCreatedHome, CreateUnavailableHome, CreateFailsHome
  <2>2. CASE QuestionStored(k) \/ QuestionNotStored(k)
    BY <2>2, QuestionStoredHome, QuestionNotStoredHome
  <2>3. CASE References(k) \/ Token(k)
    BY <2>3, ReferencesHome, TokenHome
  <2>4. CASE SelectionRefused(k) \/ StreamEnds(k) \/ StreamFails(k) \/ StreamAborted(k)
    <3>1. Asking(k) /\ Settle(k) /\ faults' \in Nat
      BY <2>4 DEF SelectionRefused, StreamEnds, StreamFails, StreamAborted, HomeInv, ChatTyped
    <3> QED BY <3>1, SettleHome
  <2>5. CASE AnswerStored(k) \/ AnswerNotStored(k)
    BY <2>5, AnswerStoredHome, AnswerNotStoredHome
  <2> QED BY <1>4, <2>1, <2>2, <2>3, <2>4, <2>5 DEF SendStep
<1>5. ASSUME NEW t \in threads, OpenThread(t) \/ RemoveThread(t) PROVE HomeInv'
  BY <1>5, OpenThreadHome, RemoveThreadHome
<1>6. ASSUME NEW l \in loads, ReadThread(l) \/ ThreadLoaded(l) \/ ThreadNotLoaded(l) PROVE HomeInv'
  BY <1>6, ReadThreadHome, ThreadLoadedHome, ThreadNotLoadedHome
<1>7. ASSUME NEW r \in removals, ThreadRemoved(r) \/ ThreadNotRemoved(r) PROVE HomeInv'
  BY <1>7, ThreadRemovedHome, ThreadNotRemovedHome
<1>8. CASE UNCHANGED chatVars
  <2>1. /\ SendsInv' /\ StoredInv' /\ Turns' = Turns /\ sends' \in Seq(Send)
        /\ stored' \in [DOMAIN stored' -> Seq(SUBSET Message)]
    BY <1>8, SideBarKeeps DEF chatVars, calls
  <2> QED BY <1>8, <2>1 DEF chatVars, calls, view, HomeInv, ChatTyped
<1> QED BY <1>1, <1>2, <1>3, <1>4, <1>5, <1>6, <1>7, <1>8 DEF ChatNext

LEMMA HomeInit == ASSUME ChatInit PROVE HomeInv
<1>1. stored = <<>> /\ sends = <<>> /\ messages = <<>> /\ DOMAIN sends = {} /\ DOMAIN stored = {}
  BY DEF ChatInit
<1>2. ChatTyped
  <2>1. stored \in [DOMAIN stored -> Seq(SUBSET Message)]
    BY <1>1
  <2>2. sends \in Seq(Send) /\ messages \in Seq(Message)
    BY <1>1
  <2>3. {streaming, persistent, mixed} \subseteq BOOLEAN /\ active \in Thread /\ abort \in Turns \cup {None}
    BY DEF ChatInit, Thread
  <2> QED BY <2>1, <2>2, <2>3 DEF ChatInit, ChatTyped
<1> QED BY <1>1, <1>2 DEF HomeInv, SendsInv, StoredInv, Turns

LEMMA HomeIsKept == ChatSpec => []HomeInv
<1>1. ChatInit => HomeInv
  BY HomeInit
<1>2. HomeInv /\ [ChatNext]_chatVars => HomeInv'
  BY HomeStep
<1> QED BY <1>1, <1>2, PTL DEF ChatSpec

LEMMA HomeImplies == ASSUME HomeInv PROVE StoredAtHome
<1> SUFFICES ASSUME NEW t \in DOMAIN stored
             PROVE  /\ \A m \in MessagesOf(t) :
                          /\ sends[m.turn].thread = t
                          /\ m.role = "assistant" => m.refs /\ m.tokens = sends[m.turn].tokens
                    /\ \A i, j \in DOMAIN stored[t] : \A m \in stored[t][i], n \in stored[t][j] :
                          m.turn = n.turn /\ m.role = n.role => i = j /\ m = n
                    /\ \A i, j \in DOMAIN stored[t] : \A m \in stored[t][i], n \in stored[t][j] :
                          m.turn = n.turn /\ m.role = "user" /\ n.role = "assistant" => i <= j
  BY DEF StoredAtHome
<1>1. ASSUME NEW m \in MessagesOf(t)
      PROVE  sends[m.turn].thread = t /\ (m.role = "assistant" => m.refs /\ m.tokens = sends[m.turn].tokens)
  <2>1. OwnMessage(t, m)
    BY StoredOwn DEF HomeInv
  <2> QED BY <2>1 DEF OwnMessage, Question, Answer
<1>2. ASSUME NEW i \in DOMAIN stored[t], NEW j \in DOMAIN stored[t], NEW m \in stored[t][i],
             NEW n \in stored[t][j], m.turn = n.turn, m.role = n.role
      PROVE  i = j /\ m = n
  <2>1. OwnMessage(t, m) /\ OwnMessage(t, n)
    BY DEF HomeInv, StoredInv
  <2>2. m = n
    <3>1. Question(n.turn).role = "user" /\ Answer(n.turn).role = "assistant"
      BY DEF Question, Answer
    <3>2. m = Question(m.turn) \/ m = Answer(m.turn)
      BY <2>1 DEF OwnMessage
    <3>3. n = Question(n.turn) \/ n = Answer(n.turn)
      BY <2>1 DEF OwnMessage
    <3> HIDE DEF OwnMessage
    <3> QED BY <1>2, <3>1, <3>2, <3>3
  <2> QED BY <2>2 DEF HomeInv, StoredInv
<1> QED BY <1>1, <1>2 DEF HomeInv, StoredInv

----------------------------------------------------------------------------
(* The chat: what is shown.                                                *)

(* In an undisturbed view a running call is the only call.                 *)
LEMMA InFlight ==
    ASSUME ViewInv, ~mixed, NEW k \in Turns, Running(k)
    PROVE  loads = {} /\ removals = {} /\ Progress(k) /\ \A j \in Turns : Running(j) <=> j = k
  BY DEF ViewInv, AtRest, Alone, Loading, Removing, Answering

LEMMA NobodyAsked ==
    ASSUME ViewInv, ~mixed, Alone PROVE AtRest
  BY DEF ViewInv, AtRest, Alone, Loading, Removing, Answering

LEMMA NoneIsNoThread == ASSUME HomeInv PROVE None \notin DOMAIN stored
<1>1. \A t \in DOMAIN stored : t \in Int
  BY TurnsAreNumbers DEF HomeInv, StoredInv, ChatTyped
<1> QED BY <1>1 DEF ChatAssumption

LEMMA BeginSendView ==
    ASSUME HomeInv, ViewInv, BeginSend, ~mixed' PROVE Answering'
<1> DEFINE k == Len(sends) + 1
<1>0. /\ ~mixed /\ Alone /\ persistent /\ UNCHANGED <<stored, loads, removals>> /\ sends \in Seq(Send)
  BY DEF BeginSend, HomeInv, ChatTyped
<1>1. AtRest
  BY <1>0, NobodyAsked
<1>2. k \notin Turns
  BY <1>0, LenProperties DEF Turns
<1>3. \/ active # None /\ Enter(k, NewSend("posting", active), active)
      \/ active = None /\ sends' = Append(sends, NewSend("creating", None)) /\ UNCHANGED view
  BY <1>0 DEF BeginSend
<1>4. ASSUME NEW s \in Send, sends' = Append(sends, s), s.stage # "over"
      PROVE  /\ k \in Turns' /\ sends'[k] = s /\ \A j \in Turns' : Running(j)' <=> j = k
  <2>1. Turns' = Turns \cup {k} /\ sends'[k] = s /\ \A j \in Turns : sends'[j] = sends[j]
    BY <1>0, <1>4, PutNew
  <2> HIDE DEF k
  <2>2. \A j \in Turns : ~Running(j)'
    BY <1>0, <2>1 DEF Alone, Running
  <2> QED BY <1>2, <1>4, <2>1, <2>2 DEF Running
<1>5. CASE active # None /\ Enter(k, NewSend("posting", active), active)
  <2>s. PICK s : s = [NewSend("posting", active) EXCEPT !.thread = active, !.stage = "posting"]
    OBVIOUS
  <2>1. sends' = Append(sends, s) /\ messages' = Append(messages, Question(k)) /\ active' = active
    BY <1>0, <1>2, <1>5, <2>s DEF Enter, NewSend
  <2>2. s \in Send /\ s.stage = "posting" /\ s.persistent /\ s.thread = active /\ s.captured = messages
    BY <1>0, <2>s DEF NewSend, Send, HomeInv, ChatTyped
  <2>3. k \in Turns' /\ sends'[k] = s /\ \A j \in Turns' : Running(j)' <=> j = k
    BY <1>4, <2>1, <2>2
  <2>4. Shown(s.captured)'
    BY <1>0, <1>1, <2>1, <2>2, <2>3 DEF AtRest, Shown
  <2> QED
    <3>1. PICK n : n = k
      OBVIOUS
    <3> HIDE DEF k
    <3>2. Progress(n)'
      <4>1. sends'[n] = s /\ Question(n)' = Question(n) /\ messages' = Append(messages, Question(n))
        BY <2>1, <2>3, <3>1 DEF Question
      <4> QED BY <2>1, <2>2, <2>4, <4>1 DEF Progress, Shown
    <3>3. loads' = {} /\ removals' = {}
      BY <1>0 DEF Alone
    <3> QED BY <2>3, <3>1, <3>2, <3>3 DEF Answering
<1>6. CASE active = None /\ sends' = Append(sends, NewSend("creating", None)) /\ UNCHANGED view
  <2>s. PICK s : s = NewSend("creating", None)
    OBVIOUS
  <2>0. messages = <<>> /\ UNCHANGED <<active, messages>>
    BY <1>1, <1>6 DEF AtRest, view
  <2>2. s \in Send /\ s.stage = "creating" /\ s.persistent /\ s.thread = None /\ s.captured = messages
    BY <1>0, <2>s DEF NewSend, Send, HomeInv, ChatTyped, Thread
  <2>3. k \in Turns' /\ sends'[k] = s /\ \A j \in Turns' : Running(j)' <=> j = k
    BY <1>4, <1>6, <2>2, <2>s
  <2>4. PICK n : n = k
    OBVIOUS
  <2> HIDE DEF k
  <2>5. Progress(n)'
    BY <1>6, <2>0, <2>2, <2>3, <2>4 DEF Progress
  <2>6. loads' = {} /\ removals' = {}
    BY <1>0 DEF Alone
  <2> QED BY <2>3, <2>4, <2>5, <2>6 DEF Answering
<1> QED BY <1>3, <1>5, <1>6

(* The step of the one call in flight: what it becomes.                    *)
LEMMA StillAnswering ==
    ASSUME ViewInv, ~mixed, NEW k \in Turns, Running(k), UNCHANGED <<loads, removals>>,
           Turns' = Turns, \A j \in Turns \ {k} : sends'[j] = sends[j], sends'[k].stage # "over", Progress(k)'
    PROVE  Answering'
<1>1. loads' = {} /\ removals' = {} /\ \A j \in Turns : Running(j) <=> j = k
  BY InFlight
<1>2. \A j \in Turns' : Running(j)' <=> j = k
  BY <1>1 DEF Running
<1> QED BY <1>1, <1>2 DEF Answering

LEMMA NowAtRest ==
    ASSUME ViewInv, ~mixed, NEW k \in Turns, Running(k), UNCHANGED <<loads, removals>>,
           Turns' = Turns, \A j \in Turns \ {k} : sends'[j] = sends[j], sends'[k].stage = "over"
    PROVE  Alone'
<1>1. loads' = {} /\ removals' = {} /\ \A j \in Turns : Running(j) <=> j = k
  BY InFlight
<1>2. \A j \in Turns' : ~Running(j)'
  BY <1>1 DEF Running
<1> QED BY <1>1, <1>2 DEF Alone

LEMMA ThreadCreatedView ==
    ASSUME HomeInv, ViewInv, NEW k \in Turns, ThreadCreated(k), ~mixed' PROVE Answering'
<1>0. /\ k \in Int /\ sends[k].stage = "creating" /\ Enter(k, sends[k], k) /\ ~mixed /\ Running(k)
      /\ UNCHANGED <<loads, removals>> /\ sends[k] \in Send /\ sends \in Seq(Send) /\ SendsInv
  BY TurnsAreNumbers DEF ThreadCreated, HomeInv, ChatTyped, Running
<1>1. sends[k].persistent /\ messages = <<>> /\ sends[k].captured = <<>>
  BY <1>0, InFlight DEF Progress
<1>2. PICK s : /\ Goes(k, s) /\ sends' = [sends EXCEPT ![k] = s]
               /\ s = [sends[k] EXCEPT !.thread = k, !.stage = IF sends[k].persistent THEN "posting" ELSE "asking"]
  BY <1>0, EnteredHome
<1>3. Turns' = Turns /\ sends'[k] = s /\ \A j \in Turns \ {k} : sends'[j] = sends[j]
  BY <1>0, <1>2, Moved
<1>4. s.stage = "posting" /\ s.thread = k /\ s.persistent /\ s.captured = <<>>
  BY <1>0, <1>1, <1>2 DEF Send
<1>5. active' = k /\ messages' = Append(<<>>, Question(k)) /\ stored'[k] = <<>>
  BY <1>0, <1>1, EnteredHome, ThreadCreatedHome
<1>6. <<>> \in ListMessages(<<>>)
  <2>1. UNION Range(<<>>) = {}
    BY DEF Range
  <2>2. <<>> \in SetToSeqs({})
    BY FS_EmptySet DEF SetToSeqs
  <2>3. DOMAIN <<>> = {}
    OBVIOUS
  <2> QED BY <2>1, <2>2, <2>3 DEF ListMessages
<1>7. Progress(k)'
  <2>1. Shown(s.captured)'
    BY <1>3, <1>4, <1>5, <1>6 DEF Shown
  <2>2. Question(k)' = Question(k)
    BY DEF Question
  <2> QED BY <1>3, <1>4, <1>5, <2>1, <2>2 DEF Progress, Shown
<1> QED BY <1>0, <1>3, <1>4, <1>7, StillAnswering

LEMMA CreateFailsView ==
    ASSUME HomeInv, ViewInv, NEW k \in Turns, CreateFails(k), ~mixed' PROVE AtRest'
<1>0. /\ sends[k].stage = "creating" /\ ~mixed /\ Running(k) /\ UNCHANGED <<loads, removals, active, messages>>
  BY DEF CreateFails, Running, view
<1>1. Turns' = Turns /\ sends'[k].stage = "over" /\ \A j \in Turns \ {k} : sends'[j] = sends[j]
  BY CreateFailsHome
<1>2. messages = <<>> /\ active = None
  <2>1. Progress(k)
    BY <1>0, InFlight
  <2> QED BY <1>0, <2>1 DEF Progress, HomeInv, SendsInv
<1>3. Alone'
  BY <1>0, <1>1, NowAtRest
<1>4. active' \notin DOMAIN stored'
  BY <1>0, <1>2, CreateFailsHome, NoneIsNoThread, TurnsAreNumbers DEF HomeInv, ChatTyped, ChatAssumption
<1> QED BY <1>0, <1>2, <1>3, <1>4 DEF AtRest, Shown

LEMMA QuestionStoredView ==
    ASSUME HomeInv, ViewInv, NEW k \in Turns, QuestionStored(k), ~mixed' PROVE Answering'
<1>0. /\ sends[k].stage = "posting" /\ Ask(k) /\ AddMessage(sends[k].thread, Question(k)) /\ ~mixed /\ Running(k)
      /\ UNCHANGED <<loads, removals, active, messages>> /\ sends[k] \in Send
  BY TurnsAreNumbers DEF QuestionStored, HomeInv, ChatTyped, Running, view
<1>1. /\ sends[k].persistent /\ sends[k].thread = active
      /\ messages = Append(sends[k].captured, Question(k)) /\ Shown(sends[k].captured)
  BY <1>0, InFlight DEF Progress
<1>2. PICK s : s = [sends[k] EXCEPT !.stage = "asking", !.stream = "retrieving"]
  OBVIOUS
<1>3. Turns' = Turns /\ sends'[k] = s /\ \A j \in Turns \ {k} : sends'[j] = sends[j]
  BY <1>0, <1>2, AskHome
<1>4. s.stage = "asking" /\ s.thread = active /\ s.persistent /\ s.captured = sends[k].captured
  BY <1>0, <1>1, <1>2 DEF Send
<1>5. active \in DOMAIN stored /\ messages \in ListMessages(stored'[active])
  <2>1. active \in DOMAIN stored /\ sends[k].captured \in ListMessages(stored[active])
    BY <1>0, <1>1 DEF AddMessage, HasThread, Shown
  <2>2. Append(sends[k].captured, Question(k)) \in ListMessages(stored'[active])
    BY <1>0, <1>1, <2>1, AskHome
  <2> QED BY <1>1, <2>1, <2>2
<1>6. Progress(k)'
  <2>1. Question(k)' = Question(k)
    BY DEF Question
  <2> QED BY <1>0, <1>1, <1>3, <1>4, <1>5, <2>1 DEF Progress, Shown
<1> QED BY <1>0, <1>3, <1>4, <1>6, StillAnswering

(* References and tokens change nothing of what is shown.                  *)
LEMMA StreamedView ==
    ASSUME HomeInv, ViewInv, NEW k \in Turns, References(k) \/ Token(k), ~mixed' PROVE Answering'
<1>0. /\ sends[k].stage = "asking" /\ ~mixed /\ Running(k) /\ sends[k] \in Send
      /\ UNCHANGED <<loads, removals, active, messages, stored>>
  BY TurnsAreNumbers DEF References, Token, Asking, HomeInv, ChatTyped, Running, view
<1>1. Progress(k)
  BY <1>0, InFlight
<1>2. /\ Turns' = Turns /\ \A j \in Turns \ {k} : sends'[j] = sends[j]
      /\ \/ sends'[k] = [sends[k] EXCEPT !.stream = "answering", !.refs = TRUE]
         \/ sends'[k] = [sends[k] EXCEPT !.tokens = sends[k].tokens + 1]
  BY ReferencesHome, TokenHome
<1>3. /\ sends'[k].stage = "asking" /\ sends'[k].thread = sends[k].thread
      /\ sends'[k].persistent = sends[k].persistent /\ sends'[k].captured = sends[k].captured
  BY <1>0, <1>2 DEF Send
<1>4. Progress(k)'
  BY <1>0, <1>1, <1>3 DEF Progress, Shown, Question
<1> QED BY <1>0, <1>2, <1>3, <1>4, StillAnswering

LEMMA SettleView ==
    ASSUME HomeInv, ViewInv, NEW k \in Turns, Asking(k), Settle(k), faults' \in Nat, ~mixed'
    PROVE  AtRest' \/ Answering'
<1>0. /\ sends[k].stage = "asking" /\ ~mixed /\ Running(k) /\ sends[k] \in Send /\ sends[k].thread # None
      /\ UNCHANGED <<loads, removals, active, stored>> /\ messages \in Seq(Message)
  BY TurnsAreNumbers DEF Settle, Asking, HomeInv, ChatTyped, SendsInv, Running
<1>1. sends[k].persistent /\ sends[k].thread = active /\ Shown(messages)
  BY <1>0, InFlight DEF Progress
<1>2. /\ Turns' = Turns /\ \A j \in Turns \ {k} : sends'[j] = sends[j]
      /\ sends'[k].thread = sends[k].thread /\ sends'[k].persistent = sends[k].persistent
      /\ sends'[k].stage = IF sends[k].tokens > 0 /\ sends[k].persistent THEN "storing" ELSE "over"
      /\ Answer(k)' = Answer(k)
  BY SettleHome
<1>3. CASE sends[k].tokens > 0
  <2>1. messages' = Append(messages, Answer(k)) /\ sends'[k].stage = "storing"
    BY <1>1, <1>2, <1>3 DEF Settle
  <2>2. \E before \in Seq(Message) : messages' = Append(before, Answer(k)') /\ Shown(before)'
    BY <1>0, <1>1, <1>2, <2>1 DEF Shown
  <2>3. Progress(k)'
    BY <1>0, <1>1, <1>2, <2>1, <2>2 DEF Progress
  <2>4. sends'[k].stage # "over"
    BY <2>1
  <2> QED BY <1>0, <1>2, <2>3, <2>4, StillAnswering
<1>4. CASE ~(sends[k].tokens > 0)
  <2>1. messages' = messages /\ sends'[k].stage = "over"
    BY <1>2, <1>4 DEF Settle
  <2>2. Alone'
    BY <1>0, <1>2, <2>1, NowAtRest
  <2> QED BY <1>0, <1>1, <2>1, <2>2 DEF AtRest, Shown
<1> QED BY <1>3, <1>4

LEMMA AnswerStoredView ==
    ASSUME HomeInv, ViewInv, NEW k \in Turns, AnswerStored(k), ~mixed' PROVE AtRest'
<1>0. /\ sends[k].stage = "storing" /\ SendOver(k) /\ AddMessage(sends[k].thread, Answer(k)) /\ ~mixed /\ Running(k)
      /\ UNCHANGED <<loads, removals, active, messages>> /\ sends[k].thread # None
  BY DEF AnswerStored, HomeInv, SendsInv, Running
<1>1. sends[k].thread = active
      /\ \E before \in Seq(Message) : messages = Append(before, Answer(k)) /\ Shown(before)
  BY <1>0, InFlight DEF Progress
<1>2. PICK before \in Seq(Message) : messages = Append(before, Answer(k)) /\ Shown(before)
  BY <1>1
<1>3. Turns' = Turns /\ sends'[k].stage = "over" /\ \A j \in Turns \ {k} : sends'[j] = sends[j]
  BY <1>0, OverHome
<1>4. Alone'
  BY <1>0, <1>3, NowAtRest
<1>5. messages \in ListMessages(stored'[active])
  <2>1. before \in ListMessages(stored[active])
    BY <1>0, <1>1, <1>2 DEF AddMessage, HasThread, Shown
  <2>2. Append(before, Answer(k)) \in ListMessages(stored'[active])
    BY <1>0, <1>1, <2>1, OverHome
  <2> QED BY <1>2, <2>2
<1> QED BY <1>0, <1>1, <1>4, <1>5 DEF AtRest, Shown

LEMMA StopView ==
    ASSUME HomeInv, ViewInv, Stop, ~mixed' PROVE ViewInv'
<1>0. /\ UNCHANGED <<stored, active, messages, loads, removals, mixed>> /\ Turns' = Turns
      /\ \A j \in Turns : sends[j] \in Send
  BY StopHome, TurnsAreNumbers DEF Stop, view, HomeInv, ChatTyped
<1>1. \A j \in Turns : /\ sends'[j].stage = sends[j].stage /\ sends'[j].thread = sends[j].thread
                        /\ sends'[j].persistent = sends[j].persistent /\ sends'[j].captured = sends[j].captured
                        /\ sends'[j].tokens = sends[j].tokens /\ sends'[j].refs = sends[j].refs
  <2> SUFFICES ASSUME NEW j \in Turns
               PROVE  /\ sends'[j].stage = sends[j].stage /\ sends'[j].thread = sends[j].thread
                      /\ sends'[j].persistent = sends[j].persistent /\ sends'[j].captured = sends[j].captured
                      /\ sends'[j].tokens = sends[j].tokens /\ sends'[j].refs = sends[j].refs
    OBVIOUS
  <2>1. sends'[j] = sends[j] \/ sends'[j] = [sends[j] EXCEPT !.aborted = TRUE]
    BY StopHome
  <2> QED BY <1>0, <2>1 DEF Send
<1>2. \A j \in Turns : /\ Running(j)' <=> Running(j)
                        /\ Answer(j)' = Answer(j) /\ Question(j)' = Question(j)
  BY <1>1 DEF Running, Answer, Question
<1>3. \A list : Shown(list)' <=> Shown(list)
  BY <1>0 DEF Shown
<1>4. CASE AtRest
  BY <1>0, <1>2, <1>3, <1>4 DEF AtRest, Alone, ViewInv
<1>5. CASE Loading
  BY <1>0, <1>2, <1>3, <1>5 DEF Loading, ViewInv
<1>6. CASE Removing
  BY <1>0, <1>2, <1>3, <1>6 DEF Removing, ViewInv
<1>7. CASE Answering
  <2>1. PICK k \in Turns : Progress(k) /\ \A j \in Turns : Running(j) <=> j = k
    BY <1>7 DEF Answering
  <2>2. Progress(k)'
    <3>1. Shown(messages)' <=> Shown(messages)
      BY <1>0 DEF Shown
    <3>2. Shown(sends[k].captured)' <=> Shown(sends[k].captured)
      BY <1>0, <1>1 DEF Shown
    <3>3. /\ sends'[k].persistent = sends[k].persistent /\ sends'[k].thread = sends[k].thread
          /\ sends'[k].stage = sends[k].stage /\ sends'[k].captured = sends[k].captured
          /\ active' = active /\ messages' = messages /\ Answer(k)' = Answer(k) /\ Question(k)' = Question(k)
      BY <1>0, <1>1 DEF Answer, Question
    <3>4. CASE sends[k].stage = "storing"
      <4>1. PICK before \in Seq(Message) : messages = Append(before, Answer(k)) /\ Shown(before)
        BY <2>1, <3>4 DEF Progress
      <4>2. Shown(before)'
        BY <1>0, <4>1 DEF Shown
      <4> HIDE DEF Answer
      <4> QED BY <2>1, <3>3, <3>4, <4>1, <4>2 DEF Progress
    <3>5. CASE sends[k].stage # "storing"
      BY <2>1, <3>1, <3>2, <3>3, <3>5 DEF Progress
    <3> QED BY <3>4, <3>5
  <2>3. loads' = {} /\ removals' = {} /\ \A j \in Turns' : Running(j)' <=> j = k
    BY <1>0, <1>1, <1>7, <2>1 DEF Answering, Running
  <2>4. Answering'
    BY <1>0, <2>2, <2>3 DEF Answering
  <2> QED BY <2>4 DEF ViewInv
<1> QED BY <1>0, <1>4, <1>5, <1>6, <1>7 DEF ViewInv

LEMMA OpenThreadView ==
    ASSUME HomeInv, NEW t \in threads, OpenThread(t), ~mixed' PROVE Loading'
<1>0. Alone /\ persistent /\ UNCHANGED <<sends, removals, stored>> /\ active' = t
  BY DEF OpenThread, HomeInv, ChatTyped
<1>1. PICK l : l = [call |-> clicks, thread |-> t, read |-> FALSE, got |-> <<>>]
  OBVIOUS
<1>2. loads' = {l} /\ removals' = {}
  BY <1>0, <1>1 DEF OpenThread, Alone
<1>3. \A k \in Turns' : ~Running(k)'
  BY <1>0 DEF Alone, Running, Turns
<1> QED BY <1>0, <1>1, <1>2, <1>3 DEF Loading

LEMMA ReadThreadView ==
    ASSUME HomeInv, ViewInv, NEW l \in loads, ReadThread(l), ~mixed' PROVE Loading'
<1>0. ~mixed /\ UNCHANGED <<sends, removals, stored, active>> /\ l \in Load
  BY DEF ReadThread, view, HomeInv, ChatTyped
<1>1. loads = {l} /\ removals = {} /\ l.thread = active /\ \A k \in Turns : ~Running(k)
  BY <1>0 DEF ViewInv, AtRest, Alone, Loading, Removing, Answering
<1>2. PICK got \in ListMessages(stored[l.thread]) : loads' = (loads \ {l}) \cup {[l EXCEPT !.read = TRUE, !.got = got]}
  BY DEF ReadThread
<1>3. PICK n : n = [l EXCEPT !.read = TRUE, !.got = got]
  OBVIOUS
<1>4. loads' = {n} /\ n.thread = active /\ n.got = got
  BY <1>0, <1>1, <1>2, <1>3 DEF Load
<1>5. Shown(n.got)'
  BY <1>0, <1>1, <1>4 DEF Shown
<1>6. \A k \in Turns' : ~Running(k)'
  BY <1>0, <1>1 DEF Running, Turns
<1> QED BY <1>0, <1>1, <1>4, <1>5, <1>6 DEF Loading

LEMMA ThreadLoadedView ==
    ASSUME HomeInv, ViewInv, NEW l \in loads, ThreadLoaded(l), ~mixed' PROVE AtRest'
<1>0. ~mixed /\ UNCHANGED <<sends, removals, stored, active>> /\ l \in Load /\ messages' = l.got /\ l.read
  BY DEF ThreadLoaded, HomeInv, ChatTyped
<1>1. loads = {l} /\ removals = {} /\ l.thread = active /\ (\A k \in Turns : ~Running(k)) /\ Shown(l.got)
  BY <1>0 DEF ViewInv, AtRest, Alone, Loading, Removing, Answering
<1>2. active # None
  BY <1>0, <1>1 DEF Load, ChatAssumption
<1>3. loads' = {}
  BY <1>1 DEF ThreadLoaded
<1>4. Alone'
  BY <1>0, <1>1, <1>3 DEF Alone, Running, Turns
<1> QED BY <1>0, <1>1, <1>2, <1>4 DEF AtRest, Shown

LEMMA NewThreadView ==
    ASSUME HomeInv, NewThread, ~mixed' PROVE AtRest'
<1>0. Alone /\ UNCHANGED <<sends, removals, loads, stored>> /\ active' = None /\ messages' = <<>>
  BY DEF NewThread, calls
<1>1. Alone'
  BY <1>0 DEF Alone, Running, Turns
<1> QED BY <1>0, <1>1, NoneIsNoThread DEF AtRest, Shown

LEMMA RemoveThreadView ==
    ASSUME HomeInv, ViewInv, NEW t \in threads, RemoveThread(t), ~mixed' PROVE AtRest' \/ Removing'
<1>0. Alone /\ ~mixed /\ UNCHANGED <<sends, loads, stored>>
  BY DEF RemoveThread
<1>1. AtRest
  BY <1>0, NobodyAsked
<1>2. \A k \in Turns' : ~Running(k)'
  BY <1>0 DEF Alone, Running, Turns
<1>3. CASE persistent
  <2>1. PICK r : r = [call |-> clicks, thread |-> t, shown |-> active = t]
    OBVIOUS
  <2>2. removals' = {r} /\ loads' = {} /\ UNCHANGED <<active, messages>>
    BY <1>0, <1>3, <2>1 DEF RemoveThread, Alone, view
  <2>3. r.thread = t /\ r.shown = (active = t)
    BY <2>1
  <2> QED BY <1>0, <1>1, <1>2, <2>2, <2>3 DEF Removing, AtRest, Shown
<1>4. CASE ~persistent
  <2>1. loads' = {} /\ removals' = {} /\ (UNCHANGED <<active, messages>> \/ (active' = None /\ messages' = <<>>))
    BY <1>0, <1>4 DEF RemoveThread, Forget, Alone, view
  <2>2. Alone'
    BY <1>2, <2>1 DEF Alone
  <2> QED BY <1>0, <1>1, <2>1, <2>2, NoneIsNoThread DEF AtRest, Shown
<1> QED BY <1>3, <1>4

LEMMA ThreadRemovedView ==
    ASSUME HomeInv, ViewInv, NEW r \in removals, ThreadRemoved(r), ~mixed' PROVE AtRest'
<1>0. ~mixed /\ UNCHANGED <<sends, loads>> /\ r \in Removal
  BY DEF ThreadRemoved, HomeInv, ChatTyped
<1>1. /\ removals = {r} /\ loads = {} /\ \A k \in Turns : ~Running(k)
      /\ r.shown = (active = r.thread) /\ (active = None => messages = <<>>) /\ Shown(messages)
  BY <1>0 DEF ViewInv, AtRest, Alone, Loading, Removing, Answering
<1>2. removals' = {} /\ loads' = {}
  BY <1>0, <1>1 DEF ThreadRemoved
<1>3. Alone'
  BY <1>0, <1>1, <1>2 DEF Alone, Running, Turns
<1>4. DOMAIN stored' = DOMAIN stored \ {r.thread} /\ \A u \in DOMAIN stored' : stored'[u] = stored[u]
  BY DEF ThreadRemoved, DeleteThread
<1>5. CASE r.shown
  <2>1. active' = None /\ messages' = <<>>
    BY <1>5 DEF ThreadRemoved, Forget
  <2> QED BY <1>3, <1>4, <2>1, NoneIsNoThread DEF AtRest, Shown
<1>6. CASE ~r.shown
  <2>1. UNCHANGED <<active, messages>>
    BY <1>6 DEF ThreadRemoved, Forget, view
  <2> QED BY <1>1, <1>3, <1>4, <1>6, <2>1 DEF AtRest, Shown
<1> QED BY <1>5, <1>6

LEMMA ViewStep == ASSUME HomeInv, ViewInv, [ChatNext]_chatVars PROVE ViewInv'
<1> SUFFICES ASSUME ~mixed' PROVE ViewInv'
  BY DEF ViewInv
<1>1. CASE BeginSend
  BY <1>1, BeginSendView DEF ViewInv
<1>2. CASE Stop
  BY <1>2, StopView
<1>3. CASE NewThread
  BY <1>3, NewThreadView DEF ViewInv
<1>4. ASSUME NEW k \in Turns, SendStep(k) PROVE ViewInv'
  <2>1. CASE ThreadCreated(k) \/ QuestionStored(k) \/ References(k) \/ Token(k)
    BY <2>1, ThreadCreatedView, QuestionStoredView, StreamedView DEF ViewInv
  <2>2. CASE CreateFails(k) \/ AnswerStored(k)
    BY <2>2, CreateFailsView, AnswerStoredView DEF ViewInv
  <2>3. CASE SelectionRefused(k) \/ StreamEnds(k) \/ StreamFails(k) \/ StreamAborted(k)
    <3>1. Asking(k) /\ Settle(k) /\ faults' \in Nat
      BY <2>3 DEF SelectionRefused, StreamEnds, StreamFails, StreamAborted, HomeInv, ChatTyped
    <3> QED BY <3>1, SettleView DEF ViewInv
  <2>4. CASE CreateUnavailable(k) \/ QuestionNotStored(k) \/ AnswerNotStored(k)
    <3>1. mixed'
      BY <2>4 DEF CreateUnavailable, QuestionNotStored, AnswerNotStored
    <3> QED BY <3>1
  <2> QED BY <1>4, <2>1, <2>2, <2>3, <2>4 DEF SendStep
<1>5. ASSUME NEW t \in threads, OpenThread(t) \/ RemoveThread(t) PROVE ViewInv'
  BY <1>5, OpenThreadView, RemoveThreadView DEF ViewInv
<1>6. ASSUME NEW l \in loads, ReadThread(l) \/ ThreadLoaded(l) \/ ThreadNotLoaded(l) PROVE ViewInv'
  <2>1. ~ThreadNotLoaded(l)
    BY DEF ThreadNotLoaded
  <2> QED BY <1>6, <2>1, ReadThreadView, ThreadLoadedView DEF ViewInv
<1>7. ASSUME NEW r \in removals, ThreadRemoved(r) \/ ThreadNotRemoved(r) PROVE ViewInv'
  <2>1. ~ThreadNotRemoved(r)
    BY DEF ThreadNotRemoved
  <2> QED BY <1>7, <2>1, ThreadRemovedView DEF ViewInv
<1>8. CASE UNCHANGED chatVars
  <2>1. /\ UNCHANGED <<stored, active, messages, sends, loads, removals, mixed>>
    BY <1>8 DEF chatVars, view, calls
  <2> QED BY <2>1 DEF ViewInv, AtRest, Alone, Loading, Removing, Answering, Progress, Shown, Running, Turns, Question, Answer
<1> QED BY <1>1, <1>2, <1>3, <1>4, <1>5, <1>6, <1>7, <1>8 DEF ChatNext

LEMMA ViewInit == ASSUME ChatInit PROVE ViewInv
<1>1. active = None /\ messages = <<>> /\ loads = {} /\ removals = {} /\ Turns = {} /\ DOMAIN stored = {}
  BY DEF ChatInit, Turns
<1> QED BY <1>1 DEF ViewInv, AtRest, Alone, Shown

LEMMA ChatIsKept == ChatSpec => []ChatInv
<1>1. ChatInit => ChatInv
  BY HomeInit, ViewInit DEF ChatInv
<1>2. ChatInv /\ [ChatNext]_chatVars => ChatInv'
  BY HomeStep, ViewStep DEF ChatInv
<1> QED BY <1>1, <1>2, PTL DEF ChatSpec

(* What the model is told of the conversation is what the thread holds of  *)
(* the other turns.                                                        *)
LEMMA ViewImpliesHistory == ASSUME ChatInv PROVE HistoryIsThread
<1> SUFFICES ASSUME NEW k \in Turns, Asking(k), ~mixed, sends[k].thread \in DOMAIN stored
             PROVE  LET seconds == stored[sends[k].thread]
                    IN  \E before \in ListMessages(Others(seconds, k)) :
                           Conversation(k) = Newest(before, HistoryTurns)
  BY DEF HistoryIsThread, Others
<1>1. sends[k].stage = "asking" /\ Running(k) /\ sends[k] \in Send
  BY TurnsAreNumbers DEF Asking, Running, ChatInv, HomeInv, ChatTyped
<1>2. sends[k].thread = active /\ messages = Append(sends[k].captured, Question(k)) /\ Shown(messages)
  BY <1>1, InFlight DEF Progress, ChatInv
<1> DEFINE seconds == stored[active]
<1>3. /\ active \in DOMAIN stored /\ seconds \in Seq(SUBSET Message) /\ IsFiniteSet(AllOf(seconds))
      /\ AllOf(seconds) = MessagesOf(active)
  BY <1>2 DEF ChatInv, HomeInv, ChatTyped, StoredInv, AllOf, MessagesOf
<1>4. Append(sends[k].captured, Question(k)) \in ListMessages(seconds)
  BY <1>2, <1>3 DEF Shown
<1>5. \A m \in AllOf(seconds) : m.turn = k => m = Question(k)
  <2> SUFFICES ASSUME NEW m \in MessagesOf(active), m.turn = k PROVE m = Question(k)
    BY <1>3
  <2>1. OwnMessage(active, m)
    BY <1>3, StoredOwn DEF ChatInv, HomeInv
  <2> QED BY <1>1, <2>1 DEF OwnMessage
<1>6. Question(k) \in Message /\ Question(k).turn = k /\ sends[k].captured \in Seq(Message)
  BY <1>1, SaidIsMessage DEF ChatInv, HomeInv, ChatTyped, Question, Send
<1>7. sends[k].captured \in ListMessages(Others(seconds, k))
  <2> HIDE DEF seconds
  <2> QED BY <1>3, <1>4, <1>5, <1>6, ListedBefore
<1> QED BY <1>2, <1>7 DEF Conversation

(* A stored message belongs to the thread its question was asked in, is    *)
(* stored once, behind its question, and an answer has its references:     *)
(* send (useChat.ts) keeps using the thread it resolved first.             *)
THEOREM HomeAlwaysKept == ChatSpec => []StoredAtHome
  BY HomeIsKept, HomeImplies, PTL

(* With no call in flight, the messages the tab shows are those the        *)
(* database would list for the thread, unless a call was disturbed or a    *)
(* request failed since it was opened.                                     *)
THEOREM ViewAlwaysThread == ChatSpec => []ViewIsThread
<1>1. ChatInv => ViewIsThread
  BY NobodyAsked DEF ChatInv, ViewIsThread, AtRest, Shown
<1> QED BY <1>1, ChatIsKept, PTL

(* What an undisturbed send gives the model as conversation are the last   *)
(* messages of the thread before the question.                             *)
THEOREM HistoryAlwaysThread == ChatSpec => []HistoryIsThread
  BY ChatIsKept, ViewImpliesHistory, PTL

----------------------------------------------------------------------------
(* The login limiter.                                                      *)

(* The bucket b holds the newest of the attempts a; the others no longer   *)
(* count.                                                                  *)
Covers(a, b, t) ==
    /\ Len(b) <= Len(a)
    /\ \A i \in 1..Len(b) : b[i] = a[i + (Len(a) - Len(b))]
    /\ \A i \in 1..(Len(a) - Len(b)) : a[i] + Window <= t

Held(c) == IF c \in DOMAIN hits THEN hits[c] ELSE <<>>

ClientInv(c) ==
    /\ Covers(allowed[c], Held(c), now) /\ Len(Held(c)) <= MaxAttempts
    /\ comeBack[c] # 0 /\ Len(Held(c)) > 0 => Held(c)[1] + Window <= comeBack[c]
    /\ \A i \in 1..(Len(allowed[c]) - MaxAttempts) :
          allowed[c][i + MaxAttempts] >= allowed[c][i] + Window

LimiterInv ==
    /\ now \in Nat /\ \A c \in DOMAIN hits : hits[c] \in Seq(Nat)
    /\ allowed \in [Client -> Seq(Nat)] /\ comeBack \in [Client -> Int]
    /\ MaxAttempts > 0 => \A c \in Client : ClientInv(c)

(* The loop that drops aged attempts stops at the first that is not.       *)
LEMMA AgedIsPrefix ==
    ASSUME NEW b \in Seq(Nat), NEW t \in Nat
    PROVE  /\ Aged(b, t) \in 0..Len(b) /\ \A i \in 1..Aged(b, t) : b[i] + Window <= t
           /\ Aged(b, t) < Len(b) => b[Aged(b, t) + 1] + Window > t
<1> USE LimiterAssumption
<1> DEFINE l == Len(b)
<1>1. l \in Nat /\ Window \in Nat /\ \A i \in 1..l : b[i] \in Nat
  BY LenProperties
<1> HIDE DEF l
<1>2. \E n \in 0..l : (\A i \in 1..n : b[i] + Window <= t) /\ (n < l => b[n + 1] + Window > t)
  <2> DEFINE T == {i \in 1..l : b[i] + Window > t}
  <2>0. ASSUME NEW i \in 1..l, i \notin T PROVE b[i] + Window <= t
    <3>1. ~(b[i] + Window > t) /\ b[i] \in Nat
      BY <1>1, <2>0
    <3> QED BY <1>1, <3>1
  <2>1. CASE T = {}
    <3>1. \A i \in 1..l : b[i] + Window <= t
      BY <2>0, <2>1
    <3>2. l \in 0..l /\ ~(l < l)
      BY <1>1
    <3> QED BY <3>1, <3>2
  <2>2. CASE T # {}
    <3>1. PICK x \in T : \A y \in T : x <= y
      <4>1. T \in SUBSET Nat
        BY <1>1
      <4> HIDE DEF T
      <4> QED BY <2>2, <4>1, LeastNatural
    <3>2. x \in Nat /\ x >= 1 /\ x <= l /\ b[x] + Window > t
      BY <1>1, <3>1
    <3>3. \A i \in 1..(x - 1) : i \in 1..l /\ ~(x <= i)
      BY <1>1, <3>2
    <3>4. \A i \in 1..(x - 1) : b[i] + Window <= t
      BY <2>0, <3>1, <3>3
    <3>5. x - 1 \in 0..l /\ (x - 1) + 1 = x
      BY <1>1, <3>2
    <3> QED BY <3>2, <3>4, <3>5
  <2> QED BY <2>1, <2>2
<1> QED BY <1>2 DEF Aged, l

LEMMA PruneIsSuffix ==
    ASSUME NEW b \in Seq(Nat), NEW t \in Nat
    PROVE  /\ Prune(b, t) \in Seq(Nat) /\ Aged(b, t) \in Nat /\ Len(Prune(b, t)) = Len(b) - Aged(b, t)
           /\ \A i \in 1..Len(Prune(b, t)) : Prune(b, t)[i] = b[i + Aged(b, t)]
           /\ Len(Prune(b, t)) > 0 => Prune(b, t)[1] + Window > t
           /\ Len(b) > 0 /\ b[1] + Window <= t => Len(Prune(b, t)) < Len(b)
<1> DEFINE l == Len(b)
           n == Aged(b, t)
           p == Prune(b, t)
<1>1. /\ l \in Nat /\ n \in 0..l /\ \A i \in 1..l : b[i] \in Nat
      /\ n < l => b[n + 1] + Window > t
  BY LenProperties, AgedIsPrefix
<1>2. /\ p \in Seq(Nat) /\ Len(p) = (IF n + 1 <= l THEN l - (n + 1) + 1 ELSE 0)
      /\ \A i \in 1..(l - (n + 1) + 1) : p[i] = b[(n + 1) + i - 1]
  <2>0. p = SubSeq(b, n + 1, l)
    BY DEF Prune
  <2> HIDE DEF n, l, p
  <2>1. n + 1 \in Int /\ l \in Int /\ \A i \in (n + 1)..l : i \in 1..l
    BY <1>1
  <2>2. \A i \in (n + 1)..l : b[i] \in Nat
    BY <1>1, <2>1
  <2> QED BY <2>0, <2>1, <2>2, SubSeqProperties, SMTT(40)
<1> HIDE DEF n, l, p
<1>3. Len(p) = l - n /\ n \in Nat /\ l - n \in Nat /\ l - (n + 1) + 1 = l - n
  BY <1>1, <1>2
<1>4. \A i \in 1..Len(p) : p[i] = b[i + n]
  <2> SUFFICES ASSUME NEW i \in 1..Len(p) PROVE p[i] = b[i + n]
    OBVIOUS
  <2>1. (n + 1) + i - 1 = i + n /\ i \in 1..(l - (n + 1) + 1)
    BY <1>1, <1>3
  <2> QED BY <1>2, <2>1
<1>5. Len(p) > 0 => p[1] + Window > t
  <2>1. SUFFICES ASSUME Len(p) > 0 PROVE p[1] + Window > t
    OBVIOUS
  <2>2. 1 \in 1..Len(p) /\ 1 + n = n + 1 /\ n < l
    BY <1>1, <1>3, <2>1
  <2> QED BY <1>1, <1>4, <2>2
<1>6. l > 0 /\ b[1] + Window <= t => Len(p) < l
  <2>1. SUFFICES ASSUME l > 0, b[1] + Window <= t PROVE Len(p) < l
    OBVIOUS
  <2>2. n # 0
    <3>1. SUFFICES ASSUME n = 0 PROVE FALSE
      OBVIOUS
    <3>2. b[1] + Window > t /\ b[1] \in Nat
      BY <1>1, <2>1, <3>1
    <3> QED BY <2>1, <3>2, LimiterAssumption
  <2> QED BY <1>1, <1>3, <2>2
<1> QED BY <1>2, <1>3, <1>4, <1>5, <1>6 DEF n, l, p

LEMMA PruneCovers ==
    ASSUME NEW a \in Seq(Nat), NEW b \in Seq(Nat), NEW t \in Nat, Covers(a, b, t)
    PROVE  Covers(a, Prune(b, t), t)
<1> DEFINE p == Prune(b, t)
           n == Aged(b, t)
           k == Len(a)
           l == Len(b)
           m == Len(p)
<1>1. /\ k \in Nat /\ l \in Nat /\ m \in Nat /\ n \in Nat /\ m = l - n /\ l <= k
      /\ \A i \in 1..m : p[i] = b[i + n]
      /\ \A i \in 1..n : b[i] + Window <= t
      /\ \A i \in 1..l : b[i] = a[i + (k - l)]
      /\ \A i \in 1..(k - l) : a[i] + Window <= t
  BY PruneIsSuffix, AgedIsPrefix, LenProperties DEF Covers
<1> HIDE DEF p, n, k, l, m
<1>2. m <= k /\ n <= l
  BY <1>1
<1>3. ASSUME NEW i \in 1..m PROVE p[i] = a[i + (k - m)]
  <2>1. i + n \in 1..l /\ (i + n) + (k - l) = i + (k - m)
    BY <1>1
  <2> QED BY <1>1, <2>1
<1>4. ASSUME NEW i \in 1..(k - m) PROVE a[i] + Window <= t
  <2>1. CASE i \in 1..(k - l)
    BY <1>1, <2>1
  <2>2. CASE i \notin 1..(k - l)
    <3> DEFINE j == i - (k - l)
    <3>1. j \in 1..n /\ j \in 1..l /\ j + (k - l) = i
      BY <1>1, <2>2
    <3> HIDE DEF j
    <3>2. b[j] = a[i] /\ b[j] + Window <= t
      BY <1>1, <3>1
    <3> QED BY <3>2
  <2> QED BY <2>1, <2>2
<1> QED BY <1>2, <1>3, <1>4 DEF Covers, p, k, m

LEMMA AppendCovers ==
    ASSUME NEW a \in Seq(Nat), NEW b \in Seq(Nat), NEW t \in Nat, Covers(a, b, t)
    PROVE  Covers(Append(a, t), Append(b, t), t)
<1> DEFINE k == Len(a)
           l == Len(b)
           x == Append(a, t)
           y == Append(b, t)
<1>1. /\ k \in Nat /\ l \in Nat /\ l <= k /\ Len(x) = k + 1 /\ Len(y) = l + 1
      /\ x[k + 1] = t /\ y[l + 1] = t
      /\ \A i \in 1..k : x[i] = a[i]
      /\ \A i \in 1..l : y[i] = b[i]
      /\ \A i \in 1..l : b[i] = a[i + (k - l)]
      /\ \A i \in 1..(k - l) : a[i] + Window <= t
  BY AppendProperties, LenProperties DEF Covers
<1> HIDE DEF k, l, x, y
<1>2. ASSUME NEW i \in 1..(l + 1) PROVE y[i] = x[i + (k - l)]
  <2>1. CASE i = l + 1
    <3>1. i + (k - l) = k + 1
      BY <1>1, <2>1
    <3> QED BY <1>1, <2>1, <3>1
  <2>2. CASE i # l + 1
    <3>1. i \in 1..l /\ i + (k - l) \in 1..k
      BY <1>1, <2>2
    <3> QED BY <1>1, <3>1
  <2> QED BY <2>1, <2>2
<1>3. ASSUME NEW i \in 1..(k - l) PROVE x[i] + Window <= t
  <2>1. i \in 1..k
    BY <1>1
  <2> QED BY <1>1, <2>1
<1>4. Len(y) <= Len(x) /\ Len(x) - Len(y) = k - l
  BY <1>1
<1> QED BY <1>1, <1>2, <1>3, <1>4 DEF Covers, x, y

LEMMA BucketIsHeld ==
    ASSUME LimiterInv, NEW c \in Client
    PROVE  /\ Bucket(c) \in Seq(Nat) /\ Held(c) \in Seq(Nat)
           /\ MaxAttempts > 0 => Covers(allowed[c], Bucket(c), now)
           /\ Len(Bucket(c)) <= Len(Held(c))
           /\ Len(Bucket(c)) > 0 => Bucket(c)[1] + Window > now
           /\ Len(Held(c)) > 0 /\ Held(c)[1] + Window <= now => Len(Bucket(c)) < Len(Held(c))
<1>0. now \in Nat /\ allowed[c] \in Seq(Nat)
  BY DEF LimiterInv
<1>1. CASE c \in DOMAIN hits
  <2>1. Bucket(c) = Prune(hits[c], now) /\ Held(c) = hits[c] /\ hits[c] \in Seq(Nat)
    BY <1>1 DEF Bucket, Held, LimiterInv
  <2>2. MaxAttempts > 0 => Covers(allowed[c], hits[c], now)
    BY <2>1 DEF LimiterInv, ClientInv
  <2> DEFINE b == hits[c]
             p == Prune(b, now)
  <2>3. /\ p \in Seq(Nat) /\ Len(p) = Len(b) - Aged(b, now) /\ Aged(b, now) \in Nat /\ Len(b) \in Nat
        /\ Len(p) > 0 => p[1] + Window > now
        /\ Len(b) > 0 /\ b[1] + Window <= now => Len(p) < Len(b)
    BY <1>0, <2>1, PruneIsSuffix, LenProperties
  <2>4. Len(p) <= Len(b)
    BY <2>3
  <2>5. MaxAttempts > 0 => Covers(allowed[c], p, now)
    BY <1>0, <2>1, <2>2, PruneCovers
  <2> QED BY <2>1, <2>3, <2>4, <2>5
<1>2. CASE c \notin DOMAIN hits
  <2>1. Bucket(c) = <<>> /\ Held(c) = <<>> /\ <<>> \in Seq(Nat) /\ Len(<<>>) = 0
    BY <1>2 DEF Bucket, Held
  <2>2. MaxAttempts > 0 => Covers(allowed[c], <<>>, now)
    BY <2>1 DEF LimiterInv, ClientInv
  <2> QED BY <2>1, <2>2
<1> QED BY <1>1, <1>2

(* The seconds of the header, rounded down and one more, reach the end of  *)
(* the window.                                                             *)
LEMMA RoundedUp ==
    ASSUME NEW w \in Int, NEW s \in Nat \ {0}
    PROVE  w \div s \in Int /\ w < s * (w \div s + 1)
  OBVIOUS

LEMMA HeldInv ==
    ASSUME LimiterInv, MaxAttempts > 0 =>
              \A c \in Client : ClientInv(c)',
           now' \in Nat, \A c \in DOMAIN hits' : hits'[c] \in Seq(Nat),
           allowed' \in [Client -> Seq(Nat)], comeBack' \in [Client -> Int]
    PROVE  LimiterInv'
  BY DEF LimiterInv

(* A client that did nothing keeps what it had.                            *)
LEMMA OthersKeep ==
    ASSUME LimiterInv, MaxAttempts > 0, NEW d \in Client, UNCHANGED now, allowed'[d] = allowed[d],
           comeBack'[d] = comeBack[d], Held(d)' = Held(d)
    PROVE  ClientInv(d)'
  BY DEF LimiterInv, ClientInv

LEMMA SweepKeeps ==
    ASSUME NEW known, NEW c \in DOMAIN known
    PROVE  /\ DOMAIN Sweep(known) \subseteq DOMAIN known
           /\ \A x \in DOMAIN Sweep(known) : Sweep(known)[x] = known[x]
           /\ \A x \in DOMAIN known : x \notin DOMAIN Sweep(known) => known[x] = <<>>
<1>1. CASE Cardinality(DOMAIN known) > SweepAbove
  BY <1>1 DEF Sweep
<1>2. CASE ~(Cardinality(DOMAIN known) > SweepAbove)
  BY <1>2 DEF Sweep
<1> QED BY <1>1, <1>2

LEMMA CountedHeld ==
    ASSUME LimiterInv, NEW c \in Client
    PROVE  /\ \A x \in DOMAIN Attempted(c) : Attempted(c)[x] \in Seq(Nat)
           /\ c \in DOMAIN Attempted(c) /\ Attempted(c)[c] = Append(Bucket(c), now)
           /\ \A d \in Client \ {c} : (IF d \in DOMAIN Attempted(c) THEN Attempted(c)[d] ELSE <<>>) = Held(d)
<1> DEFINE b == Append(Bucket(c), now)
           known == With(c, b)
<1>1. b \in Seq(Nat) /\ b # <<>>
  <2>1. now \in Nat /\ Bucket(c) \in Seq(Nat)
    BY BucketIsHeld DEF LimiterInv
  <2>2. Len(b) = Len(Bucket(c)) + 1 /\ b \in Seq(Nat) /\ Len(Bucket(c)) \in Nat
    BY <2>1, AppendProperties, LenProperties
  <2>3. Len(b) # 0
    BY <2>2
  <2> QED BY <2>2, <2>3, EmptySeq
<1>2. DOMAIN known = DOMAIN hits \cup {c} /\ known[c] = b /\ \A x \in DOMAIN hits \ {c} : known[x] = hits[x]
  BY DEF With
<1>3. /\ DOMAIN Attempted(c) \subseteq DOMAIN known
      /\ \A x \in DOMAIN Attempted(c) : Attempted(c)[x] = known[x]
      /\ \A x \in DOMAIN known : x \notin DOMAIN Attempted(c) => known[x] = <<>>
  <2>1. Attempted(c) = Sweep(known)
    BY DEF Attempted
  <2> HIDE DEF known
  <2> QED BY <1>2, <2>1, SweepKeeps
<1> HIDE DEF b, known
<1>4. ASSUME NEW x \in DOMAIN Attempted(c) PROVE Attempted(c)[x] \in Seq(Nat)
  BY <1>1, <1>2, <1>3 DEF LimiterInv
<1>5. c \in DOMAIN Attempted(c) /\ Attempted(c)[c] = b
  BY <1>1, <1>2, <1>3
<1>6. ASSUME NEW d \in Client \ {c}
      PROVE (IF d \in DOMAIN Attempted(c) THEN Attempted(c)[d] ELSE <<>>) = Held(d)
  <2>1. CASE d \in DOMAIN hits
    BY <1>2, <1>3, <2>1 DEF Held
  <2>2. CASE d \notin DOMAIN hits
    BY <1>2, <1>3, <2>2 DEF Held
  <2> QED BY <2>1, <2>2
<1> QED BY <1>4, <1>5, <1>6 DEF b

LEMMA TickKeeps == ASSUME LimiterInv, Tick PROVE LimiterInv'
<1>1. now' = now + 1 /\ now \in Nat /\ now' \in Nat /\ UNCHANGED <<hits, allowed, comeBack>>
  BY DEF Tick, LimiterInv
<1>2. ASSUME MaxAttempts > 0, NEW c \in Client PROVE ClientInv(c)'
  <2>1. ClientInv(c) /\ Held(c)' = Held(c) /\ allowed[c] \in Seq(Nat) /\ Held(c) \in Seq(Nat)
    BY <1>1, <1>2, BucketIsHeld DEF LimiterInv, Held
  <2>2. Covers(allowed[c], Held(c), now')
    <3> DEFINE a == allowed[c]
               k == Len(a) - Len(Held(c))
    <3>1. ASSUME NEW i \in 1..k PROVE a[i] + Window <= now'
      <4>1. i \in 1..Len(a) /\ a[i] + Window <= now
        BY <2>1, LenProperties, SMTT(40) DEF ClientInv, Covers
      <4>2. a[i] \in Nat
        BY <2>1, <4>1, LenProperties
      <4> QED BY <1>1, <4>1, <4>2, LimiterAssumption, SMTT(40)
    <3> QED BY <2>1, <3>1 DEF ClientInv, Covers
  <2> QED BY <1>1, <2>1, <2>2 DEF ClientInv
<1> QED BY <1>1, <1>2, HeldInv DEF LimiterInv

LEMMA TurnedAwayKeeps == ASSUME LimiterInv, NEW c \in Client, TurnedAway(c) PROVE LimiterInv'
<1> DEFINE b == Bucket(c)
<1>0. /\ MaxAttempts > 0 /\ Len(b) >= MaxAttempts /\ hits' = With(c, b) /\ UNCHANGED <<now, allowed>>
      /\ comeBack' = [comeBack EXCEPT ![c] = now + Second * RetryAfter(b)]
  BY DEF TurnedAway
<1>1. /\ b \in Seq(Nat) /\ Covers(allowed[c], b, now) /\ Len(b) <= Len(Held(c)) /\ Held(c) \in Seq(Nat)
      /\ Len(b) \in Nat /\ now \in Nat /\ MaxAttempts \in Nat
  BY <1>0, BucketIsHeld, LenProperties, LimiterAssumption DEF LimiterInv
<1>2. Len(b) > 0 /\ b[1] \in Nat /\ ClientInv(c)
  BY <1>0, <1>1, LenProperties, SMTT(40) DEF LimiterInv
<1>3. now + Second * RetryAfter(b) \in Int /\ b[1] + Window <= now + Second * RetryAfter(b)
  <2> DEFINE w == Window - (now - b[1])
             q == w \div Second
  <2>0. w \in Int /\ Second \in Nat /\ Second > 0 /\ b[1] + Window = now + w
    <3>1. Window \in Nat /\ Second \in Nat /\ Second > 0
      BY LimiterAssumption
    <3> DEFINE h == b[1]
    <3>2. h \in Nat /\ now \in Nat
      BY <1>1, <1>2
    <3> HIDE DEF h, b
    <3>3. Window - (now - h) \in Int /\ h + Window = now + (Window - (now - h))
      BY <3>1, <3>2
    <3> QED BY <3>1, <3>3 DEF h
  <2>1. q \in Int /\ w < Second * (q + 1)
    <3> HIDE DEF w, q
    <3>1. Second \in Nat \ {0}
      BY <2>0
    <3>2. w \div Second \in Int /\ w < Second * (w \div Second + 1)
      BY <2>0, <3>1, RoundedUp, Zenon
    <3> QED BY <3>2, Zenon DEF q
  <2>2. RetryAfter(b) = IF q + 1 < 1 THEN 1 ELSE q + 1
    <3> HIDE DEF b
    <3> QED BY Zenon DEF RetryAfter
  <2> HIDE DEF w, q
  <2>3. RetryAfter(b) \in Int /\ w < Second * RetryAfter(b)
    <3>1. CASE q + 1 < 1
      <4>1. Second * (q + 1) <= 0
        BY <2>0, <2>1, <3>1
      <4>2. Second * 1 = Second /\ RetryAfter(b) = 1
        BY <2>0, <2>2, <3>1
      <4>3. Second * (q + 1) \in Int
        BY <2>0, <2>1
      <4> QED BY <2>0, <2>1, <4>1, <4>2, <4>3
    <3>2. CASE ~(q + 1 < 1)
      BY <2>1, <2>2, <3>2
    <3> QED BY <3>1, <3>2
  <2>4. Second * RetryAfter(b) \in Int
    BY <2>0, <2>3
  <2> QED BY <1>1, <2>0, <2>3, <2>4, SMTT(40)
<1>4. /\ Held(c)' = b /\ \A d \in Client \ {c} : Held(d)' = Held(d)
      /\ \A x \in DOMAIN hits' : hits'[x] \in Seq(Nat)
  BY <1>0, <1>1 DEF Held, With, LimiterInv
<1>5. comeBack' \in [Client -> Int] /\ comeBack'[c] = now + Second * RetryAfter(b)
      /\ \A d \in Client \ {c} : comeBack'[d] = comeBack[d]
  BY <1>0, <1>3 DEF LimiterInv
<1>6. ClientInv(c)'
  <2>1. Len(b) <= MaxAttempts
    BY <1>1, <1>2, LenProperties DEF ClientInv
  <2> HIDE DEF b
  <2> QED BY <1>0, <1>1, <1>2, <1>3, <1>4, <1>5, <2>1 DEF ClientInv
<1>7. \A d \in Client \ {c} : ClientInv(d)'
  BY <1>0, <1>4, <1>5, OthersKeep
<1> QED BY <1>0, <1>4, <1>5, <1>6, <1>7, HeldInv DEF LimiterInv

LEMMA LetThroughOverrun ==
    ASSUME NEW a \in Seq(Nat), NEW b \in Seq(Nat), NEW t \in Nat, Covers(a, b, t),
           MaxAttempts > 0, Len(b) < MaxAttempts,
           \A i \in 1..(Len(a) - MaxAttempts) : a[i + MaxAttempts] >= a[i] + Window
    PROVE  \A i \in 1..(Len(Append(a, t)) - MaxAttempts) :
              Append(a, t)[i + MaxAttempts] >= Append(a, t)[i] + Window
<1> DEFINE k == Len(a)
           l == Len(b)
           x == Append(a, t)
           M == MaxAttempts
<1>1. /\ k \in Nat /\ l \in Nat /\ M \in Nat /\ M > 0 /\ l < M /\ Len(x) = k + 1 /\ x[k + 1] = t
      /\ \A i \in 1..k : x[i] = a[i]
      /\ \A i \in 1..(k - l) : a[i] + Window <= t
      /\ \A i \in 1..(k - M) : a[i + M] >= a[i] + Window
      /\ \A i \in 1..k : a[i] \in Nat
  BY AppendProperties, LenProperties, LimiterAssumption, SMTT(40) DEF Covers
<1>w. Window \in Nat
  BY LimiterAssumption
<1> SUFFICES ASSUME NEW i \in 1..(Len(x) - M) PROVE x[i + M] >= x[i] + Window
  OBVIOUS
<1> HIDE DEF k, l, x, M
<1>2. i \in 1..k /\ x[i] = a[i] /\ a[i] \in Nat
  BY <1>1
<1>3. CASE i + M = k + 1
  <2>1. i \in 1..(k - l)
    BY <1>1, <1>2, <1>3
  <2>2. a[i] + Window <= t /\ x[i + M] = t
    BY <1>1, <1>3, <2>1
  <2> QED BY <1>2, <1>w, <2>2
<1>4. CASE i + M # k + 1
  <2>1. i \in 1..(k - M) /\ i + M \in 1..k
    BY <1>1, <1>2, <1>4
  <2> QED BY <1>1, <1>2, <2>1
<1> QED BY <1>3, <1>4

LEMMA CheckKeeps ==
    ASSUME LimiterInv, NEW c \in Client, StaysOut(c) \/ LogsIn(c) PROVE LimiterInv'
<1> DEFINE b == Bucket(c)
<1>0. /\ LetThrough(c) /\ comeBack' = [comeBack EXCEPT ![c] = 0] /\ UNCHANGED now /\ now \in Nat
      /\ allowed[c] \in Seq(Nat) /\ MaxAttempts \in Nat
  BY LimiterAssumption DEF StaysOut, LogsIn, Check, LimiterInv
<1>1. /\ allowed' = [allowed EXCEPT ![c] = Append(allowed[c], now)] \/ allowed' = [allowed EXCEPT ![c] = <<>>]
      /\ Append(allowed[c], now) \in Seq(Nat) /\ <<>> \in Seq(Nat)
  BY <1>0, AppendProperties DEF StaysOut, LogsIn
<1>2. /\ allowed' \in [Client -> Seq(Nat)] /\ comeBack' \in [Client -> Int] /\ comeBack'[c] = 0
      /\ \A d \in Client \ {c} : comeBack'[d] = comeBack[d] /\ allowed'[d] = allowed[d]
  <2>1. PICK e \in Seq(Nat) : allowed' = [allowed EXCEPT ![c] = e]
    BY <1>1
  <2>2. /\ allowed \in [Client -> Seq(Nat)] /\ comeBack \in [Client -> Int] /\ 0 \in Int
    BY DEF LimiterInv
  <2>3. allowed' \in [Client -> Seq(Nat)] /\ \A d \in Client \ {c} : allowed'[d] = allowed[d]
    BY <2>1, <2>2
  <2>4. comeBack' \in [Client -> Int] /\ comeBack'[c] = 0 /\ \A d \in Client \ {c} : comeBack'[d] = comeBack[d]
    BY <1>0, <2>2
  <2> QED BY <2>3, <2>4
<1>3. CASE MaxAttempts = 0
  <2>1. hits' = hits
    BY <1>3 DEF StaysOut, LogsIn
  <2> QED BY <1>0, <1>2, <1>3, <2>1, HeldInv DEF LimiterInv
<1>4. CASE MaxAttempts # 0
  <2>0. MaxAttempts > 0 /\ Len(b) < MaxAttempts
    BY <1>0, <1>4 DEF LetThrough
  <2>1. /\ \A x \in DOMAIN Attempted(c) : Attempted(c)[x] \in Seq(Nat)
        /\ c \in DOMAIN Attempted(c) /\ Attempted(c)[c] = Append(b, now)
        /\ \A d \in Client \ {c} : (IF d \in DOMAIN Attempted(c) THEN Attempted(c)[d] ELSE <<>>) = Held(d)
    BY CountedHeld
  <2>2. b \in Seq(Nat) /\ Covers(allowed[c], b, now) /\ Len(b) \in Nat /\ ClientInv(c)
    BY <2>0, BucketIsHeld, LenProperties DEF LimiterInv
  <2>3. CASE StaysOut(c)
    <3>1. hits' = Attempted(c) /\ allowed'[c] = Append(allowed[c], now)
      BY <1>4, <2>3 DEF StaysOut, LimiterInv
    <3>2. Held(c)' = Append(b, now) /\ \A d \in Client \ {c} : Held(d)' = Held(d)
      BY <2>1, <3>1 DEF Held
    <3>3. Covers(Append(allowed[c], now), Append(b, now), now)
      BY <1>0, <2>2, AppendCovers
    <3>4. Len(Append(b, now)) <= MaxAttempts
      <4>1. Len(Append(b, now)) = Len(b) + 1
        BY <1>0, <2>2, AppendProperties
      <4> QED BY <1>0, <2>0, <2>2, <4>1
    <3>5. \A i \in 1..(Len(Append(allowed[c], now)) - MaxAttempts) :
              Append(allowed[c], now)[i + MaxAttempts] >= Append(allowed[c], now)[i] + Window
      BY <1>0, <2>0, <2>2, LetThroughOverrun DEF ClientInv
    <3>6. ClientInv(c)'
      BY <1>0, <1>2, <3>1, <3>2, <3>3, <3>4, <3>5 DEF ClientInv
    <3>7. \A d \in Client \ {c} : ClientInv(d)'
      BY <1>0, <1>2, <2>0, <3>2, OthersKeep
    <3> QED BY <1>0, <1>2, <2>1, <3>1, <3>6, <3>7, HeldInv
  <2>4. CASE LogsIn(c)
    <3>1. hits' = [x \in DOMAIN Attempted(c) \ {c} |-> Attempted(c)[x]] /\ allowed'[c] = <<>>
      BY <1>4, <2>4 DEF LogsIn, LimiterInv
    <3>2. Held(c)' = <<>> /\ (\A d \in Client \ {c} : Held(d)' = Held(d))
          /\ \A x \in DOMAIN hits' : hits'[x] \in Seq(Nat)
      BY <2>1, <3>1 DEF Held
    <3>6. ClientInv(c)'
      <4>1. Len(<<>>) = 0
        OBVIOUS
      <4> QED BY <1>0, <1>2, <3>1, <3>2, <4>1 DEF ClientInv, Covers
    <3>7. \A d \in Client \ {c} : ClientInv(d)'
      BY <1>0, <1>2, <2>0, <3>2, OthersKeep
    <3> QED BY <1>0, <1>2, <3>2, <3>6, <3>7, HeldInv
  <2> QED BY <2>3, <2>4
<1> QED BY <1>3, <1>4

LEMMA LimiterIsKept == LimiterSpec => []LimiterInv
<1>1. LimiterInit => LimiterInv
  <2> SUFFICES ASSUME LimiterInit PROVE LimiterInv
    OBVIOUS
  <2>1. now = 1 /\ DOMAIN hits = {} /\ allowed = [c \in Client |-> <<>>] /\ comeBack = [c \in Client |-> 0]
    BY DEF LimiterInit
  <2>2. allowed \in [Client -> Seq(Nat)] /\ comeBack \in [Client -> Int]
    BY <2>1
  <2>3. ASSUME NEW c \in Client PROVE ClientInv(c)
    <3>1. allowed[c] = <<>> /\ Held(c) = <<>> /\ comeBack[c] = 0 /\ Len(<<>>) = 0 /\ MaxAttempts \in Nat
      BY <2>1, LimiterAssumption DEF Held
    <3> QED BY <3>1 DEF ClientInv, Covers
  <2> QED BY <2>1, <2>2, <2>3 DEF LimiterInv
<1>2. LimiterInv /\ [LimiterNext]_limiter => LimiterInv'
  <2> SUFFICES ASSUME LimiterInv, [LimiterNext]_limiter PROVE LimiterInv'
    OBVIOUS
  <2>1. CASE UNCHANGED limiter
    BY <2>1 DEF limiter, LimiterInv, ClientInv, Held
  <2> QED BY <2>1, TickKeeps, TurnedAwayKeeps, CheckKeeps DEF LimiterNext
<1> QED BY <1>1, <1>2, PTL DEF LimiterSpec

(* Of the attempts let through since a client last logged in no more than  *)
(* MaxAttempts fall into any window (rate_limit.py:33-56).                 *)
THEOREM WindowNeverOverrun == LimiterSpec => []NoWindowOverrun
<1>1. LimiterInv => NoWindowOverrun
  BY DEF LimiterInv, ClientInv, NoWindowOverrun
<1> QED BY <1>1, LimiterIsKept, PTL

(* A client that was turned away is let through when it comes back after   *)
(* the seconds it was told (server.py:574-581).                            *)
THEOREM ComingBackAlwaysEnough == LimiterSpec => []ComingBackIsEnough
<1>1. LimiterInv => ComingBackIsEnough
  <2> SUFFICES ASSUME LimiterInv, NEW c \in Client, comeBack[c] # 0, now >= comeBack[c] PROVE LetThrough(c)
    BY DEF ComingBackIsEnough
  <2>0. MaxAttempts \in Nat
    BY LimiterAssumption
  <2>1. CASE MaxAttempts = 0
    BY <2>1 DEF LetThrough
  <2>2. CASE MaxAttempts > 0
    <3>1. ClientInv(c) /\ comeBack[c] \in Int /\ now \in Nat
      BY <2>2 DEF LimiterInv
    <3>2. /\ Bucket(c) \in Seq(Nat) /\ Held(c) \in Seq(Nat) /\ Len(Bucket(c)) <= Len(Held(c))
          /\ Len(Held(c)) > 0 /\ Held(c)[1] + Window <= now => Len(Bucket(c)) < Len(Held(c))
      BY BucketIsHeld
    <3>3. Len(Bucket(c)) \in Nat /\ Len(Held(c)) \in Nat /\ Len(Held(c)) <= MaxAttempts
      BY <3>1, <3>2, LenProperties DEF ClientInv
    <3>4. CASE Len(Held(c)) = 0
      <4>1. Len(Bucket(c)) < MaxAttempts
        BY <2>0, <2>2, <3>2, <3>3, <3>4
      <4> QED BY <4>1 DEF LetThrough
    <3>5. CASE Len(Held(c)) > 0
      <4>1. Held(c)[1] + Window <= comeBack[c] /\ Held(c)[1] \in Nat /\ Window \in Nat
        BY <3>1, <3>2, <3>3, <3>5, LenProperties, LimiterAssumption, SMTT(40) DEF ClientInv
      <4>2. Held(c)[1] + Window <= now
        BY <3>1, <4>1
      <4>3. Len(Bucket(c)) < MaxAttempts
        BY <2>0, <3>2, <3>3, <3>5, <4>2
      <4> QED BY <4>3 DEF LetThrough
    <3> QED BY <3>3, <3>4, <3>5
  <2> QED BY <2>0, <2>1, <2>2
<1> QED BY <1>1, LimiterIsKept, PTL

----------------------------------------------------------------------------
(* The console.                                                            *)

(* A graph that can be drawn.                                              *)
Joined(g) ==
    /\ {"nodes", "edges"} \subseteq DOMAIN g
    /\ \A e \in g.edges : {e.source, e.target} \subseteq g.nodes
    /\ \A e, f \in g.edges : e.rel = f.rel => e = f

ShownInv == (result # NoResult => Joined(result)) /\ (base # NoResult => Joined(base))

LEMMA PayloadsAreJoined == ASSUME NEW c, NEW g \in Payloads(c) PROVE Joined(g)
<1>1. PICK full : g.nodes = Collect(c.read, full).nodes /\ g.edges = Collect(c.read, full).edges
                  /\ {"nodes", "edges"} \subseteq DOMAIN g
  BY DEF Payloads
<1> DEFINE rels == RelsIn(c.read)
<1>2. /\ g.edges = {EdgeOf(r, full) : r \in rels}
      /\ \A r \in rels : {Identity(RelEnds[r].from, full), Identity(RelEnds[r].to, full)} \subseteq g.nodes
  <2>1. g.edges = {EdgeOf(r, full) : r \in rels}
    BY <1>1 DEF Collect
  <2>2. g.nodes = {Identity(n, full) : n \in NodesIn(c.read) \cup UNION {{RelEnds[r].from, RelEnds[r].to} : r \in rels}}
    BY <1>1 DEF Collect
  <2> HIDE DEF rels
  <2>3. ASSUME NEW r \in rels PROVE {Identity(RelEnds[r].from, full), Identity(RelEnds[r].to, full)} \subseteq g.nodes
    <3>1. {RelEnds[r].from, RelEnds[r].to} \subseteq UNION {{RelEnds[q].from, RelEnds[q].to} : q \in rels}
      OBVIOUS
    <3> QED BY <2>2, <3>1
  <2> QED BY <2>1, <2>3
<1> HIDE DEF rels
<1>3. \A r : /\ EdgeOf(r, full).rel = r /\ EdgeOf(r, full).source = Identity(RelEnds[r].from, full)
             /\ EdgeOf(r, full).target = Identity(RelEnds[r].to, full)
  BY DEF EdgeOf
<1>4. \A e \in g.edges : \E r \in rels : e = EdgeOf(r, full) /\ e.rel = r
  BY <1>2, <1>3
<1> QED BY <1>1, <1>2, <1>3, <1>4 DEF Joined

LEMMA MergeIsJoined ==
    ASSUME NEW old, NEW extra, Joined(old), Joined(extra) PROVE Joined(MergeGraph(old, extra))
<1> DEFINE g == MergeGraph(old, extra)
<1>1. /\ DOMAIN g = DOMAIN old /\ g.nodes = old.nodes \cup extra.nodes
      /\ g.edges = old.edges \cup {e \in extra.edges : \A x \in old.edges : x.rel # e.rel}
  BY DEF MergeGraph, Joined
<1> HIDE DEF g
<1>2. \A e \in g.edges : {e.source, e.target} \subseteq g.nodes
  BY <1>1 DEF Joined
<1>3. \A e, f \in g.edges : e.rel = f.rel => e = f
  BY <1>1 DEF Joined
<1> QED BY <1>1, <1>2, <1>3 DEF Joined, g

LEMMA ShownStep == ASSUME ShownInv, [ConsoleNext]_console PROVE ShownInv'
<1>1. CASE UNCHANGED <<result, base>>
  BY <1>1 DEF ShownInv
<1>2. ASSUME NEW i \in DOMAIN asked, TakeRun(i) PROVE ShownInv'
  BY <1>2, PayloadsAreJoined DEF TakeRun, ShownInv
<1>3. ASSUME NEW i \in DOMAIN asked, TakeRunError(i) PROVE ShownInv'
  BY <1>3 DEF TakeRunError, ShownInv
<1>4. ASSUME NEW i \in DOMAIN asked, TakeExpansion(i) PROVE ShownInv'
  <2>1. PICK extra \in Payloads(asked[i]) : result' = IF base = NoResult THEN extra ELSE MergeGraph(base, extra)
    BY <1>4 DEF TakeExpansion
  <2>2. Joined(extra) /\ UNCHANGED base
    BY <1>4, PayloadsAreJoined DEF TakeExpansion
  <2> QED BY <2>1, <2>2, MergeIsJoined DEF ShownInv
<1>5. CASE Render
  BY <1>5 DEF Render, ShownInv
<1>6. ASSUME NEW i \in DOMAIN asked, Serve(i) \/ TakeExpansionError(i) PROVE ShownInv'
  <2>1. UNCHANGED <<result, base>>
    BY <1>6 DEF Serve, RefuseWrite, SyntaxError, BeginTransaction, ReadRecord, ReadEnds, DriverFails,
                Becomes, TakeExpansionError
  <2> QED BY <1>1, <2>1
<1>7. CASE (\E s \in Statements, cap \in Limits : Run(s, cap)) \/ \E id \in Range(EntityId) \cup GraphNode : Expand(id)
  <2>1. UNCHANGED <<result, base>>
    BY <1>7 DEF Run, Expand
  <2> QED BY <1>1, <2>1
<1>8. CASE UNCHANGED console
  BY <1>1, <1>8 DEF console
<1> QED BY <1>2, <1>3, <1>4, <1>5, <1>6, <1>7, <1>8 DEF ConsoleNext

(* Relationships are drawn once and between nodes that are drawn, however  *)
(* late an answer or an expansion is merged (CypherConsole.tsx:177-193).   *)
THEOREM EdgesAlwaysJoin == ConsoleSpec => []EdgesJoinNodes
<1>1. ConsoleInit => ShownInv
  BY DEF ConsoleInit, ShownInv
<1>2. ShownInv /\ [ConsoleNext]_console => ShownInv'
  BY ShownStep
<1>3. ShownInv => EdgesJoinNodes
  BY DEF ShownInv, Joined, EdgesJoinNodes
<1> QED BY <1>1, <1>2, <1>3, PTL DEF ConsoleSpec

(* A run holds the first records of what the database yields, the others   *)
(* follow.                                                                 *)
RunInv(c) ==
    c.kind = "run" =>
        /\ c.statement \in Statements /\ c.cap \in Nat /\ c.read \in Seq(Record) /\ c.coming \in Seq(Record)
        /\ Len(c.read) <= c.cap /\ Len(c.read) + Len(c.coming) = Len(Yields(c.statement, c.cap))
        /\ \A i \in 1..Len(c.read) : c.read[i] = Yields(c.statement, c.cap)[i]
        /\ \A i \in 1..Len(c.coming) : c.coming[i] = Yields(c.statement, c.cap)[Len(c.read) + i]
        /\ c.pc = "answered" => /\ c.coming = <<>> \/ Len(c.read) >= c.cap
                                /\ c.truncated = (c.coming # <<>>)

Call(c) ==
    /\ DOMAIN c = {"kind", "about", "cap", "pc", "statement", "coming", "read", "truncated"}
    /\ RunInv(c)

AskedInv == asked \in Seq(Range(asked)) /\ \A i \in DOMAIN asked : Call(asked[i])

LEMMA FirstOfPrefix ==
    ASSUME NEW s \in Seq(Record), NEW n \in Nat
    PROVE  /\ FirstOf(s, n) \in Seq(Record) /\ Len(FirstOf(s, n)) = IF n < Len(s) THEN n ELSE Len(s)
           /\ \A i \in 1..Len(FirstOf(s, n)) : FirstOf(s, n)[i] = s[i]
<1> DEFINE l == Len(s)
           k == IF n < l THEN n ELSE l
           f == FirstOf(s, n)
<1>1. l \in Nat /\ k \in Nat /\ k <= l /\ (\A i \in 1..l : s[i] \in Record) /\ f = SubSeq(s, 1, k)
  BY LenProperties DEF FirstOf
<1>2. k = IF n < l THEN n ELSE l
  OBVIOUS
<1> HIDE DEF k, f, l
<1>3. \A i \in 1..k : s[i] \in Record
  BY <1>1
<1>4. /\ f \in Seq(Record) /\ Len(f) = (IF 1 <= k THEN k - 1 + 1 ELSE 0)
      /\ \A i \in 1..(k - 1 + 1) : f[i] = s[1 + i - 1]
  BY <1>1, <1>3, SubSeqProperties
<1>5. Len(f) = k
  BY <1>1, <1>4
<1>6. ASSUME NEW i \in 1..k PROVE f[i] = s[i]
  <2>1. i \in 1..(k - 1 + 1) /\ 1 + i - 1 = i
    BY <1>1
  <2> QED BY <1>4, <2>1
<1> QED BY <1>2, <1>4, <1>5, <1>6 DEF f, l

LEMMA YieldsRecords ==
    ASSUME NEW s \in Statements, NEW cap \in Nat
    PROVE  /\ Wanted(s) \in Seq(Record) /\ Yields(s, cap) \in Seq(Record)
           /\ Yields(s, cap) = Wanted(s) \/ (Yields(s, cap) = FirstOf(Wanted(s), cap) /\ ApplyLimit(s.words) # s.words)
<1>1. s.limit \in Nat /\ s.records \in Seq(Record)
  BY ConsoleAssumption
<1>2. Wanted(s) \in Seq(Record)
  BY <1>1, FirstOfPrefix DEF Wanted
<1> QED BY <1>2, FirstOfPrefix DEF Yields

LEMMA OneCallMore ==
    ASSUME AskedInv, NEW c, Call(c), asked' = Append(asked, c) PROVE AskedInv'
<1> DEFINE S == Range(asked) \cup {c}
           next == Append(asked, c)
<1>1. asked \in Seq(S) /\ c \in S /\ Len(asked) \in Nat
  BY LenProperties DEF AskedInv
<1>2. /\ next \in Seq(S) /\ Len(next) = Len(asked) + 1 /\ next[Len(asked) + 1] = c
      /\ \A i \in 1..Len(asked) : next[i] = asked[i]
  <2> HIDE DEF S
  <2> QED BY <1>1, AppendProperties
<1> HIDE DEF next
<1>3. DOMAIN next = 1..(Len(asked) + 1) /\ DOMAIN asked = 1..Len(asked)
  <2> HIDE DEF S
  <2> QED BY <1>1, <1>2, LenProperties
<1>4. \A i \in DOMAIN next : Call(next[i])
  <2> SUFFICES ASSUME NEW i \in DOMAIN next PROVE Call(next[i])
    OBVIOUS
  <2>1. i = Len(asked) + 1 \/ i \in DOMAIN asked
    BY <1>1, <1>3
  <2> QED BY <1>2, <1>3, <2>1 DEF AskedInv
<1>5. next \in Seq(Range(next))
  <2>1. next \in [1..Len(next) -> Range(next)] /\ Len(next) \in Nat
    <3>1. next = [i \in DOMAIN next |-> next[i]] /\ \A i \in DOMAIN next : next[i] \in Range(next)
      BY <1>2 DEF Range
    <3>2. DOMAIN next = 1..Len(next) /\ Len(next) \in Nat
      BY <1>1, <1>2, <1>3
    <3> QED BY <3>1, <3>2
  <2> QED BY <2>1
<1> QED BY <1>4, <1>5 DEF AskedInv, next

LEMMA CallBecomes ==
    ASSUME AskedInv, NEW i \in DOMAIN asked, NEW c, Call(c), asked' = [asked EXCEPT ![i] = c] PROVE AskedInv'
<1>1. DOMAIN asked = 1..Len(asked) /\ Len(asked) \in Nat
  BY LenProperties DEF AskedInv
<1>2. /\ asked' = [j \in DOMAIN asked |-> IF j = i THEN c ELSE asked[j]]
      /\ \A j \in DOMAIN asked : asked'[j] = c \/ asked'[j] = asked[j]
  OBVIOUS
<1>3. \A j \in DOMAIN asked' : Call(asked'[j])
  BY <1>2 DEF AskedInv
<1>4. asked' \in [1..Len(asked) -> Range(asked')]
  BY <1>1, <1>2 DEF Range
<1>5. asked' \in Seq(Range(asked'))
  <2>1. PICK R, n, f : R = Range(asked') /\ n = Len(asked) /\ f = asked'
    OBVIOUS
  <2>2. f \in [1..n -> R] /\ n \in Nat
    BY <1>1, <1>4, <2>1
  <2>3. f \in Seq(R)
    BY <2>2
  <2> QED BY <2>1, <2>3
<1> QED BY <1>3, <1>5 DEF AskedInv

(* A request that goes on without reading.                                 *)
LEMMA CallMoves ==
    ASSUME NEW c, Call(c), NEW p, p # "answered" PROVE Call([c EXCEPT !.pc = p])
<1> DEFINE d == [c EXCEPT !.pc = p]
<1>1. /\ DOMAIN d = DOMAIN c /\ d.kind = c.kind /\ d.cap = c.cap /\ d.statement = c.statement
      /\ d.coming = c.coming /\ d.read = c.read /\ d.pc = p
  BY DEF Call
<1> HIDE DEF d
<1>2. Call(d)
  BY <1>1 DEF Call, RunInv
<1> QED BY <1>2 DEF d

LEMMA ReadRecordKeeps ==
    ASSUME AskedInv, NEW i \in DOMAIN asked, ReadRecord(i) PROVE AskedInv'
<1> DEFINE c == asked[i]
           d == [c EXCEPT !.coming = Tail(@), !.read = Append(@, Head(c.coming))]
<1>1. asked' = [asked EXCEPT ![i] = d] /\ c.coming # <<>> /\ Len(c.read) < c.cap /\ c.pc = "reading" /\ Call(c)
  BY DEF ReadRecord, Becomes, AskedInv
<1>2. /\ DOMAIN d = DOMAIN c /\ d.kind = c.kind /\ d.cap = c.cap /\ d.statement = c.statement
      /\ d.coming = Tail(c.coming) /\ d.read = Append(c.read, Head(c.coming)) /\ d.pc = c.pc
  BY <1>1 DEF Call
<1>3. RunInv(d)
  <2> SUFFICES ASSUME c.kind = "run" PROVE RunInv(d)
    BY <1>2 DEF RunInv
  <2> DEFINE y == Yields(c.statement, c.cap)
             k == Len(c.read)
             l == Len(c.coming)
  <2>1. /\ c.read \in Seq(Record) /\ c.coming \in Seq(Record) /\ k + l = Len(y) /\ c.cap \in Nat
        /\ c.statement \in Statements
        /\ (\A j \in 1..k : c.read[j] = y[j]) /\ (\A j \in 1..l : c.coming[j] = y[k + j])
    BY <1>1 DEF Call, RunInv
  <2>2. k \in Nat /\ l \in Nat /\ l > 0 /\ Head(c.coming) = c.coming[1]
    <3>1. k \in Nat /\ l \in Nat
      BY <2>1, LenProperties
    <3>2. l # 0
      BY <1>1, <2>1, EmptySeq
    <3> QED BY <3>1, <3>2, <2>1 DEF Head
  <2>3. /\ Head(c.coming) \in Record /\ d.coming \in Seq(Record) /\ Len(d.coming) = l - 1
        /\ \A j \in 1..(l - 1) : d.coming[j] = c.coming[j + 1]
    BY <1>1, <1>2, <2>1, HeadTailProperties
  <2>4. /\ d.read \in Seq(Record) /\ Len(d.read) = k + 1 /\ d.read[k + 1] = c.coming[1]
        /\ \A j \in 1..k : d.read[j] = c.read[j]
    BY <1>2, <2>1, <2>2, <2>3, AppendProperties
  <2> HIDE DEF y, k, l, d
  <2>5. \A j \in 1..(k + 1) : d.read[j] = y[j]
    <3> SUFFICES ASSUME NEW j \in 1..(k + 1) PROVE d.read[j] = y[j]
      OBVIOUS
    <3>1. CASE j = k + 1
      <4>1. 1 \in 1..l
        BY <2>2
      <4> QED BY <2>1, <2>4, <3>1, <4>1
    <3>2. CASE j # k + 1
      <4>1. j \in 1..k
        BY <2>2, <3>2
      <4> QED BY <2>1, <2>4, <4>1
    <3> QED BY <3>1, <3>2
  <2>6. \A j \in 1..(l - 1) : d.coming[j] = y[(k + 1) + j]
    <3> SUFFICES ASSUME NEW j \in 1..(l - 1) PROVE d.coming[j] = y[(k + 1) + j]
      OBVIOUS
    <3>1. j + 1 \in 1..l /\ k + (j + 1) = (k + 1) + j
      BY <2>2
    <3> QED BY <2>1, <2>3, <3>1
  <2>7. (k + 1) + (l - 1) = Len(y) /\ k + 1 <= c.cap
    BY <1>1, <2>1, <2>2, SMTT(40) DEF k
  <2>8. d.pc # "answered"
    BY <1>1, <1>2
  <2> QED BY <1>2, <2>1, <2>3, <2>4, <2>5, <2>6, <2>7, <2>8 DEF RunInv, y
<1> HIDE DEF d
<1>4. Call(d)
  BY <1>1, <1>2, <1>3 DEF Call
<1> QED BY <1>1, <1>4, CallBecomes

LEMMA ReadEndsKeeps ==
    ASSUME AskedInv, NEW i \in DOMAIN asked, ReadEnds(i) PROVE AskedInv'
<1> DEFINE c == asked[i]
           p == IF c.kind = "expand" /\ c.read = <<>> THEN "missing" ELSE "answered"
           d == [c EXCEPT !.pc = p, !.truncated = c.coming # <<>>]
<1>1. asked' = [asked EXCEPT ![i] = d] /\ (c.coming = <<>> \/ Len(c.read) >= c.cap) /\ Call(c)
  BY DEF ReadEnds, Becomes, AskedInv
<1>2. /\ DOMAIN d = DOMAIN c /\ d.kind = c.kind /\ d.cap = c.cap /\ d.statement = c.statement
      /\ d.coming = c.coming /\ d.read = c.read /\ d.truncated = (c.coming # <<>>)
  BY <1>1 DEF Call
<1> HIDE DEF d, p
<1>3. Call(d)
  BY <1>1, <1>2 DEF Call, RunInv
<1> QED BY <1>1, <1>3, CallBecomes

LEMMA AskedStep == ASSUME AskedInv, [ConsoleNext]_console PROVE AskedInv'
<1>1. ASSUME NEW s \in Statements, NEW cap \in Limits, Run(s, cap) PROVE AskedInv'
  <2> DEFINE c == Request("run", NoId, cap, s, Yields(s, cap))
  <2>1. /\ c.kind = "run" /\ c.cap = cap /\ c.statement = s /\ c.coming = Yields(s, cap) /\ c.read = <<>>
        /\ c.pc = "sent"
        /\ DOMAIN c = {"kind", "about", "cap", "pc", "statement", "coming", "read", "truncated"}
    BY DEF Request
  <2>2. cap \in Nat /\ Yields(s, cap) \in Seq(Record) /\ Len(Yields(s, cap)) \in Nat
        /\ <<>> \in Seq(Record) /\ Len(<<>>) = 0
    <3>1. cap \in Nat
      BY ConsoleAssumption
    <3> QED BY <3>1, YieldsRecords, LenProperties
  <2>3. asked' = Append(asked, c)
    BY <1>1 DEF Run
  <2> HIDE DEF c
  <2>4. \A j \in Nat : 0 + j = j
    OBVIOUS
  <2>5. Call(c)
    BY <2>1, <2>2, <2>4 DEF Call, RunInv
  <2> QED BY <2>3, <2>5, OneCallMore
<1>2. ASSUME NEW id, Expand(id) PROVE AskedInv'
  <2>1. PICK records : asked' = Append(asked, Request("expand", id, ExpandLimit, NoResult, FirstOf(records, ExpandLimit)))
    BY <1>2 DEF Expand
  <2>2. PICK c : c = Request("expand", id, ExpandLimit, NoResult, FirstOf(records, ExpandLimit))
    OBVIOUS
  <2>3. Call(c)
    BY <2>2 DEF Call, RunInv, Request
  <2> QED BY <2>1, <2>2, <2>3, OneCallMore
<1>3. ASSUME NEW i \in DOMAIN asked, NEW p, p # "answered", asked' = [asked EXCEPT ![i] = [asked[i] EXCEPT !.pc = p]]
      PROVE  AskedInv'
  <2>1. Call([asked[i] EXCEPT !.pc = p])
    BY <1>3, CallMoves DEF AskedInv
  <2> QED BY <1>3, <2>1, CallBecomes
<1>4. ASSUME NEW i \in DOMAIN asked, Serve(i) PROVE AskedInv'
  <2>1. CASE RefuseWrite(i)
    BY <1>3, <2>1 DEF RefuseWrite, Becomes
  <2>2. CASE SyntaxError(i)
    BY <1>3, <2>2 DEF SyntaxError, Becomes
  <2>3. CASE BeginTransaction(i)
    BY <1>3, <2>3 DEF BeginTransaction, Becomes
  <2>4. CASE DriverFails(i)
    BY <1>3, <2>4 DEF DriverFails, Becomes
  <2> QED BY <1>4, <2>1, <2>2, <2>3, <2>4, ReadRecordKeeps, ReadEndsKeeps DEF Serve
<1>5. ASSUME NEW i \in DOMAIN asked, TakeRun(i) \/ TakeRunError(i) \/ TakeExpansion(i) \/ TakeExpansionError(i)
      PROVE  AskedInv'
  <2>1. asked' = [asked EXCEPT ![i] = [asked[i] EXCEPT !.pc = "done"]]
    BY <1>5 DEF TakeRun, TakeRunError, TakeExpansion, TakeExpansionError, Receive
  <2> QED BY <1>3, <2>1
<1>6. CASE Render \/ UNCHANGED console
  <2>1. UNCHANGED asked
    BY <1>6 DEF Render, console
  <2> QED BY <2>1 DEF AskedInv
<1> QED BY <1>1, <1>2, <1>4, <1>5, <1>6 DEF ConsoleNext

LEMMA CallIsWhole ==
    ASSUME NEW c, Call(c), c.pc = "answered", c.kind = "run"
    PROVE  /\ c.read = FirstOf(Wanted(c.statement), c.cap)
           /\ c.truncated => Len(Wanted(c.statement)) > c.cap
           /\ ~c.truncated /\ ApplyLimit(c.statement.words) = c.statement.words => c.read = Wanted(c.statement)
<1> DEFINE s == c.statement
           w == Wanted(s)
           y == Yields(s, c.cap)
           f == FirstOf(w, c.cap)
           k == Len(c.read)
           l == Len(c.coming)
           n == c.cap
<1>1. /\ s \in Statements /\ n \in Nat /\ c.read \in Seq(Record) /\ c.coming \in Seq(Record)
      /\ k <= n /\ k + l = Len(y) /\ (\A i \in 1..k : c.read[i] = y[i])
      /\ (c.coming = <<>> \/ k >= n) /\ c.truncated = (c.coming # <<>>)
  BY DEF Call, RunInv
<1>2. /\ w \in Seq(Record) /\ f \in Seq(Record) /\ k \in Nat /\ l \in Nat /\ Len(w) \in Nat
      /\ Len(f) = (IF n < Len(w) THEN n ELSE Len(w)) /\ \A i \in 1..Len(f) : f[i] = w[i]
      /\ y = w \/ (y = f /\ ApplyLimit(s.words) # s.words)
      /\ l = 0 <=> c.coming = <<>>
  BY <1>1, YieldsRecords, FirstOfPrefix, LenProperties, EmptySeq
<1>3. k = Len(f) /\ (l > 0 => Len(w) > n) /\ (l = 0 /\ y = w => k = Len(w))
  <2>1. Len(y) = Len(w) \/ Len(y) = Len(f)
    BY <1>2
  <2>2. l = 0 \/ k >= n
    BY <1>1, <1>2
  <2>3. y = w => Len(y) = Len(w)
    OBVIOUS
  <2> HIDE DEF k, l, n, f, w, y
  <2> QED BY <1>1, <1>2, <2>1, <2>2, <2>3
<1>4. \A i \in 1..k : c.read[i] = f[i] /\ (y = w => c.read[i] = w[i])
  <2> HIDE DEF f, w, y, k
  <2> QED BY <1>1, <1>2, <1>3
<1>5. c.read = f
  <2> HIDE DEF f
  <2> QED BY <1>1, <1>2, <1>3, <1>4, SeqEqual
<1>6. c.truncated => Len(w) > n
  <2>1. c.coming # <<>> => l > 0
    <3> HIDE DEF l
    <3> QED BY <1>2
  <2> QED BY <1>1, <1>3, <2>1
<1>7. ~c.truncated /\ ApplyLimit(s.words) = s.words => c.read = w
  <2> SUFFICES ASSUME ~c.truncated, ApplyLimit(s.words) = s.words PROVE c.read = w
    OBVIOUS
  <2>1. y = w /\ l = 0
    BY <1>1, <1>2
  <2>2. k = Len(w) /\ \A i \in 1..k : c.read[i] = w[i]
    BY <1>3, <1>4, <2>1
  <2> HIDE DEF w
  <2> QED BY <1>1, <1>2, <2>2, SeqEqual
<1> QED BY <1>5, <1>6, <1>7

(* An answer holds the first records the statement asks for and is said to *)
(* be cut only when there are more; without a limit of the route's it has  *)
(* all of them otherwise (cypher.py:452-482).                              *)
THEOREM AnswersAlwaysWhole == ConsoleSpec => []AnswersAreWhole
<1>1. ConsoleInit => AskedInv
  BY DEF ConsoleInit, AskedInv, Range
<1>2. AskedInv /\ [ConsoleNext]_console => AskedInv'
  BY AskedStep
<1>3. AskedInv => AnswersAreWhole
  BY CallIsWhole DEF AskedInv, AnswersAreWhole
<1> QED BY <1>1, <1>2, <1>3, PTL DEF ConsoleSpec
=============================================================================

-------------------------------- MODULE Parsing --------------------------------
(***************************************************************************)
(* From a file to the text that is cut into chunks: which engine reads it  *)
(* (parser/routing.py), the in-process reader (parser/legacy), the Docling *)
(* service that is asked and polled (parser/external/docling), the sidecar *)
(* it leaves beside the file (sidecar/writer.py) and the chunker that      *)
(* reads the sidecar again.  One drain handles the documents one after the *)
(* other; the process may be killed and start with another environment.    *)
(*                                                                         *)
(* What a file holds is a set of parts; a text is the set of the parts in  *)
(* it, each with the document it comes from.                               *)
(***************************************************************************)
EXTENDS Naturals, Sequences, FiniteSets, SequencesExt

CONSTANTS
    Docs,         \* the files, each with
    Suffix,       \*   its suffix,
    HasPdfBytes,  \*   whether it starts like a PDF,
    Hint,         \*   the engine and options its name asks for,
    Stem,         \*   its name without suffix: where its sidecar goes,
    Holds,        \*   and what is written in it
    Reads,        \* engine -> the suffixes it reads
    Rules,        \* MEMGRAPHRAG_PARSER: suffixes, engine and options
    MaxPolls,     \* DOCLING_MAX_POLLS
    MaxDeaths,    \* bound: kills of the process
    MaxRequeues,  \* bound: failed documents tried again
    NoSuffix,     \* the suffix of a name that has none
    Nothing       \* no document, no sidecar

Engines == {"legacy", "docling"}

\* The options of a file are a word over these; the first chunker named in it
\* is the strategy.
ChunkChars == {"F", "R", "P"}
SupportedOptions == {"i", "t", "e", "!"} \cup ChunkChars

ASSUME ParsingAssumption ==
    /\ MaxPolls \in Nat \ {0} /\ {MaxDeaths, MaxRequeues} \subseteq Nat
    /\ Reads \in [Engines -> SUBSET Range(Suffix)]
    /\ \A d \in Docs : Hint[d].engine \in Engines \cup {"none", "unknown"}
    /\ Docs \subseteq DOMAIN Stem

VARIABLES
    endpoint,  \* DOCLING_ENDPOINT is set
    record,    \* the doc-status records: status, engine, process options
    at,        \* the document being parsed and where
    task,      \* the status of its task at the service
    polls,     \* how often it was polled
    found,     \* the text and the blocks the engine returned
    sidecar,   \* directory -> the blocks written there
    chunked,   \* document -> what its chunks were cut from
    deaths,    \* kills so far
    requeues   \* requeues so far

parsingVars == <<endpoint, record, at, task, polls, found, sidecar, chunked, deaths, requeues>>

Absent == [status |-> "absent", engine |-> "legacy", options |-> << >>]
NoText == [text |-> {}, blocks |-> {}]
Done   == [doc |-> Nothing, pc |-> "idle"]

ParsingInit ==
    /\ endpoint \in BOOLEAN
    /\ record = [d \in Docs |-> Absent]
    /\ at = Done /\ task = "none" /\ polls = 0 /\ found = NoText
    /\ sidecar = [s \in Range(Stem) |-> Nothing]
    /\ chunked = [d \in Docs |-> {}]
    /\ deaths = 0 /\ requeues = 0

-----------------------------------------------------------------------------
\* Which engine: the hint in the name, else the first rule that can be
\* followed, else legacy.

Configured(engine) == engine = "docling" => endpoint

Usable(engine, suffix) == suffix \in Reads[engine] /\ Configured(engine)

\* A hint with no engine is one with options only.
HintRefused(d) ==
    \/ Hint[d].engine = "unknown"
    \/ Hint[d].engine \in Engines /\ ~Usable(Hint[d].engine, Suffix[d])

Sanitized(options) == SelectSeq(options, LAMBDA o : o \in SupportedOptions)

ChunkingStrategy(options) ==
    LET named == SelectSeq(Sanitized(options), LAMBDA o : o \in ChunkChars)
    IN  IF named = << >> THEN "F" ELSE Head(named)

\* What a name that is not refused asks for.
HintedDirectives(d) ==
    [engine |-> Hint[d].engine, options |-> Sanitized(Hint[d].options)]

RuleFor(suffix) ==
    LET followed == SelectSeq(Rules, LAMBDA r : suffix \in r.suffixes /\ Usable(r.engine, suffix))
    IN  IF followed = << >> THEN [engine |-> "none", options |-> << >>]
        ELSE [engine |-> Head(followed).engine, options |-> Sanitized(Head(followed).options)]

\* The first of the choices that is one.
FirstSet(choices, none) == SelectSeq(choices, LAMBDA c : c # none)[1]

\* Options come from the name or from the rule, never half from each: a hint
\* for anything else hides the chunker of the rule.
Directives(d) ==
    LET hint == HintedDirectives(d)
        rule == RuleFor(Suffix[d])
    IN  [engine  |-> FirstSet(<<hint.engine, rule.engine, "legacy">>, "none"),
         options |-> IF hint.options # << >> THEN hint.options ELSE rule.options]

\* A hint that is refused falls back to legacy, without its options.
Route(d) == IF HintRefused(d) THEN [engine |-> "legacy", options |-> << >>] ELSE Directives(d)

\* Whoever finds the file: a scan looks at no suffix.
Enqueue(d) ==
    /\ record[d].status = "absent"
    /\ record' = [record EXCEPT ![d] = [status |-> "pending", engine |-> Route(d).engine,
                                        options |-> Route(d).options]]
    /\ UNCHANGED <<endpoint, at, task, polls, found, sidecar, chunked, deaths, requeues>>

\* A requeue keeps the engine and the options of the record.
Requeue(d) ==
    /\ record[d].status = "failed"
    /\ requeues < MaxRequeues /\ requeues' = requeues + 1
    /\ record' = [record EXCEPT ![d].status = "pending"]
    /\ UNCHANGED <<endpoint, at, task, polls, found, sidecar, chunked, deaths>>

-----------------------------------------------------------------------------
\* The drain takes a document.

At(pc) == at.pc = pc
GoTo(pc) == at' = [at EXCEPT !.pc = pc]

Begin(d) ==
    /\ At("idle") /\ record[d].status = "pending"
    /\ record' = [record EXCEPT ![d].status = "parsing"]
    /\ at' = [doc |-> d, pc |-> "engine"]
    /\ UNCHANGED <<endpoint, task, polls, found, sidecar, chunked, deaths, requeues>>

Settled(status) ==
    /\ record' = [record EXCEPT ![at.doc].status = status]
    /\ at' = Done /\ task' = "none" /\ polls' = 0 /\ found' = NoText

\* Any exception of the parser or the chunker.
Fails ==
    /\ Settled("failed")
    /\ UNCHANGED <<endpoint, sidecar, chunked, deaths, requeues>>

Available == Configured(record[at.doc].engine)

GetParser ==
    /\ At("engine") /\ Available
    /\ GoTo(IF record[at.doc].engine = "docling" THEN "submit" ELSE "read")
    /\ UNCHANGED <<endpoint, record, task, polls, found, sidecar, chunked, deaths, requeues>>

Unavailable == At("engine") /\ ~Available /\ Fails

\* Parts of a document, as found in a text.
PartsOf(d, parts) == {<<d, p>> : p \in parts}

\* A file that starts like a PDF is read as one whatever its name says, a file
\* without suffix as plain text.
LegacyReads(d) == HasPdfBytes[d] \/ Suffix[d] \in Reads["legacy"] \cup {NoSuffix}

\* What of a file becomes text.  Of the formats with tables, those whose tables
\* are read; a pptx gives its prose only, and Holds says so.
ExtractText(d) == PartsOf(d, Holds[d])

ReadLegacy ==
    /\ At("read") /\ LegacyReads(at.doc)
    /\ ExtractText(at.doc) # {}
    /\ found' = [text |-> ExtractText(at.doc), blocks |-> {}]
    /\ GoTo("chunk")
    /\ UNCHANGED <<endpoint, record, task, polls, sidecar, chunked, deaths, requeues>>

\* No such suffix, or no usable text.
LegacyRefuses ==
    /\ At("read")
    /\ ~LegacyReads(at.doc) \/ ExtractText(at.doc) = {}
    /\ Fails

\* The file is gone or damaged, or has a password.
LegacyFails == At("read") /\ Fails

-----------------------------------------------------------------------------
\* The Docling service, outside: a task ends in any way, or is forgotten.

TaskStates == {"pending", "started", "success", "failure", "partial_success", "skipped", "lost"}
Running == {"pending", "started"}

ServiceWorks ==
    /\ task \in Running
    /\ task' \in TaskStates \ {"pending"}
    /\ UNCHANGED <<endpoint, record, at, polls, found, sidecar, chunked, deaths, requeues>>

Submit ==
    /\ At("submit")
    /\ task' = "pending" /\ polls' = 0
    /\ GoTo("poll")
    /\ UNCHANGED <<endpoint, record, found, sidecar, chunked, deaths, requeues>>

PollSucceeded ==
    /\ At("poll") /\ task = "success"
    /\ GoTo("fetch")
    /\ UNCHANGED <<endpoint, record, task, polls, found, sidecar, chunked, deaths, requeues>>

\* Between two polls the parser waits: MaxPolls of them and it gives up.
PollAgain ==
    /\ At("poll") /\ task \in Running
    /\ polls' = polls + 1
    /\ polls' < MaxPolls
    /\ UNCHANGED <<endpoint, record, at, task, found, sidecar, chunked, deaths, requeues>>

PollEnded    == At("poll") /\ task \in {"failure", "partial_success", "skipped", "lost"} /\ Fails
PollTimesOut == At("poll") /\ task \in Running /\ polls + 1 = MaxPolls /\ Fails

\* The bundle has the markdown of the document, its JSON, or both; the JSON
\* carries the prose but not the tables, the markdown carries both.
Bundle(d) ==
    LET prose == PartsOf(d, Holds[d] \ {"tables"})
        all   == PartsOf(d, Holds[d])
    IN  {[md |-> all, json |-> prose], [md |-> all, json |-> {}], [md |-> {}, json |-> prose]}

\* The blocks are the texts of the JSON, or the markdown as a single block;
\* the text is the markdown, or the texts of the JSON joined.
Extracted(bundle) ==
    [text   |-> IF bundle.md # {} THEN bundle.md ELSE bundle.json,
     blocks |-> IF bundle.json # {} THEN bundle.json ELSE bundle.md]

Fetch ==
    /\ At("fetch")
    /\ \E bundle \in Bundle(at.doc) :
          /\ Extracted(bundle).text # {}
          /\ found' = Extracted(bundle)
    /\ GoTo("clean")
    /\ UNCHANGED <<endpoint, record, task, polls, sidecar, chunked, deaths, requeues>>

FetchEmpty ==
    /\ At("fetch")
    /\ \E bundle \in Bundle(at.doc) : Extracted(bundle).text = {}
    /\ Fails

\* A request that fails, a bundle that cannot be read.
DoclingFails == at.pc \in {"submit", "poll", "fetch"} /\ Fails

Directory == Stem[at.doc]

\* A mutant: a sidecar that is already there is taken for this document's.
CleanSidecarReused ==
    /\ At("clean")
    /\ found' = IF sidecar[Directory] = Nothing THEN found ELSE [found EXCEPT !.text = sidecar[Directory]]
    /\ GoTo(IF sidecar[Directory] = Nothing THEN "write" ELSE "chunk")
    /\ UNCHANGED <<endpoint, record, task, polls, sidecar, chunked, deaths, requeues>>

CleanSidecar ==
    /\ At("clean")
    /\ sidecar' = [sidecar EXCEPT ![Directory] = Nothing]
    /\ GoTo("write")
    /\ UNCHANGED <<endpoint, record, task, polls, found, chunked, deaths, requeues>>

\* The text handed on is the one of the blocks.
WriteSidecar ==
    /\ At("write")
    /\ sidecar' = [sidecar EXCEPT ![Directory] = found.blocks]
    /\ found' = [found EXCEPT !.text = found.blocks]
    /\ GoTo("chunk")
    /\ UNCHANGED <<endpoint, record, task, polls, chunked, deaths, requeues>>

SidecarFails == at.pc \in {"clean", "write"} /\ Fails

-----------------------------------------------------------------------------
\* Strategy P reads the blocks again where the parser says they are; without
\* a sidecar it cuts the text, as the other strategies do.

Source ==
    IF ChunkingStrategy(record[at.doc].options) = "P" /\ found.blocks # {} /\ sidecar[Directory] # Nothing
    THEN sidecar[Directory] ELSE found.text

ChunkText ==
    /\ At("chunk")
    /\ Source # {}
    /\ chunked' = [chunked EXCEPT ![at.doc] = Source]
    /\ Settled("cut")
    /\ UNCHANGED <<endpoint, sidecar, deaths, requeues>>

-----------------------------------------------------------------------------
\* The next process may find another endpoint; it takes back what was being
\* parsed.  The task of the service goes on and is forgotten.

WorkerKilled ==
    /\ deaths < MaxDeaths /\ deaths' = deaths + 1
    /\ endpoint' \in BOOLEAN
    /\ record' = [d \in Docs |-> IF record[d].status = "parsing"
                                 THEN [record[d] EXCEPT !.status = "pending"] ELSE record[d]]
    /\ at' = Done /\ task' = "none" /\ polls' = 0 /\ found' = NoText
    /\ UNCHANGED <<sidecar, chunked, requeues>>

Parse ==
    \/ \E d \in Docs : Begin(d)
    \/ GetParser \/ Unavailable
    \/ ReadLegacy \/ LegacyRefuses
    \/ Submit \/ PollSucceeded \/ PollAgain \/ PollEnded \/ PollTimesOut
    \/ Fetch \/ FetchEmpty
    \/ CleanSidecar \/ WriteSidecar
    \/ ChunkText

Fault == LegacyFails \/ DoclingFails \/ SidecarFails

ParsingNext ==
    \/ \E d \in Docs : Enqueue(d) \/ Requeue(d)
    \/ Parse
    \/ Fault
    \/ ServiceWorks
    \/ WorkerKilled

ParsingSpec == ParsingInit /\ [][ParsingNext]_parsingVars

-----------------------------------------------------------------------------
\* Chunks are cut from their own document, all its prose included: from no
\* sidecar another document of that name left, no conversion the service did
\* not finish, no file left half written by a kill.
CutFromItsOwn ==
    \A d \in Docs : record[d].status = "cut" =>
        /\ chunked[d] # {}
        /\ chunked[d] \subseteq PartsOf(d, Holds[d])
        /\ PartsOf(d, Holds[d] \ {"tables"}) \subseteq chunked[d]
================================================================================

\* Two queries in every mode while the corpus is rewritten twice; or three
\* turns of up to three calls, a budget a few results exceed, and the answer in
\* every rendering.
SPECIFICATION MCSpec
CONSTANTS
    q1 = q1
    q2 = q2
    p1 = p1
    p2 = p2
    Queries <- MCQueries
    Rewriter = Rewriter
    NoOne = NoOne
    Passage <- MCPassages
    NoEngine = NoEngine
    TopK = 2
    LinkingTopK = 2
    MaxCandidates = 1
    Modes <- MCModes
    MaxRewrites = 2
    s1 = s1
    s2 = s2
    lookup = lookup
    broken = broken
    x1 = x1
    Searches <- MCSearches
    Lookups <- MCLookups
    Broken <- MCBroken
    Excerpt <- MCExcerpts
    MaxToolTopK = 2
    MaxSteps = 3
    MaxCallsPerTurn = 2
    Ceiling = 10
    PromptTokens = 2
    PassageTokens = 3
    NoticeTokens = 1
    DroppedTokens = 2
    Transcripts <- MCTranscripts
    MaxAsked = 3
    MaxToken = 3
    Probe = 3
SYMMETRY Symmetric
INVARIANT ScaffoldingStripped
CHECK_DEADLOCK FALSE

------------------------------ MODULE LoginLimiter ------------------------------
(***************************************************************************)
(* POST /login (api/server.py) behind the limiter of api/rate_limit.py: at *)
(* most so many attempts of a client in a window; a client turned away is  *)
(* told when to come back; a login that succeeds forgets the attempts.     *)
(* Time is counted in fractions of a second, as the limiter's clock is.    *)
(***************************************************************************)
EXTENDS Naturals, Sequences, FiniteSets, SequencesExt

CONSTANTS
    Client,       \* addresses clients come from
    MaxAttempts,  \* LOGIN_MAX_ATTEMPTS, 0 for no limit
    Window,       \* LOGIN_WINDOW_SECONDS
    Second,       \* fractions in a second
    SweepAbove,   \* clients known before quiet ones are looked for: 1024
    MaxTime       \* bound: the clock

ASSUME LimiterAssumption ==
    /\ {MaxAttempts, Window, SweepAbove, MaxTime} \subseteq Nat
    /\ Second \in Nat \ {0}

VARIABLES
    now,      \* the clock
    hits,     \* client -> the times of its attempts, for the clients known
    allowed,  \* history: client -> the times it was let through since it logged in
    comeBack, \* history: client -> when it was told to come back, 0 for not
    quiet     \* history: the clients the last sweep kept without an attempt in the window

limiter == <<now, hits, allowed, comeBack, quiet>>

LimiterInit ==
    /\ now = 1 /\ hits = [c \in {} |-> <<>>]
    /\ allowed = [c \in Client |-> <<>>] /\ comeBack = [c \in Client |-> 0] /\ quiet = {}

Tick == now < MaxTime /\ now' = now + 1 /\ UNCHANGED <<hits, allowed, comeBack, quiet>>

(* The attempts at the head of a bucket that are too old to count. *)
Aged(bucket, cutoff) ==
    CHOOSE n \in 0..Len(bucket) :
        /\ \A i \in 1..n : bucket[i] + Window <= cutoff
        /\ n < Len(bucket) => bucket[n + 1] + Window > cutoff

(* A mutant: an attempt counts a moment too short. *)
PruneEarly(bucket, t) == SubSeq(bucket, Aged(bucket, t + 1) + 1, Len(bucket))

Prune(bucket, t) == SubSeq(bucket, Aged(bucket, t) + 1, Len(bucket))

Bucket(c) == IF c \in DOMAIN hits THEN Prune(hits[c], now) ELSE <<>>

(* The clients known once c has the bucket b. *)
With(c, b) == [x \in DOMAIN hits \cup {c} |-> IF x = c THEN b ELSE hits[x]]

(* Empty buckets go when there are too many; those of the others are not   *)
(* looked at again before their clients come back.                         *)
Sweep(known) ==
    IF Cardinality(DOMAIN known) > SweepAbove
    THEN [x \in {y \in DOMAIN known : known[y] # <<>>} |-> known[x]] ELSE known

(* A mutant: the seconds are rounded down. *)
RetryAfterShort(b) == (Window - (now - b[1])) \div Second

(* Seconds to wait, as the header says them. *)
RetryAfter(b) ==
    LET wait == (Window - (now - b[1])) \div Second + 1 IN IF wait < 1 THEN 1 ELSE wait

TurnedAway(c) ==
    /\ MaxAttempts > 0 /\ Len(Bucket(c)) >= MaxAttempts
    /\ hits' = With(c, Bucket(c))
    /\ comeBack' = [comeBack EXCEPT ![c] = now + Second * RetryAfter(Bucket(c))]
    /\ UNCHANGED <<now, allowed, quiet>>

LetThrough(c) == MaxAttempts = 0 \/ Len(Bucket(c)) < MaxAttempts

(* The attempt is counted before the password is looked at. *)
Attempted(c) == Sweep(With(c, Append(Bucket(c), now)))

Check(c) ==
    /\ LetThrough(c)
    /\ comeBack' = [comeBack EXCEPT ![c] = 0]
    /\ quiet' = IF MaxAttempts > 0 /\ Cardinality(DOMAIN With(c, <<>>)) > SweepAbove
                THEN {x \in DOMAIN Attempted(c) : Prune(Attempted(c)[x], now) = <<>>} ELSE {}
    /\ UNCHANGED now

(* A wrong password; or no accounts, and everyone is a guest. *)
StaysOut(c) ==
    /\ Check(c)
    /\ hits' = IF MaxAttempts = 0 THEN hits ELSE Attempted(c)
    /\ allowed' = [allowed EXCEPT ![c] = Append(@, now)]

LogsIn(c) ==
    /\ Check(c)
    /\ hits' = IF MaxAttempts = 0 THEN hits
               ELSE [x \in DOMAIN Attempted(c) \ {c} |-> Attempted(c)[x]]
    /\ allowed' = [allowed EXCEPT ![c] = <<>>]

LimiterNext == Tick \/ \E c \in Client : TurnedAway(c) \/ StaysOut(c) \/ LogsIn(c)

LimiterSpec == LimiterInit /\ [][LimiterNext]_limiter

----------------------------------------------------------------------------
(* Properties.                                                             *)

(* Of the attempts let through since the client last logged in no more     *)
(* than MaxAttempts fall into any window, wherever it starts               *)
(* (rate_limit.py:33-56, server.py:569-604).                               *)
NoWindowOverrun ==
    MaxAttempts > 0 =>
        \A c \in Client : \A i \in 1..(Len(allowed[c]) - MaxAttempts) :
            allowed[c][i + MaxAttempts] >= allowed[c][i] + Window

(* Whoever comes back when told is let through, unless another attempt     *)
(* from the address was (server.py:576-581: the seconds are rounded).      *)
ComingBackIsEnough ==
    \A c \in Client : comeBack[c] # 0 /\ now >= comeBack[c] => LetThrough(c)

(* What the docs say: the buckets of clients that have gone quiet are      *)
(* dropped on access, so that memory is bounded by the clients that are    *)
(* active (rate_limit.py:22-24).                                           *)
QuietAreDropped == quiet = {}

=============================================================================

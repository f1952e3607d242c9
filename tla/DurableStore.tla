----------------------------- MODULE DurableStore -----------------------------
(***************************************************************************)
(* What a storage namespace promises its callers (base.py, and the         *)
(* comments of the file-backed backends): one map that calls change at     *)
(* once, and a copy of it that a restart finds.  The copy is always a whole*)
(* earlier map, never a mixture, and a process never starts over a copy    *)
(* that cannot be read: it refuses, or sets the copy aside.  A backend     *)
(* that rewrites its copy in place can itself leave it unreadable.         *)
(***************************************************************************)
CONSTANTS
    Map,        \* the contents a namespace can have
    Empty,      \* the content of a new namespace
    Unreadable  \* a copy that no longer parses

VARIABLES
    view,     \* what the calls of a running process see
    durable,  \* what a restart finds
    running,  \* a process has the namespace open
    aside,    \* an unreadable copy was kept under another name
    inPlace   \* the copy is rewritten in place: fixed

absVars == <<view, durable, running, aside, inPlace>>

AbsInit == /\ view = Empty /\ durable = Empty /\ running = TRUE /\ aside = FALSE
           /\ inPlace \in BOOLEAN

Change  == /\ running /\ view' \in Map
           /\ UNCHANGED <<durable, running, aside, inPlace>>
Save    == /\ running /\ durable' = view
           /\ UNCHANGED <<view, running, aside, inPlace>>
Erase   == /\ running /\ view' = Empty /\ durable' = Empty
           /\ UNCHANGED <<running, aside, inPlace>>
Tear    == /\ running /\ inPlace /\ durable' = Unreadable
           /\ UNCHANGED <<view, running, aside, inPlace>>
Stop    == /\ running /\ running' = FALSE /\ view' = Empty
           /\ durable' \in IF inPlace THEN {durable, Unreadable} ELSE {durable}
           /\ UNCHANGED <<aside, inPlace>>
Spoil   == /\ ~running /\ durable' = Unreadable
           /\ UNCHANGED <<view, running, aside, inPlace>>
Start   == /\ ~running /\ durable # Unreadable
           /\ running' = TRUE /\ view' = durable
           /\ UNCHANGED <<durable, aside, inPlace>>
StartAnew == /\ ~running /\ durable = Unreadable
             /\ running' = TRUE /\ view' = Empty /\ durable' = Empty /\ aside' = TRUE
             /\ UNCHANGED inPlace

AbsNext == Change \/ Save \/ Erase \/ Tear \/ Stop \/ Spoil \/ Start \/ StartAnew

AbsSpec == AbsInit /\ [][AbsNext]_absVars
===============================================================================

---------------------------- MODULE ArtifactStore ----------------------------
(***************************************************************************)
(* What the gateway promises of managed artifacts: a client announces what *)
(* it will send; the artifact appears as a whole, exactly that, at most    *)
(* once; it can be read unchanged until it expires; when it has gone it    *)
(* does not come back.                                                     *)
(***************************************************************************)
EXTENDS Naturals

CONSTANTS
    Key,      \* identifiers
    Content,  \* what can be sent, which its digest stands for
    TTL,      \* how long an artifact is kept
    None

VARIABLES
    promised,   \* what was announced
    published,  \* what can be read, and until when
    closed,     \* keys under which nothing will appear any more
    now

vars == <<promised, published, closed, now>>

Init ==
    /\ promised = [k \in Key |-> None]
    /\ published = [k \in Key |-> None]
    /\ closed = {}
    /\ now = 0

Announce(k) ==
    /\ promised[k] = None
    /\ \E c \in Content : promised' = [promised EXCEPT ![k] = c]
    /\ UNCHANGED <<published, now>>

Publish(k) ==
    /\ promised[k] # None
    /\ k \in closed' \ closed
    /\ published' = [published EXCEPT ![k] = [digest |-> promised[k], expires |-> now + TTL]]
    /\ UNCHANGED <<promised, now>>

Overdue == {k \in Key : published[k] # None /\ published[k].expires <= now}

\* Any of what has expired is taken away, or nothing.
Withdraw ==
    /\ \E gone \in SUBSET Overdue :
         published' = [k \in Key |-> IF k \in gone THEN None ELSE published[k]]
    /\ UNCHANGED <<promised, now>>

Tick ==
    /\ now' = now + 1
    /\ UNCHANGED <<promised, published>>

\* A key may be given up at any time; that is for ever.
Next ==
    /\ closed \subseteq closed'
    /\ (\E k \in Key : Announce(k) \/ Publish(k)) \/ Withdraw \/ Tick

Spec == Init /\ [][Next]_vars
=============================================================================

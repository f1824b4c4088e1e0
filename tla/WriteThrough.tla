---------------------------- MODULE WriteThrough ----------------------------
(***************************************************************************)
(* What the gateway promises of a setting that is stored in a database and *)
(* shown in a file the operating system reads: cron jobs in /etc/cron.d,   *)
(* site settings in an Nginx vhost.  The file is changed first; the change *)
(* is then kept by storing it or undone, and until one of the two has      *)
(* happened no other key is changed.                                       *)
(***************************************************************************)
CONSTANTS Key, Value

VARIABLES stored, shown

vars == <<stored, shown>>

Init == stored = shown /\ shown \in [Key -> Value]

Show(k) ==
    /\ stored = shown
    /\ \E v \in Value : shown' = [shown EXCEPT ![k] = v]
    /\ UNCHANGED stored

Keep == stored' = shown /\ UNCHANGED shown

Undo == shown' = stored /\ UNCHANGED stored

Next == (\E k \in Key : Show(k)) \/ Keep \/ Undo

Spec == Init /\ [][Next]_vars
=============================================================================

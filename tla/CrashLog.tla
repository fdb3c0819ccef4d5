------------------------------- MODULE CrashLog -------------------------------
(***************************************************************************)
(* What the crash recorder promises its user: every record a dying process *)
(* managed to write waits until some drain hands it over, and is then      *)
(* gone.  CrashSink implements it with one file per process.               *)
(***************************************************************************)
CONSTANT Ids     \* identities of crash records

VARIABLES
    waiting,     \* records written and not handed over
    delivered    \* records handed over

vars == <<waiting, delivered>>

Init ==
    /\ waiting = {}
    /\ delivered = {}

(* A process crashes and its record reaches the disk. *)
Record(id) ==
    /\ id \notin waiting \cup delivered
    /\ waiting' = waiting \cup {id}
    /\ UNCHANGED delivered

(* A drain hands over some of the records that wait. *)
HandOver(ids) ==
    /\ ids # {}
    /\ waiting' = waiting \ ids
    /\ delivered' = delivered \cup ids

Next ==
    \/ \E id \in Ids : Record(id)
    \/ \E ids \in SUBSET waiting : HandOver(ids)

Spec == Init /\ [][Next]_vars
=============================================================================

---------------------------- MODULE Collection ----------------------------
(***************************************************************************)
(* What a client that polls a request may rely on, whichever controller    *)
(* works on it: the request is announced, contributions are added and      *)
(* never taken back, it is completed at most once and only with something  *)
(* in it, and once removed it does not return.                             *)
(***************************************************************************)
CONSTANT Operators

VARIABLES
    phase, \* "none" before the POST, then status.status, at last "gone"
    given  \* the operators that have contributed

Init == phase = "none" /\ given = {}

Announce == phase = "none" /\ phase' = "" /\ UNCHANGED given

Begin == phase = "" /\ phase' = "pending" /\ UNCHANGED given

Contribute(o) ==
    /\ phase \in {"", "pending", "Completed"}
    /\ o \notin given /\ given' = given \cup {o}
    /\ UNCHANGED phase

Complete ==
    /\ phase = "pending" /\ given # {}
    /\ phase' = "Completed" /\ UNCHANGED given

Remove ==
    /\ phase \notin {"none", "gone"}
    /\ phase' = "gone" /\ given' = {}

Next ==
    \/ Announce \/ Begin \/ Complete \/ Remove
    \/ \E o \in Operators : Contribute(o)

Spec == Init /\ [][Next]_<<phase, given>>
=============================================================================

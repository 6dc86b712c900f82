--------------------------- MODULE StreamLifecycle ---------------------------
(***************************************************************************)
(* What the control plane promises about a stream record, whatever the     *)
(* interleaving of the tasks that share it: the state machine in the       *)
(* comments of control/state.rs (the StreamState type and                  *)
(* is_valid_transition), with the two facts the comments leave implicit:   *)
(* READY is entered only once every rendition that one of the record's     *)
(* transcoders announced is complete, and a record disappears only after   *)
(* DELETED.                                                                *)
(***************************************************************************)
CONSTANTS StreamIds

VARIABLES
    phase,      \* phase[s]: the record's state, or "Absent" when there is none
    packaged    \* streams with all the renditions complete that a transcoder
                \* announced

vars == <<phase, packaged>>

Phases == {"Pending", "Live", "Processing", "Ready", "Error", "Deleted"}

Init ==
    /\ phase = [s \in StreamIds |-> "Absent"]
    /\ packaged = {}

Move(s, from, to) ==
    /\ phase[s] \in from
    /\ phase' = [phase EXCEPT ![s] = to]
    /\ UNCHANGED packaged

\* A record is (re)created: the renditions of its predecessor are forgotten.
Create(s) ==
    /\ phase' = [phase EXCEPT ![s] = "Pending"]
    /\ packaged' = packaged \ {s}

\* The last announced rendition is marked complete, or as many are announced as
\* are complete, while the stream is not READY.
Package(s) ==
    /\ phase[s] \notin {"Absent", "Ready"}
    /\ packaged' = packaged \cup {s}
    /\ UNCHANGED phase

Publish(s)  == Move(s, {"Pending"}, "Live")
Process(s)  == Move(s, {"Pending", "Live"}, "Processing")
Complete(s) == s \in packaged /\ Move(s, {"Processing"}, "Ready")
Fail(s)     == Move(s, Phases \ {"Deleted"}, "Error")
Delete(s)   == Move(s, {"Ready", "Error"}, "Deleted")

\* The tombstone is dropped.
Remove(s) ==
    /\ phase[s] = "Deleted"
    /\ phase' = [phase EXCEPT ![s] = "Absent"]
    /\ packaged' = packaged \ {s}

Next ==
    \E s \in StreamIds :
        \/ Create(s)   \/ Package(s)  \/ Publish(s) \/ Process(s)
        \/ Complete(s) \/ Fail(s)     \/ Delete(s)  \/ Remove(s)

Spec == Init /\ [][Next]_vars
=============================================================================

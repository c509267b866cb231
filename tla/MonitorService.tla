--------------------------- MODULE MonitorService ---------------------------
(***************************************************************************)
(* What Start and Stop of the monitor promise their callers: a goroutine   *)
(* scans only from a Start to the end of the next Stop, and the monitor is *)
(* stopped, and may be started again, only when it is over.                *)
(***************************************************************************)

VARIABLES
  state,     \* "stopped", "running", or "stopping": a Stop is under way
  scanning   \* a goroutine polls

service == <<state, scanning>>

Init ==
  /\ state = "stopped"
  /\ scanning = FALSE

Start ==
  /\ state = "stopped"
  /\ state' = "running"
  /\ ~scanning
  /\ scanning' = TRUE

BeginStop ==
  /\ state = "running"
  /\ state' = "stopping"
  /\ UNCHANGED scanning

(* The goroutine obeys a Stop, or its context ends before any. *)
ScanEnds ==
  /\ state # "stopped"
  /\ scanning
  /\ scanning' = FALSE
  /\ UNCHANGED state

EndStop ==
  /\ state = "stopping"
  /\ ~scanning
  /\ state' = "stopped"
  /\ UNCHANGED scanning

Next == Start \/ BeginStop \/ ScanEnds \/ EndStop

Spec == Init /\ [][Next]_service
=============================================================================

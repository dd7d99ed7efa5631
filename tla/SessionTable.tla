---------------------------- MODULE SessionTable ----------------------------
(***************************************************************************)
(* What the session half of rahunasd promises, without threads, locks or   *)
(* task order.  Two tables: the sessions the running daemon serves, lost   *)
(* when its process dies, and the sessions it has recorded, which outlive  *)
(* the process.  A session is served before it is recorded and forgotten   *)
(* by the record before it stops being served; so whatever is recorded is  *)
(* being served, and a restart that reads the record loses nothing.        *)
(***************************************************************************)
CONSTANT Sessions    \* what identifies a session: records with a client id

VARIABLES up,        \* the daemon runs
          served,    \* sessions the running daemon knows
          recorded   \* sessions in the backup

vars == <<up, served, recorded>>

Init ==
    /\ up = FALSE
    /\ served = {}
    /\ recorded = {}

(* A client logs in at an id nobody uses. *)
Admit(s) ==
    /\ up
    /\ \A o \in served : o.id # s.id
    /\ served' = served \cup {s}
    /\ UNCHANGED <<up, recorded>>

Record(s) ==
    /\ s \in served
    /\ recorded' = recorded \cup {s}
    /\ UNCHANGED <<up, served>>

Forget(s) ==
    /\ up
    /\ recorded' = recorded \ {s}
    /\ UNCHANGED <<up, served>>

(* A session stops being served once the record has forgotten it. *)
Dismiss(s) ==
    /\ s \notin recorded
    /\ served' = served \ {s}
    /\ UNCHANGED <<up, recorded>>

Crash ==
    /\ up
    /\ up' = FALSE
    /\ served' = {}
    /\ UNCHANGED recorded

CloseAll ==
    /\ up
    /\ up' = FALSE
    /\ served' = {}
    /\ recorded' = {}

Recover ==
    /\ ~up
    /\ up' = TRUE
    /\ served' = recorded
    /\ UNCHANGED recorded

Next ==
    \/ \E s \in Sessions : Admit(s) \/ Record(s) \/ Forget(s) \/ Dismiss(s)
    \/ Crash \/ CloseAll \/ Recover

Spec == Init /\ [][Next]_vars
=============================================================================

------------------------- MODULE MCSessionRevisions -------------------------
(***************************************************************************)
(* Instances of SessionRevisions for TLC: two objects of one session and   *)
(* one of another session of the same app.                                 *)
(***************************************************************************)
EXTENDS SessionRevisions

CONSTANTS s1, s2, p1, p2, o1, o2, o3, e1, e2, e3, t1, t2, t3

InSession(o) == IF o = o3 THEN s2 ELSE s1

(* The objects of s1 are in two processes.                                 *)
TwoProcesses ==
  [o \in Object |-> [session |-> InSession(o), process |-> IF o = o1 THEN p1 ELSE p2]]

MCSessionOf == [e \in Event |-> IF e = e3 THEN s2 ELSE s1]

(* The first event changes its session's state, the others the app's too.  *)
MCDelta == [e \in Event |-> IF e = e1 THEN {s1} ELSE {MCSessionOf[e], App}]

MCPrimary == [p \in Process |-> IF p = p1 THEN "old" ELSE "new"]
=============================================================================

------------------------- MODULE MaintenanceWindow -------------------------
(***************************************************************************)
(* The rotation of a key under one backend id (Path B), as an operator has *)
(* to run it: stop the services, rotate, restart them with the new backend *)
(* alone (docs/how-to/key-rotation.md, "Stop the service").  The services  *)
(* cannot be told both keys, __init__ rejects two backends of one id, and  *)
(* an interrupted or failed pass leaves a prefix of the tables rotated, of *)
(* which nothing is recorded.  Every step of the rotator and the services  *)
(* is KeyRotation's; this module only says when they are started.          *)
(*                                                                         *)
(* The operator decides what a process cannot: which backend to configure  *)
(* after a pass that returned, and to run a pass or its reverse after one  *)
(* that did not.                                                           *)
(***************************************************************************)
EXTENDS KeyRotation

CONSTANT First   \* the backend everything is sealed with at the beginning

Sole(b) == [primary |-> b, extras |-> {}]

ASSUME WindowAssumption ==
  /\ First \in Backend
  /\ First.id \in Registry
  /\ \A p \in Passes : p.old.id = p.new.id
  /\ \A x \in InitialDb, r \in Row :
       x[r] # Absent => Readable(Sole(First), x[r].text)

VARIABLES
  phase,   \* "open", "closed": stopped to rotate, "rotating": a pass was run
  current  \* the backend the services are configured with

windowVars == <<vars, phase, current>>

WindowTypeOK ==
  /\ TypeOK
  /\ phase \in {"open", "closed", "rotating"}
  /\ current \in Backend

WindowInit ==
  /\ Init
  /\ phase = "open"
  /\ current = First

-----------------------------------------------------------------------------
(* Services run in an open store only, all with the one backend.           *)
Serve ==
  /\ \/ phase = "open" /\ \E c \in Configs \cap {Sole(current)} : StartService(c)
     \/ \E c \in running : StopService(c)
     \/ ServiceLoad
     \/ ServiceCommit
     \/ \E s \in Session : AbortOperation(s)
  /\ UNCHANGED <<phase, current>>

Close ==
  /\ phase = "open"
  /\ running = {}
  /\ phase' = "closed"
  /\ UNCHANGED <<vars, current>>

(* The first pass starts from the backend the services had; after one that  *)
(* did not return, the operator tries it or its reverse.                   *)
RunPass(p) ==
  /\ \/ phase = "closed" /\ p.old = current
     \/ /\ phase = "rotating"
        /\ pc # "done"
        /\ {p.old, p.new} = {pass.old, pass.new}
  /\ BeginPass(p)
  /\ phase' = "rotating"
  /\ UNCHANGED current

Rotate ==
  /\ RotatorStep \/ Crash
  /\ UNCHANGED <<phase, current>>

(* The pass returned: the services restart with its new backend.           *)
Reopen ==
  /\ phase = "rotating"
  /\ pc = "done"
  /\ phase' = "open"
  /\ current' = pass.new
  /\ UNCHANGED vars

WindowNext ==
  \/ Serve
  \/ Close
  \/ \E p \in Passes : RunPass(p)
  \/ Rotate
  \/ Reopen

WindowSpec == WindowInit /\ [][WindowNext]_windowVars

(* A pass that was started is run, the operator keeps trying both           *)
(* directions, and restarts the services in the end.                       *)
FairWindowSpec ==
  /\ WindowSpec
  /\ WF_windowVars(RotatorStep /\ UNCHANGED <<phase, current>>)
  /\ \A p \in Passes : SF_windowVars(RunPass(p))
  /\ WF_windowVars(Reopen)

-----------------------------------------------------------------------------
(* Properties.                                                             *)

(* After any number of windows, whatever passes crashed or raised in them,  *)
(* a service that runs can read every stored row with its one backend.     *)
WindowReadable ==
  \A c \in running, r \in Row : Present(r) => Readable(c, db[r].text)

(* A table is committed whole, so no window is a dead end: once passes stop *)
(* crashing, trying a pass and its reverse by turns gets one to return and  *)
(* the services restarted, whatever mixture the crashes left.              *)
WindowCloses ==
  <>[][~Crash]_vars => (phase = "rotating" ~> phase = "open")
=============================================================================

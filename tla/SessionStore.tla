---------------------------- MODULE SessionStore ----------------------------
(***************************************************************************)
(* What the encrypted store promises its users, with no encryption in it:  *)
(* a set of rows of plain contents that only the session operations change,*)
(* each within its own session's rows.                                     *)
(*   - An operation is open between its load and its commit.  A commit     *)
(*     writes state rows of the scope of its session, and inserts events.  *)
(*   - The event log is append-only: an event is inserted and, with its    *)
(*     session, deleted; its content never changes.                        *)
(*   - Nothing else changes a content.  Key rotation in particular is      *)
(*     invisible: no write that a session operation committed is undone.   *)
(***************************************************************************)
CONSTANTS
  Row,       \* rows of the four encrypted tables, by primary key
  Session,   \* the rows of the sessions table
  Event,     \* the rows of the events table
  Scope,     \* Scope[s]: the rows an operation on session s may touch
  Contents,  \* what a row may contain
  Absent     \* not a content: there is no such row

VARIABLES
  content,   \* content[r]: what row r contains, or Absent
  open       \* the sessions with an operation between load and commit

storeVars == <<content, open>>

Init ==
  /\ content \in [Row -> Contents \cup {Absent}]
  /\ open = {}

(* An operation on s starts and reads its rows.                            *)
Open(s) ==
  /\ open' = open \cup {s}
  /\ UNCHANGED content

(* It commits: state rows of its scope get new contents or are inserted,    *)
(* events are inserted, nothing disappears.                                *)
Commit(s) ==
  /\ s \in open
  /\ open' = open \ {s}
  /\ content' \in [Row -> Contents \cup {Absent}]
  /\ \A r \in Row \ Scope[s] : content'[r] = content[r]
  /\ \A r \in Scope[s] : content[r] # Absent =>
       /\ content'[r] # Absent
       /\ r \in Event => content'[r] = content[r]

(* Operations end without effect: errors, cancellation, process exit.      *)
Close ==
  /\ open' \subseteq open
  /\ UNCHANGED content

(* A session is deleted, and its events with it.                           *)
Delete(s) ==
  /\ content' = [r \in Row |-> IF r = s \/ r \in Scope[s] \cap Event
                               THEN Absent
                               ELSE content[r]]
  /\ UNCHANGED open

Next ==
  \/ \E s \in Session : Open(s) \/ Commit(s) \/ Delete(s)
  \/ Close

Spec == Init /\ [][Next]_storeVars
=============================================================================

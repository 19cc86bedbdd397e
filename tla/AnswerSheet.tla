----------------------------- MODULE AnswerSheet -----------------------------
(***************************************************************************)
(* What the exam engine promises about one student's answers, whatever the *)
(* phones, the proctor and the clock do: there is one sheet, at most one   *)
(* device session may write on it at any time, it writes only while the    *)
(* attempt is in progress, and a device session once revoked never writes  *)
(* again.                                                                  *)
(***************************************************************************)
CONSTANTS Tokens, Questions, Values, Null

VARIABLES
  sheet,      \* the answers
  writing,    \* the attempt is in progress
  holder,     \* the device session that may write, or Null
  revoked     \* the device sessions that may never write again

vars == <<sheet, writing, holder, revoked>>

Init ==
  /\ sheet = [q \in Questions |-> Null]
  /\ writing = FALSE
  /\ holder = Null
  /\ revoked = {}

Write(q, v) ==
  /\ writing /\ holder # Null
  /\ sheet' = [sheet EXCEPT ![q] = v]
  /\ UNCHANGED <<writing, holder, revoked>>

\* The pen stays, goes to a session that was not revoked, or is taken away;
\* sessions are revoked for good, the holder's with its pen.
PassOn ==
  /\ revoked \subseteq revoked' /\ revoked' \subseteq Tokens
  /\ holder' \in (Tokens \cup {Null}) \ revoked'
  /\ holder # Null /\ holder' # Null /\ holder' # holder => holder \in revoked'
  /\ writing' \in BOOLEAN
  /\ UNCHANGED sheet

Next == PassOn \/ \E q \in Questions, v \in Values \cup {Null} : Write(q, v)

Spec == Init /\ [][Next]_vars
=============================================================================

----------------------------- MODULE AnswerSync -----------------------------
(***************************************************************************)
(* How the student app gets the answers of one attempt to the server.      *)
(* Every change goes to the screen and to IndexedDB at once and to the     *)
(* server by an autosave of its own, typed text 600 ms later; nothing      *)
(* waits for an autosave and none is repeated.  Handing in flushes all     *)
(* answers in one request, then submits.  The requests overtake each other *)
(* and get lost, the app is reloaded, and the proctor moves the student to *)
(* another phone.  The server is that of AnswerSheet, which ExamAttempt    *)
(* implements; locks and the reopening of closed attempts are left to      *)
(* ExamAttempt.                                                            *)
(***************************************************************************)
EXTENDS FiniteSets, Naturals

CONSTANTS
  Phones,
  Tokens,         \* device_session_token
  Questions,
  TextQuestions,  \* the questions answered by typing
  Values,
  Null,
  MaxRequests     \* bound: requests under way at a time

ASSUME SyncAssumption ==
  /\ TextQuestions \subseteq Questions
  /\ Null \notin Values \cup Tokens \cup Phones

VARIABLES
  status,     \* ExamAttempt.status; PAUSED is after a device reset
  sheet,      \* StudentAnswer, by question
  holder,     \* the token of the ACTIVE device session, or Null
  owner,      \* DeviceSession.device_id, by token
  revoked,    \* the tokens of INVALIDATED device sessions
  stage,      \* where each phone stands
  token,      \* activeDeviceToken in each phone's memory
  screen,     \* answers, the state of the page
  rendered,   \* answers as the countdown's callback has captured them
  store,      \* IndexedDB
  typing,     \* the questions whose debounce timer runs
  settled,    \* questions with no other answer under way since the last flush
  net         \* autosaves and flushes under way

server == <<status, sheet, holder, owner, revoked>>
page == <<screen, rendered, store, typing>>
vars == <<server, stage, token, page, settled, net>>

Answers == [Questions -> Values \cup {Null}]
NoAnswers == [q \in Questions |-> Null]
Working == {"editing", "flushing", "flushed", "unflushed"}
Requests ==
  [token : Tokens, reply : BOOLEAN,
   answers : UNION {[Q -> Values \cup {Null}] : Q \in SUBSET Questions}]

TypeOK ==
  /\ status \in {"ABSENT", "IN_PROGRESS", "PAUSED", "CLOSED"}
  /\ sheet \in Answers
  /\ holder \in Tokens \cup {Null}
  /\ owner \in [Tokens -> Phones \cup {Null}]
  /\ revoked \subseteq Tokens
  /\ stage \in [Phones -> Working \cup {"closed", "done"}]
  /\ token \in [Phones -> Tokens \cup {Null}]
  /\ \A p \in Phones : stage[p] \in Working \/ typing[p] # {} => token[p] # Null
  /\ screen \in [Phones -> Answers]
  /\ rendered \in [Phones -> Answers]
  /\ store \in [Phones -> Answers]
  /\ typing \in [Phones -> SUBSET Questions]
  /\ settled \in [Phones -> SUBSET Questions]
  /\ net \subseteq Requests

Init ==
  /\ status = "ABSENT"
  /\ sheet = NoAnswers
  /\ holder = Null
  /\ owner = [t \in Tokens |-> Null]
  /\ revoked = {}
  /\ stage = [p \in Phones |-> "closed"]
  /\ token = [p \in Phones |-> Null]
  /\ screen = [p \in Phones |-> NoAnswers]
  /\ rendered = screen
  /\ store = screen
  /\ typing = [p \in Phones |-> {}]
  /\ settled = typing
  /\ net = {}

-----------------------------------------------------------------------------
(* Opening the page: start_attempt, the answers of the server, IndexedDB.  *)

Unused == {t \in Tokens : owner[t] = Null}

\* IndexedDB wins wherever it has an answer; updated_at is not looked at.
Restored(p) ==
  [q \in Questions |-> IF store[p][q] # Null THEN store[p][q] ELSE sheet[q]]

\* Mutant of ShowPage: the page does not keep the token of the response.
ShowWithoutToken(p, t) ==
  /\ stage' = [stage EXCEPT ![p] = "editing"]
  /\ screen' = [screen EXCEPT ![p] = Restored(p)]
  /\ rendered' = [rendered EXCEPT ![p] = Restored(p)]
  /\ UNCHANGED <<sheet, revoked, token, store, typing, settled, net>>

ShowPage(p, t) ==
  /\ stage' = [stage EXCEPT ![p] = "editing"]
  /\ token' = [token EXCEPT ![p] = t]
  /\ screen' = [screen EXCEPT ![p] = Restored(p)]
  /\ rendered' = [rendered EXCEPT ![p] = Restored(p)]
  /\ UNCHANGED <<sheet, revoked, store, typing, settled, net>>

\* A first start, or a resume after a device reset: a new device session.
StartAttempt(p, t) ==
  /\ stage[p] = "closed"
  /\ status \in {"ABSENT", "PAUSED"} /\ holder = Null
  /\ t \in Unused
  /\ status' = "IN_PROGRESS"
  /\ holder' = t
  /\ owner' = [owner EXCEPT ![t] = p]
  /\ ShowPage(p, t)

\* The phone that has the device session gets its token back.
Reopen(p) ==
  /\ stage[p] = "closed"
  /\ holder # Null /\ owner[holder] = p
  /\ ShowPage(p, holder)
  /\ UNCHANGED <<status, holder, owner>>

\* An attempt handed in is only reported as completed.
OpenCompleted(p) ==
  /\ stage[p] = "closed" /\ status = "CLOSED"
  /\ stage' = [stage EXCEPT ![p] = "done"]
  /\ UNCHANGED <<server, token, page, settled, net>>

\* A request nobody waits for any more; what is left of it may still be saved.
Unheard(R) == {[r EXCEPT !.reply = FALSE] : r \in {s \in R : DOMAIN s.answers # {}}}

Awaited(p) == {r \in net : r.reply /\ owner[r.token] = p}

\* The page is closed, reloaded or killed: state and timers are gone, IndexedDB
\* and the requests already sent are not.
Leave(p) ==
  /\ stage[p] # "closed"
  /\ stage' = [stage EXCEPT ![p] = "closed"]
  /\ token' = [token EXCEPT ![p] = Null]
  /\ screen' = [screen EXCEPT ![p] = NoAnswers]
  /\ rendered' = [rendered EXCEPT ![p] = NoAnswers]
  /\ typing' = [typing EXCEPT ![p] = {}]
  /\ settled' = [settled EXCEPT ![p] = {}]
  /\ net' = (net \ Awaited(p)) \cup Unheard(Awaited(p))
  /\ UNCHANGED <<server, store>>

-----------------------------------------------------------------------------
(* Answering.  The page takes input also while a submission is under way.  *)

Room == Cardinality(net) < MaxRequests

Autosave(p, q, v) ==
  net' = net \cup {[token |-> token[p], reply |-> FALSE,
                    answers |-> [x \in {q} |-> v]]}

Enter(p, q, v) ==
  /\ stage[p] \in Working
  /\ screen' = [screen EXCEPT ![p][q] = v]
  /\ store' = [store EXCEPT ![p][q] = v]
  /\ settled' = [settled EXCEPT ![p] = @ \ {q}]
  /\ UNCHANGED <<server, stage, token, rendered>>

Choose(p, q, v) ==
  /\ q \notin TextQuestions /\ Room
  /\ Enter(p, q, v)
  /\ Autosave(p, q, v)
  /\ UNCHANGED typing

Type(p, q, v) ==
  /\ q \in TextQuestions
  /\ Enter(p, q, v)
  /\ typing' = [typing EXCEPT ![p] = @ \cup {q}]
  /\ UNCHANGED net

DebounceFires(p, q) ==
  /\ q \in typing[p] /\ Room
  /\ typing' = [typing EXCEPT ![p] = @ \ {q}]
  /\ Autosave(p, q, screen[p][q])
  /\ UNCHANGED <<server, stage, token, screen, rendered, store, settled>>

\* Mutant of ToggleFlagged: the mark overwrites the stored answer as well.
FlagClearsStore(p, q) ==
  /\ stage[p] \in Working /\ Room
  /\ store' = [store EXCEPT ![p][q] = Null]
  /\ typing' = [typing EXCEPT ![p] = @ \ {q}]
  /\ settled' = [settled EXCEPT ![p] = @ \ {q}]
  /\ Autosave(p, q, Null)
  /\ UNCHANGED <<server, stage, token, screen, rendered>>

\* Marking a question as doubtful stores the answer shown, cancels its timer,
\* and autosaves it with neither option nor text: the server erases it.
ToggleFlagged(p, q) ==
  /\ stage[p] \in Working /\ Room
  /\ store' = [store EXCEPT ![p][q] = screen[p][q]]
  /\ typing' = [typing EXCEPT ![p] = @ \ {q}]
  /\ settled' = [settled EXCEPT ![p] = @ \ {q}]
  /\ Autosave(p, q, Null)
  /\ UNCHANGED <<server, stage, token, screen, rendered>>

\* The countdown's effect runs again each second, with the answers of then.
CountDown(p) ==
  /\ stage[p] \in Working
  /\ rendered' = [rendered EXCEPT ![p] = screen[p]]
  /\ UNCHANGED <<server, stage, token, screen, store, typing, settled, net>>

-----------------------------------------------------------------------------
(* Handing in: flush, and whatever comes of it, submit.                    *)

Given(a) == [q \in {x \in Questions : a[x] # Null} |-> a[q]]

\* The answers of the page over those of IndexedDB.  A question the page has only
\* a mark or an erased answer for hides what IndexedDB has: the bare ones.
Merges(p, shown) ==
  {[q \in Questions |-> IF shown[q] # Null THEN shown[q]
                        ELSE IF q \in bare THEN Null ELSE store[p][q]] :
     bare \in SUBSET Questions}

Settled(p, sent) ==
  {q \in Questions :
     /\ sent[q] = screen[p][q]
     /\ \A r \in net : r.token = token[p] /\ q \in DOMAIN r.answers
                         => r.answers[q] = screen[p][q]}

Flush(p, shown) ==
  /\ stage[p] = "editing" /\ Room
  /\ stage' = [stage EXCEPT ![p] = "flushing"]
  /\ \E sent \in Merges(p, shown) :
       /\ settled' = [settled EXCEPT ![p] = Settled(p, sent)]
       /\ net' = net \cup {[token |-> token[p], reply |-> TRUE,
                            answers |-> Given(sent)]}
  /\ UNCHANGED <<server, token, page>>

PressSubmit(p) == Flush(p, screen[p])

\* The callback of the countdown sees the answers of its last run.
TimeIsUp(p) == Flush(p, rendered[p])

\* Mutant of FlushAnswered: the server answers before it has saved everything.
AnsweredEarly(p) ==
  /\ stage[p] = "flushing"
  /\ net' = (net \ Awaited(p)) \cup Unheard(Awaited(p))
  /\ stage' = [stage EXCEPT ![p] = "flushed"]
  /\ UNCHANGED <<server, token, page, settled>>

\* The answer is OK, also when answers were refused on the way.  (Whether a flush
\* met its login still alive is left open: its answers are refused either way.)
FlushAnswered(p) ==
  /\ stage[p] = "flushing"
  /\ \A r \in Awaited(p) : DOMAIN r.answers = {}
  /\ net' = net \ Awaited(p)
  /\ stage' = [stage EXCEPT ![p] = "flushed"]
  /\ UNCHANGED <<server, token, page, settled>>

\* No answer, which the app ignores: the request is lost, or goes on unheard.
FlushFails(p) ==
  /\ stage[p] = "flushing"
  /\ \/ net' = net \ Awaited(p)
     \/ net' = (net \ Awaited(p)) \cup Unheard(Awaited(p))
  /\ stage' = [stage EXCEPT ![p] = "unflushed"]
  /\ UNCHANGED <<server, token, page, settled>>

-----------------------------------------------------------------------------
(* The server.                                                             *)

\* Mutant of Accepts: every token ever given out may write.
AcceptsKnown(t) == owner[t] # Null

Accepts(t) == status = "IN_PROGRESS" /\ holder = t

\* One answer of a request, in a transaction of its own; refusals are ignored.
SaveAnswer(r, q) ==
  /\ r \in net /\ q \in DOMAIN r.answers
  /\ sheet' = IF Accepts(r.token) THEN [sheet EXCEPT ![q] = r.answers[q]]
              ELSE sheet
  /\ LET left == [r EXCEPT !.answers =
                    [x \in DOMAIN r.answers \ {q} |-> r.answers[x]]]
     IN  net' = (net \ {r})
                  \cup IF r.reply \/ DOMAIN left.answers # {} THEN {left} ELSE {}
  /\ UNCHANGED <<status, holder, owner, revoked, stage, token, page, settled>>

\* An autosave that never arrives; the app only shows that it failed.
LoseRequest(r) ==
  /\ r \in net /\ ~r.reply
  /\ net' = net \ {r}
  /\ UNCHANGED <<server, stage, token, page, settled>>

Revoke ==
  /\ holder' = Null
  /\ revoked' = revoked \cup ({holder} \ {Null})
  /\ UNCHANGED <<sheet, owner>>

\* submit_attempt asks for no device token, but the reset that revoked it has also
\* ended the login of that phone.  A closed attempt answers alike.
SubmitAttempt(p) ==
  /\ stage[p] \in {"flushed", "unflushed"}
  /\ stage' = [stage EXCEPT ![p] = "done"]
  /\ \/ status = "CLOSED" /\ UNCHANGED server
     \/ Accepts(token[p]) /\ status' = "CLOSED" /\ Revoke
  /\ UNCHANGED <<token, page, settled, net>>

SubmitFails(p) ==
  /\ stage[p] \in {"flushed", "unflushed"}
  /\ stage' = [stage EXCEPT ![p] = "editing"]
  /\ UNCHANGED <<server, token, page, settled, net>>

\* The sweep, or an autosave past the deadline, hands the attempt in.
AutoSubmit ==
  /\ status \in {"IN_PROGRESS", "PAUSED"}
  /\ status' = "CLOSED"
  /\ Revoke
  /\ UNCHANGED <<stage, token, page, settled, net>>

\* A reset while the attempt runs and a device session is left to replace it.
ProctorResetDevice ==
  /\ status = "IN_PROGRESS" /\ Unused # {}
  /\ status' = "PAUSED"
  /\ Revoke
  /\ UNCHANGED <<stage, token, page, settled, net>>

-----------------------------------------------------------------------------
PhoneStep(p) ==
  \/ \E t \in Tokens : StartAttempt(p, t)
  \/ Reopen(p) \/ OpenCompleted(p) \/ Leave(p)
  \/ \E q \in Questions, v \in Values : Choose(p, q, v) \/ Type(p, q, v)
  \/ \E q \in Questions : DebounceFires(p, q) \/ ToggleFlagged(p, q)
  \/ CountDown(p)
  \/ PressSubmit(p) \/ TimeIsUp(p)
  \/ FlushAnswered(p) \/ FlushFails(p)
  \/ SubmitAttempt(p) \/ SubmitFails(p)

Next ==
  \/ \E p \in Phones : PhoneStep(p)
  \/ \E r \in net : LoseRequest(r) \/ \E q \in Questions : SaveAnswer(r, q)
  \/ AutoSubmit
  \/ ProctorResetDevice

Spec == Init /\ [][Next]_vars

-----------------------------------------------------------------------------
(* Properties.                                                             *)

\* A flush the server has answered leaves on the sheet what the phone shows,
\* for every question that had no other answer under way and was not touched
\* since, while the phone may still write (exam_service.py:547,
\* StudentCbtEngineView.tsx:298): whatever autosaves were lost, late or erased.
FlushSavesAll ==
  \A p \in Phones :
    stage[p] = "flushed" /\ Accepts(token[p])
      => \A q \in settled[p] : sheet[q] = screen[p][q]

OnlyPhone(p) == \A t \in Tokens : owner[t] \in {p, Null}

\* Whenever the app of a student who has used one phone only is killed, the
\* page comes back with the answers it had, whatever has reached the server
\* (StudentCbtEngineView.tsx:88).
ReloadKeepsScreen ==
  \A p \in Phones :
    OnlyPhone(p) /\ stage[p] \in Working => Restored(p) = screen[p]

Sheet == INSTANCE AnswerSheet WITH writing <- status = "IN_PROGRESS"

\* What this module says of the server is what ExamAttempt is shown to do:
\* only the holder writes, and only while the attempt is in progress.
ServerIsSheet == Sheet!Spec
=============================================================================

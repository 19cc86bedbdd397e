-------------------------- MODULE AnswerSyncProofs --------------------------
(***************************************************************************)
(* Theorems about AnswerSync.                                              *)
(***************************************************************************)
EXTENDS AnswerSync, TLAPS

\* A token stays with the phone it was given to; a phone that has a page open
\* and the device session has this session's token in its memory.
Identity ==
  /\ status # "IN_PROGRESS" => holder = Null
  /\ holder # Null => owner[holder] # Null
  /\ \A t \in revoked : owner[t] # Null
  /\ \A r \in net : owner[r.token] # Null
  /\ \A p \in Phones : token[p] # Null =>
       /\ owner[token[p]] = p
       /\ holder # Null /\ owner[holder] = p => token[p] = holder
  /\ \A p \in Phones : token[p] = Null => typing[p] = {} /\ settled[p] = {}
  /\ \A p \in Phones : stage[p] = "closed" => token[p] = Null

\* A request with an answer to come is the flush its phone waits for.
Awaiting ==
  \A r \in net : r.reply =>
    /\ stage[owner[r.token]] = "flushing"
    /\ token[owner[r.token]] = r.token

\* What IndexedDB does not have came from the server and did not change since:
\* in the requests the server accepts ...
RequestsFromServer ==
  \A r \in net, q \in Questions :
    r.token = holder /\ q \in DOMAIN r.answers /\ store[owner[holder]][q] = Null
      => r.answers[q] = sheet[q]

\* ... on the page, and in the countdown's callback.
RenderedFromServer ==
  \A p \in Phones, q \in Questions :
    stage[p] \in Working /\ store[p][q] = Null => rendered[p][q] = screen[p][q]

StoredIsShown ==
  \A p \in Phones, q \in Questions :
    stage[p] \in Working /\ store[p][q] # Null => screen[p][q] = store[p][q]

TypedIsStored ==
  \A p \in Phones : \A q \in typing[p] : store[p][q] # Null

\* The page of the phone that may write, and that of a phone that was always
\* alone, is what a reload would show.
PageRestores ==
  \A p \in Phones, q \in Questions :
    stage[p] \in Working /\ (token[p] = holder \/ OnlyPhone(p))
      => Restored(p)[q] = screen[p][q]

\* Nothing under way contradicts a settled answer.
Unchallenged ==
  \A p \in Phones : \A q \in settled[p] : \A r \in net :
    r.token = token[p] /\ q \in DOMAIN r.answers => r.answers[q] = screen[p][q]

\* During a flush a settled answer is on the sheet or in the request.
OnTheWay ==
  \A p \in Phones :
    stage[p] = "flushing" /\ Accepts(token[p]) =>
      \A q \in settled[p] :
        \/ sheet[q] = screen[p][q]
        \/ \E r \in net : r.reply /\ r.token = token[p] /\ q \in DOMAIN r.answers

PageInv ==
  /\ TypeOK /\ Identity
  /\ RequestsFromServer /\ RenderedFromServer
  /\ StoredIsShown /\ TypedIsStored /\ PageRestores

FlushInv == PageInv /\ Awaiting /\ Unchallenged /\ OnTheWay /\ FlushSavesAll

-----------------------------------------------------------------------------
(* Facts about requests.                                                   *)

\* A record of the right parts is a request.
LEMMA RequestType ==
  ASSUME NEW Q \in SUBSET Questions, NEW f \in [Q -> Values \cup {Null}],
         NEW t \in Tokens, NEW b \in BOOLEAN
  PROVE  [token |-> t, reply |-> b, answers |-> f] \in Requests
BY DEF Requests

\* The parts of a request.
LEMMA RequestParts ==
  ASSUME NEW r \in Requests
  PROVE  /\ r.token \in Tokens /\ r.reply \in BOOLEAN
         /\ DOMAIN r.answers \in SUBSET Questions
         /\ r.answers \in [DOMAIN r.answers -> Values \cup {Null}]
BY DEF Requests

\* What is left of a request after one answer was saved.
LEMMA RequestLeft ==
  ASSUME NEW r \in Requests, NEW q,
         NEW left, left = [r EXCEPT !.answers =
                             [x \in DOMAIN r.answers \ {q} |-> r.answers[x]]]
  PROVE  /\ left \in Requests
         /\ left.token = r.token /\ left.reply = r.reply
         /\ DOMAIN left.answers = DOMAIN r.answers \ {q}
         /\ \A x \in DOMAIN left.answers : left.answers[x] = r.answers[x]
<1> DEFINE f == [x \in DOMAIN r.answers \ {q} |-> r.answers[x]]
<1>1. f \in [DOMAIN r.answers \ {q} -> Values \cup {Null}]
  BY RequestParts
<1>2. left = [token |-> r.token, reply |-> r.reply, answers |-> f]
  BY DEF Requests
<1>3. [token |-> r.token, reply |-> r.reply, answers |-> f] \in Requests
  BY <1>1, RequestType, RequestParts
<1> QED  BY <1>1, <1>2, <1>3

\* What is left of requests nobody waits for.
LEMMA UnheardType ==
  ASSUME NEW R \in SUBSET Requests, NEW u \in Unheard(R)
  PROVE  /\ u \in Requests /\ u.reply = FALSE
         /\ \E r \in R : u.token = r.token /\ u.answers = r.answers
<1>1. PICK r \in R : u = [r EXCEPT !.reply = FALSE]
  BY DEF Unheard
<1>2. u = [token |-> r.token, reply |-> FALSE, answers |-> r.answers]
  BY <1>1 DEF Requests
<1> QED  BY <1>2, RequestParts, RequestType

-----------------------------------------------------------------------------
(* Type correctness.                                                       *)

LEMMA NullApart ==
  Null \notin Values /\ Null \notin Tokens /\ Null \notin Phones
BY SyncAssumption DEF SyncAssumption

\* What a reload or a merge shows is a set of answers.
LEMMA SheetsAreAnswers ==
  ASSUME TypeOK, NEW p \in Phones
  PROVE  /\ Restored(p) \in Answers
         /\ \A a \in Answers : Merges(p, a) \subseteq Answers
         /\ \A a \in Answers : Settled(p, a) \in SUBSET Questions
<1>1. ASSUME NEW a \in Answers, NEW m \in Merges(p, a)
      PROVE  m \in Answers
  <2>1. PICK bare \in SUBSET Questions :
          m = [q \in Questions |-> IF a[q] # Null THEN a[q]
                                   ELSE IF q \in bare THEN Null ELSE store[p][q]]
    BY <1>1 DEF Merges
  <2>2. store[p] \in Answers
    BY DEF TypeOK
  <2> QED  BY <2>1, <2>2, <1>1 DEF Answers
<1>2. \A a \in Answers : Merges(p, a) \subseteq Answers
  BY <1>1
<1>3. Restored(p) \in Answers /\ \A a : Settled(p, a) \in SUBSET Questions
  BY DEF TypeOK, Restored, Settled, Answers
<1> QED  BY <1>2, <1>3

\* What a flush sends.
LEMMA FlushType ==
  ASSUME NEW a \in Answers, NEW t \in Tokens
  PROVE  [token |-> t, reply |-> TRUE, answers |-> Given(a)] \in Requests
<1> DEFINE Q == {x \in Questions : a[x] # Null}
<1>1. Q \in SUBSET Questions /\ Given(a) \in [Q -> Values \cup {Null}]
  BY DEF Given, Answers
<1> QED  BY <1>1, RequestType

\* What an autosave sends.
LEMMA AutosaveType ==
  ASSUME net \subseteq Requests, NEW p \in Phones, token[p] \in Tokens,
         NEW q \in Questions, NEW v \in Values \cup {Null}, Autosave(p, q, v)
  PROVE  net' \subseteq Requests
<1> DEFINE one == [x \in {q} |-> v]
<1>1. {q} \in SUBSET Questions /\ one \in [{q} -> Values \cup {Null}]
  OBVIOUS
<1>2. [token |-> token[p], reply |-> FALSE, answers |-> one] \in Requests
  BY <1>1, RequestType
<1>3. net' = net \cup {[token |-> token[p], reply |-> FALSE, answers |-> one]}
  BY DEF Autosave
<1> QED  BY <1>2, <1>3

\* One answer of one phone is replaced.
LEMMA EditType ==
  ASSUME NEW f \in [Phones -> Answers], NEW p \in Phones, NEW q \in Questions,
         NEW v \in Values \cup {Null}
  PROVE  [f EXCEPT ![p][q] = v] \in [Phones -> Answers]
<1>1. [f[p] EXCEPT ![q] = v] \in Answers
  BY DEF Answers
<1>2. [f EXCEPT ![p][q] = v] = [f EXCEPT ![p] = [f[p] EXCEPT ![q] = v]]
  OBVIOUS
<1> QED  BY <1>1, <1>2

\* Requests that are gone.
LEMMA LessNetType ==
  ASSUME net \subseteq Requests, NEW p \in Phones
  PROVE  /\ net \ Awaited(p) \subseteq Requests
         /\ (net \ Awaited(p)) \cup Unheard(Awaited(p)) \subseteq Requests
<1>1. Awaited(p) \in SUBSET Requests
  BY DEF Awaited
<1> QED  BY <1>1, UnheardType

\* Nothing is answered at first.
LEMMA TypeInit == Init => TypeOK
BY DEF Init, TypeOK, NoAnswers, Answers, Working

\* Every step keeps the types.
LEMMA TypeNext == TypeOK /\ [Next]_vars => TypeOK'
<1> SUFFICES ASSUME TypeOK, [Next]_vars PROVE TypeOK'
  OBVIOUS
<1> USE NullApart
<1>1. ASSUME NEW p \in Phones, NEW t \in Tokens, StartAttempt(p, t)
      PROVE  TypeOK'
  BY <1>1, SheetsAreAnswers
  DEF StartAttempt, ShowPage, TypeOK, Working
<1>2. ASSUME NEW p \in Phones, Reopen(p)
      PROVE  TypeOK'
  BY <1>2, SheetsAreAnswers DEF Reopen, ShowPage, TypeOK, Working
<1>3. ASSUME NEW p \in Phones, OpenCompleted(p)
      PROVE  TypeOK'
  BY <1>3 DEF OpenCompleted, server, page, TypeOK, Working
<1>4. ASSUME NEW p \in Phones, Leave(p)
      PROVE  TypeOK'
  <2>1. net' \subseteq Requests
    BY <1>4, LessNetType DEF Leave, TypeOK
  <2>2. NoAnswers \in Answers
    BY DEF NoAnswers, Answers
  <2> QED  BY <1>4, <2>1, <2>2 DEF Leave, server, TypeOK, Working
<1>5. ASSUME NEW p \in Phones, NEW q \in Questions, NEW v \in Values,
             Choose(p, q, v) \/ Type(p, q, v)
      PROVE  TypeOK'
  <2>1. token[p] \in Tokens
    BY <1>5 DEF Choose, Type, Enter, TypeOK
  <2>2. net' \subseteq Requests
    BY <1>5, <2>1, AutosaveType DEF Choose, Type, TypeOK
  <2>3. screen' \in [Phones -> Answers] /\ store' \in [Phones -> Answers]
    BY <1>5, EditType DEF Choose, Type, Enter, TypeOK
  <2> QED  BY <1>5, <2>2, <2>3 DEF Choose, Type, Enter, server, TypeOK
<1>6. ASSUME NEW p \in Phones, NEW q \in Questions, DebounceFires(p, q)
      PROVE  TypeOK'
  <2>1. token[p] \in Tokens /\ screen[p][q] \in Values \cup {Null}
    BY <1>6 DEF DebounceFires, TypeOK, Answers
  <2>2. net' \subseteq Requests
    BY <1>6, <2>1, AutosaveType DEF DebounceFires, TypeOK
  <2> QED  BY <1>6, <2>2 DEF DebounceFires, server, TypeOK
<1>7. ASSUME NEW p \in Phones, NEW q \in Questions, ToggleFlagged(p, q)
      PROVE  TypeOK'
  <2>1. token[p] \in Tokens
    BY <1>7 DEF ToggleFlagged, TypeOK
  <2>2. net' \subseteq Requests
    BY <1>7, <2>1, AutosaveType DEF ToggleFlagged, TypeOK
  <2>3. screen[p][q] \in Values \cup {Null}
    BY DEF TypeOK, Answers
  <2>4. store' \in [Phones -> Answers]
    BY <1>7, <2>3, EditType DEF ToggleFlagged, TypeOK
  <2> QED  BY <1>7, <2>2, <2>4 DEF ToggleFlagged, server, TypeOK
<1>8. ASSUME NEW p \in Phones, CountDown(p)
      PROVE  TypeOK'
  BY <1>8 DEF CountDown, server, TypeOK
<1>9. ASSUME NEW p \in Phones, NEW a \in Answers, Flush(p, a)
      PROVE  TypeOK'
  <2>1. token[p] \in Tokens
    BY <1>9 DEF Flush, TypeOK, Working
  <2>2. Merges(p, a) \subseteq Answers
    BY SheetsAreAnswers
  <2>3. net' \subseteq Requests
    BY <1>9, <2>1, <2>2, FlushType DEF Flush, TypeOK
  <2>4. settled' \in [Phones -> SUBSET Questions]
    BY <1>9, <2>2, SheetsAreAnswers DEF Flush, TypeOK
  <2> QED  BY <1>9, <2>1, <2>3, <2>4 DEF Flush, server, page, TypeOK, Working
<1>10. ASSUME NEW p \in Phones, FlushAnswered(p) \/ FlushFails(p)
       PROVE  TypeOK'
  <2>1. net' \subseteq Requests
    BY <1>10, LessNetType DEF FlushAnswered, FlushFails, TypeOK
  <2>2. token[p] # Null
    BY <1>10 DEF FlushAnswered, FlushFails, TypeOK, Working
  <2> QED  BY <1>10, <2>1, <2>2
           DEF FlushAnswered, FlushFails, server, page, TypeOK, Working
<1>11. ASSUME NEW p \in Phones, SubmitAttempt(p) \/ SubmitFails(p)
       PROVE  TypeOK'
  BY <1>11 DEF SubmitAttempt, SubmitFails, Revoke, server, page, TypeOK, Working
<1>12. ASSUME NEW r \in net, LoseRequest(r)
       PROVE  TypeOK'
  BY <1>12 DEF LoseRequest, server, page, TypeOK
<1>13. ASSUME NEW r \in net, NEW q \in Questions, SaveAnswer(r, q)
       PROVE  TypeOK'
  <2> DEFINE left == [r EXCEPT !.answers =
                        [x \in DOMAIN r.answers \ {q} |-> r.answers[x]]]
  <2>1. r \in Requests
    BY DEF TypeOK
  <2>2. left \in Requests
    BY <2>1, RequestLeft
  <2>3. net' \subseteq net \cup {left}
    BY <1>13 DEF SaveAnswer
  <2>4. sheet' \in Answers
    BY <1>13, <2>1, RequestParts DEF SaveAnswer, TypeOK, Answers
  <2> QED  BY <1>13, <2>2, <2>3, <2>4 DEF SaveAnswer, page, TypeOK
<1>14. ASSUME AutoSubmit \/ ProctorResetDevice
       PROVE  TypeOK'
  BY <1>14 DEF AutoSubmit, ProctorResetDevice, Revoke, page, TypeOK
<1>15. CASE UNCHANGED vars
  BY <1>15 DEF vars, server, page, TypeOK
<1> QED
  <2>1. \A p \in Phones : screen[p] \in Answers /\ rendered[p] \in Answers
    BY DEF TypeOK
  <2> QED  BY <1>1, <1>2, <1>3, <1>4, <1>5, <1>6, <1>7, <1>8, <1>9, <1>10, <1>11,
              <1>12, <1>13, <1>14, <1>15, <2>1
           DEF Next, PhoneStep, PressSubmit, TimeIsUp

-----------------------------------------------------------------------------
(* Tokens and phones.                                                      *)

\* Requests that are left over have the token of one that was there.
LEMMA LeftOverTokens ==
  ASSUME net \subseteq Requests, NEW p \in Phones,
         NEW r \in (net \ Awaited(p)) \cup Unheard(Awaited(p))
  PROVE  \E s \in net : /\ r.token = s.token /\ r.answers = s.answers
                        /\ r.reply => r = s /\ s \notin Awaited(p)
<1>1. Awaited(p) \in SUBSET Requests /\ Awaited(p) \subseteq net
  BY DEF Awaited
<1> QED  BY <1>1, UnheardType

\* Saving one answer leaves every request what it was, but for this answer.
LEMMA SavedNet ==
  ASSUME net \subseteq Requests, NEW r \in net, NEW q \in Questions,
         SaveAnswer(r, q)
  PROVE  /\ \A s \in net' : \E u \in net :
              /\ s.token = u.token /\ s.reply = u.reply
              /\ DOMAIN s.answers \subseteq DOMAIN u.answers
              /\ \A x \in DOMAIN s.answers : s.answers[x] = u.answers[x]
         /\ \A u \in net : u.reply => \E s \in net' :
              /\ s.token = u.token /\ s.reply = u.reply
              /\ DOMAIN u.answers \subseteq DOMAIN s.answers
                   \/ (u = r /\ DOMAIN u.answers \subseteq DOMAIN s.answers \cup {q})
<1> DEFINE left == [r EXCEPT !.answers =
                      [x \in DOMAIN r.answers \ {q} |-> r.answers[x]]]
<1>1. PICK l : l = left
  OBVIOUS
<1>2. /\ l.token = r.token /\ l.reply = r.reply
      /\ DOMAIN l.answers = DOMAIN r.answers \ {q}
      /\ \A x \in DOMAIN l.answers : l.answers[x] = r.answers[x]
  BY <1>1, RequestLeft
<1>3. /\ net' \subseteq (net \ {r}) \cup {l} /\ net \ {r} \subseteq net'
      /\ r.reply => l \in net'
  BY <1>1, Zenon DEF SaveAnswer
<1> HIDE DEF left
<1> QED  BY <1>2, <1>3

\* No request is under way at first.
LEMMA IdentityInit == Init => Identity
BY DEF Init, Identity

\* A token stays with the phone it was given to.
LEMMA IdentityNext == TypeOK /\ Identity /\ [Next]_vars => Identity'
<1> SUFFICES ASSUME TypeOK, Identity, [Next]_vars PROVE Identity'
  OBVIOUS
<1> USE NullApart
<1>1. ASSUME NEW p \in Phones, NEW t \in Tokens, StartAttempt(p, t)
      PROVE  Identity'
  BY <1>1 DEF StartAttempt, ShowPage, Unused, TypeOK, Requests, Identity
<1>2. ASSUME NEW p \in Phones, Reopen(p)
      PROVE  Identity'
  BY <1>2 DEF Reopen, ShowPage, TypeOK, Identity
<1>3. ASSUME NEW p \in Phones, OpenCompleted(p)
      PROVE  Identity'
  BY <1>3 DEF OpenCompleted, server, page, TypeOK, Identity
<1>4. ASSUME NEW p \in Phones, Leave(p)
      PROVE  Identity'
  <2>1. \A r \in net' : owner'[r.token] # Null
    BY <1>4, LeftOverTokens DEF Leave, server, TypeOK, Identity
  <2> QED  BY <1>4, <2>1 DEF Leave, server, TypeOK, Identity
<1>5. ASSUME NEW p \in Phones, NEW q \in Questions, NEW v \in Values,
             Choose(p, q, v) \/ Type(p, q, v)
      PROVE  Identity'
  <2>1. token[p] # Null
    BY <1>5 DEF Choose, Type, Enter, TypeOK
  <2>2. \A r \in net' : owner'[r.token] # Null
    BY <1>5, <2>1 DEF Choose, Type, Enter, Autosave, server, TypeOK, Identity
  <2> QED  BY <1>5, <2>1, <2>2 DEF Choose, Type, Enter, server, TypeOK, Identity
<1>6. ASSUME NEW p \in Phones, NEW q \in Questions,
             DebounceFires(p, q) \/ ToggleFlagged(p, q)
      PROVE  Identity'
  <2>1. token[p] # Null
    BY <1>6 DEF DebounceFires, ToggleFlagged, TypeOK
  <2>2. \A r \in net' : owner'[r.token] # Null
    BY <1>6, <2>1
    DEF DebounceFires, ToggleFlagged, Autosave, server, TypeOK, Identity
  <2> QED  BY <1>6, <2>1, <2>2
           DEF DebounceFires, ToggleFlagged, server, TypeOK, Identity
<1>7. ASSUME NEW p \in Phones, CountDown(p)
      PROVE  Identity'
  BY <1>7 DEF CountDown, server, Identity
<1>8. ASSUME NEW p \in Phones, NEW a \in Answers, Flush(p, a)
      PROVE  Identity'
  <2>1. token[p] # Null
    BY <1>8 DEF Flush, TypeOK, Working
  <2>2. \A r \in net' : owner'[r.token] # Null
    BY <1>8, <2>1 DEF Flush, server, TypeOK, Identity
  <2> QED  BY <1>8, <2>1, <2>2 DEF Flush, server, page, TypeOK, Identity
<1>9. ASSUME NEW p \in Phones, FlushAnswered(p) \/ FlushFails(p)
      PROVE  Identity'
  <2>1. \A r \in net' : owner'[r.token] # Null
    BY <1>9, LeftOverTokens DEF FlushAnswered, FlushFails, server, TypeOK, Identity
  <2> QED  BY <1>9, <2>1
           DEF FlushAnswered, FlushFails, server, page, TypeOK, Identity
<1>10. ASSUME NEW p \in Phones, SubmitAttempt(p) \/ SubmitFails(p)
       PROVE  Identity'
  BY <1>10
  DEF SubmitAttempt, SubmitFails, Revoke, server, page, TypeOK, Identity
<1>11. ASSUME NEW r \in net, LoseRequest(r)
       PROVE  Identity'
  BY <1>11 DEF LoseRequest, server, page, Identity
<1>12. ASSUME NEW r \in net, NEW q \in Questions, SaveAnswer(r, q)
       PROVE  Identity'
  <2>1. \A s \in net' : \E u \in net : s.token = u.token
    BY <1>12, SavedNet DEF TypeOK
  <2>2. UNCHANGED <<status, holder, owner, revoked, stage, token, page, settled>>
    BY <1>12 DEF SaveAnswer
  <2> QED  BY <2>1, <2>2 DEF page, Identity
<1>13. ASSUME AutoSubmit \/ ProctorResetDevice
       PROVE  Identity'
  BY <1>13 DEF AutoSubmit, ProctorResetDevice, Revoke, page, TypeOK, Identity
<1>14. CASE UNCHANGED vars
  BY <1>14 DEF vars, server, page, Identity
<1> QED
  <2>1. \A p \in Phones : screen[p] \in Answers /\ rendered[p] \in Answers
    BY DEF TypeOK
  <2> QED  BY <1>1, <1>2, <1>3, <1>4, <1>5, <1>6, <1>7, <1>8, <1>9, <1>10, <1>11,
              <1>12, <1>13, <1>14, <2>1
           DEF Next, PhoneStep, PressSubmit, TimeIsUp

-----------------------------------------------------------------------------
(* The page is what a reload shows.                                        *)

LEMMA PageInit == Init => PageInv
<1> SUFFICES ASSUME Init PROVE PageInv
  OBVIOUS
<1>1. RequestsFromServer
  BY DEF Init, RequestsFromServer
<1>2. RenderedFromServer /\ StoredIsShown /\ TypedIsStored /\ PageRestores
  BY DEF Init, Working, RenderedFromServer, StoredIsShown, TypedIsStored,
         PageRestores
<1> QED  BY <1>1, <1>2, TypeInit, IdentityInit DEF PageInv

\* Entering an answer never empties IndexedDB, and fills it for this question.
LEMMA EnterStores ==
  ASSUME TypeOK, NEW p \in Phones, NEW q \in Questions, NEW v \in Values,
         Enter(p, q, v)
  PROVE  /\ screen'[p][q] = v /\ store'[p][q] = v /\ v # Null
         /\ \A r \in Phones, x \in Questions :
              ~(r = p /\ x = q)
                => store'[r][x] = store[r][x] /\ screen'[r][x] = screen[r][x]
BY NullApart DEF Enter, TypeOK, Answers

\* So does marking a question.
LEMMA FlagStores ==
  ASSUME TypeOK, NEW p \in Phones, NEW q \in Questions, ToggleFlagged(p, q)
  PROVE  /\ store'[p][q] = screen[p][q]
         /\ \A r \in Phones, x \in Questions :
              ~(r = p /\ x = q) => store'[r][x] = store[r][x]
BY DEF ToggleFlagged, TypeOK, Answers

Shown == RenderedFromServer /\ StoredIsShown /\ TypedIsStored

\* What the page shows, has stored and has rendered stays in agreement.
LEMMA RenderedNext ==
  PageInv /\ [Next]_vars => Shown'
<1> SUFFICES ASSUME PageInv, [Next]_vars
             PROVE  Shown'
  OBVIOUS
<1> USE NullApart DEF PageInv, Shown
<1>1. ASSUME NEW p \in Phones,
             (\E t \in Tokens : StartAttempt(p, t)) \/ Reopen(p)
      PROVE  Shown'
  <2>1. CASE \E t \in Tokens : StartAttempt(p, t)
    BY <2>1 DEF StartAttempt, ShowPage, Restored, TypeOK, RenderedFromServer,
                StoredIsShown, TypedIsStored
  <2>2. CASE Reopen(p)
    BY <2>2 DEF Reopen, ShowPage, Restored, TypeOK, RenderedFromServer,
                StoredIsShown, TypedIsStored
  <2> QED  BY <1>1, <2>1, <2>2
<1>2. ASSUME NEW p \in Phones, OpenCompleted(p) \/ Leave(p)
      PROVE  Shown'
  BY <1>2 DEF OpenCompleted, Leave, page, TypeOK, Working, RenderedFromServer,
              StoredIsShown, TypedIsStored
<1>3. ASSUME NEW p \in Phones, NEW q \in Questions, NEW v \in Values,
             Choose(p, q, v) \/ Type(p, q, v)
      PROVE  Shown'
  <2>1. Enter(p, q, v)
    BY <1>3 DEF Choose, Type
  <2>2. UNCHANGED <<stage, rendered>>
    BY <2>1 DEF Enter
  <2>3. RenderedFromServer' /\ StoredIsShown'
    BY <2>1, <2>2, EnterStores DEF RenderedFromServer, StoredIsShown
  <2>4. \A r \in Phones : \A x \in typing'[r] :
          x \in Questions /\ (x \in typing[r] \/ (r = p /\ x = q))
    BY <1>3 DEF Choose, Type, TypeOK
  <2>5. TypedIsStored'
    BY <2>1, <2>4, EnterStores DEF TypedIsStored
  <2> QED  BY <2>3, <2>5
<1>4. ASSUME NEW p \in Phones, NEW q \in Questions, DebounceFires(p, q)
      PROVE  Shown'
  BY <1>4 DEF DebounceFires, TypeOK, RenderedFromServer,
              StoredIsShown, TypedIsStored
<1>5. ASSUME NEW p \in Phones, NEW q \in Questions, ToggleFlagged(p, q)
      PROVE  Shown'
  <2>1. UNCHANGED <<stage, screen, rendered>> /\ stage[p] \in Working
    BY <1>5 DEF ToggleFlagged
  <2>2. RenderedFromServer' /\ StoredIsShown'
    BY <1>5, <2>1, FlagStores DEF RenderedFromServer, StoredIsShown
  <2>3. \A r \in Phones : \A x \in typing'[r] :
          x \in Questions /\ x \in typing[r] /\ ~(r = p /\ x = q)
    BY <1>5 DEF ToggleFlagged, TypeOK
  <2>4. TypedIsStored'
    BY <1>5, <2>3, FlagStores DEF TypedIsStored
  <2> QED  BY <2>2, <2>4
<1>6. ASSUME NEW p \in Phones, CountDown(p)
      PROVE  Shown'
  BY <1>6 DEF CountDown, TypeOK, RenderedFromServer,
              StoredIsShown, TypedIsStored
<1>7. ASSUME NEW p \in Phones, \/ PressSubmit(p) \/ TimeIsUp(p)
                                \/ FlushAnswered(p) \/ FlushFails(p)
      PROVE  Shown'
  BY <1>7 DEF PressSubmit, TimeIsUp, Flush, FlushAnswered, FlushFails, page,
              TypeOK, Working, RenderedFromServer, StoredIsShown, TypedIsStored
<1>8. ASSUME NEW p \in Phones, SubmitAttempt(p) \/ SubmitFails(p)
      PROVE  Shown'
  BY <1>8 DEF SubmitAttempt, SubmitFails, page, TypeOK, Working,
              RenderedFromServer, StoredIsShown, TypedIsStored
<1>9. UNCHANGED <<stage, page>> => Shown'
  BY DEF page, RenderedFromServer, StoredIsShown, TypedIsStored
<1>10. \A r \in net, q \in Questions :
         LoseRequest(r) \/ SaveAnswer(r, q) => UNCHANGED <<stage, page>>
  BY DEF LoseRequest, SaveAnswer
<1>11. ASSUME AutoSubmit \/ ProctorResetDevice \/ UNCHANGED vars
       PROVE  UNCHANGED <<stage, page>>
  BY <1>11 DEF AutoSubmit, ProctorResetDevice, vars
<1>12. ASSUME NEW r \in net, LoseRequest(r)
       PROVE  UNCHANGED <<stage, page>>
  BY <1>12 DEF LoseRequest
<1> HIDE DEF Shown
<1>13. ASSUME NEW p \in Phones, PhoneStep(p)
       PROVE  Shown'
  BY <1>1, <1>2, <1>3, <1>4, <1>5, <1>6, <1>7, <1>8, <1>13
  DEF PhoneStep
<1> QED  BY <1>9, <1>10, <1>11, <1>12, <1>13 DEF Next

\* Requests the server would accept repeat what it gave.
LEMMA RequestsNext == PageInv /\ [Next]_vars => RequestsFromServer'
<1> SUFFICES ASSUME PageInv, [Next]_vars PROVE RequestsFromServer'
  OBVIOUS
<1> USE NullApart DEF PageInv
<1>1. ASSUME NEW p \in Phones, NEW t \in Tokens, StartAttempt(p, t)
      PROVE  RequestsFromServer'
  <2>1. \A r \in net : r.token # t
    BY <1>1 DEF StartAttempt, Unused, Identity
  <2>2. holder' = t /\ net' = net
    BY <1>1 DEF StartAttempt, ShowPage
  <2> QED  BY <2>1, <2>2 DEF RequestsFromServer
<1>2. ASSUME UNCHANGED <<sheet, holder, owner, store>>,
             \A r \in net' : \E s \in net :
               /\ r.token = s.token
               /\ \A q \in DOMAIN r.answers :
                    q \in DOMAIN s.answers /\ r.answers[q] = s.answers[q]
      PROVE  RequestsFromServer'
  BY <1>2 DEF RequestsFromServer
<1>3. ASSUME NEW p \in Phones, Leave(p) \/ FlushAnswered(p) \/ FlushFails(p)
      PROVE  RequestsFromServer'
  <2>1. \A r \in net' : \E s \in net : r.token = s.token /\ r.answers = s.answers
    BY <1>3, LeftOverTokens DEF Leave, FlushAnswered, FlushFails, TypeOK
  <2> QED  BY <1>3, <1>2, <2>1 DEF Leave, FlushAnswered, FlushFails, server, page
<1>4. ASSUME UNCHANGED <<sheet, holder, owner, net, store>>
      PROVE  RequestsFromServer'
  BY <1>4 DEF RequestsFromServer
<1>5. ASSUME NEW p \in Phones,
             \/ Reopen(p) \/ OpenCompleted(p) \/ CountDown(p) \/ SubmitFails(p)
      PROVE  UNCHANGED <<sheet, holder, owner, net, store>>
  BY <1>5 DEF Reopen, ShowPage, OpenCompleted, CountDown, SubmitFails, server, page
\* A phone sends: what it sends for a question not in IndexedDB is on the sheet.
<1>6. ASSUME NEW p \in Phones, token[p] # Null,
             UNCHANGED <<sheet, holder, owner>>,
             \A x \in Phones, q \in Questions :
               store'[x][q] = Null => store[x][q] = Null,
             \A r \in net' : r \in net \/
               /\ r.token = token[p]
               /\ \A q \in Questions :
                    token[p] = holder /\ q \in DOMAIN r.answers
                      /\ store'[p][q] = Null => r.answers[q] = sheet[q]
      PROVE  RequestsFromServer'
  <2>1. holder # Null => owner[holder] \in Phones
    BY DEF TypeOK, Identity
  <2>2. owner[token[p]] = p
    BY <1>6 DEF Identity
  <2>3. \A r \in net : r.token # Null
    BY RequestParts DEF TypeOK
  <2> QED  BY <1>6, <2>1, <2>2, <2>3 DEF RequestsFromServer
<1>7. ASSUME NEW p \in Phones, NEW q \in Questions, NEW v \in Values,
             Choose(p, q, v) \/ Type(p, q, v)
      PROVE  RequestsFromServer'
  <2>1. Enter(p, q, v) /\ token[p] # Null
    BY <1>7 DEF Choose, Type, Enter, TypeOK
  <2>2. \A r \in net' : r \in net
                \/ (r.token = token[p] /\ DOMAIN r.answers = {q})
    BY <1>7 DEF Choose, Type, Autosave
  <2>3. store'[p][q] # Null /\ UNCHANGED <<sheet, holder, owner>>
    BY <2>1, EnterStores DEF Enter, server
  <2>4. \A x \in Phones, y \in Questions : store'[x][y] = Null => store[x][y] = Null
    BY <2>1, EnterStores
  <2> QED  BY <1>6, <2>1, <2>2, <2>3, <2>4
<1>8. ASSUME NEW p \in Phones, NEW q \in Questions, DebounceFires(p, q)
      PROVE  RequestsFromServer'
  <2>1. store[p][q] # Null /\ token[p] # Null
    BY <1>8 DEF DebounceFires, TypedIsStored, TypeOK
  <2>2. \A r \in net' : r \in net
                \/ (r.token = token[p] /\ DOMAIN r.answers = {q})
    BY <1>8 DEF DebounceFires, Autosave
  <2>3. UNCHANGED <<sheet, holder, owner, store>>
    BY <1>8 DEF DebounceFires, server
  <2> QED  BY <1>6, <2>1, <2>2, <2>3
<1>9. ASSUME NEW p \in Phones, NEW q \in Questions, ToggleFlagged(p, q)
      PROVE  RequestsFromServer'
  <2>1. token[p] # Null /\ stage[p] \in Working
    BY <1>9 DEF ToggleFlagged, TypeOK
  <2>2. \A r \in net' : r \in net
                \/ (/\ r.token = token[p] /\ DOMAIN r.answers = {q}
                    /\ r.answers[q] = Null)
    BY <1>9 DEF ToggleFlagged, Autosave
  <2>3. UNCHANGED <<sheet, holder, owner>>
    BY <1>9 DEF ToggleFlagged, server
  <2>4. token[p] = holder /\ store'[p][q] = Null => sheet[q] = Null
    BY <1>9, <2>1, FlagStores DEF PageRestores, Restored
  <2>5. \A x \in Phones, y \in Questions : store'[x][y] = Null => store[x][y] = Null
    BY <1>9, <2>1, FlagStores DEF StoredIsShown
  <2> QED  BY <1>6, <2>1, <2>2, <2>3, <2>4, <2>5
<1>10. ASSUME NEW p \in Phones, NEW a \in {screen[p], rendered[p]}, Flush(p, a)
       PROVE  RequestsFromServer'
  <2>1. token[p] # Null /\ stage[p] \in Working
    BY <1>10 DEF Flush, TypeOK, Working
  <2>0. PICK sent \in Merges(p, a) :
          \A r \in net' : r \in net
                \/ (r.token = token[p] /\ r.answers = Given(sent))
    BY <1>10 DEF Flush
  <2>2. \A r \in net' : r \in net
                \/ (r.token = token[p] /\ r.answers = Given(sent))
    BY <2>0
  <2>3. UNCHANGED <<sheet, holder, owner, store>>
    BY <1>10 DEF Flush, server, page
  <2>4. \A q \in Questions :
          q \in DOMAIN Given(sent) /\ store[p][q] = Null
            => Given(sent)[q] = screen[p][q]
    BY <2>0, <2>1 DEF Given, Merges, RenderedFromServer
  <2>5. \A q \in Questions : token[p] = holder /\ store[p][q] = Null
                               => screen[p][q] = sheet[q]
    BY <2>1 DEF PageRestores, Restored
  <2> QED  BY <1>6, <2>1, <2>2, <2>3, <2>4, <2>5
<1>11. ASSUME NEW r \in net, NEW q \in Questions, SaveAnswer(r, q)
       PROVE  RequestsFromServer'
  <2>1. UNCHANGED <<holder, owner, store>>
    BY <1>11 DEF SaveAnswer, page
  <2>2. q \in DOMAIN r.answers
        /\ (sheet' = sheet \/ (r.token = holder
                               /\ sheet' = [sheet EXCEPT ![q] = r.answers[q]]))
    BY <1>11 DEF SaveAnswer, Accepts
  <2>3. holder # Null => \A x \in Questions :
          store[owner[holder]][x] = Null => sheet'[x] = sheet[x]
    BY <2>2 DEF RequestsFromServer, TypeOK, Answers
  <2>4. \A s \in net' : s.token # Null
    BY <1>11, SavedNet, RequestParts DEF TypeOK
  <2> QED  BY <1>11, <2>1, <2>3, <2>4, SavedNet DEF RequestsFromServer, TypeOK
<1>12. ASSUME NEW r \in net, LoseRequest(r)
       PROVE  RequestsFromServer'
  BY <1>12, <1>2 DEF LoseRequest, server, page
<1>13. ASSUME NEW p \in Phones, SubmitAttempt(p)
       PROVE  RequestsFromServer'
  <2>1. UNCHANGED <<sheet, owner, net, store>> /\ holder' \in {holder, Null}
    BY <1>13 DEF SubmitAttempt, Revoke, server, page
  <2> QED  BY <2>1, RequestParts DEF RequestsFromServer, TypeOK
<1>14. ASSUME AutoSubmit \/ ProctorResetDevice
       PROVE  RequestsFromServer'
  <2>1. UNCHANGED <<sheet, owner, net, store>> /\ holder' = Null
    BY <1>14 DEF AutoSubmit, ProctorResetDevice, Revoke, page
  <2> QED  BY <2>1, RequestParts DEF RequestsFromServer, TypeOK
<1>15. CASE UNCHANGED vars
  BY <1>4, <1>15 DEF vars, server, page
<1>16. ASSUME NEW p \in Phones, PhoneStep(p)
       PROVE  RequestsFromServer'
  BY <1>1, <1>3, <1>4, <1>5, <1>7, <1>8, <1>9, <1>10, <1>13, <1>16
  DEF PhoneStep, PressSubmit, TimeIsUp
<1> QED  BY <1>11, <1>12, <1>14, <1>15, <1>16 DEF Next

\* The page would come back from a reload as it is.
LEMMA RestoresNext == PageInv /\ [Next]_vars => PageRestores'
<1> SUFFICES ASSUME PageInv, [Next]_vars PROVE PageRestores'
  OBVIOUS
<1> USE NullApart DEF PageInv
\* A page opens: it shows what is restored, and takes the pen from no other.
<1>1. ASSUME NEW p \in Phones, NEW t \in Tokens, StartAttempt(p, t)
      PROVE  PageRestores'
  <2>1. /\ UNCHANGED <<sheet, store>>
        /\ holder' = t /\ owner[t] = Null /\ owner' = [owner EXCEPT ![t] = p]
        /\ stage' = [stage EXCEPT ![p] = "editing"]
        /\ token' = [token EXCEPT ![p] = t]
        /\ screen' = [screen EXCEPT ![p] = Restored(p)]
    BY <1>1 DEF StartAttempt, ShowPage, Unused
  <2>2. \A x \in Phones, q \in Questions : x = p => screen'[x][q] = Restored(x)'[q]
    BY <2>1 DEF Restored, TypeOK
  <2>3. \A x \in Phones : x # p /\ stage[x] \in Working => token'[x] # t
    BY <2>1 DEF Identity, TypeOK
  <2>4. \A x \in Phones : x # p => ~OnlyPhone(x)'
    BY <2>1 DEF OnlyPhone, TypeOK
  <2> QED  BY <2>1, <2>2, <2>3, <2>4 DEF PageRestores, TypeOK
<1>2. ASSUME NEW p \in Phones, Reopen(p)
      PROVE  PageRestores'
  <2>1. /\ UNCHANGED <<sheet, store, holder, owner>>
        /\ stage' = [stage EXCEPT ![p] = "editing"]
        /\ token' = [token EXCEPT ![p] = holder]
        /\ screen' = [screen EXCEPT ![p] = Restored(p)]
    BY <1>2 DEF Reopen, ShowPage
  <2> QED  BY <2>1 DEF PageRestores, Restored, OnlyPhone, TypeOK
\* Nothing of this changes, or the pen is only taken away.
<1>3. ASSUME UNCHANGED <<sheet, owner, store>>,
             \A x \in Phones : stage'[x] \in Working
               => /\ stage[x] \in Working
                  /\ token'[x] = token[x] /\ screen'[x] = screen[x],
             holder' \in {holder, Null}
      PROVE  PageRestores'
  BY <1>3 DEF PageRestores, Restored, OnlyPhone, TypeOK
<1>4. ASSUME NEW p \in Phones,
             \/ OpenCompleted(p) \/ Leave(p)
             \/ \E q \in Questions : DebounceFires(p, q)
             \/ CountDown(p) \/ PressSubmit(p) \/ TimeIsUp(p)
             \/ FlushAnswered(p) \/ FlushFails(p)
             \/ SubmitAttempt(p) \/ SubmitFails(p)
      PROVE  PageRestores'
  <2>1. /\ UNCHANGED <<sheet, owner, store>> /\ holder' \in {holder, Null}
        /\ \A x \in Phones : x # p => UNCHANGED <<stage[x], token[x], screen[x]>>
    BY <1>4
    DEF OpenCompleted, Leave, DebounceFires, CountDown, PressSubmit, TimeIsUp,
        Flush, FlushAnswered, FlushFails, SubmitAttempt, SubmitFails, Revoke,
        server, page, TypeOK
  <2>2. stage'[p] \in Working
          => stage[p] \in Working /\ UNCHANGED <<token[p], screen[p]>>
    BY <1>4
    DEF OpenCompleted, Leave, DebounceFires, CountDown, PressSubmit, TimeIsUp,
        Flush, FlushAnswered, FlushFails, SubmitAttempt, SubmitFails, page,
        TypeOK, Working
  <2> QED  BY <2>1, <2>2, <1>3
<1>5. ASSUME NEW p \in Phones, NEW q \in Questions, NEW v \in Values, Enter(p, q, v)
      PROVE  PageRestores'
  <2>1. UNCHANGED <<sheet, holder, owner, stage, token>>
    BY <1>5 DEF Enter, server
  <2> QED  BY <1>5, <2>1, EnterStores DEF PageRestores, Restored, OnlyPhone
<1>6. ASSUME NEW p \in Phones, NEW q \in Questions, ToggleFlagged(p, q)
      PROVE  PageRestores'
  <2>1. UNCHANGED <<sheet, holder, owner, stage, token, screen>>
        /\ stage[p] \in Working
    BY <1>6 DEF ToggleFlagged, server
  <2> QED  BY <1>6, <2>1, FlagStores DEF PageRestores, Restored, OnlyPhone
\* The server saves: where a page shows the sheet, the answer is there already.
<1>7. ASSUME NEW r \in net, NEW q \in Questions, SaveAnswer(r, q)
      PROVE  PageRestores'
  <2>1. UNCHANGED <<holder, owner, store, stage, token, screen>>
    BY <1>7 DEF SaveAnswer, page
  <2>2. CASE sheet' = sheet
    BY <2>1, <2>2, <1>3
  <2>3. CASE sheet' # sheet
    <3>1. /\ r.token = holder /\ q \in DOMAIN r.answers
          /\ sheet' = [sheet EXCEPT ![q] = r.answers[q]]
      BY <1>7, <2>3 DEF SaveAnswer, Accepts
    <3>2. r.token \in Tokens
      BY RequestParts DEF TypeOK
    <3>3. ASSUME NEW x \in Phones, stage[x] \in Working,
                 token[x] = holder \/ OnlyPhone(x)
          PROVE  owner[holder] = x
      BY <3>1, <3>2, <3>3 DEF Identity, OnlyPhone, TypeOK
    <3>4. \A x \in Phones, y \in Questions :
            owner[holder] = x /\ store[x][y] = Null => sheet'[y] = sheet[y]
      BY <3>1 DEF RequestsFromServer, TypeOK, Answers
    <3> QED  BY <2>1, <3>3, <3>4 DEF PageRestores, Restored, OnlyPhone
  <2> QED  BY <2>2, <2>3
<1>8. ASSUME NEW r \in net, LoseRequest(r)
      PROVE  PageRestores'
  BY <1>8, <1>3 DEF LoseRequest, server, page
<1>9. ASSUME AutoSubmit \/ ProctorResetDevice \/ UNCHANGED vars
      PROVE  PageRestores'
  BY <1>9, <1>3
  DEF AutoSubmit, ProctorResetDevice, Revoke, vars, server, page
<1>10. ASSUME NEW p \in Phones, PhoneStep(p)
       PROVE  PageRestores'
  BY <1>1, <1>2, <1>4, <1>5, <1>6, <1>10 DEF PhoneStep, Choose, Type
<1> QED  BY <1>7, <1>8, <1>9, <1>10 DEF Next

\* Every step keeps the page's invariant.
LEMMA PageNext == PageInv /\ [Next]_vars => PageInv'
BY TypeNext, IdentityNext, RequestsNext, RenderedNext, RestoresNext
DEF PageInv, Shown

\* The page's invariant in every reachable state.
LEMMA PageInvariant == Spec => []PageInv
BY PageInit, PageNext, PTL DEF Spec

-----------------------------------------------------------------------------
(* Theorems of the page.                                                   *)

\* Type correctness, whatever the phones, the network and the proctor do.
THEOREM TypeCorrect == Spec => []TypeOK
<1>1. PageInv => TypeOK
  BY DEF PageInv
<1> QED  BY <1>1, PageInvariant, PTL

\* A student who has used one phone finds the page as it was after a reload
\* (StudentCbtEngineView.tsx:88), for any number of phones, tokens, questions
\* and requests: every lost, late or erasing request included.
THEOREM NothingLostByReload == Spec => []ReloadKeepsScreen
<1>1. PageInv => ReloadKeepsScreen
  <2> SUFFICES ASSUME PageInv, NEW p \in Phones, OnlyPhone(p),
                      stage[p] \in Working
               PROVE  Restored(p) = screen[p]
    BY DEF ReloadKeepsScreen
  <2>1. Restored(p) \in [Questions -> Values \cup {Null}]
        /\ screen[p] \in [Questions -> Values \cup {Null}]
    BY SheetsAreAnswers DEF PageInv, TypeOK, Answers
  <2>2. \A q \in Questions : Restored(p)[q] = screen[p][q]
    BY DEF PageInv, PageRestores
  <2> QED  BY <2>1, <2>2
<1> QED  BY <1>1, PageInvariant, PTL

-----------------------------------------------------------------------------
(* A flush that was answered.                                              *)

\* Two phones never hold the same token.
LEMMA TokensApart ==
  ASSUME TypeOK, Identity, NEW p \in Phones, NEW x \in Phones,
         token[p] = token[x], token[p] # Null
  PROVE  p = x
BY DEF Identity

\* No flush is under way at first.
LEMMA FlushInit == Init => FlushInv
<1> SUFFICES ASSUME Init PROVE FlushInv
  OBVIOUS
<1>1. Awaiting /\ Unchallenged
  BY DEF Init, Awaiting, Unchallenged
<1>2. OnTheWay /\ FlushSavesAll
  BY DEF Init, OnTheWay, FlushSavesAll
<1> QED  BY <1>1, <1>2, PageInit DEF FlushInv

\* A page that waits for its flush has sent it.
LEMMA AwaitingNext == FlushInv /\ [Next]_vars => Awaiting'
<1> SUFFICES ASSUME FlushInv, [Next]_vars PROVE Awaiting'
  OBVIOUS
<1> USE NullApart DEF FlushInv, PageInv
<1>0. \A r \in net : r.token \in Tokens /\ owner[r.token] \in Phones
  BY RequestParts DEF TypeOK, Identity
\* No flush starts or ends.
<1>1. ASSUME \A r \in net' : r.reply =>
               \E s \in net : s.reply /\ r.token = s.token,
             \A x \in Phones : stage[x] = "flushing"
               => UNCHANGED <<stage[x], token[x]>>,
             \A t \in Tokens : owner[t] # Null => owner'[t] = owner[t]
      PROVE  Awaiting'
  BY <1>0, <1>1 DEF Awaiting
<1>2. ASSUME NEW p \in Phones, NEW t \in Tokens, StartAttempt(p, t)
      PROVE  Awaiting'
  BY <1>1, <1>2 DEF StartAttempt, ShowPage, Unused, TypeOK
<1>3. ASSUME NEW p \in Phones,
             \/ Reopen(p) \/ OpenCompleted(p) \/ CountDown(p)
             \/ SubmitAttempt(p) \/ SubmitFails(p)
      PROVE  Awaiting'
  <2>1. UNCHANGED <<net, owner>>
    BY <1>3 DEF Reopen, ShowPage, OpenCompleted, CountDown, SubmitAttempt,
                SubmitFails, Revoke, server
  <2>2. \A x \in Phones : stage[x] = "flushing"
          => UNCHANGED <<stage[x], token[x]>>
    BY <1>3 DEF Reopen, ShowPage, OpenCompleted, CountDown, SubmitAttempt,
                SubmitFails, TypeOK
  <2> QED  BY <2>1, <2>2, <1>1
<1>4. ASSUME NEW p \in Phones, Leave(p) \/ FlushAnswered(p) \/ FlushFails(p)
      PROVE  Awaiting'
  <2>1. \A r \in net' : r.reply => r \in net /\ r \notin Awaited(p)
    BY <1>4, LeftOverTokens DEF Leave, FlushAnswered, FlushFails, TypeOK
  <2>2. owner' = owner
    BY <1>4 DEF Leave, FlushAnswered, FlushFails, server
  <2>3. \A x \in Phones : x # p => UNCHANGED <<stage[x], token[x]>>
    BY <1>4 DEF Leave, FlushAnswered, FlushFails, TypeOK
  <2> QED  BY <1>0, <2>1, <2>2, <2>3 DEF Awaiting, Awaited
<1>5. ASSUME NEW p \in Phones, NEW q \in Questions,
             \/ \E v \in Values : Choose(p, q, v) \/ Type(p, q, v)
             \/ DebounceFires(p, q) \/ ToggleFlagged(p, q)
      PROVE  Awaiting'
  <2>1. \A r \in net' : r.reply => r \in net
    BY <1>5 DEF Choose, Type, DebounceFires, ToggleFlagged, Autosave
  <2>2. UNCHANGED <<owner, stage, token>>
    BY <1>5 DEF Choose, Type, Enter, DebounceFires, ToggleFlagged, server
  <2> QED  BY <2>1, <2>2, <1>1
<1>6. ASSUME NEW p \in Phones, NEW a, Flush(p, a)
      PROVE  Awaiting'
  <2>1. owner[token[p]] = p
    BY <1>6 DEF Flush, Identity, TypeOK, Working
  <2>2. \A r \in net' : r \in net \/ r.token = token[p]
    BY <1>6 DEF Flush
  <2>3. /\ stage[p] = "editing" /\ stage' = [stage EXCEPT ![p] = "flushing"]
        /\ UNCHANGED <<token, owner>>
    BY <1>6 DEF Flush, server
  <2> QED  BY <1>0, <2>1, <2>2, <2>3 DEF Awaiting, TypeOK
<1>7. ASSUME NEW r \in net, NEW q \in Questions, SaveAnswer(r, q)
      PROVE  Awaiting'
  <2>1. UNCHANGED <<owner, stage, token>>
    BY <1>7 DEF SaveAnswer
  <2>2. \A s \in net' : s.reply => \E u \in net : u.reply /\ s.token = u.token
    BY <1>7, SavedNet DEF TypeOK
  <2> QED  BY <2>1, <2>2, <1>1
<1>8. ASSUME NEW r \in net, LoseRequest(r)
      PROVE  Awaiting'
  BY <1>8, <1>1 DEF LoseRequest, server
<1>9. ASSUME AutoSubmit \/ ProctorResetDevice \/ UNCHANGED vars
      PROVE  Awaiting'
  BY <1>9, <1>1 DEF AutoSubmit, ProctorResetDevice, Revoke, vars, server
<1>10. ASSUME NEW p \in Phones, PhoneStep(p)
       PROVE  Awaiting'
  BY <1>2, <1>3, <1>4, <1>5, <1>6, <1>10 DEF PhoneStep, PressSubmit, TimeIsUp
<1> QED  BY <1>7, <1>8, <1>9, <1>10 DEF Next

\* Nothing under way comes to contradict a settled answer.
LEMMA UnchallengedNext == FlushInv /\ [Next]_vars => Unchallenged'
<1> SUFFICES ASSUME FlushInv, [Next]_vars PROVE Unchallenged'
  OBVIOUS
<1> USE NullApart DEF FlushInv, PageInv
\* What is settled stays on the screen, and nothing else is sent.
<1>1. ASSUME \A x \in Phones : \A q \in settled'[x] :
               /\ q \in settled[x]
               /\ token'[x] = token[x] /\ screen'[x][q] = screen[x][q],
             \A r \in net' : \E s \in net :
               /\ r.token = s.token
               /\ \A q \in DOMAIN r.answers :
                    q \in DOMAIN s.answers /\ r.answers[q] = s.answers[q]
      PROVE  Unchallenged'
  BY <1>1 DEF Unchallenged
<1>2. ASSUME NEW p \in Phones, (\E t \in Tokens : StartAttempt(p, t)) \/ Reopen(p)
      PROVE  Unchallenged'
  <2>1. settled[p] = {} /\ UNCHANGED <<settled, net>>
    BY <1>2 DEF StartAttempt, Reopen, ShowPage, Identity
  <2>2. \A x \in Phones : x # p => UNCHANGED <<token[x], screen[x]>>
    BY <1>2 DEF StartAttempt, Reopen, ShowPage, TypeOK
  <2> QED  BY <2>1, <2>2, <1>1
<1>3. ASSUME NEW p \in Phones,
             \/ Leave(p) \/ OpenCompleted(p) \/ CountDown(p)
             \/ FlushAnswered(p) \/ FlushFails(p)
             \/ SubmitAttempt(p) \/ SubmitFails(p)
      PROVE  Unchallenged'
  <2>1. \A r \in net' : \E s \in net : r.token = s.token /\ r.answers = s.answers
    BY <1>3, LeftOverTokens
    DEF Leave, OpenCompleted, CountDown, FlushAnswered, FlushFails,
        SubmitAttempt, SubmitFails, TypeOK
  <2>2. \A x \in Phones : \A q \in settled'[x] :
          q \in settled[x] /\ token'[x] = token[x] /\ screen'[x][q] = screen[x][q]
    BY <1>3
    DEF Leave, OpenCompleted, CountDown, FlushAnswered, FlushFails,
        SubmitAttempt, SubmitFails, page, TypeOK
  <2> QED  BY <2>1, <2>2, <1>1
\* A phone sends an answer: the settled ones are not contradicted.
<1>4. ASSUME NEW p \in Phones, token[p] # Null, token' = token,
             \A x \in Phones : \A q \in settled'[x] :
               /\ x # p => q \in settled[x]
               /\ screen'[x][q] = screen[x][q],
             \A r \in net' : \A q \in settled'[p] :
               r.token = token[p] /\ q \in DOMAIN r.answers
                 => r.answers[q] = screen[p][q],
             \A r \in net' : r \in net \/ r.token = token[p]
      PROVE  Unchallenged'
  BY <1>4, TokensApart DEF Unchallenged
<1>5. ASSUME NEW p \in Phones, NEW q \in Questions, NEW v \in Values,
             Choose(p, q, v) \/ Type(p, q, v)
      PROVE  Unchallenged'
  <2>1. Enter(p, q, v) /\ token[p] # Null
    BY <1>5 DEF Choose, Type, Enter, TypeOK
  <2>2. \A r \in net' : r \in net
                \/ (r.token = token[p] /\ DOMAIN r.answers = {q})
    BY <1>5 DEF Choose, Type, Autosave
  <2>3. token' = token /\ \A x \in Phones : \A y \in settled'[x] :
          y \in Questions /\ y \in settled[x] /\ ~(x = p /\ y = q)
    BY <2>1 DEF Enter, TypeOK
  <2>4. \A x \in Phones : \A y \in settled'[x] : screen'[x][y] = screen[x][y]
    BY <2>1, <2>3, EnterStores
  <2> QED  BY <2>1, <2>2, <2>3, <2>4, <1>4 DEF Unchallenged
<1>6. ASSUME NEW p \in Phones, NEW q \in Questions,
             DebounceFires(p, q) \/ ToggleFlagged(p, q)
      PROVE  Unchallenged'
  <2>1. token[p] # Null /\ UNCHANGED <<token, screen>>
    BY <1>6 DEF DebounceFires, ToggleFlagged, TypeOK
  <2>2. \A r \in net' : r \in net
          \/ /\ r.token = token[p] /\ DOMAIN r.answers = {q}
             /\ DebounceFires(p, q) => r.answers[q] = screen[p][q]
    BY <1>6 DEF DebounceFires, ToggleFlagged, Autosave
  <2>3. \A x \in Phones : \A y \in settled'[x] :
          y \in settled[x] /\ (ToggleFlagged(p, q) => ~(x = p /\ y = q))
    BY <1>6 DEF DebounceFires, ToggleFlagged, TypeOK
  <2> QED  BY <1>6, <2>1, <2>2, <2>3, <1>4 DEF Unchallenged
<1>7. ASSUME NEW p \in Phones, NEW a \in {screen[p], rendered[p]}, Flush(p, a)
      PROVE  Unchallenged'
  <2>1. token[p] # Null /\ UNCHANGED <<token, screen>>
    BY <1>7 DEF Flush, page, TypeOK, Working
  <2>0. PICK sent \in Merges(p, a) :
          /\ settled' = [settled EXCEPT ![p] = Settled(p, sent)]
          /\ net' = net \cup {[token |-> token[p], reply |-> TRUE,
                               answers |-> Given(sent)]}
    BY <1>7 DEF Flush
  <2>2. \A r \in net' : r \in net \/
          (r.token = token[p] /\ r.answers = Given(sent))
    BY <2>0
  <2>3. settled'[p] = Settled(p, sent)
        /\ \A x \in Phones : x # p => settled'[x] = settled[x]
    BY <2>0 DEF TypeOK
  <2>4. \A r \in net : \A q \in settled'[p] :
          r.token = token[p] /\ q \in DOMAIN r.answers
            => r.answers[q] = screen[p][q]
    BY <2>3 DEF Settled
  <2>5. \A q \in settled'[p] : q \in DOMAIN Given(sent)
          => Given(sent)[q] = screen[p][q]
    BY <2>3 DEF Settled, Given
  <2> QED  BY <2>1, <2>2, <2>3, <2>4, <2>5, <1>4
<1>8. ASSUME NEW r \in net, NEW q \in Questions, SaveAnswer(r, q)
      PROVE  Unchallenged'
  <2>1. UNCHANGED <<settled, token, screen>>
    BY <1>8 DEF SaveAnswer, page
  <2>2. \A s \in net' : \E u \in net :
          /\ s.token = u.token
          /\ \A x \in DOMAIN s.answers :
               x \in DOMAIN u.answers /\ s.answers[x] = u.answers[x]
    BY <1>8, SavedNet DEF TypeOK
  <2> QED  BY <2>1, <2>2, <1>1
<1>9. ASSUME NEW r \in net, LoseRequest(r)
      PROVE  Unchallenged'
  BY <1>9, <1>1 DEF LoseRequest, page
<1>10. ASSUME AutoSubmit \/ ProctorResetDevice \/ UNCHANGED vars
       PROVE  Unchallenged'
  BY <1>10, <1>1 DEF AutoSubmit, ProctorResetDevice, vars, page
<1>11. ASSUME NEW p \in Phones, PhoneStep(p)
       PROVE  Unchallenged'
  BY <1>2, <1>3, <1>5, <1>6, <1>7, <1>11 DEF PhoneStep, PressSubmit, TimeIsUp
<1> QED  BY <1>8, <1>9, <1>10, <1>11 DEF Next

Kept == OnTheWay /\ FlushSavesAll

\* The requests a phone's flush waits for carry its token.
LEMMA AwaitedTokens ==
  ASSUME TypeOK, Identity, NEW p \in Phones, token[p] # Null, NEW r \in net
  PROVE  r.token = token[p] /\ r.reply => r \in Awaited(p)
BY DEF Awaited, Identity

\* A settled answer stays on the sheet or in the flush.
LEMMA KeptNext == FlushInv /\ [Next]_vars => Kept'
<1> SUFFICES ASSUME FlushInv, [Next]_vars PROVE Kept'
  OBVIOUS
<1> USE NullApart DEF FlushInv, PageInv
<1>0. \A x \in Phones : stage[x] \in {"flushing", "flushed"} => token[x] # Null
  BY DEF TypeOK, Working
\* A phone is not concerned: it stays where it is, no settled answer changes,
\* its flush is not lost, and it may write only if it might before.
<1>1. ASSUME NEW x \in Phones, stage'[x] = stage[x], token'[x] = token[x],
             stage[x] \in {"flushing", "flushed"} /\ Accepts(token[x])'
               => Accepts(token[x]) /\ sheet' = sheet,
             \A q \in settled'[x] : q \in settled[x] /\ screen'[x][q] = screen[x][q],
             \A r \in net : r.reply /\ r.token = token[x] => r \in net'
      PROVE  /\ stage'[x] = "flushing" /\ Accepts(token[x])'
                  => \A q \in settled'[x] :
                       \/ sheet'[q] = screen'[x][q]
                       \/ \E r \in net' : /\ r.reply /\ r.token = token'[x]
                                          /\ q \in DOMAIN r.answers
             /\ stage'[x] = "flushed" /\ Accepts(token[x])'
                  => \A q \in settled'[x] : sheet'[q] = screen'[x][q]
  BY <1>1 DEF OnTheWay, FlushSavesAll
\* A step of one phone that concerns no other.
<1>2. ASSUME NEW p \in Phones, sheet' = sheet,
             \A t \in Tokens : owner[t] # Null /\ Accepts(t)' => Accepts(t),
             \A x \in Phones : x # p =>
               /\ UNCHANGED <<stage[x], token[x], settled[x], screen[x]>>
               /\ token[x] # Null =>
                    \A r \in net : r.reply /\ r.token = token[x] => r \in net'
      PROVE  \A x \in Phones : x # p =>
               /\ stage'[x] = "flushing" /\ Accepts(token[x])'
                    => \A q \in settled'[x] :
                         \/ sheet'[q] = screen'[x][q]
                         \/ \E r \in net' : /\ r.reply /\ r.token = token'[x]
                                            /\ q \in DOMAIN r.answers
               /\ stage'[x] = "flushed" /\ Accepts(token[x])'
                    => \A q \in settled'[x] : sheet'[q] = screen'[x][q]
  <2> SUFFICES ASSUME NEW x \in Phones, x # p,
                      stage[x] \in {"flushing", "flushed"}
               PROVE  /\ stage'[x] = "flushing" /\ Accepts(token[x])'
                           => \A q \in settled'[x] :
                                \/ sheet'[q] = screen'[x][q]
                                \/ \E r \in net' : /\ r.reply /\ r.token = token'[x]
                                                   /\ q \in DOMAIN r.answers
                      /\ stage'[x] = "flushed" /\ Accepts(token[x])'
                           => \A q \in settled'[x] : sheet'[q] = screen'[x][q]
    BY <1>2
  <2>1. token[x] \in Tokens /\ owner[token[x]] # Null
    BY <1>0 DEF Identity, TypeOK
  <2>2. Accepts(token[x])' => Accepts(token[x])
    BY <1>2, <2>1 DEF Accepts
  <2> QED  BY <1>1, <1>2, <2>1, <2>2
<1>3. ASSUME NEW p \in Phones, (\E t \in Tokens : StartAttempt(p, t)) \/ Reopen(p)
      PROVE  Kept'
  <2>1. /\ UNCHANGED <<sheet, settled, net>> /\ stage'[p] = "editing"
        /\ \A x \in Phones : x # p => UNCHANGED <<stage[x], token[x], screen[x]>>
    BY <1>3 DEF StartAttempt, Reopen, ShowPage, TypeOK
  <2>2. \A t \in Tokens : owner[t] # Null /\ Accepts(t)' => Accepts(t)
    BY <1>3 DEF StartAttempt, Reopen, Unused, Accepts
  <2> QED  BY <1>2, <2>1, <2>2 DEF Kept, OnTheWay, FlushSavesAll
\* The phone does not wait for a flush afterwards.
<1>4. ASSUME NEW p \in Phones,
             Leave(p) \/ OpenCompleted(p) \/ FlushFails(p) \/ SubmitFails(p)
      PROVE  Kept'
  <2>1. /\ UNCHANGED <<sheet, owner, status, holder>>
        /\ stage'[p] \notin {"flushing", "flushed"}
    BY <1>4 DEF Leave, OpenCompleted, FlushFails, SubmitFails, server, TypeOK
  <2>2. \A x \in Phones : x # p =>
          UNCHANGED <<stage[x], token[x], settled[x], screen[x]>>
    BY <1>4 DEF Leave, OpenCompleted, FlushFails, SubmitFails, page, TypeOK
  <2>3. \A r \in net : r \in Awaited(p) \/ r \in net'
    BY <1>4 DEF Leave, OpenCompleted, FlushFails, SubmitFails
  <2>4. \A x \in Phones, r \in net :
          x # p /\ token[x] # Null /\ r.token = token[x] => r \in net'
    BY <2>3 DEF Awaited, Identity
  <2> QED  BY <1>2, <2>1, <2>2, <2>4 DEF Kept, OnTheWay, FlushSavesAll, Accepts
<1>5. ASSUME NEW p \in Phones, SubmitAttempt(p)
      PROVE  Kept'
  BY <1>5 DEF SubmitAttempt, server, Kept, OnTheWay, FlushSavesAll, Accepts
<1>6. ASSUME AutoSubmit \/ ProctorResetDevice
      PROVE  Kept'
  <2>1. status' # "IN_PROGRESS"
    BY <1>6 DEF AutoSubmit, ProctorResetDevice
  <2> QED  BY <2>1 DEF Kept, OnTheWay, FlushSavesAll, Accepts
\* An answer is entered or sent.
<1>7. ASSUME NEW p \in Phones, NEW q \in Questions,
             \/ \E v \in Values : Choose(p, q, v) \/ Type(p, q, v)
             \/ DebounceFires(p, q) \/ ToggleFlagged(p, q)
      PROVE  Kept'
  <2>1. UNCHANGED <<sheet, status, holder, stage, token>> /\ net \subseteq net'
    BY <1>7 DEF Choose, Type, Enter, DebounceFires, ToggleFlagged, Autosave, server
  <2>2. \A x \in Phones : \A y \in settled'[x] :
          y \in settled[x] /\ screen'[x][y] = screen[x][y]
    <3>1. CASE \E v \in Values : Choose(p, q, v) \/ Type(p, q, v)
      <4>1. PICK v \in Values : Enter(p, q, v)
        BY <3>1 DEF Choose, Type
      <4>2. \A x \in Phones : \A y \in settled'[x] :
              y \in Questions /\ y \in settled[x] /\ ~(x = p /\ y = q)
        BY <4>1 DEF Enter, TypeOK
      <4> QED  BY <4>1, <4>2, EnterStores
    <3>2. CASE DebounceFires(p, q) \/ ToggleFlagged(p, q)
      BY <3>2 DEF DebounceFires, ToggleFlagged, TypeOK
    <3> QED  BY <1>7, <3>1, <3>2
  <2> QED  BY <2>1, <2>2 DEF Kept, OnTheWay, FlushSavesAll, Accepts
<1>8. ASSUME NEW p \in Phones, CountDown(p)
      PROVE  Kept'
  BY <1>8 DEF CountDown, server, Kept, OnTheWay, FlushSavesAll, Accepts
\* A flush starts: a settled answer is in it, or there is none and the sheet
\* has none either.
<1>9. ASSUME NEW p \in Phones, NEW a, Flush(p, a)
      PROVE  Kept'
  <2>0. PICK sent \in Merges(p, a) :
          /\ settled' = [settled EXCEPT ![p] = Settled(p, sent)]
          /\ net' = net \cup {[token |-> token[p], reply |-> TRUE,
                               answers |-> Given(sent)]}
    BY <1>9 DEF Flush
  <2> DEFINE f == [token |-> token[p], reply |-> TRUE, answers |-> Given(sent)]
  <2>1. /\ stage[p] = "editing" /\ stage' = [stage EXCEPT ![p] = "flushing"]
        /\ UNCHANGED <<sheet, status, holder, owner, token, screen>>
    BY <1>9 DEF Flush, server, page
  <2>2. net' = net \cup {f}
    BY <2>0
  <2>3. settled'[p] = Settled(p, sent)
        /\ \A x \in Phones : x # p => settled'[x] = settled[x]
    BY <2>0 DEF TypeOK
  <2>4. ASSUME NEW q \in settled'[p], Accepts(token[p])
        PROVE  sheet[q] = screen[p][q] \/ q \in DOMAIN f.answers
    <3>1. q \in Questions /\ sent[q] = screen[p][q]
      BY <2>3 DEF Settled
    <3>2. CASE screen[p][q] = Null
      <4>1. Restored(p)[q] = Null
        BY <2>1, <2>4, <3>1, <3>2 DEF PageRestores, Accepts, Working
      <4> QED  BY <3>1, <3>2, <4>1 DEF Restored
    <3>3. CASE screen[p][q] # Null
      BY <3>1, <3>3 DEF Given
    <3> QED  BY <3>2, <3>3
  <2>5. f.reply /\ f.token = token[p] /\ f \in net'
    BY <2>2
  <2> HIDE DEF f
  <2>6. \A x \in Phones : x # p => stage'[x] = stage[x]
    BY <2>1 DEF TypeOK
  <2>7. stage'[p] = "flushing"
    BY <2>1 DEF TypeOK
  <2>8. OnTheWay'
    BY <2>1, <2>2, <2>3, <2>4, <2>5, <2>6, <2>7 DEF OnTheWay, Accepts
  <2>9. FlushSavesAll'
    BY <2>1, <2>3, <2>6, <2>7 DEF FlushSavesAll, Accepts
  <2> QED  BY <2>8, <2>9 DEF Kept
\* A flush is answered: nothing is left in it, so all that is settled is saved.
<1>10. ASSUME NEW p \in Phones, FlushAnswered(p)
       PROVE  Kept'
  <2>1. /\ stage[p] = "flushing" /\ stage' = [stage EXCEPT ![p] = "flushed"]
        /\ \A r \in Awaited(p) : DOMAIN r.answers = {}
        /\ net' = net \ Awaited(p)
        /\ UNCHANGED <<sheet, status, holder, owner, token, screen, settled>>
    BY <1>10 DEF FlushAnswered, server, page
  <2>2. Accepts(token[p]) => \A q \in settled[p] : sheet[q] = screen[p][q]
    BY <1>0, <2>1, AwaitedTokens DEF OnTheWay
  <2>3. \A x \in Phones, r \in net :
          x # p /\ token[x] # Null /\ r.token = token[x] => r \in net'
    BY <2>1 DEF Awaited, Identity
  <2>4. \A x \in Phones : x # p => stage'[x] = stage[x]
    BY <2>1 DEF TypeOK
  <2>5. stage'[p] = "flushed"
    BY <2>1 DEF TypeOK
  <2>6. OnTheWay'
    BY <1>0, <2>1, <2>3, <2>4, <2>5 DEF OnTheWay, Accepts
  <2>7. FlushSavesAll'
    BY <2>1, <2>2, <2>4, <2>5 DEF FlushSavesAll, Accepts
  <2> QED  BY <2>6, <2>7 DEF Kept
\* The server saves one answer: a settled one only to what the screen shows.
<1>11. ASSUME NEW r \in net, NEW q \in Questions, SaveAnswer(r, q)
       PROVE  Kept'
  <2>0. net \subseteq Requests
    BY DEF TypeOK
  <2>1. UNCHANGED <<status, holder, stage, token, screen, settled>>
    BY <1>11 DEF SaveAnswer, page
  <2>2. q \in DOMAIN r.answers
        /\ sheet' = IF Accepts(r.token) THEN [sheet EXCEPT ![q] = r.answers[q]]
                    ELSE sheet
    BY <1>11 DEF SaveAnswer
  <2>3. ASSUME NEW x \in Phones, Accepts(token[x]), NEW y \in settled[x]
        PROVE  /\ sheet[y] = screen[x][y] => sheet'[y] = screen[x][y]
               /\ r.token = token[x] /\ y = q => sheet'[y] = screen[x][y]
    <3>1. r.token = token[x] => r.answers[q] = screen[x][q] \/ y # q
      BY <2>2, <2>3 DEF Unchallenged
    <3>2. sheet' # sheet => r.token = token[x]
      BY <2>2, <2>3 DEF Accepts
    <3> QED  BY <2>2, <2>3, <3>1, <3>2 DEF Accepts, TypeOK, Answers
  <2>4. FlushSavesAll'
    BY <2>1, <2>3 DEF FlushSavesAll, Accepts
  <2>5. ASSUME NEW x \in Phones, stage[x] = "flushing", Accepts(token[x]),
               NEW y \in settled[x]
        PROVE  \/ sheet'[y] = screen[x][y]
               \/ \E s \in net' : s.reply /\ s.token = token[x] /\ y \in DOMAIN s.answers
    <3>1. CASE sheet[y] = screen[x][y]
      BY <2>3, <2>5, <3>1
    <3>2. CASE \E u \in net : u.reply /\ u.token = token[x] /\ y \in DOMAIN u.answers
      <4>0. \A u \in net : u.reply => \E s \in net' :
              /\ s.token = u.token /\ s.reply = u.reply
              /\ DOMAIN u.answers \subseteq DOMAIN s.answers
                   \/ (u = r /\ DOMAIN u.answers \subseteq DOMAIN s.answers \cup {q})
        BY <1>11, <2>0, SavedNet, Zenon
      <4>1. PICK u \in net : u.reply /\ u.token = token[x] /\ y \in DOMAIN u.answers
        BY <3>2
      <4>2. PICK s \in net' :
              /\ s.token = u.token /\ s.reply = u.reply
              /\ DOMAIN u.answers \subseteq DOMAIN s.answers
                   \/ (u = r /\ DOMAIN u.answers \subseteq DOMAIN s.answers \cup {q})
        BY <4>0, <4>1, Zenon
      <4>3. CASE y \in DOMAIN s.answers
        BY <4>1, <4>2, <4>3
      <4>4. CASE u = r /\ y = q
        BY <2>3, <2>5, <4>1, <4>4
      <4> QED  BY <4>1, <4>2, <4>3, <4>4
    <3> QED  BY <2>5, <3>1, <3>2 DEF OnTheWay
  <2>6. OnTheWay'
    BY <2>1, <2>5 DEF OnTheWay, Accepts
  <2> QED  BY <2>4, <2>6 DEF Kept
<1>12. ASSUME NEW r \in net, LoseRequest(r)
       PROVE  Kept'
  <2>1. UNCHANGED <<sheet, status, holder, stage, token, screen, settled>>
    BY <1>12 DEF LoseRequest, server, page
  <2>2. \A s \in net : s.reply => s \in net'
    BY <1>12 DEF LoseRequest
  <2> QED  BY <2>1, <2>2 DEF Kept, OnTheWay, FlushSavesAll, Accepts
<1>13. CASE UNCHANGED vars
  BY <1>13 DEF vars, server, page, Kept, OnTheWay, FlushSavesAll, Accepts
<1>14. ASSUME NEW p \in Phones, PhoneStep(p)
       PROVE  Kept'
  BY <1>3, <1>4, <1>5, <1>7, <1>8, <1>9, <1>10, <1>14
  DEF PhoneStep, PressSubmit, TimeIsUp
<1> QED  BY <1>6, <1>11, <1>12, <1>13, <1>14 DEF Next

\* A flush the server has answered leaves the settled answers on the sheet, for
\* any number of phones and requests (exam_service.py:547): no autosave that is
\* lost, late or erasing, no reload and no other phone takes one away.
THEOREM FlushIsComplete == Spec => []FlushSavesAll
<1>1. FlushInv /\ [Next]_vars => FlushInv'
  BY PageNext, AwaitingNext, UnchallengedNext, KeptNext DEF FlushInv, Kept
<1>2. FlushInv => FlushSavesAll
  BY DEF FlushInv
<1> QED  BY <1>1, <1>2, FlushInit, PTL DEF Spec

-----------------------------------------------------------------------------
(* The server's part implements AnswerSheet.                               *)

\* The holder is none of the revoked.
HolderStands == holder \notin revoked

\* The device session that writes has not been revoked.
LEMMA HolderNext ==
  PageInv /\ HolderStands /\ [Next]_vars => HolderStands' /\ [Sheet!Next]_(Sheet!vars)
<1> SUFFICES ASSUME PageInv, HolderStands, [Next]_vars
             PROVE  HolderStands' /\ [Sheet!Next]_(Sheet!vars)
  OBVIOUS
<1> USE NullApart DEF PageInv, HolderStands
<1>1. Null \notin revoked
  BY DEF TypeOK
<1>2. UNCHANGED <<status, sheet, holder, revoked>>
        => HolderStands' /\ UNCHANGED Sheet!vars
  BY DEF Sheet!vars
<1>3. ASSUME NEW p \in Phones, NEW t \in Tokens, StartAttempt(p, t)
      PROVE  HolderStands' /\ Sheet!PassOn
  <2>1. t \notin revoked /\ holder = Null
    BY <1>3 DEF StartAttempt, Unused, Identity
  <2>2. holder' = t /\ UNCHANGED <<sheet, revoked>> /\ status' = "IN_PROGRESS"
    BY <1>3 DEF StartAttempt, ShowPage
  <2> QED  BY <2>1, <2>2 DEF Sheet!PassOn, TypeOK
<1>4. ASSUME Revoke, status' \in {"CLOSED", "PAUSED"}
      PROVE  HolderStands' /\ Sheet!PassOn
  BY <1>1, <1>4 DEF Revoke, Sheet!PassOn, TypeOK
<1>5. ASSUME NEW r \in net, NEW q \in Questions, SaveAnswer(r, q)
      PROVE  HolderStands' /\ [Sheet!Next]_(Sheet!vars)
  <2>1. UNCHANGED <<status, holder, revoked>>
    BY <1>5 DEF SaveAnswer
  <2>2. CASE sheet' = sheet
    BY <1>2, <2>1, <2>2
  <2>3. CASE sheet' # sheet
    <3>1. /\ q \in DOMAIN r.answers /\ Accepts(r.token)
          /\ sheet' = [sheet EXCEPT ![q] = r.answers[q]]
      BY <1>5, <2>3 DEF SaveAnswer
    <3>2. r.token \in Tokens /\ r.answers[q] \in Values \cup {Null}
      BY <3>1, RequestParts DEF TypeOK
    <3>3. Sheet!Write(q, r.answers[q])
      BY <2>1, <3>1, <3>2 DEF Accepts, Sheet!Write
    <3> QED  BY <2>1, <3>2, <3>3 DEF Sheet!Next
  <2> QED  BY <2>2, <2>3
<1>6. ASSUME NEW p \in Phones, PhoneStep(p)
      PROVE  \/ UNCHANGED <<status, sheet, holder, revoked>>
             \/ \E t \in Tokens : StartAttempt(p, t)
             \/ Revoke /\ status' \in {"CLOSED", "PAUSED"}
  BY <1>6
  DEF PhoneStep, Reopen, ShowPage, OpenCompleted, Leave, Choose, Type, Enter,
      DebounceFires, ToggleFlagged, CountDown, PressSubmit, TimeIsUp, Flush,
      FlushAnswered, FlushFails, SubmitAttempt, SubmitFails, server
<1>7. ASSUME AutoSubmit \/ ProctorResetDevice
      PROVE  Revoke /\ status' \in {"CLOSED", "PAUSED"}
  BY <1>7 DEF AutoSubmit, ProctorResetDevice
<1>8. ASSUME NEW r \in net, LoseRequest(r)
      PROVE  UNCHANGED <<status, sheet, holder, revoked>>
  BY <1>8 DEF LoseRequest, server
<1>9. UNCHANGED vars => UNCHANGED <<status, sheet, holder, revoked>>
  BY DEF vars, server
<1> QED
  BY <1>2, <1>3, <1>4, <1>5, <1>6, <1>7, <1>8, <1>9 DEF Next, Sheet!Next

\* The server this module assumes is the one ExamAttempt is shown to be: a
\* sheet that only the holder of the one pen writes on.
THEOREM Implementation == Spec => ServerIsSheet
<1>1. Init => HolderStands /\ Sheet!Init
  BY DEF Init, HolderStands, NoAnswers, Sheet!Init
<1> QED  BY <1>1, HolderNext, PageInvariant, PTL
         DEF Spec, ServerIsSheet, Sheet!Spec
=============================================================================
